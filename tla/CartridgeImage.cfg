\* Two addresses; one loadable word, at the address the clear passes first, and
\* one out of range; each control alone and, in pairs, a begin with each other.
CONSTANTS
    LastAddr = 1
    Byte = {0, 255}
    Zero = 0
    OpenBus = 255
    LoadAddrs = {0}
    LoadBytes = {255}
    ControlSets = {{}, {"detach"}, {"load_abort"}, {"cold_reset"}, {"load_begin"}, {"load_commit"},
                   {"detach", "load_begin"}, {"load_abort", "load_begin"},
                   {"cold_reset", "load_begin"}, {"load_commit", "load_begin"}}
SPECIFICATION Spec
INVARIANTS PublishedIsExact AnswersOwnCycle
PROPERTIES ImplementsAtomicImage
