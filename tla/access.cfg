SPECIFICATION Spec
CONSTANTS
    Platforms = {"posix", "win32", "darwin"}
    FrameSize = 5
    Page = 2
    Wrap = 8
    MaxFailures = 1
INVARIANTS TypeOK WindowMapped BracketsMatch PairsUnlock
PROPERTY AccessUndisturbed
