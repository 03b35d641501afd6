\* The format's promise about a file cut inside a frame.
SPECIFICATION Spec
CHECK_DEADLOCK FALSE
CONSTANTS
    capacity = 1
    MessageSizes = {0, 2}
    MaxMessages = 2
    MaxFailures = 2
    HeaderBytes = 1
    Lengths = {1, 2}
INVARIANT CutsAreReported
