SPECIFICATION Spec
CONSTANTS
    Shapes <- MCShapes
    MaxPipeline = 3
    Caps = {0, 2, 3}
    MaxLine = 4
    MaxHeader = 2
    MaxBody = 2
    Chunk = 3
    CorsEnabled = TRUE
CHECK_DEADLOCK FALSE
INVARIANTS AnswersInOrder BufferBounded
PROPERTIES ConnectionEnds
