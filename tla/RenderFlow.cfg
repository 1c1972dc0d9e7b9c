SPECIFICATION FairSpec
CONSTANTS
    Window = 2
    SequenceCap = 3
    QueueLimit = 2
    ChunksPerFrame = 2
    MaxSequence = 2
    MaxClient = 2
    MaxControl = 1
CHECK_DEADLOCK FALSE
INVARIANTS
    WindowRespected
    NoEvidenceLost
    RenderedWasShown
    QuietScreenAgrees
PROPERTIES RenderNotStuck ChangeIsShown
