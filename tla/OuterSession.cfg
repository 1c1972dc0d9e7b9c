SPECIFICATION LiveSessionSpec
CONSTANTS
    video = video
    audio = audio
    raster = raster
    videoNode = videoNode
    rasterNode = rasterNode
    Keys = {video, audio}
    Playable = {video}
    LinkOf <- Links
    PaneOf <- Panes
    NodeKeys = {videoNode}
    Of <- Shows
    Kinds <- TwoVideoKinds
    Metas = {0}
    Plays = {FALSE, TRUE}
    Endings = {FALSE}
    MaxSnapshots = 1
    MaxFailures = 1
    MaxLosses = 1
    Nil = none
INVARIANTS SessionAgrees
CHECK_DEADLOCK FALSE
PROPERTIES EventuallySettled
