SPECIFICATION InputSpec
CONSTANTS
    Strokes <- MCStrokes
    ModeCap = 1
    SequenceCap = 6
    MouseCap = 5
    MaxStrokes = 3
    MaxChanges = 1
INVARIANTS BytesAccounted QuietModesAgree
PROPERTIES HeldEscapeDecided StopsUnlessFull
CHECK_DEADLOCK FALSE
