\* A screen of one or two tiles of two colours that changes once, one mishap and
\* two frames on their way.
SPECIFICATION FairSpec
CONSTANTS
  Sizes = {1, 2}
  Colours = 2
  Changes = 1
  Mishaps = 1
  Depth = 2
  Decodings = 2
CHECK_DEADLOCK FALSE
INVARIANT TypeOK
INVARIANT PictureIsComing
INVARIANT CanvasIsExact
PROPERTY PictureIsRepaired
PROPERTY PicturesTravelWhole
