SPECIFICATION FairSpec
CONSTANTS
  MaxMsgs = 4
  MaxVer = 2
  Steps = {2}
  MaxQueue = 2
  MwMsgs = 0
  MwSleep = 0
  OneByOne = FALSE
  MaxJitter = 2
  FrameTime = 1
  PureAudio = 0
  MaxFrames = 2
  ReduceHeaders = FALSE
  Metadata = TRUE
\* A stopped encoder and an absent player are a legal end.
CHECK_DEADLOCK FALSE
PROPERTY ShrinksOnOverflow
