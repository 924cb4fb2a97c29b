SPECIFICATION FairSpec
CONSTANTS
  Motions <- MotionSet
  Buttons = {fire}
  Presses <- PressSet
  Options <- OptionSet
  PadDevice <- Ports
  MaxFrames = 2
  MaxFaults = 2
INVARIANTS
  Aligned
  CursorFollows
  ButtonsFollow
PROPERTY
  Reported
