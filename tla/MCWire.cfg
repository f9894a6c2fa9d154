CONSTANTS
  Radix = 5
  Magic = 6
  MaxBodySize = 80
  Layout <- MCLayout
  Messages <- MCMessages
  Followers <- MCFollowers
  Pieces = {1, 5, 12}
  MaxFrames = 2
SPECIFICATION Spec
INVARIANTS FramesAsSent ValuesAsSent CutBodiesNotTaken
PROPERTY AllRead
CHECK_DEADLOCK FALSE
