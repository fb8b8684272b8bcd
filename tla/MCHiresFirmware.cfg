SPECIFICATION LineSpec
CONSTANTS
  Parts = {"graphics"}
  Kinds = {"oric"}
  NoPicture = NoPicture
  TextCols = 3
  TextRows = 2
  Screens <- MCScreens
  Texts <- MCTexts
  MaxEchoes = 1
  RowBytes = 2
  ImageLines = 2
  Base = 2
  MaxRun = 2
  Images <- MCPictures
  Pages <- MCPages
  Glyph <- MCGlyph
  Text <- MCText
  BoardCols = 4
  BoardRows = 5
  Preferred <- MCPreferred
  MazeWidth = 3
  MazeHeight = 3
  N = 3
  Wrap = 4
  Capacity = 3
  maxRetries = 3
  startRetries = 4
  Fallback = 2
  MaxDamage = 1
  MaxDelayed = 4
CHECK_DEADLOCK FALSE
INVARIANT StreamsEnd
