SPECIFICATION WdtSpec
CONSTANTS
  Period = 4
  Late = 1
  CycleMod = 16
INVARIANTS WdtTypeOK CountStaysSmall DeafNodeIsReset ResetOnlyWhenDeaf RestIsNotCounted
