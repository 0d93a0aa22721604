CONSTANTS
  Page = 2
  Images <- MCImages
  DestSizes = {0, 6, 12}
  Stripped <- MCStripped
INIT Init
NEXT Next
INVARIANTS TypeOK ImageIsMemoryLayout OffsetsFollowData
