SPECIFICATION Spec
CONSTANTS
  WordValues = 8
  MaxFileSize = 7
  IdentitySize = 1
  HeaderSize = 2
  SectionSize = 1
  SegmentSize = 1
  SymbolSize = 1
  DynamicSize = 1
  Extended = Extended
  NoName = NoName
  NoFile = NoFile
  Files <- MCFiles
  LaterFiles <- MCLaterFiles
INVARIANTS
  LoadedOrEmpty
  RangesInside
  TranslationsAgree
