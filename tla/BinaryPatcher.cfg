SPECIFICATION Spec
CONSTANTS
  Paths = {"app", "out"}
  NoFile = NoFile
  DefaultMode = "default"
  MaxChanges = 2
  MaxRequests = 2
  Inodes <- MCInodes
  Disks <- MCDisks
  Layouts <- MCLayouts
  Contents <- MCContents
  Requests <- MCRequests
  Decodable <- MCDecodable
INVARIANTS
  OnlyConfirmedFilesChange
  SuccessIsThePatch
