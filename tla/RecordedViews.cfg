SPECIFICATION ViewFairSpec
CONSTANTS
  f1 = f1
  f2 = f2
  Files <- MCFiles
  NoFile = none
  Importable <- MCImportable
  Points <- MCPoints
  Pages <- MCPages
  Memories <- MCMemories
  MaxImports = 2
  MaxUrls = 2
INVARIANTS
  SelectionResolves
  DisplayedIsSelected
  DownloadIsTracked
PROPERTIES
  ImplementsFileImport
  BusyEnds
