SPECIFICATION Spec
CONSTANTS
  Paths <- ThreePaths
  Files <- TwoFiles
  NoFile = "none"
  FileAt <- FilesOfPaths
  Main = "main"
  MayImport <- Cyclic
  Vars = {"v", "w"}
  MaxDepth = 3
  MaxSteps = 7
  MaxLibs = 4
INVARIANT TypeOK
INVARIANT CachedMeansComplete
INVARIANT LoadedOnceUnlessCircular
INVARIANT PrivateStaysPrivate
