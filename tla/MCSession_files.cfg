CONSTANTS
  BLOCK = 2
  MAX_FDS = 5
  ProcTexts <- texts
  Archives <- archives
  Paths <- paths
  CatPaths <- catPaths
  Keys = {"nl", "x"}
  Demo <- demo
  Script <- script
  FdArgs = {2, 3, 4, 5}
  ReadLens = {2}
  CatBuf = 2
  Scratch = 2
  ShellBuf = 2
  Lead = {"c3"}
  Trail = {"a9"}
  IdleMax = 1
  MaxIrqs = 2
  MaxCats = 1
  MaxPrograms = 2
  MaxCalls = 3
SPECIFICATION SessionSpec
INVARIANTS SessionTypeOK HeldFilesStay SocketsNotShared KeysReachShell ClientsCloseFiles  ArchiveFaithful ListedNamesResolve
PROPERTY ShellEnds
