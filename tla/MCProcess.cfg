SPECIFICATION FairSpec
CONSTANTS
  nameA = nameA
  nameB = nameB
  urlU = urlU
  urlV = urlV
  unsetVar = unsetVar
  setVar = setVar
  Unset = Unset
  Malformed = Malformed
  Names = {nameA, nameB}
  URLs = {urlU, urlV}
  Vars = {unsetVar, setVar}
  Env <- MCEnv
  Files <- MCFiles
  StartFile <- MCStartFile
  MaxInstances = 2
INVARIANTS
  LoadedIsServed
  NoDrift
  ScrapeShowsAlgorithm
  ProbersMatchUnlessRaced
PROPERTIES
  SignalIsServed
  ImplementsRollout
CHECK_DEADLOCK FALSE
