CONSTANTS
  Dirs <- WDirs
  SourcesOf <- WSources
  Std <- WStd
  Trees <- WTrees
  Texts <- WTexts
  Commands <- WCommands
  NoManifest = NoManifest
  Sources <- WPrograms
  Yields <- WYields
SPECIFICATION DriverSpec
INVARIANTS
  ImportsClosed CycleReal OneModulePerFile
  StructsKnown AllReplaced PlacedWhole
  NoTempLeft ZeroMeansDone
PROPERTIES BuildsClosure CommandEnds
CHECK_DEADLOCK FALSE
