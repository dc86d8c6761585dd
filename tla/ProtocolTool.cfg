CONSTANTS
  Files = {"root", "more"}
  RootFile = "root"
  Basic = Basic
  NoType = NoType
  RootType <- MCRootType
  MotisSuccess <- MCError
  MotisError <- MCError
  Decls <- MCDecls
  Includes <- MCIncludes
  Paths <- MCPaths
  Outputs <- MCOutputs
  Configs <- MCConfigs
  MaxEdits = 3
SPECIFICATION MCSpec
ACTION_CONSTRAINT OneVaries
INVARIANTS RefsDefined NamesDeclared
PROPERTIES DescriptionsKept
