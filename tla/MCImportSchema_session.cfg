SPECIFICATION Spec
CONSTANTS
  Mapping = {"m1", "m2"}
  Server = {"s1", "s2"}
  ServerOf <- MCServerOf
  LibpqOption <- MCLibpqOption
  OfferedTo <- MCOfferedTo
  JarClasses <- MCJarClasses
  UrlsOf <- MCUrlsOf
  Heaps = {0, 600}
  Garbage = Garbage
  NULL = NULL
  RelationsIn <- MCRelationsIn
  NameOf <- MCNameOf
  Definitions <- MCDefinitions
  Folded <- MCFolded
  LikePattern <- MCLikePattern
  LocalType = {"SMALLINT", "TEXT"}
  Schema = {"public", "other"}
  SearchPath <- MCSearchPath
  LocalInit <- MCLocalInit
  MaxChanges = 1
  MaxImports = 1
INVARIANTS
  TypeOK
  OwnOptions
  LoaderRecovers
  ImportedAsDefined
  RecreateReplaces
PROPERTIES
  KeepsLocalTables
