\* A creation, an approval, another transaction and a bare statement on one connection,
\* one or two to a tick; another instance commits and locks the file.
SPECIFICATION FairSpec
CONSTANTS
  h1 = h1
  h2 = h2
  h3 = h3
  h4 = h4
  Handler = {h1, h2, h3, h4}
  Bare = {h4}
  Creation = {h1}
  Approval = {h2}
  Before <- NoBatch
  Together <- MCPairs
  MaxAttempts = 2
  MaxOther = 1
INVARIANTS
  TypeOK
  ConnectionLeftClean
  VersionAsRead
  SavesJoin
PROPERTIES
  EveryHandlerAnswered
  AtomicUnlessCrowded
