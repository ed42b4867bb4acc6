SPECIFICATION Spec
CONSTANTS
  alice = alice
  bob = bob
  secret = secret
  other = other
  home = home
  gone = gone
  shortcut = shortcut
  empty = empty
  anon = anon
  ftp = ftp
  dot = dot
  app = app
  rw = rw
  all = all
  none = none
  noline = noline
  malformed = malformed
  c1 = c1
  c2 = c2
  c3 = c3
  r1 = r1
  r2 = r2
  nothing = nothing
  Names <- MCNames
  Passwords <- MCPasswords
  Paths <- MCPaths
  Privileges <- MCPrivileges
  Empty <- empty
  Anonymous <- anon
  FtpName <- ftp
  Dot <- dot
  AppDir <- app
  Directories <- MCDirectories
  Links <- MCLinks
  Conns <- MCConns
  Pools <- MCPools
  Nothing <- nothing
  PoolSize = 2
  MaxFaults = 1
  Forms <- MCForms
  All <- all
  None <- none
  DefaultPort = 21
  Width = 65536
  Configs <- MCConfigs
  Malformed <- malformed
  NoLine <- noline
  PortWidth = 65536
  Builds <- AllBuilds
SYMMETRY Symmetry
CONSTRAINT Considered
INVARIANTS
  TypeOK
  OnePool
  ButtonTellsTruth
  MemoryKept
  NodesReachable
  KeepsAccepting
  CopiesAgree
  ShownIsServed
  AccountsAsConfigured
\* The process may end, or be past describing.
CHECK_DEADLOCK FALSE
