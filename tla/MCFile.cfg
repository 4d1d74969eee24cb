SPECIFICATION FairSpec
CONSTANTS
  NumberOf <- MCNumber
  LowerCase <- MCLower
  Passwd <- MCPasswd
  Scripts <- MCScripts
  FSBSIZE = 2
  CHMAXDATA = 2
  NetMax = 1
  Digit <- MCDigit
  Code <- MCCode
  PermOf <- MCPerm
  MaskRestored = FALSE
CHECK_DEADLOCK FALSE
INVARIANT TypeOK
INVARIANT Conserved
INVARIANT HandleFree
INVARIANT OneTransfer
INVARIANT VersionKept
INVARIANT AnsweredOnce
PROPERTY AnsweredAll
