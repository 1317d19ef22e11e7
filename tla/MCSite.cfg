SPECIFICATION SiteSpec
CONSTANTS
  None = None
  Emails = {e1}
  Users = {u1}
  Passwords = {p1, p2}
  Codes = {1, 2}
  Sessions = {y1, y2}
  Browsers = {x1, x2}
  MaxErrors = 1
  Homework = {h1}
  Posts = {o1}
  Clients = {y1, y2}
  Tabs = {x1, x2}
  MaxSignIns = 2
  MaxTroubles = 1
  Apps = {x1, x2}
  TotalTtl = 2
  MaxAgeSeen = 6
  MaxSlips = 1
  MaxRecordings = 2
  MaxSubmissions = 2
  MaxAccidents = 2
  Questions = {y1, y2}
  Speeches = {x1, x2}
  Readers = {u1}
  Queries = {x1, x2}
  Slots = {y1, y2}
  MaxCommits = 2
  LimitKeys = {x1, x2}
  RateLimit = 2
  WindowLength = 3
  WindowCapacity = 1
SYMMETRY Alike
CONSTRAINT AccountsAreSmall StoresAreFew TabsAreFew FewStatements RecorderIsSmall
INVARIANT SiteTypeOK
INVARIANT CodesGrantOnce SessionsFitThePassword AccountsHavePasswords
INVARIANT NothingDoneIsLost OldValuesGo
INVARIANT RecorderIsHonest
INVARIANT ReadsOwnWrites LimitsHold
CHECK_DEADLOCK FALSE
