\* The parts that keep tables or files of their own, each from its beginning: statements of
\* posts and cancels, accounts, the spool, archives, the memory store, the counters, the
\* Path statistics, web posting, the list of groups, readers, peer filters and two servers.
SPECIFICATION PartSpec
CONSTANTS
  ga = ga
  gb = gb
  m1 = m1
  m2 = m2
  Groups <- MCGroups
  MsgIds <- MCMsgIds
  Txns = {1, 2, 3, 4, 5}
  MaxNum = 9
  Work <- Crossing

  root = root
  ann = ann
  r1 = r1
  r2 = r2
  Names = {root, ann}
  Words = {"w"}
  Requests = {r1, r2}
  Patches <- MCPatches
  MaxId = 2
  MaxGen = 1
  MaxCookies = 1
  NoUser = NoUser

  SpoolGroups = {"bin", "misc"}
  Messages = {"x", "y"}
  GroupsOf <- MCGroupsOf
  QuotedIn <- MCQuotedIn
  Depth <- MCDepth
  Posters = {"p"}
  Importers = {}
  SpoolSweepers = {"s", "t"}
  Banned0 = {}
  Nothing = Nothing

  ExportJobs = {"a"}
  ImportJobs = {"i"}
  Schedules = {"s"}
  Files = {"f"}
  Uploads = 1
  RetainGens = 1
  MaxSecond = 3

  MemGroups = {"a", "b"}
  MemIds = {"x", "y"}
  Headers <- MCHeaders
  Suspect = {"a"}
  MaxHigh = 2
  MaxAlerts = 1
  MaxMemDay = 1
  FloodKeep = 0
  HistoryKeep = 0

  StatArticles = {"x", "y"}
  GroupList <- MCGroupList
  FromKey <- MCFromKey
  PathStatSites <- MCSites

  Paths = {"p", "q"}
  Countable = {"p", "q"}
  CommandLines = {"cli"}
  ServerFlush = "server"
  ReportAge = 1
  DumpAge = 0
  MaxClock = 2

  WebGroups = {"ga", "gb"}
  PostRequests = {"r1", "r2"}
  PostHeaders <- MCPostHeaders
  WebStatuses <- MCWebStatuses
  FloodGroups = {"ga"}
  DailyLimit = 2
  MaxCharged = 3
  MaxOpen = 1

  ActiveGroups = {"a.x", "a.y"}
  ControlSessions = {"s1", "s2"}
  Checkgroups <- MCCheckgroups
  IscLists <- MCIscLists
  BuiltinGroups = {"a.x"}
  NoRow = NoRow

  Submissions = {"p", "q"}
  Readers = {"n"}
  Pollers = {"c"}
  Subscribers = {"u"}
  PageLoads = {"q"}
  MaxNumber = 3
  MaxLives = 2
  MaxTime = 2
  NoDate = NoDate

  GlobQuestions <- MCGlobs
  PatternQuestions <- MCPatternQuestions
  DistribQuestions <- MCDistribs
  FlagQuestions <- MCFlagQuestions
  PathQuestions <- MCPathQuestions
  OwnHosts = {"me"}
  NotANumber = NotANumber
  Bare = Bare

  Links = {"a", "b"}
  Streaming = {"a"}
  Carried <- MCCarried
INVARIANTS
  GivenPasswordsMustChange
  PasswordChangeEndsSessions
  PurgedLeavesSpool
  LatestExportIntact
  MemIndexesAgree
  StatsNeverUndercount
  PathsCountedOnce
  QuotaCountsPosts
  RmgroupStands
  NothingBehindReader
  NewsMissesOnlySlowPosts
  MarksMeanArticles
  FiltersDecide
  LostOnlyByStreaming
PROPERTIES
  PostsAreAtomic
  ShowsNumbers
  NumbersButForExpire
  UnapprovedOnlyByRace
\* A part ends at its bounds.
CHECK_DEADLOCK FALSE
