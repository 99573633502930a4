SPECIFICATION WatchSpec
CONSTANTS
  None = None
  Space = {"v", "w"}
  Caption = {"t"}
  NoName = None
  BarSlots = 1
  MaxSway = 4
  Directories <- MCDirectories
  Malformed = None
  Unknown = None
  MaxAsked = 1
  MaxTurns = 6
  Cap = 2
  ShellSlots = 3
  MaxSays = 3
  MaxResets = 1
  MaxTokens = 2
  Mount = {"root", "home"}
  Percent = {4, 30, 90, 97}
  Offered <- MCOffered
  Foreign = "foreign"
  Iface = {"wlan0"}
  Unread = None
  LinkSlots = 1
  MaxReadings = 5
  MaxCount = 2
  MaxPapers = 3
  MaxVersions = 2
  Window = 2
  MaxSeen = 5
  Dir = {"a", "b"}
  ResultTicks = 2
  Pid = {2, 3}
  Ref = {"r", "s"}
  Note = {"n"}
  RecentRefs = 1
  Torn = None
  MaxFeeds = 3
  Text <- Typed
  Blank = ""
  Entries <- Applications
  Found <- FoundBy
  LinksFrom <- Linked
  Theme <- ThemeNames
  Hicolor = "hicolor"
  Inheritances <- MCInheritances
  Drawn <- IconFiles
  Nil = None
  Limit = 6
  AskSlots = 2
  UpdateSlots = 2
  MaxMoves = 3
  MaxDays = 2
  MaxRestarts = 1
INVARIANT AnnouncesActive
CHECK_DEADLOCK FALSE
