SPECIFICATION FairPrograms
CONSTANTS
  Pids = {p1, p2, p3}
  NoPid = NoPid
  MaxStarts = 3
  Limit = 2
  Slip = 3
  Tsec = 5
  Least = 1
  BufMax = 2
  MaxN = 5
  Values = {1, 2, 3}
  HalfTurn = 2
  USTEP_DELAY = 1
  Second = 1
  MaxWait = 6
  absmove = TRUE
  gotoangle = 3
  SilenceT = 3
  PollT = 2
  RetryT = 1
  ReplyT = 1
  MaxFds = 1
  MaxTwists = 2
  Records = 2
  MaxPause = 3
  MaxMishaps = 4
  HalfCircle = 4
  MIN_RESTRICT = 0
  MAX_RESTRICT = 3
  Chars <- JsonChars
  Names <- JsonNames
  Pieces <- JsonPieces
  Garbage <- JsonGarbage
  Space = " "
  Amp = "&"
  Nul = "0"
  Get = "G"
  Query = "Q"
  Wrong = "W"
  BufLen = 6
  MaxKids = 2
  Coords = {"a", "b"}
  Other = "o"
  Polls = 1
  MaxSent = 3
  Room = 1
  MaxTime = 18
  Warn = 6
  Again = 4
  Pause = 2
  Sure = 1
  MaxMade = 2
  MaxQueued = 2
  Bridges = {b1, b2}
  Readers = {r1}
  Nobody = Nobody
  Control = Control
  Files <- DatFiles
INVARIANTS
  TypesOK NoStaleTemperature NoWindUp ArrivedAtExit NoZombieForgotten
  AskedIsAnswered OkMeansObeyed ToldWhileItRains LinesAreRows GapBounded
  StaysInside ReadersSeeBridge NoOldCommands OneInstance PidfileNamesIt
  WholeHeader
  RefusedForCause
PROPERTIES
  StopClears HdrComesBack CatchesUp TwoAtATime
  SelectReturnsMedian
CHECK_DEADLOCK FALSE
