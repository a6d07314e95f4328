SPECIFICATION Spec
CONSTANTS
  None = None
  Hour = 1
  Day = 2
  WeekDays = 3
  EpochWeekday = 0
  HealthLimit = 2
  Setups <- MCSetups
CHECK_DEADLOCK FALSE
CONSTRAINT OneByOne
INVARIANTS
  TypeOK
  SessionsFollowPassword
  SetupOnce
  ReadsAreAuthorized
  ChannelsStayInRepository
  DuplicateMeansQueued
  ClientsMirrorServer
  SearchShowsLatest
  DashboardAgrees
  DialogShowsSelected
  CardsMirrorServer
  SelectionIsOffered
PROPERTIES
  ChangesAreAuthorized
