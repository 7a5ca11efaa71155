SPECIFICATION Spec
CONSTANTS
  s1 = s1
  s2 = s2
  s3 = s3
  n1 = n1
  n2 = n2
  n3 = n3
  None = None
  Sockets <- SocketSet
  Names <- NameSet
  Founder = s1
  FounderName = n1
  Guests <- GuestSet
  GuestName <- NameFor
  MaxGuests = 2
  MaxQueue = 1
  MinPlayers = 3
  MaxMoves = 2
  MaxStrikes = 1
CHECK_DEADLOCK FALSE
SYMMETRY Alike
INVARIANTS GamesAgree PlayersThere
PROPERTIES HostKnown
