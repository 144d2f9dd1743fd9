SPECIFICATION Spec
CONSTANTS
  Conns = {c1, s1}
  Streams = {s1}
  Paths = {p1, p2}
  Known = {p1}
  CacheSize = 1
  MaxMessages = 3
  NoConn = NoConn
  NoPath = NoPath
INVARIANTS ConnectionsAlive StreamsStayOpen OneJobPerPath
PROPERTIES StartedIsAnswered
CHECK_DEADLOCK FALSE
