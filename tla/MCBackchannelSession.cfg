\* Two sessions, three pairs of ports of which other programs take any, a
\* port number that comes round, and three PLAYs of a session.  The clients stop
\* when their requests are used up, but the other programs go on.
CONSTANTS
  s1 = s1
  s2 = s2
  Sessions = {s1, s2}
  PortNumbers = 8
  InitialPort = 2
  MaxSetups = 3
  MaxPlays = 3
SPECIFICATION FairSpec
INVARIANTS
  AllOrNothing
  ReportsEndWithStream
PROPERTIES
  SetupEnds
