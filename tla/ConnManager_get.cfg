\* Three goroutines, one host, at most two handshakes at a time.
SPECIFICATION FairSpec
CONSTANTS
  Hosts = {h1}
  Workers = {w1, w2, w3}
  Conns = {c1, c2, c3}
  NoConn = NoConn
  MaxConnect = 2
INVARIANTS NothingIsLost HandedOutRight
PROPERTY GetReturns
