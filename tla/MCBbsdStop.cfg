SPECIFICATION BbsdSpec
CONSTANTS
  c1 = c1
  c2 = c2
  c3 = c3
  ipA = ipA
  ipB = ipB
  plain = plain
  tls = tls
  Conns <- MCConns
  IPs <- MCIPs
  RemoteIP <- MCRemoteIP
  Listeners <- MCListeners
  Via <- MCVia
  Plain = plain
  MaxConns = 2
  MaxConnsPerIP = 1
CHECK_DEADLOCK FALSE
INVARIANT CleanStop
