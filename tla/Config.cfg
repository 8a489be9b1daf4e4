SPECIFICATION Spec
CONSTANTS
  Values = {2, 26}
  Addresses = {"a", "b"}
  CtrlSize = 1024
  SizeMax = 1048575
  MaxConf = 3
  MaxList = 2
\* Every process ends or goes on to its endpoints.
CHECK_DEADLOCK FALSE
INVARIANTS
  LastWins
  ServersInOrder
  ClientsCanDial
