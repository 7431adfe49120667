SPECIFICATION Spec
CONSTANTS
  c1 = c1  c2 = c2  c3 = c3  d1 = d1  n1 = n1  n2 = n2  None = None
  Conn <- MCConn
  Device <- MCDevice
  Net <- MCNet
  DeviceOf <- MCDeviceOf
  NetOf <- MCNetOf
  MaxConnsPerIP = 1
  QueueCap = 2
  Offers <- MCOffers
  Movers <- MCMovers
  MaxTime = 2
INVARIANTS TypeOK OneLiveSession ConnectionCap FedInOrder NeverOvercounted NoLeakedProcessor
CHECK_DEADLOCK FALSE
