SPECIFICATION Spec
CONSTANTS
  c1 = c1  c2 = c2  d1 = d1  n1 = n1  n2 = n2  None = None
  Conn <- MCConn
  Device <- MCDevice
  Net <- MCNet
  DeviceOf <- MCDeviceOf
  NetOf <- MCNetOf
  Offers <- MCOffers
  Movers <- MCMovers
  MaxConnsPerIP = 1
  QueueCap = 2
  MaxTime = 1
INVARIANTS LiveIsServed
CHECK_DEADLOCK FALSE
