SPECIFICATION EndsSpec
CONSTANTS
  c1 = c1  c2 = c2
  d1 = d1  d2 = d2
  n1 = n1  n2 = n2
  h1 = h1  h2 = h2
  Absent = Absent
  Shards = {h1, h2}  Phones = {d1, d2}  Events = {e1, e2}
  shardFor <- MCShardFor
  ShardCap = 1  EngCap = 1  MaxOut = 1  MaxJobs = 2
  CapturedMax = 1  MaxBatches = 3
  AllEvents = 2  FewBatches = 1
 
PROPERTIES HandlerReturns  NobodyStuck
CHECK_DEADLOCK FALSE
