SPECIFICATION RedisSpec
CONSTANTS
  k1 = k1
  k2 = k2
  k3 = k3
  c1 = c1
  c2 = c2
  Servers = {c1, c2}
  Listed = {c1}
  Keys = {k1, k2, k3}
  Namespace = {k1, k2}
  Stored = {k1, k3}
  NoKey = NoKey
  NoConnection = NoConnection
  MaxValues = 3
  MaxRedisClicks = 4
INVARIANT SelectionIsKept
PROPERTIES OthersAreKept RequestsEnd
CHECK_DEADLOCK FALSE
