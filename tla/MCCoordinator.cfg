SPECIFICATION MCSpec
CONSTANTS
  d1 = d1
  d2 = d2
  g1 = g1
  lights = lights
  groups = groups
  Device <- MCDevice
  Group <- MCGroup
  MembersOf <- MCMembersOf
  Platform <- MCPlatform
  PlatformOf <- MCPlatformOf
  Refresh = {r1, r2}
  MaxChanges = 3
  Modes = {"plugin", "app"}
  SyncDevice = {s1, s2}
  SyncRefresh = {q1, q2}
  MaxVersion = 3
SYMMETRY Symmetry
CHECK_DEADLOCK FALSE
INVARIANT StaysCurrent
PROPERTY PluginCacheNeverGoesBack
PROPERTY RefreshCoversTheOutage
INVARIANT AddedOnce
INVARIANT NothingForgotten
