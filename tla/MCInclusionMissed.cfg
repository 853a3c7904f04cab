SPECIFICATION InclusionSpec
CONSTANTS
  d1 = d1
  d2 = d2
  g1 = g1
  lights = lights
  groups = groups
  Device <- MCDevice
  Group <- MCGroup
  MembersOf <- MCMembersOf
  Platform <- MCPlatform
  PlatformOf <- MCPlatformOf
  Refresh = {r1}
  MaxChanges = 2
PROPERTY RefreshFindsAll
