SPECIFICATION MCSpec
CONSTANTS
  Flow = {f1, f2}
  MaxTokens = 4
  Config = {k1, k2}
  Detail = {q1, q2}
  MaxReloads = 2
  Hcu = {h1, h2}
  Addr = {a1, a2}
  EntryId = {e1, e2}
  SetupDialog = {s1, s2}
  MaxMoves = 1
  Dialog = {x1, x2}
  Bridged = {b1, b2}
  Maker = {m1}
  Device = {d1, d2}
  Group = {g1}
  DeviceData <- MCDeviceData
  GroupType = {"EXTENDED_LINKED_SWITCHING", "ALARM_SWITCHING"}
  Options <- MCOptions
  MaxHcuSteps = 2
SYMMETRY Symmetry
INVARIANT CredentialsFit
INVARIANT RunsWhatIsStored
INVARIANT ChangesAreReloaded
PROPERTY EntriesKeepTheirHcu
PROPERTY AddressProven
INVARIANT SavedAsChosen
INVARIANT OneEntityEach
INVARIANT FollowsTheHcu
CHECK_DEADLOCK FALSE
