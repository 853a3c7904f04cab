SPECIFICATION MCSpec
CONSTANTS
  c1 = c1
  c2 = c2
  c3 = c3
  MCRequest = {"signal", "color", "dim", "off"}
  Cmd <- MCCmd
  Request <- MCRequest
  Scope <- MCScope
  Aspect <- MCAspect
  Field <- MCField
  ScopeOf <- MCScopeOf
  AspectOf <- MCAspectOf
  ExtrasOf <- MCExtrasOf
  UpdatesOf <- MCUpdatesOf
  NeedsOf <- MCNeedsOf
  CarriesOf <- MCCarriesOf
INVARIANT NewerValueKept
PROPERTY ImplementsDelivery
PROPERTY EveryCallEnds
