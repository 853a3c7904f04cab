SPECIFICATION MCSpec
CONSTANTS
  c1 = c1
  c2 = c2
  MaxAttempts = 2
  MCRequest = {"dim", "color", "off"}
  Cmd <- MCCmd
  Request <- MCRequest
  Scope <- MCScope
  Aspect <- MCAspect
  Field <- MCField
  ScopeOf <- MCScopeOf
  AspectOf <- MCAspectOf
  ExtrasOf <- MCExtrasOf
  UpdatesOf <- MCUpdatesOf
  NeedsOf <- MCNeedsOf
  CarriesOf <- MCCarriesOf
PROPERTY ImplementsDelivery
PROPERTY ResendKeepsAcknowledged
PROPERTY EveryCallEnds
