SPECIFICATION MCSpec
CONSTANTS
  c1 = c1
  c2 = c2
  c3 = c3
  MCRequest = {"dim", "color", "off", "on", "mode"}
  Cmd <- MCCmd
  Request <- MCRequest
  Scope <- MCScope
  Aspect <- MCAspect
  Field <- MCField
  ScopeOf <- MCScopeOf
  AspectOf <- MCAspectOf
  ExtrasOf <- MCExtrasOf
  UpdatesOf <- MCUpdatesOf
  NeedsOf <- MCNeedsOf
  CarriesOf <- MCCarriesOf
INVARIANT TypeOK
INVARIANT SupersededExact
INVARIANT NoLostWakeup
INVARIANT IdleTargetForgotten
INVARIANT RecordedByItsAuthor
PROPERTY ImplementsSupersession
