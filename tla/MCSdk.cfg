SPECIFICATION SdkSpec
CONSTANTS
  Goroutines = {g1, g2}
  Kinds = {"log", "error", "metric", "audit", "event", "end", "scopeLog", "scopeError", "scopeEvent", "addBreadcrumb", "clearBreadcrumbs", "scopeAddBreadcrumb", "close"}
  Spans = {s1}
  MaxCalls = 1
  MaxInits = 2
  RequestedSize = 2
  Earlier = Earlier
  NoCrumb = NoCrumb
SYMMETRY Symmetry
CHECK_DEADLOCK FALSE
INVARIANTS
  SdkTypeOK
  NoMixedGenerations
  NeverOlderThanItsClient
  FilteredLeavesNothing
  OneTracePerSpan
  OnlyLentMapsRace
PROPERTIES
  TrailContract
