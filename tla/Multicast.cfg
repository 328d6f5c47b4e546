SPECIFICATION Spec
CONSTANTS
  a = a
  Groups = {g}
  Sockets = {x, y}
  Sources = {a}
  Stranger = Stranger
  Families = {"IGMP", "MLD"}
  Networks <- MCNetworks
  QRVs = {0}
  MaxDelay = 2
  LegacyTicks = 2
  MaxLosses = 1
  MaxEvents = 3
INVARIANTS MembershipsSound RouterLearns ReportScheduled
PROPERTY AnswersLeave
CHECK_DEADLOCK FALSE
