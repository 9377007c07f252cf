CONSTANTS
  None = None
  C1 = C1
  C2 = C2
  L1 = L1
  L2 = L2
  L3 = L3
  P1 = P1
  P2 = P2
  P3 = P3
  P4 = P4
  RA = RA
  RB = RB
  Clients = {C1, C2}
  Lots = {L1, L2, L3}
  Panels = {P1, P2, P3, P4}
  PanelLot <- LotOf
  LotProduct <- AllOled
  LotRecipe <- RecipeOf
  SampleLots = {}
  Recipes = {RA, RB}
  RecipeProduct <- BothOled
  Equipment <- OledLine
  EventStatuses = {"RUN"}
  Commands = {"START", "SELECT_RECIPE", "HOLD_LOT", "MAINT_ENTER", "SCRAP_PANEL"}
  ByOperator = {"HOLD_LOT", "MAINT_ENTER", "SCRAP_PANEL"}
  MaySilence = {"PROC-01"}
  Orderable = TRUE
  Slot <- Slots
  DefaultRecipe <- AlwaysRA
  MaxDisturbances = 1
SPECIFICATION ClientSpec
CHECK_DEADLOCK FALSE
SYMMETRY SameClients
INVARIANTS
  ClientTypeOK
  OneOfThemFinishes
  DoneMeansDone
PROPERTIES
  WorkedAsOrdered
