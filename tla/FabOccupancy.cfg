CONSTANTS
  None = None
  L1 = L1
  L2 = L2
  P1 = P1
  P2 = P2
  R1 = R1
  R2 = R2
  Lots = {L1, L2}
  Panels = {P1, P2}
  PanelLot <- OneEach
  LotProduct <- AllLcd
  LotRecipe <- AllR1
  SampleLots = {L2}
  Recipes = {R1, R2}
  RecipeProduct <- LcdAndUnknown
  Equipment <- LoadCoatCell
  EventStatuses = {"RUN", "STOP"}
  Commands = {"HOLD_LOT", "RELEASE_LOT", "SCRAP_PANEL", "START", "STOP", "SELECT_RECIPE", "MAINT_ENTER", "MAINT_EXIT"}
  MaySilence = {}
  Orderable = TRUE
SPECIFICATION Spec
INVARIANTS
  OneStationPerLot
  WaitingLotIsUntouched
PROPERTIES
  NoLotDisplaced
