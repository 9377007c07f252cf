CONSTANTS
  None = None
  L1 = L1
  L2 = L2
  P1 = P1
  P2 = P2
  R1 = R1
  R2 = R2
  Lots = {L1}
  Panels = {P1, P2}
  PanelLot <- BothInL1
  LotProduct <- AllLcd
  LotRecipe <- AllR1
  SampleLots = {}
  Recipes = {R1, R2}
  RecipeProduct <- LcdAndUnknown
  Equipment <- LcdLine
  EventStatuses = {"RUN"}
  Commands = {"HOLD_LOT", "RELEASE_LOT", "SCRAP_PANEL", "START", "SELECT_RECIPE"}
  MaySilence = {"LOAD-01"}
  Orderable = TRUE
  Slot <- Slots
  DefaultRecipe <- OnlyR1
SPECIFICATION Spec
SYMMETRY SamePanels
INVARIANTS
  TypeOK
  NoStepSkipped
  LotAgreesWithPanels
  OrderClosesWithLastPanel
  DispatchIsAcceptable
PROPERTIES
  ImplementsGlassFlow
