CONSTANTS
  None = None
  L1 = L1
  R1 = R1
  R2 = R2
  P1 = P1
  P2 = P2
  P3 = P3
  P4 = P4
  P5 = P5
  P6 = P6
  P7 = P7
  Lots = {L1}
  Panels = {P1, P2}
  PanelLot <- InL1
  LotProduct <- OledLot
  LotRecipe <- OledRecipe
  SampleLots = {}
  Recipes = {R1, R2}
  RecipeProduct <- OledAndLcd
  Equipment <- OledLine
  EventStatuses = {"RUN"}
  Commands = {"START", "SELECT_RECIPE", "MAINT_ENTER", "MAINT_EXIT", "SCRAP_PANEL", "RELEASE_LOT"}
  ByOperator = {"SCRAP_PANEL", "RELEASE_LOT"}
  MayMaintain = {"PROC-01", "PROC-02"}
  MaySilence = {"LOAD-01"}
  Orderable = TRUE
  Slot <- InOrder
  Tolerance = 4
  DefaultRecipe <- OneOfEach
  MayFail = TRUE
SPECIFICATION RunnerFairSpec
INVARIANTS
  RunnerTypeOK
PROPERTIES
  RunsTheLine
  DoneRunLeftNothing
  OrderGetsDone
