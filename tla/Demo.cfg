CONSTANTS
  None = None
  L1 = L1
  L2 = L2
  L3 = L3
  O1 = O1
  O2 = O2
  O3 = O3
  C1 = C1
  P11 = P11
  P12 = P12
  P21 = P21
  P31 = P31
  P32 = P32
  G1 = G1
  G2 = G2
  G3 = G3
  G4 = G4
  RA = RA
  RB = RB
  RC = RC
  Lots = {L1, L2, L3, O1, O2, O3, C1}
  Panels = {P11, P12, P21, P31, P32, G1, G2, G3, G4}
  PanelLot <- LotOf
  LotProduct <- ProductOfLot
  LotRecipe <- RecipeOfLot
  SampleLots = {L1, L2, L3}
  Recipes = {RA, RB, RC}
  RecipeProduct <- ProductOfRecipe
  Equipment <- AllEquipment
  EventStatuses = {"RUN"}
  Commands = {"RELEASE_LOT", "MAINT_ENTER"}
  MaySilence = {"PROC-02"}
  Orderable = TRUE
  Slot <- Slots
  DefaultRecipe <- Defaults
  Lot001 = L1
  Lot002 = L2
  Lot003 = L3
  A01 = RA
  B01 = RB
  C01 = RC
  RunEvery = 1
  ResetEvery = 3
  MaxUpsets = 2
  ByVisitor <- PracticeAndContact
SPECIFICATION DemoFairSpec
INVARIANTS
  DemoTypeOK
  EndsAsAnnounced
PROPERTIES
  CalmLineRecovers
