SPECIFICATION Spec
CONSTANTS
    p = p
    x = x
    sheet = sheet
    annex = annex
    None = None
    Candidates = {p, x}
    Annexes = {x}
    Sheets = {sheet}
    Sheet <- MCSheet
    Buildings = {"A"}
    BuildingId <- MCBuildingId
    ToBeDefined = "A preciser"
    Layers = {annex}
    Layer <- MCLayer
    Levels <- TwoLevels
    LevelId <- TwoLevelIds
    Numbers = {"1"}
    LotId <- OneLotId
    Shares = {}
    Units = {metre}
    metre = metre
    millimetre = millimetre
    MaxImports = 1
INVARIANT MovesSucceed
