SPECIFICATION Spec
CONSTANTS
    PrincipalLayers = {"80"}
    AnnexLayers = {"81"}
    TrashLayers = {"82"}
    Layouts = {"layout"}
    Metres <- MCMetres
    LotRadius = 3
    SurfaceRadius = 2
    TitleRadius = 5
    Tolerance <- Thousandth
    MinimumContours = 2
    None = None
    Plans <- MCPlans
    Profiles <- MCProfiles
    Sheets = {"model", "old", "layout"}
    Layers = {"80", "81", "82"}
    Numbers = {"1", "2"}
    Reviews = {"candidate", "retenue", "exclue"}
    Categories = {"principale", "commune"}
    MaxSteps = 2
CHECK_DEADLOCK FALSE
INVARIANTS
    TypeOK
    AuthorityHolds
    CountedOnce
    RepresentationsHold
    AnnexesHold
    ConfirmedIsAssigned
    ShownIsTrue
PROPERTIES
    DecisionsStay
    KeepsLedger
