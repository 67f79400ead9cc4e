SPECIFICATION Spec
CONSTANTS
    Profiles = {p1, p2}
    Rules = {r1, r2}
    Analyses = {a1}
    Requests = {q1, q2}
    None = None
    MaxRevision = 2
    MaxDossiers = 2
CHECK_DEADLOCK FALSE
INVARIANTS
    TypeOK
    PromotedOnce
    RevisionIdentifiesRules
    RulesChangeIsShown
PROPERTY EndedStaysEnded
