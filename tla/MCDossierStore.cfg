\* An import, edits, validations, documents and deletions of two dossiers that
\* compete for two references, one of them in two spellings.
SPECIFICATION Spec
CONSTANTS
    a = a
    A = A
    b = b
    NotCreated = NotCreated
    Deleted = Deleted
    NoPlan = NoPlan
    NotReviewed = NotReviewed
    NoFingerprint = NoFingerprint
    NoJob = NoJob
    NoResult = NoResult
    Ids = {d1, d2}
    References <- MCSpellings
    Key <- MCKey
    Identities = {blank}
    BlankIdentity = blank
    Plans = {plan}
    Reviews = {NotReviewed, complete}
    ReadyReviews = {complete}
    Imports = {i1}
    MaxGenerations = 1
INVARIANTS
    TypeOK
    ReferencesUnique
    ValidationIsCurrent
    DocumentsWereValidated
PROPERTIES
    DocumentsKept
    DeletedForGood
    Serializable
