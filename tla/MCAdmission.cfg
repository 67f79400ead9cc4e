\* The limits of app/concurrency.py and one request of each kind, plus an import.
SPECIFICATION Spec
CONSTANTS
    import = import
    reimport = reimport
    analyze = analyze
    choice = choice
    Requests <- MCRequests
    Kind <- MCKind
    AdmissionSlots = 2
    WorkerSlots = 1
INVARIANTS
    TypeOK
    OneAnalysisAtATime
    TemporaryFilesBounded
    WorkerKeepsItsFile
    NothingLeaks
PROPERTIES
    AdmittedIsAnswered
