---------------------------- MODULE DossierStore ---------------------------
(***************************************************************************)
(* The dossier handlers of app/main.py over the JSON repository of         *)
(* app/storage.py.                                                         *)
(*                                                                         *)
(* A handler without an await is one step of the event loop: its           *)
(* get, its change and its save cannot be interleaved with another's.      *)
(* import_plan is the exception: it reads the dossier, awaits the upload   *)
(* and the analysis of a private copy in a thread, and only then looks at  *)
(* the stored dossier again and saves.  os.replace makes a save atomic for *)
(* a crash too, so a restart loses the running imports and nothing else.   *)
(***************************************************************************)
EXTENDS DossierData

CONSTANTS
    Imports,        \* import requests running at the same time
    NoJob,          \* the request is not running
    NoResult,       \* the analysis has not returned
    MaxGenerations  \* bound: documents generated per dossier

ASSUME MaxGenerationsAssumption == MaxGenerations \in Nat

Jobs == [id : Ids, base : Dossiers, result : Dossiers \union {NoResult}]

ASSUME JobsAssumption == NoJob \notin Jobs /\ NoResult \notin Dossiers

VARIABLES
    store,     \* the dossier files
    imports,   \* what each import request has read and computed so far
    validated  \* history: the contents a user validated, per dossier

vars == <<store, imports, validated>>

TypeOK ==
    /\ store \in [Ids -> Dossiers \union {NotCreated, Deleted}]
    /\ imports \in [Imports -> Jobs \union {NoJob}]
    /\ validated \in [Ids -> SUBSET Contents]

Init ==
    /\ store = [id \in Ids |-> NotCreated]
    /\ imports = [request \in Imports |-> NoJob]
    /\ validated = [id \in Ids |-> {}]

Exists(id) == store[id] \notin {NotCreated, Deleted}

Save(id, dossier) == store' = [store EXCEPT ![id] = dossier]

-----------------------------------------------------------------------------
(* References.                                                              *)

ExactReference(reference, exclude) ==  \* mutant: compared without casefold
    {id \in Ids \ {exclude} :
        Exists(id) /\ store[id].content.reference = reference}

\* The other dossiers that already use the reference.
FindByReference(reference, exclude) ==
    {id \in Ids \ {exclude} :
        Exists(id) /\ SameReference(store[id].content.reference, reference)}

CreateDossier(id) ==
    /\ store[id] = NotCreated
    /\ \E reference \in References :
        /\ FindByReference(reference, id) = {}
        /\ Save(id, NewDossier(reference))
    /\ UNCHANGED <<imports, validated>>

\* The reference of a promoted analysis is typed or taken from its file name.
CreateDossierFromAnalysis(id) ==
    /\ store[id] = NotCreated
    /\ \E reference \in References, plan \in Plans :
        /\ FindByReference(reference, id) = {}
        /\ Save(id, Promoted(reference, plan))
    /\ UNCHANGED <<imports, validated>>

SaveDossierReference(id) ==
    /\ Exists(id)
    /\ \E reference \in References :
        /\ FindByReference(reference, id) = {}
        /\ Save(id, Renamed(store[id], reference))
    /\ UNCHANGED <<imports, validated>>

-----------------------------------------------------------------------------
(* Editing, validation, documents, deletion.                                *)

SaveIdentity(id) ==
    /\ Exists(id)
    /\ \E identity \in Identities : Save(id, Identified(store[id], identity))
    /\ UNCHANGED <<imports, validated>>

SaveReview(id) ==
    /\ Exists(id)
    /\ \E review \in ReviewsOf(store[id]) : Save(id, Reviewed(store[id], review))
    /\ UNCHANGED <<imports, validated>>

ValidateDossierData(id) ==
    /\ Exists(id)
    /\ Ready(store[id])
    /\ Save(id, Validated(store[id]))
    /\ validated' = [validated EXCEPT ![id] = @ \union {store[id].content}]
    /\ UNCHANGED imports

GenerateDocument(id) ==
    /\ Exists(id)
    /\ HasCurrentValidation(store[id])
    /\ Ready(store[id])
    /\ Len(store[id].generations) < MaxGenerations
    /\ Save(id, Generated(store[id]))
    /\ UNCHANGED <<imports, validated>>

DeleteDossier(id) ==
    /\ Exists(id)
    /\ Save(id, Deleted)
    /\ UNCHANGED <<imports, validated>>

-----------------------------------------------------------------------------
(* The import of a plan.                                                    *)

ImportPlan(request, id) ==
    /\ imports[request] = NoJob
    /\ Exists(id)
    /\ imports' = [imports EXCEPT ![request] =
                       [id |-> id, base |-> store[id], result |-> NoResult]]
    /\ UNCHANGED <<store, validated>>

NotAwaited(job) ==  \* mutant: run_analysis is called without await
    TRUE

\* run_analysis has returned.
Analysed(job) == job.result # NoResult

\* The worker thread attaches the inspected plan to the private copy.
AnalyseImport(request) ==
    /\ imports[request] # NoJob
    /\ ~Analysed(imports[request])
    /\ \E plan \in Plans :
        imports' = [imports EXCEPT ![request].result =
                        Imported(imports[request].base, plan)]
    /\ UNCHANGED <<store, validated>>

AlwaysUnchanged(job) ==  \* mutant: saved whatever happened to the dossier
    TRUE

StillExists(job) ==  \* mutant: only a deletion is noticed
    Exists(job.id)

\* The dossier still exists and its JSON is the one the import started from.
UnchangedSince(job) == Exists(job.id) /\ store[job.id] = job.base

\* 303 when the result is saved, 404 or 409 when it is dropped.
CommitImport(request) ==
    /\ imports[request] # NoJob
    /\ Analysed(imports[request])
    /\ IF UnchangedSince(imports[request])
       THEN Save(imports[request].id, imports[request].result)
       ELSE UNCHANGED store
    /\ imports' = [imports EXCEPT ![request] = NoJob]
    /\ UNCHANGED validated

\* A bad file, a failed conversion or inspection, a cancelled request.
FailImport(request) ==
    /\ imports[request] # NoJob
    /\ imports' = [imports EXCEPT ![request] = NoJob]
    /\ UNCHANGED <<store, validated>>

\* The process stops, or crashes, and starts again.
Restart ==
    /\ imports' = [request \in Imports |-> NoJob]
    /\ UNCHANGED <<store, validated>>

-----------------------------------------------------------------------------

Next ==
    \/ \E id \in Ids :
        \/ CreateDossier(id)
        \/ CreateDossierFromAnalysis(id)
        \/ SaveDossierReference(id)
        \/ SaveIdentity(id)
        \/ SaveReview(id)
        \/ ValidateDossierData(id)
        \/ GenerateDocument(id)
        \/ DeleteDossier(id)
    \/ \E request \in Imports :
        \/ \E id \in Ids : ImportPlan(request, id)
        \/ AnalyseImport(request)
        \/ CommitImport(request)
        \/ FailImport(request)
    \/ Restart

Spec == Init /\ [][Next]_vars

-----------------------------------------------------------------------------
(* Properties.                                                              *)

\* "References are unique regardless of case and spacing": two stored
\* dossiers are never indistinguishable, whichever handlers named them.
ReferencesUnique ==
    \A id, other \in Ids :
        /\ id # other
        /\ Exists(id)
        /\ Exists(other)
        => ~SameReference(store[id].content.reference,
                          store[other].content.reference)

\* The badge of every page reads the status alone, the documents step reads
\* the fingerprint: they never disagree, and what is marked valid has no
\* blocker and is what the user validated.
ValidationIsCurrent ==
    \A id \in Ids :
        Exists(id) =>
            IF store[id].status = "valide"
            THEN /\ HasCurrentValidation(store[id])
                 /\ Ready(store[id])
                 /\ store[id].content \in validated[id]
            ELSE store[id].fingerprint = NoFingerprint

\* Every document a dossier lists was written from data its user validated
\* in exactly that state.
DocumentsWereValidated ==
    \A id \in Ids :
        Exists(id) =>
            \A i \in 1..Len(store[id].generations) :
                store[id].generations[i] \in validated[id]

\* "sans supprimer les DOCX historiques": the documents of a dossier are
\* never dropped from its list, not even by an import that read it before
\* they were generated.
DocumentsKept ==
    [][\A id \in Ids :
        Exists(id) /\ Exists(id)' =>
            /\ Len(store'[id].generations) >= Len(store[id].generations)
            /\ \A i \in 1..Len(store[id].generations) :
                store'[id].generations[i] = store[id].generations[i]]_vars

\* A deleted dossier never comes back, whoever still holds a copy of it.
DeletedForGood ==
    [][\A id \in Ids : store[id] = Deleted => store'[id] = Deleted]_vars

\* Each save is one whole operation on the current value of one dossier: an
\* import never undoes an edit, a validation or a document made meanwhile.
Service == INSTANCE DossierService

Serializable == Service!Spec

=============================================================================
