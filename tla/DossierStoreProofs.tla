------------------------- MODULE DossierStoreProofs ------------------------
(***************************************************************************)
(* What DossierStore guarantees for every set of identifiers, references,  *)
(* plans and concurrent imports.                                           *)
(*                                                                         *)
(* The inductive invariant adds to the checked ones what an import carries *)
(* across its await: its result is its base with another plan.  Because    *)
(* the commit compares the base with the stored dossier, the result is     *)
(* then the stored dossier with another plan, which gives uniqueness (the  *)
(* reference is unchanged) and the refinement (one whole operation).       *)
(***************************************************************************)
EXTENDS DossierStore, TLAPS

\* The result of an analysis is its base with an inspected plan attached.
ImportsSound ==
    \A request \in Imports :
        imports[request] # NoJob /\ Analysed(imports[request]) =>
            \E plan \in Plans :
                imports[request].result = Imported(imports[request].base, plan)

Inv ==
    /\ TypeOK
    /\ ImportsSound
    /\ ReferencesUnique
    /\ ValidationIsCurrent
    /\ DocumentsWereValidated

-----------------------------------------------------------------------------
(* The transformations of a dossier.                                        *)

\* A changed dossier is a dossier, without a validation and with the same
\* documents.
LEMMA ChangedDossier ==
    ASSUME NEW d \in Dossiers, NEW c \in Contents
    PROVE  /\ Changed(d, c) \in Dossiers
           /\ Changed(d, c).content = c
           /\ Changed(d, c).status = "a_valider"
           /\ Changed(d, c).fingerprint = NoFingerprint
           /\ Changed(d, c).generations = d.generations
  BY DEF Changed, Dossiers, Statuses

\* A dossier that is neither validated nor printed.
Blank(d) ==
    /\ d.status # "valide"
    /\ d.fingerprint = NoFingerprint
    /\ d.generations = << >>

\* A new dossier is such a dossier under its reference.
LEMMA FreshDossier ==
    ASSUME NEW reference \in References
    PROVE  /\ NewDossier(reference) \in Dossiers
           /\ NewDossier(reference).content.reference = reference
           /\ Blank(NewDossier(reference))
  <1> DEFINE c == [reference |-> reference, identity |-> BlankIdentity,
                   plan |-> NoPlan, review |-> NotReviewed]
  <1>1. c \in Contents
    BY IdentitiesAssumption, ReviewsAssumption DEF Contents
  <1>2. << >> \in Seq(Contents)
    OBVIOUS
  <1> QED
    BY <1>1, <1>2 DEF NewDossier, Dossiers, Statuses, Blank

\* So is the dossier promoted from an analysis.
LEMMA PromotedDossier ==
    ASSUME NEW reference \in References, NEW plan \in Plans
    PROVE  /\ Promoted(reference, plan) \in Dossiers
           /\ Promoted(reference, plan).content.reference = reference
           /\ Blank(Promoted(reference, plan))
  <1> DEFINE c == [reference |-> reference, identity |-> BlankIdentity,
                   plan |-> plan, review |-> NotReviewed]
  <1>1. c \in Contents
    BY IdentitiesAssumption, ReviewsAssumption DEF Contents
  <1>2. << >> \in Seq(Contents)
    OBVIOUS
  <1> QED
    BY <1>1, <1>2 DEF Promoted, Dossiers, Statuses, Blank

\* Attaching a plan keeps the reference and the documents and drops the
\* validation.
LEMMA ImportedDossier ==
    ASSUME NEW d \in Dossiers, NEW plan \in Plans
    PROVE  /\ Imported(d, plan) \in Dossiers
           /\ Imported(d, plan).content.reference = d.content.reference
           /\ Imported(d, plan).status = "a_valider"
           /\ Imported(d, plan).fingerprint = NoFingerprint
           /\ Imported(d, plan).generations = d.generations
  <1> DEFINE c == [d.content EXCEPT !.plan = plan, !.review = NotReviewed]
  <1>1. c \in Contents /\ c.reference = d.content.reference
    BY ReviewsAssumption DEF Dossiers, Contents
  <1>2. Imported(d, plan) = Changed(d, c)
    BY DEF Imported
  <1> HIDE DEF c
  <1> QED
    BY <1>1, <1>2, ChangedDossier

-----------------------------------------------------------------------------
(* One save.                                                                *)

\* What a save of dossier d under id must respect.
NameFree(id, d) ==
    \/ FindByReference(d.content.reference, id) = {}
    \/ Exists(id) /\ d.content.reference = store[id].content.reference

ValidationSound(d, contents) ==
    IF d.status = "valide"
    THEN HasCurrentValidation(d) /\ Ready(d) /\ d.content \in contents
    ELSE d.fingerprint = NoFingerprint

DocumentsSound(d, contents) ==
    \A i \in 1..Len(d.generations) : d.generations[i] \in contents

\* A save that respects them preserves the three invariants on the store.
LEMMA SaveSound ==
    ASSUME TypeOK, ReferencesUnique, ValidationIsCurrent,
           DocumentsWereValidated,
           NEW id \in Ids, NEW d \in Dossiers, Save(id, d),
           \A other \in Ids : validated[other] \subseteq validated'[other],
           NameFree(id, d),
           ValidationSound(d, validated'[id]),
           DocumentsSound(d, validated'[id])
    PROVE  /\ ReferencesUnique'
           /\ ValidationIsCurrent'
           /\ DocumentsWereValidated'
  <1>1. /\ store' = [store EXCEPT ![id] = d]
        /\ store'[id] = d
        /\ \A other \in Ids \ {id} : store'[other] = store[other]
    BY DEF Save, TypeOK
  <1>2. ReferencesUnique'
    <2> SUFFICES ASSUME NEW x \in Ids, NEW y \in Ids, x # y,
                        Exists(x)', Exists(y)',
                        SameReference(store'[x].content.reference,
                                      store'[y].content.reference)
                 PROVE  FALSE
      BY DEF ReferencesUnique
    <2>1. CASE x # id /\ y # id
      BY <1>1, <2>1 DEF ReferencesUnique, Exists
    <2>2. ASSUME NEW other \in Ids \ {id}, Exists(other),
                 SameReference(store[other].content.reference,
                               d.content.reference)
          PROVE  FALSE
      <3>1. CASE FindByReference(d.content.reference, id) = {}
        BY <2>2, <3>1 DEF FindByReference
      <3>2. CASE Exists(id) /\ d.content.reference = store[id].content.reference
        BY <2>2, <3>2 DEF ReferencesUnique
      <3> QED
        BY <3>1, <3>2 DEF NameFree
    <2>3. CASE x = id
      BY <1>1, <2>2, <2>3 DEF SameReference, Exists
    <2>4. CASE y = id
      BY <1>1, <2>2, <2>4 DEF SameReference, Exists
    <2> QED
      BY <2>1, <2>3, <2>4
  <1>3. ValidationIsCurrent'
    <2> SUFFICES ASSUME NEW x \in Ids, Exists(x)'
                 PROVE  ValidationSound(store'[x], validated'[x])
      BY DEF ValidationIsCurrent, ValidationSound
    <2>1. CASE x = id
      BY <1>1, <2>1
    <2>2. CASE x # id
      <3>1. Exists(x) /\ store'[x] = store[x]
        BY <1>1, <2>2 DEF Exists
      <3>2. ValidationSound(store[x], validated[x])
        BY <3>1 DEF ValidationIsCurrent, ValidationSound
      <3> QED
        BY <3>1, <3>2 DEF ValidationSound
    <2> QED
      BY <2>1, <2>2
  <1>4. DocumentsWereValidated'
    <2> SUFFICES ASSUME NEW x \in Ids, Exists(x)'
                 PROVE  DocumentsSound(store'[x], validated'[x])
      BY DEF DocumentsWereValidated, DocumentsSound
    <2>1. CASE x = id
      BY <1>1, <2>1
    <2>2. CASE x # id
      <3>1. Exists(x) /\ store'[x] = store[x]
        BY <1>1, <2>2 DEF Exists
      <3>2. DocumentsSound(store[x], validated[x])
        BY <3>1 DEF DocumentsWereValidated, DocumentsSound
      <3> QED
        BY <3>1, <3>2 DEF DocumentsSound
    <2> QED
      BY <2>1, <2>2
  <1> QED
    BY <1>2, <1>3, <1>4

\* The same, for a handler: one save, the imports untouched.
LEMMA HandlerSound ==
    ASSUME Inv, NEW id \in Ids, NEW d \in Dossiers, Save(id, d),
           UNCHANGED imports,
           validated' \in [Ids -> SUBSET Contents],
           \A other \in Ids : validated[other] \subseteq validated'[other],
           NameFree(id, d),
           ValidationSound(d, validated'[id]),
           DocumentsSound(d, validated'[id])
    PROVE  Inv'
  <1>1. TypeOK'
    BY DEF Inv, TypeOK, Save
  <1>2. ImportsSound'
    BY DEF Inv, ImportsSound
  <1>3. ReferencesUnique' /\ ValidationIsCurrent' /\ DocumentsWereValidated'
    BY SaveSound DEF Inv
  <1> QED
    BY <1>1, <1>2, <1>3 DEF Inv

\* A handler that changes the content of a dossier but not its reference, or
\* gives it a free one, drops the validation and keeps the documents.
LEMMA ChangeSound ==
    ASSUME Inv, NEW id \in Ids, Exists(id), NEW c \in Contents,
           Save(id, Changed(store[id], c)),
           UNCHANGED <<imports, validated>>,
           \/ FindByReference(c.reference, id) = {}
           \/ c.reference = store[id].content.reference
    PROVE  Inv'
  <1> DEFINE d == Changed(store[id], c)
  <1>1. store[id] \in Dossiers
    BY DEF Inv, TypeOK, Exists
  <1>2. /\ d \in Dossiers
        /\ d.content = c
        /\ d.status = "a_valider"
        /\ d.fingerprint = NoFingerprint
        /\ d.generations = store[id].generations
    BY <1>1, ChangedDossier
  <1> HIDE DEF d
  <1>3. NameFree(id, d)
    BY <1>2 DEF NameFree
  <1>4. ValidationSound(d, validated'[id])
    BY <1>2 DEF ValidationSound
  <1>5. DocumentsSound(d, validated'[id])
    BY <1>2 DEF DocumentsSound, Inv, DocumentsWereValidated
  <1>6. Save(id, d) /\ validated' \in [Ids -> SUBSET Contents]
    BY DEF d, Inv, TypeOK
  <1> QED
    BY <1>2, <1>3, <1>4, <1>5, <1>6, HandlerSound

-----------------------------------------------------------------------------
(* The inductive invariant.                                                 *)

LEMMA InitInv == Init => Inv
  BY DEF Init, Inv, TypeOK, ImportsSound, ReferencesUnique,
         ValidationIsCurrent, DocumentsWereValidated, Exists

\* A created dossier is blank and takes a free reference.
LEMMA CreateSound ==
    ASSUME Inv, NEW id \in Ids,
           CreateDossier(id) \/ CreateDossierFromAnalysis(id)
    PROVE  Inv'
  <1>1. PICK reference \in References, d \in Dossiers :
            /\ FindByReference(reference, id) = {}
            /\ d.content.reference = reference
            /\ Blank(d)
            /\ Save(id, d)
    <2>1. CASE CreateDossier(id)
      BY <2>1, FreshDossier DEF CreateDossier
    <2>2. CASE CreateDossierFromAnalysis(id)
      BY <2>2, PromotedDossier DEF CreateDossierFromAnalysis
    <2> QED
      BY <2>1, <2>2
  <1>2. UNCHANGED <<imports, validated>>
    BY DEF CreateDossier, CreateDossierFromAnalysis
  <1>3. NameFree(id, d)
    BY <1>1 DEF NameFree
  <1>4. ValidationSound(d, validated'[id])
    BY <1>1 DEF Blank, ValidationSound
  <1>5. DocumentsSound(d, validated'[id])
    BY <1>1 DEF Blank, DocumentsSound
  <1>6. validated' \in [Ids -> SUBSET Contents]
    BY <1>2 DEF Inv, TypeOK
  <1> QED
    BY <1>1, <1>2, <1>3, <1>4, <1>5, <1>6, HandlerSound

\* A handler that saves the dossier it read, unchanged, changes nothing.
LEMMA SameSave ==
    ASSUME Inv, NEW id \in Ids, Save(id, store[id]),
           UNCHANGED <<imports, validated>>
    PROVE  UNCHANGED vars
  BY DEF Inv, TypeOK, Save, vars

LEMMA StutterSound ==
    ASSUME Inv, UNCHANGED vars
    PROVE  Inv'
  BY DEF Inv, TypeOK, ImportsSound, ReferencesUnique, ValidationIsCurrent,
         DocumentsWereValidated, Exists, Ready, HasCurrentValidation, vars

\* A rename takes a free reference, or the one the dossier already has.
LEMMA RenameSound ==
    ASSUME Inv, NEW id \in Ids, SaveDossierReference(id)
    PROVE  Inv'
  <1>1. PICK reference \in References :
            /\ FindByReference(reference, id) = {}
            /\ Save(id, Renamed(store[id], reference))
    BY DEF SaveDossierReference
  <1>2. UNCHANGED <<imports, validated>> /\ Exists(id)
    BY DEF SaveDossierReference
  <1>3. CASE reference = store[id].content.reference
    <2>1. Save(id, store[id])
      BY <1>1, <1>3 DEF Renamed
    <2> QED
      BY <1>2, <2>1, SameSave, StutterSound
  <1>4. CASE reference # store[id].content.reference
    <2> DEFINE c == [store[id].content EXCEPT !.reference = reference]
    <2>1. store[id] \in Dossiers
      BY <1>2 DEF Inv, TypeOK, Exists
    <2>2. c \in Contents /\ c.reference = reference
      BY <2>1 DEF Dossiers, Contents
    <2>3. Save(id, Changed(store[id], c))
      BY <1>1, <1>4 DEF Renamed
    <2> HIDE DEF c
    <2> QED
      BY <1>1, <1>2, <2>2, <2>3, ChangeSound
  <1> QED
    BY <1>3, <1>4

\* The other edits leave the reference alone.
LEMMA EditSound ==
    ASSUME Inv, NEW id \in Ids, SaveIdentity(id) \/ SaveReview(id)
    PROVE  Inv'
  <1>1. store[id] \in Dossiers /\ Exists(id)
    BY DEF Inv, TypeOK, Exists, SaveIdentity, SaveReview
  <1>2. PICK c \in Contents :
            /\ c.reference = store[id].content.reference
            /\ Save(id, Changed(store[id], c))
    <2>1. CASE SaveIdentity(id)
      <3>1. PICK identity \in Identities :
                Save(id, Identified(store[id], identity))
        BY <2>1 DEF SaveIdentity
      <3> DEFINE c == [store[id].content EXCEPT !.identity = identity]
      <3>2. /\ c \in Contents
            /\ c.reference = store[id].content.reference
            /\ Save(id, Changed(store[id], c))
        BY <1>1, <3>1 DEF Identified, Dossiers, Contents
      <3> QED
        BY <3>2
    <2>2. CASE SaveReview(id)
      <3>1. PICK review \in Reviews : Save(id, Reviewed(store[id], review))
        BY <2>2 DEF SaveReview, ReviewsOf
      <3> DEFINE c == [store[id].content EXCEPT !.review = review]
      <3>2. /\ c \in Contents
            /\ c.reference = store[id].content.reference
            /\ Save(id, Changed(store[id], c))
        BY <1>1, <3>1 DEF Reviewed, Dossiers, Contents
      <3> QED
        BY <3>2
    <2> QED
      BY <2>1, <2>2
  <1>3. UNCHANGED <<imports, validated>>
    BY DEF SaveIdentity, SaveReview
  <1> QED
    BY <1>1, <1>2, <1>3, ChangeSound

\* A validation records the content it was given, which has no blocker.
LEMMA ValidateSound ==
    ASSUME Inv, NEW id \in Ids, ValidateDossierData(id)
    PROVE  Inv'
  <1> DEFINE d == Validated(store[id])
  <1>1. store[id] \in Dossiers /\ Exists(id)
    BY DEF Inv, TypeOK, Exists, ValidateDossierData
  <1>2. /\ d \in Dossiers
        /\ d.content = store[id].content
        /\ d.status = "valide"
        /\ d.fingerprint = d.content
        /\ d.generations = store[id].generations
    BY <1>1 DEF Validated, Dossiers, Statuses
  <1>3. /\ validated' = [validated EXCEPT ![id] = @ \union {store[id].content}]
        /\ Save(id, d)
        /\ Ready(store[id])
        /\ UNCHANGED imports
    BY DEF ValidateDossierData
  <1> HIDE DEF d
  <1>4. /\ validated' \in [Ids -> SUBSET Contents]
        /\ \A other \in Ids : validated[other] \subseteq validated'[other]
        /\ d.content \in validated'[id]
    <2>1. validated \in [Ids -> SUBSET Contents] /\ store[id].content \in Contents
      BY <1>1 DEF Inv, TypeOK, Dossiers
    <2> QED
      BY <1>2, <1>3, <2>1
  <1>5. NameFree(id, d)
    BY <1>1, <1>2 DEF NameFree
  <1>6. ValidationSound(d, validated'[id])
    BY <1>2, <1>3, <1>4 DEF ValidationSound, HasCurrentValidation, Ready
  <1>7. DocumentsSound(d, validated'[id])
    BY <1>1, <1>2, <1>4 DEF DocumentsSound, Inv, DocumentsWereValidated
  <1> QED
    BY <1>2, <1>3, <1>4, <1>5, <1>6, <1>7, HandlerSound

\* A document is written from validated content, and changes nothing else.
LEMMA GenerateSound ==
    ASSUME Inv, NEW id \in Ids, GenerateDocument(id)
    PROVE  Inv'
  <1> DEFINE d == Generated(store[id])
  <1>1. store[id] \in Dossiers /\ Exists(id)
    BY DEF Inv, TypeOK, Exists, GenerateDocument
  <1>2. /\ d.content = store[id].content
        /\ d.status = store[id].status
        /\ d.fingerprint = store[id].fingerprint
        /\ d.generations = Append(store[id].generations, store[id].content)
        /\ d \in Dossiers
    BY <1>1 DEF Generated, Dossiers
  <1>3. /\ Save(id, d)
        /\ HasCurrentValidation(store[id])
        /\ UNCHANGED <<imports, validated>>
    BY DEF GenerateDocument
  <1> HIDE DEF d
  <1>4. /\ validated' \in [Ids -> SUBSET Contents]
        /\ ValidationSound(store[id], validated[id])
        /\ store[id].content \in validated[id]
    BY <1>1, <1>3 DEF Inv, TypeOK, ValidationIsCurrent, ValidationSound,
                      HasCurrentValidation
  <1>5. NameFree(id, d)
    BY <1>1, <1>2 DEF NameFree
  <1>6. ValidationSound(d, validated'[id])
    BY <1>2, <1>3, <1>4 DEF ValidationSound, HasCurrentValidation, Ready
  <1>7. DocumentsSound(d, validated'[id])
    <2>1. DocumentsSound(store[id], validated[id])
      BY <1>1 DEF DocumentsSound, Inv, DocumentsWereValidated
    <2>2. store[id].generations \in Seq(Contents)
      BY <1>1 DEF Dossiers
    <2> QED
      BY <1>2, <1>3, <1>4, <2>1, <2>2 DEF DocumentsSound
  <1> QED
    BY <1>2, <1>3, <1>4, <1>5, <1>6, <1>7, HandlerSound

\* A deletion removes one dossier from everything the invariants quantify over.
LEMMA DeleteSound ==
    ASSUME Inv, NEW id \in Ids, DeleteDossier(id)
    PROVE  Inv'
  <1>1. /\ store' = [store EXCEPT ![id] = Deleted]
        /\ UNCHANGED <<imports, validated>>
    BY DEF DeleteDossier, Save
  <1>2. /\ TypeOK'
        /\ ~Exists(id)'
        /\ \A other \in Ids : Exists(other)' =>
               Exists(other) /\ store'[other] = store[other]
    BY <1>1 DEF Inv, TypeOK, Exists
  <1>3. ImportsSound'
    BY <1>1 DEF Inv, ImportsSound
  <1>4. ReferencesUnique'
    BY <1>2 DEF Inv, ReferencesUnique
  <1>5. ValidationIsCurrent'
    BY <1>1, <1>2 DEF Inv, ValidationIsCurrent, HasCurrentValidation, Ready
  <1>6. DocumentsWereValidated'
    BY <1>1, <1>2 DEF Inv, DocumentsWereValidated
  <1> QED
    BY <1>2, <1>3, <1>4, <1>5, <1>6 DEF Inv

\* The steps of an import before its commit leave the store alone and every
\* result sound.
LEMMA ImportStepSound ==
    ASSUME Inv, NEW request \in Imports,
           \/ \E id \in Ids : ImportPlan(request, id)
           \/ AnalyseImport(request)
           \/ FailImport(request)
    PROVE  Inv'
  <1>1. UNCHANGED <<store, validated>>
    BY DEF ImportPlan, AnalyseImport, FailImport
  <1>2. ReferencesUnique' /\ ValidationIsCurrent' /\ DocumentsWereValidated'
    BY <1>1 DEF Inv, ReferencesUnique, ValidationIsCurrent,
                DocumentsWereValidated, Exists, HasCurrentValidation, Ready
  <1>3. TypeOK' /\ ImportsSound'
    <2>1. CASE \E id \in Ids : ImportPlan(request, id)
      <3>1. PICK id \in Ids : ImportPlan(request, id)
        BY <2>1
      <3> DEFINE job == [id |-> id, base |-> store[id], result |-> NoResult]
      <3>2. store[id] \in Dossiers
        BY <3>1 DEF Inv, TypeOK, ImportPlan, Exists
      <3>3. /\ job \in Jobs
            /\ ~Analysed(job)
            /\ imports' = [imports EXCEPT ![request] = job]
        BY <3>1, <3>2 DEF ImportPlan, Jobs, Analysed
      <3> HIDE DEF job
      <3> QED
        BY <1>1, <3>3 DEF Inv, TypeOK, ImportsSound
    <2>2. CASE AnalyseImport(request)
      <3>1. PICK plan \in Plans :
                imports' = [imports EXCEPT ![request].result =
                                Imported(imports[request].base, plan)]
        BY <2>2 DEF AnalyseImport
      <3> DEFINE result == Imported(imports[request].base, plan)
      <3> DEFINE job == [imports[request] EXCEPT !.result = result]
      <3>2. imports[request] \in Jobs
        BY <2>2 DEF AnalyseImport, Inv, TypeOK
      <3>3. result \in Dossiers
        BY <3>2, ImportedDossier DEF Jobs
      <3>4. /\ job \in Jobs
            /\ job.result = Imported(job.base, plan)
            /\ imports' = [imports EXCEPT ![request] = job]
        <4> HIDE DEF result
        <4>1. /\ job \in Jobs
              /\ job.base = imports[request].base
              /\ job.result = result
          BY <3>2, <3>3 DEF Jobs
        <4>2. imports' = [imports EXCEPT ![request].result = result]
          BY <3>1 DEF result
        <4> QED
          BY <4>1, <4>2 DEF Inv, TypeOK, result
      <3> HIDE DEF job
      <3> QED
        BY <1>1, <3>4 DEF Inv, TypeOK, ImportsSound
    <2>3. CASE FailImport(request)
      BY <1>1, <2>3 DEF FailImport, Inv, TypeOK, ImportsSound
    <2> QED
      BY <2>1, <2>2, <2>3
  <1> QED
    BY <1>2, <1>3 DEF Inv

\* What a commit saves is the stored dossier with another plan.
LEMMA CommitIsImport ==
    ASSUME Inv, NEW request \in Imports, CommitImport(request),
           UnchangedSince(imports[request])
    PROVE  \E id \in Ids, plan \in Plans :
               /\ Exists(id)
               /\ store[id] \in Dossiers
               /\ Save(id, Imported(store[id], plan))
  <1> DEFINE job == imports[request]
  <1>1. job \in Jobs /\ Analysed(job)
    BY DEF CommitImport, Inv, TypeOK
  <1>2. job.id \in Ids /\ Exists(job.id) /\ store[job.id] = job.base
    BY <1>1 DEF Jobs, UnchangedSince
  <1>3. PICK plan \in Plans : job.result = Imported(job.base, plan)
    BY DEF CommitImport, Inv, ImportsSound
  <1>4. Save(job.id, Imported(store[job.id], plan))
    BY <1>2, <1>3 DEF CommitImport
  <1>5. store[job.id] \in Dossiers
    BY <1>2 DEF Inv, TypeOK, Exists
  <1> QED
    BY <1>2, <1>4, <1>5

LEMMA CommitSound ==
    ASSUME Inv, NEW request \in Imports, CommitImport(request)
    PROVE  Inv'
  <1>1. /\ imports' = [imports EXCEPT ![request] = NoJob]
        /\ UNCHANGED validated
    BY DEF CommitImport
  <1>2. ImportsSound' /\ imports' \in [Imports -> Jobs \union {NoJob}]
    BY <1>1 DEF Inv, TypeOK, ImportsSound
  <1>3. CASE UnchangedSince(imports[request])
    <2>1. PICK id \in Ids, plan \in Plans :
              /\ Exists(id)
              /\ store[id] \in Dossiers
              /\ Save(id, Imported(store[id], plan))
      BY <1>3, CommitIsImport
    <2> DEFINE d == Imported(store[id], plan)
    <2>2. /\ d \in Dossiers
          /\ d.content.reference = store[id].content.reference
          /\ d.status = "a_valider"
          /\ d.fingerprint = NoFingerprint
          /\ d.generations = store[id].generations
      BY <2>1, ImportedDossier
    <2> HIDE DEF d
    <2>3. Save(id, d) /\ NameFree(id, d)
      BY <2>1, <2>2 DEF NameFree, d
    <2>4. ValidationSound(d, validated'[id])
      BY <2>2 DEF ValidationSound
    <2>5. DocumentsSound(d, validated'[id])
      BY <1>1, <2>1, <2>2 DEF DocumentsSound, Inv, DocumentsWereValidated
    <2>6. TypeOK'
      BY <1>1, <1>2, <2>2, <2>3 DEF Inv, TypeOK, Save
    <2>7. /\ ReferencesUnique'
          /\ ValidationIsCurrent'
          /\ DocumentsWereValidated'
      BY <1>1, <2>2, <2>3, <2>4, <2>5, SaveSound DEF Inv
    <2> QED
      BY <1>2, <2>6, <2>7 DEF Inv
  <1>4. CASE ~UnchangedSince(imports[request])
    <2>1. UNCHANGED <<store, validated>>
      BY <1>1, <1>4 DEF CommitImport
    <2> QED
      BY <1>2, <2>1 DEF Inv, TypeOK, ReferencesUnique, ValidationIsCurrent,
         DocumentsWereValidated, Exists, HasCurrentValidation, Ready
  <1> QED
    BY <1>3, <1>4

LEMMA NextInv == Inv /\ [Next]_vars => Inv'
  <1> SUFFICES ASSUME Inv, [Next]_vars
               PROVE  Inv'
    OBVIOUS
  <1>1. ASSUME NEW id \in Ids, CreateDossier(id) \/ CreateDossierFromAnalysis(id)
        PROVE  Inv'
    BY <1>1, CreateSound
  <1>2. ASSUME NEW id \in Ids, SaveDossierReference(id)
        PROVE  Inv'
    BY <1>2, RenameSound
  <1>3. ASSUME NEW id \in Ids, SaveIdentity(id) \/ SaveReview(id)
        PROVE  Inv'
    BY <1>3, EditSound
  <1>4. ASSUME NEW id \in Ids, ValidateDossierData(id)
        PROVE  Inv'
    BY <1>4, ValidateSound
  <1>5. ASSUME NEW id \in Ids, GenerateDocument(id)
        PROVE  Inv'
    BY <1>5, GenerateSound
  <1>6. ASSUME NEW id \in Ids, DeleteDossier(id)
        PROVE  Inv'
    BY <1>6, DeleteSound
  <1>7. ASSUME NEW request \in Imports,
               \/ \E id \in Ids : ImportPlan(request, id)
               \/ AnalyseImport(request)
               \/ FailImport(request)
        PROVE  Inv'
    BY <1>7, ImportStepSound
  <1>8. ASSUME NEW request \in Imports, CommitImport(request)
        PROVE  Inv'
    BY <1>8, CommitSound
  <1>9. CASE Restart
    <2>1. UNCHANGED <<store, validated>>
      BY <1>9 DEF Restart
    <2> QED
      BY <1>9, <2>1 DEF Restart, Inv, TypeOK, ImportsSound, ReferencesUnique,
         ValidationIsCurrent, DocumentsWereValidated, Exists,
         HasCurrentValidation, Ready
  <1>10. CASE UNCHANGED vars
    BY <1>10, StutterSound
  <1> QED
    BY <1>1, <1>2, <1>3, <1>4, <1>5, <1>6, <1>7, <1>8, <1>9, <1>10 DEF Next

LEMMA Invariance == Spec => []Inv
  <1> QED
    BY InitInv, NextInv, PTL DEF Spec

-----------------------------------------------------------------------------
(* The results.                                                             *)

\* Every reachable state is well typed: only dossiers are ever stored, and
\* an import commits nothing it has not finished computing.
THEOREM TypeCorrect == Spec => []TypeOK
  <1>1. Inv => TypeOK
    BY DEF Inv
  <1> QED
    BY <1>1, Invariance, PTL

\* However creations, promotions, renames and imports interleave, no two
\* dossiers have references that differ by case or spacing only.
THEOREM UniqueReferences == Spec => []ReferencesUnique
  <1>1. Inv => ReferencesUnique
    BY DEF Inv
  <1> QED
    BY <1>1, Invariance, PTL

\* The status and the fingerprint of a dossier always agree, and a valid
\* dossier has no blocker.
THEOREM CurrentValidation == Spec => []ValidationIsCurrent
  <1>1. Inv => ValidationIsCurrent
    BY DEF Inv
  <1> QED
    BY <1>1, Invariance, PTL

\* Every listed document was written from content its user had validated.
THEOREM ValidatedDocuments == Spec => []DocumentsWereValidated
  <1>1. Inv => DocumentsWereValidated
    BY DEF Inv
  <1> QED
    BY <1>1, Invariance, PTL

-----------------------------------------------------------------------------
(* The refinement, and what it says of single steps.                        *)

\* The service transforms dossiers with the same operators.
LEMMA ServiceOperators ==
    /\ \A reference : Service!NewDossier(reference) = NewDossier(reference)
    /\ \A reference, plan :
           Service!Promoted(reference, plan) = Promoted(reference, plan)
    /\ \A d, reference : Service!Renamed(d, reference) = Renamed(d, reference)
    /\ \A d, identity : Service!Identified(d, identity) = Identified(d, identity)
    /\ \A d, review : Service!Reviewed(d, review) = Reviewed(d, review)
    /\ \A d : Service!ReviewsOf(d) = ReviewsOf(d)
    /\ \A d, plan : Service!Imported(d, plan) = Imported(d, plan)
    /\ \A d : Service!Validated(d) = Validated(d)
    /\ \A d : Service!Generated(d) = Generated(d)
    /\ \A d : Service!Ready(d) <=> Ready(d)
    /\ \A d : Service!HasCurrentValidation(d) <=> HasCurrentValidation(d)
  <1> USE DEF Service!Changed, Changed
  <1>1. \A reference : Service!NewDossier(reference) = NewDossier(reference)
    BY DEF Service!NewDossier, NewDossier
  <1>2. \A reference, plan :
            Service!Promoted(reference, plan) = Promoted(reference, plan)
    BY DEF Service!Promoted, Promoted
  <1>3. \A d, reference : Service!Renamed(d, reference) = Renamed(d, reference)
    BY DEF Service!Renamed, Renamed
  <1>4. \A d, identity : Service!Identified(d, identity) = Identified(d, identity)
    BY DEF Service!Identified, Identified
  <1>5. \A d, review : Service!Reviewed(d, review) = Reviewed(d, review)
    BY DEF Service!Reviewed, Reviewed
  <1>6. \A d, plan : Service!Imported(d, plan) = Imported(d, plan)
    BY DEF Service!Imported, Imported
  <1>7. \A d : Service!Validated(d) = Validated(d)
    BY DEF Service!Validated, Validated
  <1>8. \A d : Service!Generated(d) = Generated(d)
    BY DEF Service!Generated, Generated
  <1>9. \A d : Service!Ready(d) <=> Ready(d)
    BY DEF Service!Ready, Ready
  <1>10. \A d : Service!HasCurrentValidation(d) <=> HasCurrentValidation(d)
    BY DEF Service!HasCurrentValidation, HasCurrentValidation
  <1>11. \A d : Service!ReviewsOf(d) = ReviewsOf(d)
    BY DEF Service!ReviewsOf, ReviewsOf
  <1> QED
    BY <1>1, <1>2, <1>3, <1>4, <1>5, <1>6, <1>7, <1>8, <1>9, <1>10, <1>11

\* A reference no other dossier uses is one the service may give.
LEMMA FreeIsAvailable ==
    ASSUME NEW id \in Ids, NEW reference \in References,
           FindByReference(reference, id) = {}
    PROVE  Service!Available(reference, id)
  BY DEF FindByReference, Service!Available, Service!Live, Exists,
         SameReference, Service!SameReference

\* Every step is one whole operation of the service on the current value of
\* a dossier, or leaves the store alone.
LEMMA StepIsService ==
    ASSUME Inv, [Next]_vars
    PROVE  [Service!Next]_store
  <1>1. ASSUME NEW id \in Ids, CreateDossier(id)
        PROVE  Service!Create(id)
    BY <1>1, ServiceOperators, FreeIsAvailable DEF CreateDossier, Service!Create, Save,
       Service!Put
  <1>2. ASSUME NEW id \in Ids, CreateDossierFromAnalysis(id)
        PROVE  Service!Create(id)
    BY <1>2, ServiceOperators, FreeIsAvailable DEF CreateDossierFromAnalysis, Service!Create,
       Save, Service!Put
  <1>3. ASSUME NEW id \in Ids, SaveDossierReference(id)
        PROVE  Service!Rename(id)
    BY <1>3, ServiceOperators, FreeIsAvailable DEF SaveDossierReference, Service!Rename, Exists,
       Service!Live, Save, Service!Put
  <1>4. ASSUME NEW id \in Ids, SaveIdentity(id)
        PROVE  Service!Identify(id)
    BY <1>4, ServiceOperators DEF SaveIdentity, Service!Identify, Exists, Service!Live, Save,
       Service!Put
  <1>5. ASSUME NEW id \in Ids, SaveReview(id)
        PROVE  Service!Review(id)
    BY <1>5, ServiceOperators DEF SaveReview, Service!Review, Exists, Service!Live, Save,
       Service!Put
  <1>6. ASSUME NEW id \in Ids, ValidateDossierData(id)
        PROVE  Service!Validate(id)
    BY <1>6, ServiceOperators DEF ValidateDossierData, Service!Validate, Exists, Service!Live,
       Save, Service!Put
  <1>7. ASSUME NEW id \in Ids, GenerateDocument(id)
        PROVE  Service!Generate(id)
    BY <1>7, ServiceOperators DEF GenerateDocument, Service!Generate, Exists, Service!Live,
       Save, Service!Put
  <1>8. ASSUME NEW id \in Ids, DeleteDossier(id)
        PROVE  Service!Delete(id)
    BY <1>8 DEF DeleteDossier, Service!Delete, Exists, Service!Live, Save,
       Service!Put
  <1>9. ASSUME NEW request \in Imports, CommitImport(request)
        PROVE  (\E id \in Ids : Service!Import(id)) \/ UNCHANGED store
    <2>1. CASE UnchangedSince(imports[request])
      BY <1>9, <2>1, CommitIsImport, ServiceOperators DEF Service!Import, Exists, Service!Live,
         Save, Service!Put
    <2>2. CASE ~UnchangedSince(imports[request])
      BY <1>9, <2>2 DEF CommitImport
    <2> QED
      BY <2>1, <2>2
  <1>10. ASSUME NEW request \in Imports,
                \/ \E id \in Ids : ImportPlan(request, id)
                \/ AnalyseImport(request)
                \/ FailImport(request)
         PROVE  UNCHANGED store
    BY <1>10 DEF ImportPlan, AnalyseImport, FailImport
  <1>11. CASE Restart \/ UNCHANGED vars
    BY <1>11 DEF Restart, vars
  <1> QED
    BY <1>1, <1>2, <1>3, <1>4, <1>5, <1>6, <1>7, <1>8, <1>9, <1>10, <1>11
    DEF Next, Service!Next

\* The store with its long imports implements the service, in which an import
\* is one operation on the current dossier: nothing done during an import is
\* ever undone by it.
THEOREM ImportsAreSerializable == Spec => Serializable
  <1>1. Init => Service!Init
    BY DEF Init, Service!Init
  <1> QED
    BY <1>1, Invariance, StepIsService, PTL DEF Spec, Serializable, Service!Spec

\* No operation of the service brings a deleted dossier back.
THEOREM NoResurrection == Spec => DeletedForGood
  <1>1. ASSUME Inv, [Next]_vars
        PROVE  \A id \in Ids : store[id] = Deleted => store'[id] = Deleted
    <2> SUFFICES ASSUME NEW id \in Ids, store[id] = Deleted
                 PROVE  store'[id] = Deleted
      OBVIOUS
    <2>1. CASE UNCHANGED store
      BY <2>1
    <2>2. CASE Service!Next
      <3>1. PICK other \in Ids :
                \E d : Service!Put(other, d) /\ store[other] # Deleted
        BY <2>2, MarkersAssumption DEF Service!Next, Service!Create,
           Service!Rename, Service!Identify, Service!Review, Service!Import,
           Service!Validate, Service!Generate, Service!Delete, Service!Live
      <3> QED
        BY <3>1 DEF Service!Put, Inv, TypeOK
    <2> QED
      BY <1>1, <2>1, <2>2, StepIsService
  <1> QED
    BY <1>1, Invariance, PTL DEF Spec, DeletedForGood

\* The list of documents of d extends that of c.
Extends(d, c) ==
    /\ Len(d.generations) >= Len(c.generations)
    /\ \A i \in 1..Len(c.generations) : d.generations[i] = c.generations[i]

\* An operation of the service on a live dossier keeps its documents.
LEMMA OperationKeepsDocuments ==
    ASSUME Inv, NEW id \in Ids, Exists(id), NEW d,
           \/ \E reference \in References : d = Renamed(store[id], reference)
           \/ \E identity \in Identities : d = Identified(store[id], identity)
           \/ \E review \in Reviews : d = Reviewed(store[id], review)
           \/ \E plan \in Plans : d = Imported(store[id], plan)
           \/ d = Validated(store[id])
           \/ d = Generated(store[id])
    PROVE  Extends(d, store[id])
  <1>1. store[id] \in Dossiers /\ store[id].generations \in Seq(Contents)
    BY DEF Inv, TypeOK, Exists, Dossiers
  <1>2. store[id].content \in Contents
    BY <1>1 DEF Dossiers
  <1>3. \/ d.generations = store[id].generations
        \/ d.generations = Append(store[id].generations, store[id].content)
    <2>1. \A c : Changed(store[id], c).generations = store[id].generations
      BY <1>1 DEF Changed, Dossiers
    <2>2. Validated(store[id]).generations = store[id].generations
      BY <1>1 DEF Validated, Dossiers
    <2>3. Generated(store[id]).generations =
              Append(store[id].generations, store[id].content)
      BY <1>1 DEF Generated, Dossiers
    <2> QED
      BY <2>1, <2>2, <2>3 DEF Renamed, Identified, Reviewed, Imported
  <1> QED
    BY <1>1, <1>2, <1>3 DEF Extends

\* The documents of a dossier that is not deleted are never dropped.
THEOREM DocumentsAreKept == Spec => DocumentsKept
  <1>1. ASSUME Inv, [Next]_vars
        PROVE  \A id \in Ids : Exists(id) /\ Exists(id)' =>
                   Extends(store'[id], store[id])
    <2> SUFFICES ASSUME NEW id \in Ids, Exists(id), Exists(id)'
                 PROVE  Extends(store'[id], store[id])
      OBVIOUS
    <2>1. CASE store'[id] = store[id]
      <3>1. store[id].generations \in Seq(Contents)
        BY <1>1 DEF Inv, TypeOK, Exists, Dossiers
      <3> QED
        BY <2>1, <3>1 DEF Extends
    <2>2. CASE store'[id] # store[id]
      <3>1. Service!Next
        BY <1>1, <2>2, StepIsService
      <3>2. PICK other \in Ids :
                \/ Service!Create(other)
                \/ Service!Rename(other)
                \/ Service!Identify(other)
                \/ Service!Review(other)
                \/ Service!Import(other)
                \/ Service!Validate(other)
                \/ Service!Generate(other)
                \/ Service!Delete(other)
        BY <3>1 DEF Service!Next
      <3>3. PICK d : Service!Put(other, d)
        BY <3>2 DEF Service!Create, Service!Rename, Service!Identify,
           Service!Review, Service!Import, Service!Validate,
           Service!Generate, Service!Delete
      <3>4. other = id
        BY <1>1, <2>2, <3>3 DEF Service!Put, Inv, TypeOK
      <3>5. \A e : Service!Put(id, e) => store'[id] = e
        BY <1>1 DEF Service!Put, Inv, TypeOK
      <3>6. \/ \E reference \in References :
                   store'[id] = Renamed(store[id], reference)
            \/ \E identity \in Identities :
                   store'[id] = Identified(store[id], identity)
            \/ \E review \in Reviews : store'[id] = Reviewed(store[id], review)
            \/ \E plan \in Plans : store'[id] = Imported(store[id], plan)
            \/ store'[id] = Validated(store[id])
            \/ store'[id] = Generated(store[id])
        BY <3>2, <3>4, <3>5, ServiceOperators DEF Exists, ReviewsOf, Service!Create,
           Service!Rename, Service!Identify, Service!Review, Service!Import,
           Service!Validate, Service!Generate, Service!Delete
      <3> QED
        BY <1>1, <3>6, OperationKeepsDocuments
    <2> QED
      BY <2>1, <2>2
  <1> QED
    BY <1>1, Invariance, PTL DEF Spec, DocumentsKept, Extends

=============================================================================
