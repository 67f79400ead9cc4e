---------------------------- MODULE DossierData ----------------------------
(***************************************************************************)
(* The canonical dossier and the pure functions that transform it          *)
(* (app/domain/models.py, app/workflow.py, app/documents).                 *)
(*                                                                         *)
(* The business data is abstracted to what validation, import and          *)
(* uniqueness tell apart: the reference, the identity (address, cadastre,  *)
(* lot texts), the plan, and the review of that plan (unit, planches,      *)
(* layers, zones, lots, annexes, millièmes).  ReadyReviews are the reviews *)
(* for which assess_generation_readiness finds no blocker.                 *)
(***************************************************************************)
EXTENDS Naturals, Sequences

CONSTANTS
    Ids,            \* uuid4 identifiers: never drawn twice
    NotCreated,     \* an identifier not drawn yet
    Deleted,        \* the identifier of a deleted dossier
    References,     \* references as clean_reference leaves them
    Key,            \* a reference without its case and its spacing
    Identities,     \* values of the identity data
    BlankIdentity,
    Plans,          \* plans the inspection can return
    NoPlan,
    Reviews,        \* states of the review of a plan
    NotReviewed,    \* nothing retained yet: the state after an import
    ReadyReviews,   \* reviews without a blocker
    NoFingerprint   \* sha256_validation_donnees is None

ASSUME ReferencesAssumption == DOMAIN Key = References
ASSUME IdentitiesAssumption == BlankIdentity \in Identities
ASSUME PlansAssumption == NoPlan \notin Plans
ASSUME ReviewsAssumption ==
    /\ NotReviewed \in Reviews \ ReadyReviews
    /\ ReadyReviews \subseteq Reviews

\* What validation_snapshot covers: everything but the two status fields,
\* the validation itself and the generated documents.
Contents == [reference : References, identity : Identities,
             plan : Plans \union {NoPlan}, review : Reviews]

ASSUME FingerprintAssumption == NoFingerprint \notin Contents

Statuses == {"brouillon", "a_valider", "valide"}

\* A document is told by the canonical snapshot it was written from.
Dossiers == [content : Contents, status : Statuses,
             fingerprint : Contents \union {NoFingerprint},
             generations : Seq(Contents)]

ASSUME MarkersAssumption ==
    /\ NotCreated # Deleted
    /\ NotCreated \notin Dossiers
    /\ Deleted \notin Dossiers

SameReference(reference, other) == Key[reference] = Key[other]

-----------------------------------------------------------------------------

\* create_dossier, and promote_quick_analysis for a plan already inspected.
NewDossier(reference) ==
    [content |-> [reference |-> reference, identity |-> BlankIdentity,
                  plan |-> NoPlan, review |-> NotReviewed],
     status |-> "brouillon", fingerprint |-> NoFingerprint,
     generations |-> << >>]

Promoted(reference, plan) ==
    [content |-> [reference |-> reference, identity |-> BlankIdentity,
                  plan |-> plan, review |-> NotReviewed],
     status |-> "a_valider", fingerprint |-> NoFingerprint,
     generations |-> << >>]

\* Every change of the content ends with invalidate_data_validation.
Changed(dossier, content) ==
    [dossier EXCEPT !.content = content, !.status = "a_valider",
                    !.fingerprint = NoFingerprint]

KeepValidation(dossier, reference) ==  \* mutant: a rename is only a label
    [dossier EXCEPT !.content.reference = reference]

\* rename_dossier: the same text changes nothing, not even the validation.
Renamed(dossier, reference) ==
    IF reference = dossier.content.reference
    THEN dossier
    ELSE Changed(dossier, [dossier.content EXCEPT !.reference = reference])

\* Address, date and parcels.
Identified(dossier, identity) ==
    Changed(dossier, [dossier.content EXCEPT !.identity = identity])

\* Unit, planches, layers, zones, lots and annexes are reviewed on a plan; the
\* grid of millièmes may be declared complete, or not, without one.
ReviewsOf(dossier) ==
    IF dossier.content.plan = NoPlan THEN Reviews \ ReadyReviews ELSE Reviews

Reviewed(dossier, review) ==
    Changed(dossier, [dossier.content EXCEPT !.review = review])

\* attach_import: another plan starts a new review.
Imported(dossier, plan) ==
    Changed(dossier, [dossier.content EXCEPT !.plan = plan,
                                             !.review = NotReviewed])

\* assess_generation_readiness finds no blocker.
Ready(dossier) ==
    /\ dossier.content.plan # NoPlan
    /\ dossier.content.review \in ReadyReviews

\* record_data_validation.
Validated(dossier) ==
    [dossier EXCEPT !.status = "valide", !.fingerprint = dossier.content]

StatusOnly(dossier) ==  \* mutant: the fingerprint is not compared
    dossier.status # "brouillon"

HasCurrentValidation(dossier) ==
    /\ dossier.status = "valide"
    /\ dossier.fingerprint = dossier.content

\* generate_document appends to the dossier what it generated.
Generated(dossier) ==
    [dossier EXCEPT !.generations = Append(@, dossier.content)]

=============================================================================
