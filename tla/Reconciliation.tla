--------------------------- MODULE Reconciliation ---------------------------
(***************************************************************************)
(* The life of a dossier's reconciliation: a plan is inspected, analysed   *)
(* with a profile or without, promoted to a dossier and reviewed           *)
(* (app/workflow.py and the routes of app/main.py).  Every handler ends by *)
(* rebuilding the result from the dossier and from the decisions that the  *)
(* previous result held.  A request that raises ValueError saves nothing   *)
(* and is not a step.  Buildings, levels and millièmes are in Workflow.    *)
(***************************************************************************)
EXTENDS ProfileFit

CONSTANTS
    Plans,       \* drawings that may be inspected
    Profiles,    \* rules of the profiles, by profile
    Sheets,      \* planches
    Layers,
    Numbers,     \* lot numbers
    Reviews,     \* the status a user may give to a planche or a layer
    Categories,  \* of the zones that a user makes
    MaxSteps     \* bound on the handlers of a dossier

\* Drawings as the inspection leaves them: contours and texts have ordered
\* handles and integer coordinates, and the centre of a contour is an integer.
ASSUME PlanAssumption ==
    \A p \in Plans :
      /\ DOMAIN p.contours \subseteq Nat /\ IsFiniteSet(DOMAIN p.contours)
      /\ DOMAIN p.texts \subseteq Nat /\ IsFiniteSet(DOMAIN p.texts)
      /\ p.unit \in DOMAIN Metres \union {None}
      /\ \A c \in DOMAIN p.contours :
           /\ p.contours[c].sheet \in Sheets /\ p.contours[c].layer \in Layers
           /\ p.contours[c].lo \in Int /\ p.contours[c].hi \in Int
           /\ p.contours[c].lo < p.contours[c].hi
           /\ (p.contours[c].lo + p.contours[c].hi) % 2 = 0
      /\ \A t \in DOMAIN p.texts :
           /\ p.texts[t].x \in Int
           /\ p.texts[t].kind = "surface" => p.texts[t].value \in Nat
           /\ p.texts[t].kind \in {"numero"} \union {f.lotKind : f \in Profiles} =>
                p.texts[t].value \in Numbers

ZoneKinds == {"principale", "secondaire_annexe", "commune", "exclue"}
ReviewStatuses == {"candidate", "retenue", "exclue", "abandonnee"}
Decisions == {"a_revoir", "confirme_manuel"}

ASSUME ReconciliationAssumption ==
    /\ \A f \in Profiles : /\ f.unit \in DOMAIN Metres
                          /\ DOMAIN f.lotSources \union DOMAIN f.surfaceSources \subseteq Nat
    /\ Reviews \subseteq ReviewStatuses /\ Categories \subseteq ZoneKinds
    /\ MaxSteps \in Nat

\* None marks what is missing.
ASSUME MarkerAssumption ==
    /\ None \notin Profiles /\ None \notin Numbers /\ None \notin Nat
    /\ None \notin [lot : Numbers \union {None}, category : ZoneKinds]
    /\ \A p \in Plans :
         None \notin [status : Decisions, lot : Numbers, contours : SUBSET DOMAIN p.contours]

VARIABLES
    dossier,  \* the canonical dossier
    asked,    \* what the user last decided of each proposal of this plan
    steps     \* handlers so far

vars == <<dossier, asked, steps>>

Undecided0 == [n \in Numbers |-> None]
NoZones(p) == [c \in DOMAIN p.contours |-> None]

-----------------------------------------------------------------------------
(* The plan and the profile it is analysed with.                           *)

\* attach_import: a new geometric review, nothing of which is decided.
NewPlan(d, p) ==
    [d EXCEPT !.plan = p, !.unit = p.unit,
              !.sheet = [s \in Sheets |-> "candidate"],
              !.layer = [l \in Layers |-> "candidate"],
              !.zones = NoZones(p), !.lots = {}, !.recon = None, !.import = @ + 1]

\* Mutant: the unit is the one of the file, with a profile too.
WithFileUnit(d, f) ==
    Reconcile([d EXCEPT !.usage = f, !.unit = d.plan.unit, !.recon = None])

\* apply_profile_choice: the unit is the one of the profile, or of the file.
WithProfile(d, f) ==
    Reconcile([d EXCEPT !.usage = f, !.unit = IF f = None THEN d.plan.unit ELSE f.unit,
                        !.recon = None])

\* prepare_quick_analysis_dossier: provisional decisions, the regions of
\* abandoned versions set aside and every other planche retained.
Prepared(p) ==
    [stage |-> "analyse", plan |-> p, usage |-> None, unit |-> p.unit,
     sheet |-> [s \in Sheets |-> IF s \in p.abandoned THEN "abandonnee" ELSE "retenue"],
     layer |-> [l \in Layers |-> "candidate"],
     zones |-> NoZones(p), lots |-> {}, recon |-> None, import |-> 0]

Init ==
    /\ \E p \in Plans, f \in Profiles \union {None} : dossier = WithProfile(Prepared(p), f)
    /\ asked = Undecided0
    /\ steps = 0

\* analyse_with_profile: as long as no dossier was made of the analysis.
AnalyseWithProfile(f) ==
    /\ dossier.stage = "analyse"
    /\ dossier' = WithProfile(dossier, f)
    /\ UNCHANGED <<asked, steps>>

\* promote_quick_analysis.
Promote ==
    /\ dossier.stage = "analyse"
    /\ dossier' = [dossier EXCEPT !.stage = "dossier"]
    /\ UNCHANGED <<asked, steps>>

-----------------------------------------------------------------------------
(* The review.                                                             *)

\* _get_dossier: an analysis that was not promoted is no dossier.  The bound on
\* the handlers is the only other guard they share.
Handler ==
    /\ dossier.stage = "dossier"
    /\ steps < MaxSteps
    /\ steps' = steps + 1

\* Mutant: the result is left as it is.
Unreconciled(d) == d

\* What every handler ends with.
Reconciled(d) == Reconcile(d)

\* A profiled dossier keeps its own snapshot.
AttachImport(p) ==
    /\ Handler
    /\ dossier' = IF dossier.usage = None THEN Reconcile(NewPlan(dossier, p))
                  ELSE WithProfile(NewPlan(dossier, p), dossier.usage)
    /\ asked' = Undecided0

ConfirmUnit(u) ==
    /\ Handler
    /\ dossier' = Reconciled([dossier EXCEPT !.unit = u])
    /\ UNCHANGED asked

SetPlancheStatus(s, review) ==
    /\ Handler
    /\ dossier' = Reconciled([dossier EXCEPT !.sheet[s] = review])
    /\ UNCHANGED asked

SetLayerStatus(l, review) ==
    /\ Handler
    /\ dossier' = Reconciled([dossier EXCEPT !.layer[l] = review])
    /\ UNCHANGED asked

\* mark_lot_proposal_for_review.
MarkForReview(n) ==
    /\ Handler
    /\ n \in DOMAIN dossier.recon.proposals
    /\ dossier' = Reconciled([dossier EXCEPT !.recon.proposals[n].decision =
          [status |-> "a_revoir", lot |-> n, contours |-> dossier.recon.proposals[n].contours]])
    /\ asked' = [asked EXCEPT ![n] = "a_revoir"]

\* Mutant: a zone without a lot makes one.
AssociateAlways(d, C, lot, category) ==
    [d EXCEPT !.zones = [c \in DOMAIN @ |->
                 IF c \in C /\ @[c] = None THEN [lot |-> lot, category |-> category] ELSE @[c]],
              !.lots = @ \union {lot}]

\* associate_candidate, for each contour of C that has no zone yet.
Associate(d, C, lot, category) ==
    [d EXCEPT !.zones = [c \in DOMAIN @ |->
                 IF c \in C /\ @[c] = None THEN [lot |-> lot, category |-> category] ELSE @[c]],
              !.lots = IF lot = None THEN @ ELSE @ \union {lot}]

\* Mutant: a contour of another lot may be confirmed too.
AnyAssignable(d, c, lot) == TRUE

\* A selected contour is free or already of that lot.
Assignable(d, c, lot) == d.zones[c] # None => d.zones[c].lot = lot

\* validate_zone.
ValidateZone(c, lot, category) ==
    /\ Handler
    /\ dossier.unit # None
    /\ dossier.zones[c] = None
    /\ dossier' = Reconciled(Associate(dossier, {c}, lot, category))
    /\ UNCHANGED asked

\* confirm_lot_proposal: the number retained may be another one.
ConfirmLot(n, selected, lot, category) ==
    LET proposal == dossier.recon.proposals[n]
        associated == Associate(dossier, selected, lot, category)
    IN  /\ Handler
        /\ n \in DOMAIN dossier.recon.proposals
        /\ selected # {} /\ selected \subseteq proposal.contours \union proposal.aside
        /\ \A c \in selected : Assignable(dossier, c, lot)
        /\ dossier.unit # None \/ \A c \in selected : dossier.zones[c] # None
        /\ dossier' = Reconciled([associated EXCEPT !.recon.proposals[n].decision =
               [status |-> "confirme_manuel", lot |-> lot, contours |-> selected]])
        /\ asked' = [asked EXCEPT ![n] = "confirme_manuel"]

\* The lot has a building: some zone, other than the one that moves.
HasBuilding(d, lot, c) == \E q \in DOMAIN d.zones \ {c} : d.zones[q] # None /\ d.zones[q].lot = lot

IsAnnex(d, c) ==
    c \in DOMAIN d.recon.business /\ d.recon.business[c].category = "secondaire_annexe"

\* Mutant: a principal surface may be attached again as an annex.
AlwaysMovable(d, c) == TRUE

Movable(d, c) == d.zones[c] # None => d.zones[c].category = "secondaire_annexe"

Detached(d, c) == [d EXCEPT !.zones[c] = None]

\* attach_annex: to a lot, or detached from its own.
AttachAnnex(c, lot) ==
    /\ Handler
    /\ IsAnnex(dossier, c) /\ Movable(dossier, c)
    /\ IF lot = None
       THEN /\ dossier.zones[c] # None
            /\ dossier' = Reconciled(Detached(dossier, c))
       ELSE /\ dossier.unit # None
            /\ lot \in dossier.lots /\ HasBuilding(dossier, lot, c)
            /\ dossier' = Reconciled(Associate(Detached(dossier, c), {c}, lot, "secondaire_annexe"))
    /\ UNCHANGED asked

\* Annexes with a pending suggestion whose lot is constituted.
Pending(d) == {c \in DOMAIN d.recon.business :
                 /\ IsAnnex(d, c)
                 /\ d.recon.business[c].status = "a_confirmer"
                 /\ d.recon.business[c].lot \in d.lots}

\* attach_proposed_annexes: all of them, or none when one raises.
AttachProposedAnnexes ==
    LET pending == Pending(dossier) IN
    /\ Handler
    /\ dossier.unit # None /\ pending # {}
    /\ \A c \in pending : Movable(dossier, c) /\ HasBuilding(dossier, dossier.recon.business[c].lot, c)
    /\ dossier' = Reconciled([dossier EXCEPT !.zones = [c \in DOMAIN @ |->
           IF c \in pending
           THEN [lot |-> dossier.recon.business[c].lot, category |-> "secondaire_annexe"]
           ELSE @[c]]])
    /\ UNCHANGED asked

Next ==
    \/ \E f \in Profiles \union {None} : AnalyseWithProfile(f)
    \/ Promote
    \/ \E p \in Plans : AttachImport(p)
    \/ \E u \in DOMAIN Metres : ConfirmUnit(u)
    \/ \E s \in Sheets, review \in Reviews : SetPlancheStatus(s, review)
    \/ \E l \in Layers, review \in Reviews : SetLayerStatus(l, review)
    \/ \E n \in Numbers : MarkForReview(n)
    \/ \E c \in DOMAIN dossier.zones, lot \in Numbers \union {None}, category \in Categories :
         ValidateZone(c, lot, category)
    \/ \E n, lot \in Numbers, category \in Categories, selected \in SUBSET DOMAIN dossier.zones :
         ConfirmLot(n, selected, lot, category)
    \/ \E c \in DOMAIN dossier.zones, lot \in Numbers \union {None} : AttachAnnex(c, lot)
    \/ AttachProposedAnnexes

Spec == Init /\ [][Next]_vars

-----------------------------------------------------------------------------
(* Properties.                                                             *)

Statuses == DOMAIN Priority \union Decisions

\* Types of the dossier and of the result that every handler rebuilds.
TypeOK ==
    /\ dossier.stage \in {"analyse", "dossier"}
    /\ dossier.plan \in Plans
    /\ dossier.usage \in Profiles \union {None}
    /\ dossier.unit \in DOMAIN Metres \union {None}
    /\ dossier.sheet \in [Sheets -> ReviewStatuses]
    /\ dossier.layer \in [Layers -> ReviewStatuses]
    /\ DOMAIN dossier.zones = Contours(dossier)
    /\ dossier.lots \subseteq Numbers
    /\ dossier.import \in 0..MaxSteps
    /\ DOMAIN dossier.recon.proposals \subseteq Numbers
    /\ \A n \in DOMAIN dossier.recon.proposals :
         /\ dossier.recon.proposals[n].status \in Statuses
         /\ dossier.recon.proposals[n].automatic \in DOMAIN Priority
         /\ dossier.recon.proposals[n].contours \subseteq Contours(dossier)
    /\ asked \in [Numbers -> Decisions \union {None}]
    /\ steps \in 0..MaxSteps

\* A planche or a layer that the user excluded takes its contours out of
\* every proposal, set-aside list and business zone, whatever the profile, the
\* automatic engine or an earlier confirmation says (profiled.py, "keep their
\* authority over both").
HumanExclusionWins ==
    \A c \in Human(dossier) :
        /\ c \in dossier.recon.excluded
        /\ c \notin DOMAIN dossier.recon.business
        /\ c \notin Grouped(dossier)

\* With a profile, a contour it numbers is in the lot of that number and in no
\* other, and a contour it excludes or gives another role is in no lot (README,
\* "Une règle du profil n'est jamais remplacée par une heuristique contraire").
ProfileNotOverruled ==
    dossier.usage # None =>
      LET reading == ReadPlan(dossier.usage, dossier.plan, Human(dossier))
      IN  /\ \A c \in Identified(reading) :
               HoldingProposals(dossier.recon.proposals, c) = {reading.lot[c].value}
          /\ \A c \in ProfileExcluded(dossier, reading)
                        \union ByRole(reading, {"annexe", "partie_commune"}) :
               c \notin Grouped(dossier)

\* The order of authority: the user, then the profile, then the automatic
\* engine, in every combination of the two engines (profiled.py:3-17).
AuthorityHolds == HumanExclusionWins /\ ProfileNotOverruled

\* No contour is counted in two lots, nor counted and set aside by one: the
\* check zones_non_reutilisees never has to block, also when the lots of the
\* profile and those of the automatic engine are put together.
NoContourTwice ==
    \A n \in DOMAIN dossier.recon.proposals :
        /\ dossier.recon.proposals[n].contours \intersect dossier.recon.proposals[n].aside = {}
        /\ \A m \in DOMAIN dossier.recon.proposals \ {n} :
             dossier.recon.proposals[n].contours \intersect dossier.recon.proposals[m].contours = {}

\* The calculated surface of a lot is that of its contours, each once, although
\* it is summed by occurrence.
SurfacesAddUp ==
    \A n \in DOMAIN dossier.recon.proposals :
        dossier.recon.proposals[n].geometric
            = TotalArea(dossier, dossier.recon.proposals[n].contours)

\* What is counted for the lots of a dossier is counted once.
CountedOnce == NoContourTwice /\ SurfacesAddUp

\* Of the representations that the automatic engine adds up for one lot, no two
\* on different planches are copies of each other, and none is unannotated when
\* another is annotated (the two rules of _split_representations, which keeps
\* occurrences one by one in an order of preference).
RepresentationsAddUp ==
    LET O == Occurrences(dossier) IN
    \A n \in {m \in DOMAIN dossier.recon.proposals : dossier.recon.proposals[m].origin = "legacy"} :
        LET added == {o \in OfNumber(O, n) :
                        o.contours # {} /\ o.contours \subseteq dossier.recon.proposals[n].contours}
        IN  \A a, b \in added :
              /\ ~Duplicate(dossier, a, b)
              /\ a.annotated # None => b.annotated # None

\* A lot of which a representation is set aside is never verified
\* automatically (README, "Un lot concerné ne peut pas être auto-vérifié"),
\* whichever engine proposes it and whatever was set aside.
AsideNeverVerified ==
    \A n \in DOMAIN dossier.recon.proposals :
        dossier.recon.proposals[n].aside # {} =>
            dossier.recon.proposals[n].automatic # "auto_verifie"

\* Several drawings of one lot are neither added up nor trusted.
RepresentationsHold == RepresentationsAddUp /\ AsideNeverVerified

\* An annex is confirmed exactly when the user attached it, with the number of
\* that lot; a lot is suggested only for an annex that is not attached
\* (_annex_attachment reads zones made by other handlers).
AnnexesFollowZones ==
    \A c \in DOMAIN dossier.recon.business :
        dossier.recon.business[c].category = "secondaire_annexe" =>
            /\ (dossier.recon.business[c].status = "confirme_manuel") <=> Attached(dossier, c)
            /\ Attached(dossier, c) => dossier.recon.business[c].lot = dossier.zones[c].lot

\* Without a profile, a suggested lot is one of the lots proposed, and no other
\* lot that counts here has its number in reach and a contour that touches the
\* annex: an annex between two lots waits for the user.
SuggestionsAreSafe ==
    dossier.usage = None =>
      \A c \in DOMAIN dossier.recon.business :
        LET zone == dossier.recon.business[c]
            contour == dossier.plan.contours[c]
        IN  (zone.category = "secondaire_annexe" /\ zone.status = "a_confirmer") =>
              /\ zone.lot \in DOMAIN dossier.recon.proposals
              /\ \A o \in Occurrences(dossier) :
                   (/\ o.number # zone.lot /\ o.sheet = contour.sheet
                    /\ o \in Counted(dossier, OfNumber(Occurrences(dossier), o.number))
                    /\ \E q \in o.contours : Gap(contour, dossier.plan.contours[q]) = 0)
                   => Distance(dossier.plan.texts[o.anchor].x, Center(contour)) > LotRadius

\* The lot of an annex is what the user says, else a prudent suggestion.
AnnexesHold == AnnexesFollowZones /\ SuggestionsAreSafe

\* What a confirmation selected is still in the lot it confirmed, as long as
\* the proposal shows the decision.
ConfirmedIsAssigned ==
    \A n \in DOMAIN dossier.recon.proposals :
        LET decision == dossier.recon.proposals[n].decision IN
        (decision # None /\ dossier.recon.proposals[n].status = "confirme_manuel") =>
            \A c \in decision.contours : dossier.zones[c] # None /\ dossier.zones[c].lot = decision.lot

\* The stored result is what reconciling the dossier again would give: no
\* handler leaves a result that its own change made stale, and reconciling
\* twice changes nothing.
ResultIsCurrent == Reconcile(dossier) = dossier

\* As long as nothing is excluded or retained by the user, the engine applies a
\* profile as its check showed it: the same numbered contours, the same
\* annotated lots, and the automatic engine decides of no contour that was not
\* shown as left to it (reading.py, "what the user is shown is exactly what the
\* engine applies").
ShownIsApplied ==
    LET shown == ShownReading(dossier.usage, dossier.plan)
        proposals == dossier.recon.proposals
        own == {n \in DOMAIN proposals : proposals[n].origin = "profil"}
    IN  (/\ dossier.usage # None
         /\ Human(dossier) = {}
         /\ \A l \in Layers : dossier.layer[l] # "retenue") =>
            /\ UNION {proposals[n].contours : n \in own} = Numbered(shown)
            /\ {n \in own : proposals[n].annotated # None} = Annotated(shown)
            /\ dossier.recon.unresolved
                 \union {c \in DOMAIN dossier.recon.business :
                           dossier.recon.business[c].origin = "legacy"}
                 \union UNION {proposals[n].contours : n \in DOMAIN proposals \ own}
               \subseteq Fallback(shown)

\* A profile that is recommended for a plan, once applied, finds a lot in it,
\* unless the plan is of an abandoned version.
RecommendedFindsLots ==
    (/\ dossier.stage = "analyse"
     /\ dossier.usage \in Winners([f \in Profiles |-> Facts(f, dossier.plan)])
     /\ Human(dossier) = {}) =>
        \E n \in DOMAIN dossier.recon.proposals : dossier.recon.proposals[n].origin = "profil"

\* When a lot drawn once is to be confirmed, the reason shown for it is what
\* the automatic verification lacked (_missing_reasons: "They mirror the
\* conditions of reconcile_dossier").
ReasonIsTrue ==
    LET O == Occurrences(dossier) IN
    dossier.usage = None =>
      \A o \in O :
        LET reason == MissingReason(dossier, o.number) IN
        (/\ OfNumber(O, o.number) = {o}
         /\ dossier.recon.proposals[o.number].status = "a_confirmer") =>
            /\ reason = "planche_non_retenue" => dossier.sheet[o.sheet] # "retenue"
            /\ reason = "un_seul_contour" => Cardinality(o.contours) < MinimumContours
            /\ reason = "titre_generique" => ~AutomaticallyTitled(dossier, o.anchor)

\* A diagnostic that announces no association to take over is followed by no
\* blocking check on the proposals.
NothingLeftNothingBlocks ==
    (dossier.stage = "analyse" /\ NothingLeft(dossier)) =>
        /\ dossier.recon.blocking = {}
        /\ \A c \in DOMAIN dossier.recon.business \ Grouped(dossier) :
             dossier.recon.business[c].category # "principale"

\* A plan that a profile is said to read completely ("lecture déterministe",
\* evaluation.py) is read so by the engine: every principal surface is in a lot,
\* every lot of one drawing space is verified, and every annex is proposed the
\* number written in it.
CompleteIsVerified ==
    LET f == dossier.usage
        proposals == dossier.recon.proposals
    IN  (/\ f # None /\ dossier.stage = "analyse" /\ Human(dossier) = {}
         /\ Conclusion(f, dossier.plan, ShownReading(f, dossier.plan)) = "complet") =>
        \A c \in DOMAIN ShownReading(f, dossier.plan).role :
          /\ ContourRole(f, dossier.plan, c) = "surface_principale" =>
               \E n \in HoldingProposals(proposals, c) :
                 \/ proposals[n].status = "auto_verifie"
                 \/ Cardinality({ContourSpace(dossier.plan, q) : q \in proposals[n].contours}) > 1
          /\ ContourRole(f, dossier.plan, c) = "annexe" =>
               dossier.recon.business[c].lot = LotInside(f, dossier.plan, c)

\* What the user is shown of a profile, of a plan and of a dossier is what the
\* engine does with them.
ShownIsTrue ==
    /\ ShownIsApplied
    /\ RecommendedFindsLots
    /\ ReasonIsTrue
    /\ NothingLeftNothingBlocks
    /\ CompleteIsVerified
    /\ ResultIsCurrent

\* A decision the user takes is shown by its proposal, and stays as long as the
\* proposal does, whichever engine rebuilds it.
DecisionsStay ==
    [][\A n \in DOMAIN dossier.recon.proposals \intersect DOMAIN dossier'.recon.proposals :
         (/\ asked'[n] # None
          /\ asked'[n] # asked[n] \/ dossier.recon.proposals[n].status = asked[n]) =>
            dossier'.recon.proposals[n].status = asked'[n]]_vars

\* The zones obey the ledger.
Ledger == INSTANCE ZoneLedger
            WITH zones <- dossier.zones, plan <- dossier.import, Drawn <- {DOMAIN p.contours : p \in Plans},
                 Lots <- Numbers

\* Whatever is proposed, confirmed, attached or excluded, surfaces are given to
\* lots as the ledger allows: the review implements ZoneLedger.
KeepsLedger == Ledger!Spec

\* "An explicit user decision wins over the automatic result" (engine.py:3): a
\* proposal has the status the user last gave it.
DecisionWins ==
    \A n \in DOMAIN dossier.recon.proposals :
        asked[n] # None => dossier.recon.proposals[n].status = asked[n]

\* "Deux copies sur la même planche ne sont jamais fusionnées" (README): of the
\* copies of a lot that one planche holds, as many are counted as it holds.
LevelsNotMerged ==
    LET O == Occurrences(dossier) IN
    \A o \in O :
        LET counted == Counted(dossier, OfNumber(O, o.number))
            Same(q) == q = o \/ (SameAnnotation(q, o)
                                   /\ TranslatedCopy(dossier.plan, q.contours, o.contours))
        IN  \/ \E q \in counted : q.annotated # None /\ o.annotated = None
            \/ Cardinality({q \in counted : Same(q)})
                 >= Cardinality({q \in OfNumber(O, o.number) : q.sheet = o.sheet /\ Same(q)})
=============================================================================
