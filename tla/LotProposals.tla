---------------------------- MODULE LotProposals ----------------------------
(***************************************************************************)
(* What a reconciliation makes of a plan: lot proposals, business zones    *)
(* and the contours it leaves aside (app/reconciliation/engine.py and      *)
(* app/reconciliation/profiled.py).                                        *)
(*                                                                         *)
(* d is the canonical dossier as far as reconciliation reads it: its plan, *)
(* the profile snapshot (usage, None for the automatic engine), the unit,  *)
(* the status of planches and layers, the zones the user made and the      *)
(* previous result (recon).  Proposals are a function of the lot number,   *)
(* of which the identifier of a proposal is made.  Evidence is left out.   *)
(***************************************************************************)
EXTENDS PlanReading

\* The statuses of a proposal, the weaker the higher.
Priority == [auto_verifie |-> 1, a_confirmer |-> 2, non_resolu |-> 3, contradictoire |-> 4]
Weakest(S) == CHOOSE s \in S : \A q \in S : Priority[q] <= Priority[s]

-----------------------------------------------------------------------------
(* Several representations of one lot.                                     *)

\* _same_outline, moved by dx.
SameOutline(a, b, dx) == b.lo = a.lo + dx /\ b.hi = a.hi + dx /\ b.shape = a.shape

\* _is_translated_copy: one translation pairs the contours off.
TranslatedCopy(p, A, B) ==
    /\ A # {} /\ Cardinality(A) = Cardinality(B)
    /\ \E b \in B : LET dx == p.contours[b].lo - p.contours[Min(A)].lo IN
         \A a \in A :
           Cardinality({c \in A : SameOutline(p.contours[a], p.contours[c], 0)})
             = Cardinality({c \in B : SameOutline(p.contours[a], p.contours[c], dx)})

SameAnnotation(k, o) ==
    \/ k.annotated = None /\ o.annotated = None
    \/ /\ k.annotated # None /\ o.annotated # None
       /\ Accepts(Tolerance, k.annotated, o.annotated)

Duplicate(d, k, o) ==
    /\ k.sheet # o.sheet
    /\ SameAnnotation(k, o)
    /\ TranslatedCopy(d.plan, k.contours, o.contours)

\* preference: a retained planche, an annotation, a title, then the handle.
Preference(d, o) ==
    << IF d.sheet[o.sheet] = "retenue" THEN 0 ELSE 1,
       IF o.annotated # None THEN 0 ELSE 1,
       IF o.titled THEN 0 ELSE 1,
       o.anchor >>
Before(x, y) == \E i \in DOMAIN x : x[i] < y[i] /\ \A j \in 1..(i - 1) : x[j] = y[j]
Preferred(d, a, b) == Before(Preference(d, a), Preference(d, b))

\* Mutant: nothing is a duplicate.
KeptAll(d, G) == G

\* By preference, an occurrence is kept unless it duplicates one kept before.
Kept(d, G) ==
    CHOOSE kept \in SUBSET G :
        \A o \in G : o \in kept <=> ~ \E k \in kept : Preferred(d, k, o) /\ Duplicate(d, k, o)

\* Once one representation is annotated, the others do not count.
Representations(kept) ==
    IF \E k \in kept : k.annotated # None THEN {o \in kept : o.annotated # None} ELSE kept

\* _split_representations.
Counted(d, G) == Representations(Kept(d, G))

-----------------------------------------------------------------------------
(* Proposals of the automatic engine.                                      *)

\* Mutant: decisions are forgotten by every reconciliation.
NoDecision(d, n) == None

\* previous_decisions: those of the last result, by proposal.
PreviousDecision(d, n) ==
    IF d.recon # None /\ n \in DOMAIN d.recon.proposals
    THEN d.recon.proposals[n].decision ELSE None

\* An explicit decision of the user wins over the automatic status.
Decided(d, n, proposal) ==
    LET decision == PreviousDecision(d, n)
    IN  [proposal EXCEPT !.decision = decision,
                         !.status = IF decision = None THEN @ ELSE decision.status]

ContoursOf(O) == UNION {o.contours : o \in O}

\* Mutant: an automatic verification survives the representations set aside.
StatusOfCounted(counted, aside) == Weakest({o.status : o \in counted})

\* Setting a representation aside never raises confidence.
AutomaticStatus(counted, aside) ==
    IF aside # {} /\ \A o \in counted : o.status = "auto_verifie" THEN "a_confirmer"
    ELSE Weakest({o.status : o \in counted})

\* The surface annotated for several representations, when one is.
AnnotatedSum(O) ==
    IF O = {} THEN None ELSE MapThenSumSet(LAMBDA o : o.annotated, O)

Surfaces(geometric, annotated) ==
    [geometric |-> geometric, annotated |-> annotated,
     proposed |-> IF annotated = None THEN geometric ELSE annotated]

\* The proposal of the occurrences G of a number, of which some count.
ProposalOf(G, counted, surfaces, automatic) ==
    [contours |-> ContoursOf(counted),
     aside |-> ContoursOf(G \ counted) \ ContoursOf(counted),
     texts |-> {o.anchor : o \in G},
     geometric |-> surfaces.geometric, annotated |-> surfaces.annotated,
     proposed |-> surfaces.proposed,
     automatic |-> automatic, status |-> automatic,
     decision |-> None, origin |-> "legacy"]
LegacyProposal(G, counted) ==
    ProposalOf(G, counted,
               Surfaces(MapThenSumSet(LAMBDA o : o.geometric, counted),
                        AnnotatedSum({o \in counted : o.annotated # None})),
               AutomaticStatus(counted, G \ counted))

OfNumber(O, n) == {o \in O : o.number = n}
LegacyProposals(d, O) ==
    [n \in {o.number : o \in O} |->
         Decided(d, n, LegacyProposal(OfNumber(O, n), Counted(d, OfNumber(O, n))))]
CountedAnchors(d, O) ==
    UNION {{o.anchor : o \in Counted(d, OfNumber(O, n))} : n \in {o.number : o \in O}}

-----------------------------------------------------------------------------
(* Business zones and annexes.                                             *)

Zone(category, origin) ==
    [category |-> category, status |-> "non_resolu", lot |-> None, origin |-> origin]
HoldingProposals(proposals, c) == {n \in DOMAIN proposals : c \in proposals[n].contours}
Proposed(zone, proposals, c) ==
    [zone EXCEPT !.status = proposals[CHOOSE n \in HoldingProposals(proposals, c) : TRUE].status]

\* _single_contact: it touches one lot and keeps clear of the others.
GapTo(p, c, contours) == Min({Gap(p.contours[c], p.contours[q]) : q \in contours})
Touches(p, c, proposals, n) ==
    proposals[n].contours # {} /\ GapTo(p, c, proposals[n].contours) = 0
Clear(p, c, proposals, n) ==
    proposals[n].contours # {} =>
        4 * GapTo(p, c, proposals[n].contours) >= Max({2, Size(p.contours[c])})
Contacts(p, c, proposals, numbers) ==
    LET touching == {n \in numbers : Touches(p, c, proposals, n)}
    IN  IF /\ Cardinality(touching) = 1
           /\ \A n \in numbers \ touching : Clear(p, c, proposals, n)
        THEN touching ELSE {}

\* Mutant: of several lots near, one is proposed.
SuggestOne(d, c, proposals, numbers) ==
    IF numbers = {} THEN {} ELSE {CHOOSE n \in numbers : TRUE}

\* The lots an annex may be proposed: the only one near, or the only one it
\* touches among several.
Suggestions(d, c, proposals, numbers) ==
    IF Cardinality(numbers) <= 1 THEN numbers ELSE Contacts(d.plan, c, proposals, numbers)
Suggested(d, c, anchors, radius, proposals) ==
    Suggestions(d, c, proposals,
                Values(d.plan, Near(d.plan, OnSheet(d.plan, anchors, d.plan.contours[c].sheet),
                                    Center(d.plan.contours[c]), radius)))

Attached(d, c) == d.zones[c] # None /\ d.zones[c].lot # None

\* Mutant: a suggestion replaces what the user attached.
SuggestAlways(d, c, zone, suggested) ==
    IF suggested = {} THEN zone
    ELSE [zone EXCEPT !.status = "a_confirmer", !.lot = CHOOSE n \in suggested : TRUE]

\* _annex_attachment: what the user attached, a suggestion, or nothing.
Annex(d, c, zone, suggested) ==
    IF Attached(d, c)
    THEN [zone EXCEPT !.status = "confirme_manuel", !.lot = d.zones[c].lot]
    ELSE IF suggested = {} THEN zone
    ELSE [zone EXCEPT !.status = "a_confirmer", !.lot = CHOOSE n \in suggested : TRUE]

\* _build_global_checks, those that depend on the proposals (the others are
\* in Workflow): the checks that block the dossier.
Unsettled == {"a_confirmer", "non_resolu", "contradictoire", "a_revoir"}
Blocking(proposals) ==
    {check \in {"zones_non_reutilisees", "propositions_completes", "reconciliation_resolue"} :
       \/ /\ check = "zones_non_reutilisees"
          /\ \E n, m \in DOMAIN proposals :
               n # m /\ proposals[n].contours \intersect proposals[m].contours # {}
       \/ /\ check = "propositions_completes"
          /\ \E n \in DOMAIN proposals :
               proposals[n].contours = {} \/ proposals[n].proposed <= 0
       \/ /\ check = "reconciliation_resolue"
          /\ \E n \in DOMAIN proposals : proposals[n].status \in Unsettled}

\* A contour is on one layer: principal when a lot may hold it, else annex.
LegacyZone(d, c, proposals, anchors) ==
    IF d.plan.contours[c].layer \in AnnexLayers
    THEN Annex(d, c, Zone("secondaire_annexe", "legacy"),
               Suggested(d, c, anchors, LotRadius, proposals))
    ELSE IF HoldingProposals(proposals, c) = {} THEN Zone("principale", "legacy")
    ELSE Proposed(Zone("principale", "legacy"), proposals, c)

LegacyResult(d, proposals, anchors, excluded, business) ==
    [proposals |-> proposals,
     business |-> [c \in business |-> LegacyZone(d, c, proposals, anchors)],
     excluded |-> excluded,
     unresolved |-> Contours(d) \ (business \union excluded),
     blocking |-> Blocking(proposals)]

\* reconcile_legacy, of the occurrences of the plan.
LegacyOf(d, O) ==
    LegacyResult(d, LegacyProposals(d, O), CountedAnchors(d, O),
                 {c \in Contours(d) : Excluded(d, c)},
                 OnLayers(d, PrincipalLayers \union AnnexLayers))
ReconcileLegacy(d) == LegacyOf(d, Occurrences(d))
=============================================================================
