------------------------- MODULE ProfiledProposals -------------------------
(***************************************************************************)
(* Reconciliation with a drawing profile (app/reconciliation/profiled.py): *)
(* the snapshot of the profile decides wherever it has a rule, and the     *)
(* automatic engine fills what it leaves undecided.  "reading" is what     *)
(* read_plan made of the plan, "legacy" the automatic result.              *)
(***************************************************************************)
EXTENDS LotProposals

Human(d) == {c \in Contours(d) : HumanExcluded(d, c)}

-----------------------------------------------------------------------------
(* A lot that the profile numbers.                                         *)

\* Sources that disagree, or several drawing spaces, leave a doubt.
Doubted(reading, C) == {c \in C : reading.lot[c].conflict \/ reading.lot[c].ambiguous}
Doubtful(p, reading, C) ==
    Doubted(reading, C) # {} \/ Cardinality({ContourSpace(p, c) : c \in C}) > 1

ProfileStatus(f, surfaces, doubtful) ==
    IF surfaces.annotated = None THEN "non_resolu"
    ELSE IF ~Accepts(f.tolerance, surfaces.geometric, surfaces.annotated)
    THEN IF f.conflict = "signaler" THEN "contradictoire" ELSE "a_confirmer"
    ELSE IF doubtful THEN "a_confirmer" ELSE "auto_verifie"

\* One annotation may be read for several contours: it counts once.
AnnotationTexts(reading, C) == {reading.surface[c].text : c \in C} \ {None}
AnnotatedBy(p, texts) ==
    IF texts = {} THEN None ELSE MapThenSumSet(LAMBDA t : p.texts[t].value, texts)

\* The profile may hold the geometry true when the two disagree.
ByPriority(f, surfaces) ==
    IF /\ surfaces.annotated # None /\ f.conflict = "geometrie"
       /\ ~Accepts(f.tolerance, surfaces.geometric, surfaces.annotated)
    THEN [surfaces EXCEPT !.proposed = surfaces.geometric] ELSE surfaces

\* _lot_proposal, of the contours C of a number.
ProfileProposalOf(reading, C, surfaces, status) ==
    [contours |-> C, aside |-> {}, texts |-> {reading.lot[c].text : c \in C},
     geometric |-> surfaces.geometric, annotated |-> surfaces.annotated,
     proposed |-> surfaces.proposed, automatic |-> status, status |-> status,
     decision |-> None, origin |-> "profil"]
WithSurfaces(d, f, reading, C, surfaces) ==
    ProfileProposalOf(reading, C, ByPriority(f, surfaces),
                      ProfileStatus(f, surfaces, Doubtful(d.plan, reading, C)))
ProfileProposal(d, f, reading, C) ==
    WithSurfaces(d, f, reading, C,
        Surfaces(TotalArea(d, C), AnnotatedBy(d.plan, AnnotationTexts(reading, C))))

-----------------------------------------------------------------------------
(* What the profile says of each contour.                                  *)

\* Mutant: the profile is asked first, the user afterwards.
Unskipped(d) == {}

\* The contours a user excluded are not read.
Skipped(d) == Human(d)

\* Set aside by a geometric rule, or by a role unless its layer is retained.
ProfileExcluded(d, reading) ==
    (Contours(d) \ (Skipped(d) \union DOMAIN reading.role))
      \union {c \in ByRole(reading, SetAsideRoles) : d.layer[d.plan.contours[c].layer] # "retenue"}

\* The contours that carry a lot number, and the number of each lot.
Identified(reading) == {c \in DOMAIN reading.lot : reading.lot[c].value # None}
LotsOf(reading) == {reading.lot[c].value : c \in DOMAIN reading.lot} \ {None}
Members(reading, n) == {c \in DOMAIN reading.lot : reading.lot[c].value = n}

\* Contours the profile has no rule for: the automatic engine decides.
Undecided(d, reading) ==
    DOMAIN reading.role \ (ProfileExcluded(d, reading) \union ByRole(reading, ZoneRoles))

\* Mutant: the automatic engine may use every business zone.
UsableAll(d, reading, legacy) == DOMAIN legacy.business

\* legacy_usable: what the automatic engine may still make a lot of.
LegacyUsable(d, reading, legacy) ==
    (DOMAIN reading.lot \ Identified(reading))
      \union (Undecided(d, reading) \intersect DOMAIN legacy.business)

-----------------------------------------------------------------------------
(* The result.                                                             *)

CategoryByRole == [surface_principale |-> "principale", annexe |-> "secondaire_annexe",
                   partie_commune |-> "commune"]

\* The lots of the automatic engine that the profile does not contradict.
Completing(reading, legacy, usable) ==
    {n \in DOMAIN legacy.proposals \ LotsOf(reading) :
       legacy.proposals[n].contours \subseteq usable}

HybridProposals(d, f, reading, legacy, usable) ==
    [n \in LotsOf(reading) \union Completing(reading, legacy, usable) |->
        Decided(d, n,
            IF n \in LotsOf(reading) THEN ProfileProposal(d, f, reading, Members(reading, n))
            ELSE [legacy.proposals[n] EXCEPT !.aside = @ \intersect usable])]

\* with_proposal_status.
WithProposal(zone, proposals, c) ==
    IF HoldingProposals(proposals, c) # {} THEN Proposed(zone, proposals, c)
    ELSE IF zone.category = "principale" THEN [zone EXCEPT !.status = "non_resolu"]
    ELSE zone

\* The lot numbers that the annexes of the profile may be near.
ProfileAnchors(proposals) ==
    UNION {proposals[n].texts : n \in {m \in DOMAIN proposals : proposals[m].origin = "profil"}}

\* annex_state.
AnnexNumbers(d, f, proposals, c, inside) ==
    IF f.annexInside /\ inside # None THEN {inside}
    ELSE IF f.annexFallback = "rien" THEN {}
    ELSE Suggested(d, c, ProfileAnchors(proposals), f.lotRadius, proposals)

ProfileZone(d, f, reading, proposals, c) ==
    IF reading.role[c] = "annexe" /\ HoldingProposals(proposals, c) = {}
    THEN Annex(d, c, Zone("secondaire_annexe", "profil"),
               AnnexNumbers(d, f, proposals, c, LotInside(f, d.plan, c)))
    ELSE WithProposal(Zone(CategoryByRole[reading.role[c]], "profil"), proposals, c)

Combined(d, f, reading, legacy, proposals, ruled, undecided) ==
    [proposals |-> proposals,
     business |-> [c \in ruled \union (undecided \intersect DOMAIN legacy.business) |->
                     IF c \in ruled THEN ProfileZone(d, f, reading, proposals, c)
                     ELSE WithProposal(legacy.business[c], proposals, c)],
     excluded |-> Skipped(d) \union ProfileExcluded(d, reading)
                    \union (undecided \intersect legacy.excluded),
     unresolved |-> undecided \ (DOMAIN legacy.business \union legacy.excluded),
     blocking |-> Blocking(proposals)]

\* reconcile_with_profile.
ProfileOf(d, f, reading, legacy) ==
    Combined(d, f, reading, legacy,
             HybridProposals(d, f, reading, legacy, LegacyUsable(d, reading, legacy)),
             ByRole(reading, ZoneRoles), Undecided(d, reading))
ReconcileProfile(d, f) ==
    ProfileOf(d, f, ReadPlan(f, d.plan, Skipped(d)), ReconcileLegacy(d))

\* reconcile_dossier: always with the snapshot the dossier keeps.
Reconcile(d) ==
    [d EXCEPT !.recon = IF d.usage = None THEN ReconcileLegacy(d)
                        ELSE ReconcileProfile(d, d.usage)]
=============================================================================
