----------------------------- MODULE ProfileFit -----------------------------
(***************************************************************************)
(* What the user is shown of a plan before choosing a profile and after    *)
(* it was analysed: the check of a profile (app/profiles/evaluation.py),   *)
(* its compatibility and the recommendation (app/profiles/                 *)
(* compatibility.py) and the quick diagnostic (app/quick_analysis.py).     *)
(* Facts are modelled, their wording is not.                               *)
(***************************************************************************)
EXTENDS ProfiledProposals

-----------------------------------------------------------------------------
(* Check of a profile on an inspected plan: no contour is excluded yet, and *)
(* the surfaces are those of the unit that the profile imposes.             *)

ShownReading(f, p) == ReadPlan(f, p, {})

\* Mutant: contours without a lot number count as identified.
NumberedByRole(reading) == DOMAIN reading.lot

Numbered(reading) == Identified(reading)
Annotated(reading) == {n \in LotsOf(reading) : AnnotationTexts(reading, Members(reading, n)) # {}}

Coherent(f, p, C, texts) ==
    Accepts(f.tolerance, MapThenSumSet(LAMBDA c : Size(p.contours[c]) * Metres[f.unit], C),
            MapThenSumSet(LAMBDA t : p.texts[t].value, texts))

UnitConflict(f, p) == p.unit # None /\ p.unit # f.unit
Uncovered(reading) == ByRole(reading, {None})
Doubts(reading) == Doubted(reading, DOMAIN reading.lot)

\* What the profile lacks to read this plan.
Incomplete(reading) ==
    IF DOMAIN reading.lot = {} THEN {"surface_principale"}
    ELSE IF Numbered(reading) = {} THEN {"numero_de_lot"} ELSE {}

\* And what it leaves open, beside the doubts on the numbers.
Warned(f, p, reading, w) ==
    \/ w = "unite" /\ UnitConflict(f, p)
    \/ w = "geometrie" /\ \E c \in DOMAIN p.contours :
                             SpaceAllowed(f, ContourSpace(p, c)) /\ Crossing(f, p, c)
    \/ w = "roles" /\ \E l \in DOMAIN f.roles : Cardinality(f.roles[l]) > 1
    \/ w = "numeros_de_lot" /\ Numbered(reading) # DOMAIN reading.lot
    \/ w = "surfaces_annotees" /\ Annotated(reading) # LotsOf(reading)
    \/ w = "ecarts_de_surface" /\ \E n \in Annotated(reading) :
          ~Coherent(f, p, Members(reading, n), AnnotationTexts(reading, Members(reading, n)))
    \/ w = "niveaux" /\ (~f.levels \/ \E c \in DOMAIN reading.lot : reading.level[c] = None)
    \/ w = "annexes" /\ \E c \in ByRole(reading, {"annexe"}) :
                           ~(f.annexInside /\ LotInside(f, p, c) # None)
    \/ w = "versions" /\ f.markers /\ Texts(p, "mention") # {}

Warnings == {"unite", "geometrie", "roles", "numeros_de_lot", "surfaces_annotees",
             "ecarts_de_surface", "niveaux", "annexes", "versions"}

\* evaluate_profile: the conclusion shown beside the facts.
Conclusion(f, p, reading) ==
    IF Incomplete(reading) # {} THEN "incomplet"
    ELSE IF Doubts(reading) # {} \/ \E w \in Warnings : Warned(f, p, reading, w)
    THEN "avertissements" ELSE "complet"

-----------------------------------------------------------------------------
(* Compatibility and recommendation.                                       *)

\* assess, without a warning.
Fits(f, p, reading) ==
    /\ Numbered(reading) = DOMAIN reading.lot
    /\ Annotated(reading) = LotsOf(reading)
    /\ Doubts(reading) = {}
    /\ f.levels => LevelTexts(f, p) # {}
    /\ Uncovered(reading) = {}

\* Mutant: a profile that reads no lot is shown with a warning only.
RankWithoutIncomplete(f, p, reading) ==
    IF UnitConflict(f, p) THEN 3 ELSE IF Fits(f, p, reading) THEN 1 ELSE 2

\* 1 compatible, 2 with warnings, 3 hardly.
Rank(f, p, reading) ==
    IF Incomplete(reading) # {} \/ UnitConflict(f, p) THEN 3
    ELSE IF Fits(f, p, reading) THEN 1 ELSE 2

\* fallback_zones: contours the profile leaves to the automatic engine.
Fallback(reading) == Uncovered(reading) \union (DOMAIN reading.lot \ Numbered(reading))

FactsOf(f, p, reading) ==
    [rank |-> Rank(f, p, reading), identified |-> Cardinality(Numbered(reading)),
     uncovered |-> Cardinality(Uncovered(reading))]
Facts(f, p) == FactsOf(f, p, ShownReading(f, p))

Dominates(a, b) ==
    /\ a.identified >= b.identified /\ a.uncovered <= b.uncovered
    /\ a.identified > b.identified \/ a.uncovered < b.uncovered

\* recommend, of the profiles in the domain of facts.
Best(facts) == Min({facts[k].rank : k \in DOMAIN facts})
Contenders(facts) == {k \in DOMAIN facts : facts[k].rank = Best(facts)}
Winners(facts) ==
    IF DOMAIN facts = {} \/ Best(facts) = 3 THEN {}
    ELSE {k \in Contenders(facts) :
            \A other \in Contenders(facts) \ {k} : Dominates(facts[k], facts[other])}

-----------------------------------------------------------------------------
(* Quick diagnostic of an analysed plan.                                   *)

Proposals(d) == d.recon.proposals
WithStatus(d, statuses) == {n \in DOMAIN Proposals(d) : Proposals(d)[n].status \in statuses}
Grouped(d) == UNION {Proposals(d)[n].contours \union Proposals(d)[n].aside : n \in DOMAIN Proposals(d)}

\* Mutant: what is in no proposal is no work left, annexes apart.
UnmatchedAnnexes(d) ==
    {c \in DOMAIN d.recon.business \ Grouped(d) :
       /\ d.recon.business[c].status # "confirme_manuel"
       /\ d.recon.business[c].category = "secondaire_annexe"}

\* Business zones in no proposal; common parts of the profile are settled.
Unmatched(d) ==
    {c \in DOMAIN d.recon.business \ Grouped(d) :
       /\ d.recon.business[c].status # "confirme_manuel"
       /\ ~(d.recon.business[c].category = "commune" /\ d.recon.business[c].origin = "profil")}

Burden(d) ==
    Cardinality(WithStatus(d, Unsettled))
      + Cardinality(Unmatched(d))

StructuralZones(d) ==
    {c \in DOMAIN d.recon.business : d.recon.business[c].category # "secondaire_annexe"}

\* Good: at most a fifth of the structure is left aside.
Good(d) ==
    /\ d.unit # None
    /\ \E s \in DOMAIN d.sheet : d.sheet[s] \notin Gone
    /\ DOMAIN Proposals(d) # {}
    /\ 2 * Cardinality(WithStatus(d, {"auto_verifie"})) > Cardinality(DOMAIN Proposals(d))
    /\ WithStatus(d, {"contradictoire"}) = {}
    /\ 5 * Cardinality(Unmatched(d) \intersect StructuralZones(d))
         <= Max({1, Cardinality(StructuralZones(d))})
\* workload "faible": no association to take over.
NothingLeft(d) == Good(d) /\ Burden(d) = 0

\* Mutant: the number of contours is not looked at.
ReasonByTitle(d, n) ==
    IF \E c \in Proposals(d)[n].contours : d.sheet[d.plan.contours[c].sheet] # "retenue"
    THEN "planche_non_retenue" ELSE "titre_generique"

\* _missing_reasons, for a proposal of the automatic engine to confirm.
MissingReason(d, n) ==
    LET proposal == Proposals(d)[n] IN
    IF \E c \in proposal.contours : d.sheet[d.plan.contours[c].sheet] # "retenue"
    THEN "planche_non_retenue"
    ELSE IF Cardinality(proposal.contours) < MinimumContours THEN "un_seul_contour"
    ELSE "titre_generique"
=============================================================================
