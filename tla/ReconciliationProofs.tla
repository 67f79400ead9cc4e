------------------------ MODULE ReconciliationProofs ------------------------
(***************************************************************************)
(* What holds of the review of a dossier for all plans, profiles, planches *)
(* and numbers, however long it lasts.  A handler changes the dossier and  *)
(* reconciles it: what reconciling makes of any dossier is in              *)
(* ProposalProofs; here are the handlers, and what one of them leaves to   *)
(* the next, the decisions and the zones of the user.                      *)
(***************************************************************************)
EXTENDS Reconciliation, ProposalProofs

-----------------------------------------------------------------------------
(* The dossier, its result apart.                                           *)

Zones == Ledger!Zones

Typed(d) ==
    /\ IsDossier(d)
    /\ d.stage \in {"analyse", "dossier"}
    /\ d.plan \in Plans
    /\ d.usage \in Profiles \union {None}
    /\ d.unit \in DOMAIN Metres \union {None}
    /\ d.sheet \in [Sheets -> ReviewStatuses]
    /\ d.layer \in [Layers -> ReviewStatuses]
    /\ d.zones \in [Contours(d) -> Zones \union {None}]
    /\ d.lots \subseteq Numbers
    /\ d.import \in Nat

\* A decision of the user on a proposal of d: a confirmation selected contours
\* that a lot may hold, and gave each of them to the lot.
DecisionsOn(d) == [status : Decisions, lot : Numbers, contours : SUBSET Contours(d)]
Taken(d, decision) ==
    decision # None =>
        /\ decision \in DecisionsOn(d)
        /\ \A c \in decision.contours : MayHold(d, c)
        /\ decision.status = "confirme_manuel" =>
             \A c \in decision.contours : d.zones[c] # None /\ d.zones[c].lot = decision.lot

\* What a handler reconciles.
Ready(d) == Typed(d) /\ \A n : Taken(d, PreviousDecision(d, n))

LEMMA DrawingsAreHandled ==
    ASSUME NEW d, Typed(d)
    PROVE  IsDossier(d) /\ Drawing(d.plan) /\ Handled(d.plan)
BY PlanAssumption DEF Typed, Handled, Drawing

LEMMA ReconcileTyped ==
    ASSUME NEW d, Typed(d)
    PROVE  Typed(Reconcile(d)) /\ SameInputs(d, Reconcile(d))
<1>1. IsDossier(Reconcile(d)) /\ SameInputs(d, Reconcile(d))
    BY DrawingsAreHandled, ReconcileFields
<1> QED
    BY <1>1 DEF Typed, SameInputs, SameDrawing, Contours

\* What a handler may change of a dossier.
LEMMA WithUnit ==
    ASSUME NEW d, Typed(d), NEW u \in DOMAIN Metres
    PROVE  LET e == [d EXCEPT !.unit = u]
           IN  /\ Typed(e) /\ e.unit = u
               /\ e.plan = d.plan /\ e.usage = d.usage /\ e.zones = d.zones
               /\ e.recon = d.recon /\ e.import = d.import /\ e.stage = d.stage
BY DEF Typed, IsDossier, Contours

LEMMA WithSheet ==
    ASSUME NEW d, Typed(d), NEW s \in Sheets, NEW review \in Reviews
    PROVE  LET e == [d EXCEPT !.sheet[s] = review]
           IN  /\ Typed(e)
               /\ e.plan = d.plan /\ e.usage = d.usage /\ e.zones = d.zones
               /\ e.recon = d.recon /\ e.import = d.import /\ e.stage = d.stage
BY ReconciliationAssumption DEF Typed, IsDossier, Contours

LEMMA WithLayer ==
    ASSUME NEW d, Typed(d), NEW l \in Layers, NEW review \in Reviews
    PROVE  LET e == [d EXCEPT !.layer[l] = review]
           IN  /\ Typed(e)
               /\ e.plan = d.plan /\ e.usage = d.usage /\ e.zones = d.zones
               /\ e.recon = d.recon /\ e.import = d.import /\ e.stage = d.stage
BY ReconciliationAssumption DEF Typed, IsDossier, Contours

\* A decision is put in the previous result, which the next one carries over.
Deciding(d, n, decision) == [d EXCEPT !.recon.proposals[n].decision = decision]

LEMMA WithDecision ==
    ASSUME NEW d, IsDossier(d), IsResult(d.recon), NEW n \in DOMAIN d.recon.proposals,
           Proposal(d.recon.proposals[n]), NEW decision, NEW e, e = Deciding(d, n, decision)
    PROVE  /\ IsDossier(e) /\ SameInputs(d, e) /\ IsResult(e.recon)
           /\ DOMAIN e.recon.proposals = DOMAIN d.recon.proposals
           /\ \A m \in DOMAIN d.recon.proposals :
                e.recon.proposals[m].decision
                  = IF m = n THEN decision ELSE d.recon.proposals[m].decision
<1> DEFINE p == [d.recon.proposals[n] EXCEPT !.decision = decision]
           P == [d.recon.proposals EXCEPT ![n] = p]
           r == [d.recon EXCEPT !.proposals = P]
           f == [d EXCEPT !.recon = r]
<1>1. e = f
    BY DEF Deciding
<1>2. p.decision = decision
    BY DEF Proposal
<1> HIDE DEF p
<1>3. /\ DOMAIN P = DOMAIN d.recon.proposals
      /\ \A m \in DOMAIN d.recon.proposals :
           P[m].decision = IF m = n THEN decision ELSE d.recon.proposals[m].decision
    BY <1>2
<1> HIDE DEF P
<1>4. IsResult(r) /\ r.proposals = P
    BY DEF IsResult
<1> HIDE DEF r
<1>5. IsDossier(f) /\ SameInputs(d, f) /\ f.recon = r
    BY DEF IsDossier, SameInputs, SameDrawing
<1> QED
    BY <1>1, <1>3, <1>4, <1>5

-----------------------------------------------------------------------------
(* The result of a dossier.                                                 *)

ProposalsOf(e) == e.recon.proposals
BusinessOf(e) == e.recon.business

\* The parts of what a result is.
OneLotOnly(e) == Counts(ProposalsOf(e)) /\ Prudent(ProposalsOf(e))
NumbersKnown(e) == DOMAIN ProposalsOf(e) \subseteq Numbers
DecisionsShown(e) ==
    \A n \in DOMAIN ProposalsOf(e) :
        LET proposal == ProposalsOf(e)[n] IN
        /\ Proposal(proposal)
        /\ Taken(e, proposal.decision)
        /\ proposal.automatic \in DOMAIN Priority
        /\ proposal.status = IF proposal.decision = None THEN proposal.automatic
                             ELSE proposal.decision.status
        /\ \A c \in proposal.contours \union proposal.aside : c \in Contours(e) /\ MayHold(e, c)
AnnexesShown(e) ==
    /\ DOMAIN BusinessOf(e) \subseteq Contours(e)
    /\ \A c \in DOMAIN BusinessOf(e) : Follows(e, c, BusinessOf(e)[c])

Resulted(e) ==
    /\ IsResult(e.recon)
    /\ OneLotOnly(e) /\ NumbersKnown(e) /\ DecisionsShown(e) /\ AnnexesShown(e)
    /\ AuthorityOf(e) /\ Measured(e) /\ AddedUp(e) /\ SafelySuggested(e)

\* The numbers of the proposals are those of the plan.
LEMMA LegacyNumbers ==
    ASSUME NEW d, Typed(d)
    PROVE  DOMAIN ReconcileLegacy(d).proposals \subseteq Numbers
<1>1. DOMAIN ReconcileLegacy(d).proposals = {o.number : o \in Occurrences(d)}
    BY DrawingsAreHandled, LegacyReconciled DEF LegacyHolds
<1>2. ASSUME NEW o \in Occurrences(d)
      PROVE  o.number \in Numbers
    BY OccurrenceFields, PlanAssumption DEF Anchors, Texts, Typed
<1> QED
    BY <1>1, <1>2

LEMMA ReconcileNumbers ==
    ASSUME NEW d, Typed(d)
    PROVE  NumbersKnown(Reconcile(d))
<1>1. IsDossier(d) /\ Drawing(d.plan) /\ Handled(d.plan)
    BY DrawingsAreHandled
<1>2. CASE d.usage = None
    BY <1>1, <1>2, ReconcileFields, LegacyNumbers DEF NumbersKnown, ProposalsOf
<1>3. CASE d.usage # None
    <2> DEFINE P == ReconcileProfile(d, d.usage).proposals
    <2>1. Reconcile(d).recon = ReconcileProfile(d, d.usage)
        BY <1>1, <1>3, ReconcileFields
    <2>2. DOMAIN P \subseteq LotsOf(ReadOf(d)) \union DOMAIN ReconcileLegacy(d).proposals
        BY <1>1, <1>3, ProfileReconciled DEF HybridHolds
    <2>3. d.usage \in Profiles /\ d.plan \in Plans /\ DOMAIN d.usage.lotSources \subseteq Nat
        BY <1>3, ReconciliationAssumption DEF Typed
    <2>4. LotsOf(ReadOf(d)) \subseteq Numbers
        <3> SUFFICES ASSUME NEW n \in LotsOf(ReadOf(d))
                     PROVE  n \in Numbers
            OBVIOUS
        <3>1. PICK t \in DOMAIN d.plan.texts :
                d.plan.texts[t].kind = d.usage.lotKind /\ d.plan.texts[t].value = n
            BY <1>1, <2>3, LotsAreWritten
        <3> QED
            BY <2>3, <3>1, PlanAssumption
    <2> QED
        BY <2>1, <2>2, <2>4, LegacyNumbers DEF NumbersKnown, ProposalsOf
<1> QED
    BY <1>2, <1>3

\* Reconciling a dossier whose decisions were taken on it gives such a result.
LEMMA ReconcileResulted ==
    ASSUME NEW d, Ready(d)
    PROVE  Typed(Reconcile(d)) /\ SameInputs(d, Reconcile(d)) /\ Resulted(Reconcile(d))
<1> DEFINE e == Reconcile(d)
           P == ProposalsOf(e)
<1>1. Typed(d) /\ IsDossier(d) /\ Drawing(d.plan) /\ Handled(d.plan)
    BY DrawingsAreHandled DEF Ready
<1>2. Typed(e) /\ SameInputs(d, e) /\ SameDrawing(d, e)
    BY <1>1, ReconcileTyped DEF SameInputs
<1>3. IsResult(e.recon) /\ ProposalsHold(d, P)
    BY <1>1, Reconciles DEF ProposalsOf
<1>4. AuthorityOf(e) /\ AddedUp(e) /\ SafelySuggested(e) /\ NumbersKnown(e)
    BY <1>1, ReconcileAuthority, ReconcileAddsUp, ReconcileSuggests, ReconcileNumbers
<1>5. OneLotOnly(e) /\ Measured(e)
    <2>1. d.unit \in DOMAIN Metres \union {None}
        BY <1>1 DEF Typed
    <2>2. Measured(e)
        BY <1>1, <2>1, ReconcileMeasures
    <2> QED
        BY <1>3, <2>2 DEF ProposalsHold, OneLotOnly
<1>6. \A decision : Taken(e, decision) <=> Taken(d, decision)
    BY <1>2 DEF Taken, SameDrawing, DecisionsOn, Contours, MayHold, LayerOf, RoleOf
<1>7. DecisionsShown(e)
    <2> SUFFICES ASSUME NEW n \in DOMAIN P
                 PROVE  /\ Proposal(P[n]) /\ Taken(e, P[n].decision)
                        /\ P[n].automatic \in DOMAIN Priority
                        /\ P[n].status = IF P[n].decision = None THEN P[n].automatic
                                         ELSE P[n].decision.status
                        /\ \A c \in P[n].contours \union P[n].aside : c \in Contours(e) /\ MayHold(e, c)
        BY DEF DecisionsShown
    <2>1. \A c : MayHold(e, c) <=> MayHold(d, c)
        BY <1>2 DEF SameDrawing, MayHold, LayerOf, RoleOf
    <2>2. Contours(e) = Contours(d)
        BY <1>2 DEF SameDrawing, Contours
    <2>3. P[n].decision = PreviousDecision(d, n) /\ Taken(d, PreviousDecision(d, n))
        BY <1>3 DEF ProposalsHold, Carries, Ready
    <2> HIDE DEF P, e
    <2> QED
        BY <1>3, <1>6, <2>1, <2>2, <2>3 DEF ProposalsHold, Carries
<1>8. AnnexesShown(e)
    <2>1. DOMAIN BusinessOf(e) \subseteq Contours(e)
        BY <1>1, <1>2, BusinessFields DEF BusinessOf, Contours, SameDrawing
    <2>2. \A c \in DOMAIN BusinessOf(e) : Follows(d, c, BusinessOf(e)[c])
        BY <1>1, ReconcileAnnexes DEF BusinessOf
    <2>3. \A c, z : Follows(d, c, z) => Follows(e, c, z)
        BY <1>2 DEF Follows, SameDrawing, MayBeAnnex, LayerOf, RoleOf, Attached
    <2> QED
        BY <2>1, <2>2, <2>3 DEF AnnexesShown
<1> QED
    BY <1>2, <1>3, <1>4, <1>5, <1>7, <1>8 DEF Resulted

-----------------------------------------------------------------------------
(* What the handlers do to the zones and to the decisions.                  *)

LEMMA WithZones ==
    ASSUME NEW d, IsDossier(d), NEW Z, NEW L
    PROVE  [d EXCEPT !.zones = Z, !.lots = L]
             = [stage |-> d.stage, plan |-> d.plan, usage |-> d.usage, unit |-> d.unit,
                sheet |-> d.sheet, layer |-> d.layer, zones |-> Z, lots |-> L,
                recon |-> d.recon, import |-> d.import]
<1> DEFINE f == [d EXCEPT !.zones = Z]
<1>1. [d EXCEPT !.zones = Z, !.lots = L] = [f EXCEPT !.lots = L]
    BY DEF IsDossier
<1>2. f = [stage |-> d.stage, plan |-> d.plan, usage |-> d.usage, unit |-> d.unit,
           sheet |-> d.sheet, layer |-> d.layer, zones |-> Z, lots |-> d.lots,
           recon |-> d.recon, import |-> d.import]
    BY DEF IsDossier
<1> HIDE DEF f
<1> QED
    BY <1>1, <1>2

LEMMA Associates ==
    ASSUME NEW d, Typed(d), NEW C, NEW lot \in Numbers \union {None}, NEW category \in ZoneKinds
    PROVE  LET e == Associate(d, C, lot, category)
           IN  /\ Typed(e)
               /\ e.plan = d.plan /\ e.usage = d.usage /\ e.unit = d.unit
               /\ e.recon = d.recon /\ e.import = d.import /\ e.stage = d.stage
               /\ e.zones = [c \in Contours(d) |->
                               IF c \in C /\ d.zones[c] = None THEN [lot |-> lot, category |-> category]
                               ELSE d.zones[c]]
<1> DEFINE z == [lot |-> lot, category |-> category]
           Z == [c \in Contours(d) |-> IF c \in C /\ d.zones[c] = None THEN z ELSE d.zones[c]]
           L == IF lot = None THEN d.lots ELSE d.lots \union {lot}
           e == [d EXCEPT !.zones = Z, !.lots = L]
<1>1. Associate(d, C, lot, category) = e
    BY DEF Associate, Typed
<1>2. z \in Zones
    BY DEF Zones, Ledger!Zones, Ledger!Kinds, ZoneKinds
<1> HIDE DEF z
<1>3. Z \in [Contours(d) -> Zones \union {None}]
    BY <1>2 DEF Typed
<1>4. L \subseteq Numbers
    BY DEF Typed
<1> HIDE DEF L, Z
<1>5. e = [stage |-> d.stage, plan |-> d.plan, usage |-> d.usage, unit |-> d.unit,
           sheet |-> d.sheet, layer |-> d.layer, zones |-> Z, lots |-> L,
           recon |-> d.recon, import |-> d.import]
    BY WithZones DEF Typed
<1> HIDE DEF e
<1>6. e.zones = Z /\ Typed(e) /\ e.plan = d.plan /\ e.usage = d.usage /\ e.unit = d.unit
      /\ e.recon = d.recon /\ e.import = d.import /\ e.stage = d.stage
    BY <1>3, <1>4, <1>5 DEF Typed, IsDossier, Contours
<1> QED
    BY <1>1, <1>6 DEF Z, z

LEMMA Detaches ==
    ASSUME NEW d, Typed(d), NEW q \in Contours(d)
    PROVE  LET e == Detached(d, q)
           IN  /\ Typed(e)
               /\ e.plan = d.plan /\ e.usage = d.usage /\ e.unit = d.unit
               /\ e.recon = d.recon /\ e.import = d.import /\ e.stage = d.stage
               /\ e.zones = [d.zones EXCEPT ![q] = None]
<1> DEFINE Z == [d.zones EXCEPT ![q] = None]
           e == [d EXCEPT !.zones = Z]
<1>1. Detached(d, q) = e
    BY DEF Detached
<1>2. Z \in [Contours(d) -> Zones \union {None}]
    BY DEF Typed
<1> HIDE DEF Z
<1>3. e.zones = Z /\ Typed(e) /\ e.plan = d.plan /\ e.usage = d.usage /\ e.unit = d.unit
      /\ e.recon = d.recon /\ e.import = d.import /\ e.stage = d.stage
    BY <1>2 DEF Typed, IsDossier, Contours
<1> QED
    BY <1>1, <1>3 DEF Z

\* The decisions remain when the zones of what a lot may hold stay.
Stays(d, e) ==
    \A c \in Contours(d) : MayHold(d, c) /\ d.zones[c] # None =>
                             e.zones[c] # None /\ e.zones[c].lot = d.zones[c].lot

LEMMA TakenStays ==
    ASSUME NEW d, NEW e, e.plan = d.plan, e.usage = d.usage, Stays(d, e),
           NEW decision, Taken(d, decision)
    PROVE  Taken(e, decision)
<1>1. DecisionsOn(e) = DecisionsOn(d) /\ \A c : MayHold(e, c) <=> MayHold(d, c)
    BY DEF DecisionsOn, Contours, MayHold, LayerOf, RoleOf
<1>2. CASE decision # None
    <2>1. decision \in DecisionsOn(d) /\ \A c \in decision.contours : MayHold(d, c)
        BY <1>2 DEF Taken
    <2>2. decision.contours \subseteq Contours(d)
        BY <2>1 DEF DecisionsOn
    <2> QED
        BY <1>1, <1>2, <2>1, <2>2 DEF Taken, Stays
<1> QED
    BY <1>2 DEF Taken

LEMMA DecisionsRemain ==
    ASSUME NEW d, DecisionsShown(d), NEW e, Typed(e), e.plan = d.plan, e.usage = d.usage,
           e.recon = d.recon, Stays(d, e)
    PROVE  Ready(e)
<1>1. ASSUME NEW n
      PROVE  Taken(e, PreviousDecision(e, n))
    <2>1. CASE n \in DOMAIN ProposalsOf(d) /\ PreviousDecision(e, n) = ProposalsOf(d)[n].decision
        BY <2>1, TakenStays DEF DecisionsShown
    <2>2. CASE PreviousDecision(e, n) = None
        BY <2>2 DEF Taken
    <2> QED
        BY <2>1, <2>2 DEF PreviousDecision, ProposalsOf
<1> QED
    BY <1>1 DEF Ready

\* The same with a decision on the proposal n.
LEMMA DecisionTaken ==
    ASSUME NEW d, Resulted(d), NEW e, Typed(e), e.plan = d.plan, e.usage = d.usage,
           e.recon = d.recon, Stays(d, e), NEW n \in DOMAIN ProposalsOf(d),
           NEW decision, Taken(e, decision), NEW f, f = Deciding(e, n, decision)
    PROVE  /\ Ready(f) /\ SameInputs(e, f) /\ IsResult(f.recon)
           /\ DOMAIN ProposalsOf(f) = DOMAIN ProposalsOf(d)
           /\ \A m \in DOMAIN ProposalsOf(d) :
                ProposalsOf(f)[m].decision = IF m = n THEN decision ELSE ProposalsOf(d)[m].decision
<1>1. IsDossier(e) /\ IsResult(e.recon) /\ Proposal(e.recon.proposals[n]) /\ n \in DOMAIN e.recon.proposals
    BY DEF Resulted, Typed, DecisionsShown, ProposalsOf
<1>2. /\ IsDossier(f) /\ SameInputs(e, f) /\ IsResult(f.recon)
      /\ DOMAIN ProposalsOf(f) = DOMAIN ProposalsOf(d)
      /\ \A m \in DOMAIN ProposalsOf(d) :
           ProposalsOf(f)[m].decision = IF m = n THEN decision ELSE ProposalsOf(d)[m].decision
    <2>1. /\ IsDossier(f) /\ SameInputs(e, f) /\ IsResult(f.recon)
          /\ DOMAIN f.recon.proposals = DOMAIN e.recon.proposals
          /\ \A m \in DOMAIN e.recon.proposals :
               f.recon.proposals[m].decision = IF m = n THEN decision ELSE e.recon.proposals[m].decision
        BY <1>1, WithDecision
    <2> QED
        BY <2>1 DEF ProposalsOf
<1>3. Typed(f)
    BY <1>2 DEF Typed, SameInputs, SameDrawing, Contours
<1>4. \A q : Taken(f, q) <=> Taken(e, q)
    BY <1>2 DEF SameInputs, SameDrawing, Taken, DecisionsOn, Contours, MayHold, LayerOf, RoleOf
<1>5. ASSUME NEW m
      PROVE  Taken(e, PreviousDecision(f, m))
    <2>1. CASE m \in DOMAIN ProposalsOf(d) /\ PreviousDecision(f, m) = ProposalsOf(d)[m].decision
        BY <2>1, TakenStays DEF DecisionsShown, Resulted
    <2>2. CASE PreviousDecision(f, m) = None
        BY <2>2 DEF Taken
    <2>3. PreviousDecision(f, m) = None \/ (m \in DOMAIN ProposalsOf(f) /\ PreviousDecision(f, m) = ProposalsOf(f)[m].decision)
        BY DEF PreviousDecision, ProposalsOf
    <2> QED
        BY <1>2, <2>1, <2>2, <2>3
<1>6. Ready(f)
    BY <1>3, <1>4, <1>5 DEF Ready
<1> QED
    BY <1>2, <1>6

-----------------------------------------------------------------------------
(* The inductive invariant.                                                 *)

\* Nothing is decided before a dossier is made of the analysis.
Undecided1 ==
    dossier.stage = "analyse" =>
        /\ asked = Undecided0
        /\ \A n \in DOMAIN ProposalsOf(dossier) : ProposalsOf(dossier)[n].decision = None

Counters ==
    /\ asked \in [Numbers -> Decisions \union {None}]
    /\ steps \in 0..MaxSteps
    /\ dossier.import <= steps

\* An analysis has no zones, and the unit of the profile that it applies.
Analysed(d) ==
    d.stage = "analyse" => /\ d.zones = NoZones(d.plan)
                           /\ d.usage # None => d.unit = d.usage.unit

Inv == Typed(dossier) /\ Resulted(dossier) /\ Undecided1 /\ Analysed(dossier) /\ Counters

-----------------------------------------------------------------------------
(* Plans and profiles.                                                      *)

Chosen(d, f) ==
    [d EXCEPT !.usage = f, !.unit = IF f = None THEN d.plan.unit ELSE f.unit, !.recon = None]

LEMMA ProfileChosen ==
    ASSUME NEW d, Typed(d), NEW f \in Profiles \union {None}
    PROVE  /\ WithProfile(d, f) = Reconcile(Chosen(d, f))
           /\ Ready(Chosen(d, f)) /\ Chosen(d, f).recon = None
           /\ Chosen(d, f).plan = d.plan /\ Chosen(d, f).zones = d.zones
           /\ Chosen(d, f).stage = d.stage /\ Chosen(d, f).import = d.import
           /\ Chosen(d, f).usage = f /\ (f # None => Chosen(d, f).unit = f.unit)
<1> DEFINE u == IF f = None THEN d.plan.unit ELSE f.unit
           e == [stage |-> d.stage, plan |-> d.plan, usage |-> f, unit |-> u,
                 sheet |-> d.sheet, layer |-> d.layer, zones |-> d.zones, lots |-> d.lots,
                 recon |-> None, import |-> d.import]
<1>1. WithProfile(d, f) = Reconcile(Chosen(d, f))
    BY DEF WithProfile, Chosen
<1>2. u \in DOMAIN Metres \union {None}
    BY PlanAssumption, ReconciliationAssumption DEF Typed
<1>3. Chosen(d, f) = [d EXCEPT !.usage = f, !.unit = u, !.recon = None]
    BY DEF Chosen
<1> HIDE DEF u
<1>4. IsDossier(d)
    BY DEF Typed
<1>5. Chosen(d, f) = e
    BY <1>3, <1>4 DEF IsDossier
<1>6. IsDossier(e)
    BY DEF IsDossier
<1>7. Typed(e)
    BY <1>2, <1>6 DEF Typed, Contours
<1>8. \A n : PreviousDecision(e, n) = None
    BY DEF PreviousDecision
<1>9. Ready(e)
    BY <1>7, <1>8 DEF Ready, Taken
<1>10. f # None => e.unit = f.unit
    BY DEF u
<1> QED
    BY <1>1, <1>5, <1>9, <1>10

LEMMA Blanks ==
    ASSUME NEW p \in Plans
    PROVE  /\ NoZones(p) \in [DOMAIN p.contours -> Zones \union {None}]
           /\ NoZones(p) = Ledger!Blank(DOMAIN p.contours)
BY DEF NoZones, Ledger!Blank

LEMMA PreparedFields ==
    ASSUME NEW p \in Plans
    PROVE  /\ Typed(Prepared(p)) /\ Prepared(p).zones = NoZones(p)
           /\ Prepared(p).stage = "analyse" /\ Prepared(p).import = 0
<1>1. IsDossier(Prepared(p))
    BY DEF Prepared, IsDossier
<1>2. p.unit \in DOMAIN Metres \union {None}
    BY PlanAssumption
<1> QED
    BY <1>1, <1>2, Blanks DEF Prepared, Typed, Contours, ReviewStatuses

LEMMA NewPlanFields ==
    ASSUME NEW d, Typed(d), NEW p \in Plans
    PROVE  /\ Ready(NewPlan(d, p)) /\ NewPlan(d, p).usage = d.usage
           /\ NewPlan(d, p).zones = NoZones(p) /\ NewPlan(d, p).recon = None
           /\ NewPlan(d, p).stage = d.stage /\ NewPlan(d, p).import = d.import + 1
<1> DEFINE S == [s \in Sheets |-> "candidate"]
           L == [l \in Layers |-> "candidate"]
           Z == NoZones(p)
           e == [stage |-> d.stage, plan |-> p, usage |-> d.usage, unit |-> p.unit,
                 sheet |-> S, layer |-> L, zones |-> Z, lots |-> {},
                 recon |-> None, import |-> d.import + 1]
<1>1. S \in [Sheets -> ReviewStatuses] /\ L \in [Layers -> ReviewStatuses]
    BY DEF ReviewStatuses
<1>2. NewPlan(d, p) = [d EXCEPT !.plan = p, !.unit = p.unit, !.sheet = S, !.layer = L,
                                !.zones = Z, !.lots = {}, !.recon = None, !.import = d.import + 1]
    BY DEF NewPlan
<1> HIDE DEF S, L, Z
<1>3. IsDossier(d) /\ d.import + 1 \in Nat
    BY DEF Typed
<1>4. NewPlan(d, p) = e
    BY <1>2, <1>3 DEF IsDossier
<1>5. IsDossier(e)
    BY DEF IsDossier
<1>6. p.unit \in DOMAIN Metres \union {None} /\ Z \in [DOMAIN p.contours -> Zones \union {None}]
    BY Blanks, PlanAssumption DEF Z
<1>7. Typed(e)
    BY <1>1, <1>3, <1>5, <1>6 DEF Typed, Contours
<1>8. \A n : PreviousDecision(e, n) = None
    BY DEF PreviousDecision
<1>9. Ready(e)
    BY <1>7, <1>8 DEF Ready, Taken
<1> QED
    BY <1>4, <1>9 DEF Z

-----------------------------------------------------------------------------
(* Every handler rebuilds the result of a dossier whose decisions hold.     *)

\* The proposals keep their decisions, but for those that the user takes now.
Decides(d) ==
    \/ asked' = Undecided0
    \/ /\ IsResult(d.recon)
       /\ DOMAIN ProposalsOf(d) = DOMAIN ProposalsOf(dossier)
       /\ \A n \in DOMAIN ProposalsOf(dossier) :
            \/ /\ asked'[n] = asked[n]
               /\ ProposalsOf(d)[n].decision = ProposalsOf(dossier)[n].decision
            \/ /\ ProposalsOf(d)[n].decision # None
               /\ ProposalsOf(d)[n].decision.status = asked'[n]

LedgerStep == [Ledger!Next]_(Ledger!vars)

Handles(d) ==
    /\ Ready(d) /\ dossier' = Reconcile(d)
    /\ d.stage = "analyse" => asked' = Undecided0 /\ d.recon = None
    /\ Analysed(d)
    /\ asked' \in [Numbers -> Decisions \union {None}]
    /\ steps' \in 0..MaxSteps /\ d.import <= steps'
    /\ Decides(d)
    /\ LedgerStep

LEMMA HandledInv ==
    ASSUME NEW d, Handles(d)
    PROVE  Inv'
<1>1. Typed(dossier') /\ SameInputs(d, dossier') /\ Resulted(dossier')
    BY ReconcileResulted DEF Handles
<1>2. Counters'
    BY <1>1 DEF Handles, Counters, SameInputs
<1>3. ASSUME dossier'.stage = "analyse"
      PROVE  /\ asked' = Undecided0
             /\ \A n \in DOMAIN ProposalsOf(dossier') : ProposalsOf(dossier')[n].decision = None
    <2>1. asked' = Undecided0 /\ d.recon = None
        BY <1>1, <1>3 DEF Handles, SameInputs
    <2>2. ProposalsHold(d, ProposalsOf(dossier'))
        BY Reconciles, DrawingsAreHandled DEF Handles, Ready, ProposalsOf
    <2> QED
        BY <2>1, <2>2 DEF ProposalsHold, Carries, PreviousDecision
<1>4. Undecided1'
    BY <1>3 DEF Undecided1, Undecided0
<1>5. Analysed(dossier')
    BY <1>1 DEF Handles, Analysed, SameInputs, SameDrawing
<1> QED
    BY <1>1, <1>2, <1>4, <1>5 DEF Inv

\* A handler that changes the zones, or nothing that the ledger sees.
LEMMA ZonesHandled ==
    ASSUME Inv, Handler, UNCHANGED asked, NEW e, Typed(e), dossier' = Reconcile(e),
           e.plan = dossier.plan, e.usage = dossier.usage, e.recon = dossier.recon,
           e.import = dossier.import, e.stage = dossier.stage, Stays(dossier, e), LedgerStep
    PROVE  Handles(e)
<1>1. Ready(e)
    BY DecisionsRemain DEF Inv, Resulted
<1>2. steps' \in 0..MaxSteps /\ e.import <= steps'
    <2>1. steps \in Nat /\ steps < MaxSteps /\ steps' = steps + 1 /\ MaxSteps \in Nat
        BY ReconciliationAssumption DEF Handler, Inv, Counters
    <2>2. e.import \in Nat /\ e.import <= steps
        BY DEF Typed, Inv, Counters
    <2> QED
        BY <2>1, <2>2
<1>3. asked' \in [Numbers -> Decisions \union {None}] /\ e.stage # "analyse"
    BY DEF Inv, Counters, Handler
<1>4. Decides(e)
    BY DEF Decides, Inv, Resulted, ProposalsOf
<1>5. Analysed(e)
    BY <1>3 DEF Analysed
<1> QED
    BY <1>1, <1>2, <1>3, <1>4, <1>5 DEF Handles

LEMMA ZonesLeft ==
    ASSUME Inv, Handler, UNCHANGED asked, NEW e, Typed(e), dossier' = Reconcile(e),
           e.plan = dossier.plan, e.usage = dossier.usage, e.recon = dossier.recon,
           e.import = dossier.import, e.stage = dossier.stage, e.zones = dossier.zones
    PROVE  Handles(e)
<1>1. Stays(dossier, e)
    BY DEF Stays
<1>2. dossier'.zones = dossier.zones /\ dossier'.import = dossier.import
    BY ReconcileTyped DEF SameInputs, SameDrawing
<1>3. LedgerStep
    BY <1>2 DEF LedgerStep, Ledger!vars
<1> QED
    BY <1>1, <1>3, ZonesHandled

LEMMA UnitHandled ==
    ASSUME Inv, NEW u \in DOMAIN Metres, ConfirmUnit(u)
    PROVE  \E d : Handles(d)
<1> DEFINE e == [dossier EXCEPT !.unit = u]
<1>1. Typed(dossier) /\ Handler /\ UNCHANGED asked /\ dossier' = Reconcile(e)
    BY DEF Inv, ConfirmUnit, Reconciled
<1>2. /\ Typed(e)
      /\ e.plan = dossier.plan /\ e.usage = dossier.usage /\ e.zones = dossier.zones
      /\ e.recon = dossier.recon /\ e.import = dossier.import /\ e.stage = dossier.stage
    BY <1>1, WithUnit
<1> HIDE DEF e
<1> QED
    BY <1>1, <1>2, ZonesLeft

LEMMA PlancheHandled ==
    ASSUME Inv, NEW s \in Sheets, NEW review \in Reviews, SetPlancheStatus(s, review)
    PROVE  \E d : Handles(d)
<1> DEFINE e == [dossier EXCEPT !.sheet[s] = review]
<1>1. Typed(dossier) /\ Handler /\ UNCHANGED asked /\ dossier' = Reconcile(e)
    BY DEF Inv, SetPlancheStatus, Reconciled
<1>2. /\ Typed(e)
      /\ e.plan = dossier.plan /\ e.usage = dossier.usage /\ e.zones = dossier.zones
      /\ e.recon = dossier.recon /\ e.import = dossier.import /\ e.stage = dossier.stage
    BY <1>1, WithSheet
<1> HIDE DEF e
<1> QED
    BY <1>1, <1>2, ZonesLeft

LEMMA LayerHandled ==
    ASSUME Inv, NEW l \in Layers, NEW review \in Reviews, SetLayerStatus(l, review)
    PROVE  \E d : Handles(d)
<1> DEFINE e == [dossier EXCEPT !.layer[l] = review]
<1>1. Typed(dossier) /\ Handler /\ UNCHANGED asked /\ dossier' = Reconcile(e)
    BY DEF Inv, SetLayerStatus, Reconciled
<1>2. /\ Typed(e)
      /\ e.plan = dossier.plan /\ e.usage = dossier.usage /\ e.zones = dossier.zones
      /\ e.recon = dossier.recon /\ e.import = dossier.import /\ e.stage = dossier.stage
    BY <1>1, WithLayer
<1> HIDE DEF e
<1> QED
    BY <1>1, <1>2, ZonesLeft

LEMMA ProfileHandled ==
    ASSUME Inv, NEW f \in Profiles \union {None}, AnalyseWithProfile(f)
    PROVE  \E d : Handles(d)
<1> DEFINE e == Chosen(dossier, f)
<1>1. Typed(dossier) /\ dossier.stage = "analyse" /\ dossier' = WithProfile(dossier, f)
    BY DEF Inv, AnalyseWithProfile
<1>2. /\ dossier' = Reconcile(e) /\ Ready(e) /\ e.recon = None
      /\ e.plan = dossier.plan /\ e.zones = dossier.zones
      /\ e.stage = dossier.stage /\ e.import = dossier.import
      /\ e.usage = f /\ (f # None => e.unit = f.unit)
    BY <1>1, ProfileChosen
<1> HIDE DEF e
<1>3. asked' = asked /\ steps' = steps /\ asked = Undecided0 /\ Counters
    BY <1>1 DEF AnalyseWithProfile, Inv, Undecided1
<1>4. dossier'.zones = dossier.zones /\ dossier'.import = dossier.import
    BY <1>2, ReconcileTyped DEF Ready, SameInputs, SameDrawing
<1>5. LedgerStep
    BY <1>4 DEF LedgerStep, Ledger!vars
<1>6. Analysed(e)
    BY <1>1, <1>2 DEF Analysed, Inv
<1>7. Handles(e)
    BY <1>2, <1>3, <1>5, <1>6 DEF Handles, Decides, Counters
<1> QED
    BY <1>7

LEMMA ImportHandled ==
    ASSUME Inv, NEW p \in Plans, AttachImport(p)
    PROVE  \E d : Handles(d)
<1> DEFINE g == NewPlan(dossier, p)
<1>1. Typed(dossier) /\ Handler /\ Counters /\ asked' = Undecided0
    BY DEF Inv, AttachImport
<1>2. /\ Ready(g) /\ g.usage = dossier.usage /\ g.zones = NoZones(p) /\ g.recon = None
      /\ g.stage = dossier.stage /\ g.import = dossier.import + 1
    BY <1>1, NewPlanFields
<1>3. dossier' = IF dossier.usage = None THEN Reconcile(g) ELSE WithProfile(g, dossier.usage)
    BY DEF AttachImport
<1> HIDE DEF g
<1>4. PICK e : /\ dossier' = Reconcile(e) /\ Ready(e) /\ e.zones = NoZones(p)
               /\ e.stage = "dossier" /\ e.import = dossier.import + 1
    <2>1. CASE dossier.usage = None
        BY <1>1, <1>2, <1>3, <2>1 DEF Handler
    <2>2. CASE dossier.usage # None
        <3>1. dossier.usage \in Profiles /\ Typed(g)
            BY <1>1, <1>2, <2>2 DEF Typed, Ready
        <3> QED
            BY <1>1, <1>2, <1>3, <2>2, <3>1, ProfileChosen DEF Handler
    <2> QED
        BY <2>1, <2>2
<1>5. steps' \in 0..MaxSteps /\ e.import <= steps'
    <2>1. steps \in Nat /\ steps < MaxSteps /\ steps' = steps + 1 /\ MaxSteps \in Nat
        BY <1>1, ReconciliationAssumption DEF Handler, Counters
    <2>2. dossier.import \in Nat /\ dossier.import <= steps
        BY <1>1 DEF Typed, Counters
    <2> QED
        BY <1>4, <2>1, <2>2
<1>6. asked' \in [Numbers -> Decisions \union {None}]
    BY <1>1 DEF Undecided0
<1>7. LedgerStep
    <2>1. dossier'.zones = NoZones(p) /\ dossier'.import = dossier.import + 1
        BY <1>4, ReconcileTyped DEF Ready, SameInputs, SameDrawing
    <2>2. Ledger!StartOver
        BY <2>1, Blanks DEF Ledger!StartOver
    <2> QED
        BY <2>2 DEF LedgerStep, Ledger!Next
<1>8. Handles(e)
    BY <1>1, <1>4, <1>5, <1>6, <1>7 DEF Handles, Decides, Analysed
<1> QED
    BY <1>8

\* Free contours of C that become zones of one lot, in the ledger.
LEMMA GivenInLedger ==
    ASSUME Typed(dossier), NEW C, NEW lot \in Numbers \union {None}, NEW category \in ZoneKinds,
           dossier'.import = dossier.import,
           dossier'.zones = [c \in Contours(dossier) |->
                               IF c \in C /\ dossier.zones[c] = None
                               THEN [lot |-> lot, category |-> category] ELSE dossier.zones[c]]
    PROVE  LedgerStep
<1> DEFINE z == [lot |-> lot, category |-> category]
           G == {c \in C \intersect Contours(dossier) : dossier.zones[c] = None}
<1>1. z \in Ledger!Zones
    BY DEF Ledger!Zones, Ledger!Kinds, ZoneKinds
<1>2. DOMAIN dossier.zones = Contours(dossier)
    BY DEF Typed
<1>3. dossier'.zones = [c \in DOMAIN dossier.zones |-> IF c \in G THEN z ELSE dossier.zones[c]]
    BY <1>2
<1>4. G \in SUBSET {c \in DOMAIN dossier.zones : Ledger!Available(c)}
    BY <1>2 DEF Ledger!Available
<1> HIDE DEF z, G
<1>5. Ledger!Give
    BY <1>1, <1>3, <1>4 DEF Ledger!Give
<1> QED
    BY <1>5 DEF LedgerStep, Ledger!Next

LEMMA ZoneHandled ==
    ASSUME Inv, NEW q \in DOMAIN dossier.zones, NEW lot \in Numbers \union {None},
           NEW category \in Categories, ValidateZone(q, lot, category)
    PROVE  \E d : Handles(d)
<1> DEFINE Q == {q}
           e == Associate(dossier, Q, lot, category)
<1>1. /\ Typed(dossier) /\ Handler /\ UNCHANGED asked /\ dossier' = Reconcile(e)
      /\ category \in ZoneKinds
    BY ReconciliationAssumption DEF Inv, ValidateZone, Reconciled
<1>2. /\ Typed(e)
      /\ e.plan = dossier.plan /\ e.usage = dossier.usage
      /\ e.recon = dossier.recon /\ e.import = dossier.import /\ e.stage = dossier.stage
      /\ e.zones = [c \in Contours(dossier) |->
                      IF c \in Q /\ dossier.zones[c] = None
                      THEN [lot |-> lot, category |-> category] ELSE dossier.zones[c]]
    BY <1>1, Associates
<1> HIDE DEF e, Q
<1>3. Stays(dossier, e)
    BY <1>2 DEF Stays
<1>4. LedgerStep
    <2>1. dossier'.zones = e.zones /\ dossier'.import = dossier.import
        BY <1>1, <1>2, ReconcileTyped DEF SameInputs, SameDrawing
    <2> QED
        BY <1>1, <1>2, <2>1, GivenInLedger
<1> QED
    BY <1>1, <1>2, <1>3, <1>4, ZonesHandled

\* A handler that takes a decision on a proposal.
LEMMA DecisionHandled ==
    ASSUME Inv, Handler, NEW e, Typed(e),
           e.plan = dossier.plan, e.usage = dossier.usage, e.recon = dossier.recon,
           e.import = dossier.import, e.stage = dossier.stage, Stays(dossier, e), LedgerStep,
           NEW n \in Numbers, n \in DOMAIN ProposalsOf(dossier),
           NEW decision, decision \in DecisionsOn(dossier), Taken(e, decision),
           NEW f, f = Deciding(e, n, decision), dossier' = Reconcile(f),
           asked' = [asked EXCEPT ![n] = decision.status]
    PROVE  Handles(f)
<1>1. Typed(dossier) /\ Resulted(dossier) /\ Counters
    BY DEF Inv
<1>2. /\ Ready(f) /\ SameInputs(e, f) /\ IsResult(f.recon)
      /\ DOMAIN ProposalsOf(f) = DOMAIN ProposalsOf(dossier)
      /\ \A m \in DOMAIN ProposalsOf(dossier) :
           ProposalsOf(f)[m].decision = IF m = n THEN decision ELSE ProposalsOf(dossier)[m].decision
    BY <1>1, DecisionTaken
<1>3. decision # None /\ decision.status \in Decisions
    BY <1>1, MarkerAssumption DEF DecisionsOn, Typed, Contours
<1>4. asked' \in [Numbers -> Decisions \union {None}]
    BY <1>1, <1>3 DEF Counters
<1>5. steps' \in 0..MaxSteps /\ f.import <= steps'
    <2>1. steps \in Nat /\ steps < MaxSteps /\ steps' = steps + 1 /\ MaxSteps \in Nat
        BY <1>1, ReconciliationAssumption DEF Handler, Counters
    <2>2. f.import \in Nat /\ f.import <= steps
        BY <1>1, <1>2 DEF Typed, Counters, SameInputs
    <2> QED
        BY <2>1, <2>2
<1>6. f.stage # "analyse"
    BY <1>2 DEF SameInputs, Handler
<1>7. Decides(f)
    <2>1. \A m \in DOMAIN ProposalsOf(dossier) :
             /\ m \in Numbers
             /\ asked'[m] = IF m = n THEN decision.status ELSE asked[m]
        BY <1>1 DEF Resulted, NumbersKnown, Counters
    <2> QED
        BY <1>2, <1>3, <2>1 DEF Decides
<1> QED
    BY <1>2, <1>4, <1>5, <1>6, <1>7 DEF Handles, Analysed

LEMMA MarkHandled ==
    ASSUME Inv, NEW n \in Numbers, MarkForReview(n)
    PROVE  \E d : Handles(d)
<1> DEFINE decision == [status |-> "a_revoir", lot |-> n,
                        contours |-> dossier.recon.proposals[n].contours]
           f == Deciding(dossier, n, decision)
<1>1. /\ Typed(dossier) /\ Handler /\ dossier' = Reconcile(f)
      /\ asked' = [asked EXCEPT ![n] = decision.status]
      /\ n \in DOMAIN ProposalsOf(dossier)
    BY DEF Inv, MarkForReview, Reconciled, Deciding, ProposalsOf
<1>2. \A c \in ProposalsOf(dossier)[n].contours : c \in Contours(dossier) /\ MayHold(dossier, c)
    BY <1>1 DEF Inv, Resulted, DecisionsShown
<1>3. decision \in DecisionsOn(dossier)
    BY <1>2 DEF DecisionsOn, Decisions, ProposalsOf
<1>4. Taken(dossier, decision)
    BY <1>2, <1>3 DEF Taken, ProposalsOf
<1> HIDE DEF decision
<1>5. Stays(dossier, dossier)
    BY DEF Stays
<1>6. dossier'.zones = dossier.zones /\ dossier'.import = dossier.import
    <2>1. SameInputs(dossier, f) /\ Ready(f)
        BY <1>1, <1>4, <1>5, DecisionTaken DEF Inv
    <2> QED
        BY <1>1, <2>1, ReconcileTyped DEF Ready, SameInputs, SameDrawing
<1>7. LedgerStep
    BY <1>6 DEF LedgerStep, Ledger!vars
<1> HIDE DEF f
<1>8. f = Deciding(dossier, n, decision)
    BY DEF f
<1> QED
    BY <1>1, <1>3, <1>4, <1>5, <1>7, <1>8, DecisionHandled

LEMMA LotHandled ==
    ASSUME Inv, NEW n \in Numbers, NEW lot \in Numbers, NEW category \in Categories,
           NEW selected \in SUBSET DOMAIN dossier.zones, ConfirmLot(n, selected, lot, category)
    PROVE  \E d : Handles(d)
<1> DEFINE e == Associate(dossier, selected, lot, category)
           decision == [status |-> "confirme_manuel", lot |-> lot, contours |-> selected]
           f == Deciding(e, n, decision)
           z == [lot |-> lot, category |-> category]
<1>1. /\ Typed(dossier) /\ Handler /\ dossier' = Reconcile(f)
      /\ asked' = [asked EXCEPT ![n] = decision.status]
      /\ n \in DOMAIN ProposalsOf(dossier) /\ category \in ZoneKinds
    BY ReconciliationAssumption DEF Inv, ConfirmLot, Reconciled, Deciding, ProposalsOf
<1>2. /\ Typed(e)
      /\ e.plan = dossier.plan /\ e.usage = dossier.usage
      /\ e.recon = dossier.recon /\ e.import = dossier.import /\ e.stage = dossier.stage
      /\ e.zones = [c \in Contours(dossier) |->
                      IF c \in selected /\ dossier.zones[c] = None THEN z ELSE dossier.zones[c]]
    BY <1>1, Associates
<1>3. \A c \in selected : /\ c \in Contours(dossier) /\ MayHold(dossier, c)
                          /\ dossier.zones[c] # None => dossier.zones[c].lot = lot
    <2>1. selected \subseteq ProposalsOf(dossier)[n].contours \union ProposalsOf(dossier)[n].aside
        BY DEF ConfirmLot, ProposalsOf
    <2>2. \A c \in selected : dossier.zones[c] # None => dossier.zones[c].lot = lot
        BY DEF ConfirmLot, Assignable
    <2> QED
        BY <1>1, <2>1, <2>2 DEF Inv, Resulted, DecisionsShown
<1>4. z.lot = lot /\ z # None
    BY MarkerAssumption, <1>1
<1>5. decision \in DecisionsOn(dossier)
    BY <1>3 DEF DecisionsOn, Decisions
<1> HIDE DEF e, z
<1>6. \A c : MayHold(e, c) <=> MayHold(dossier, c)
    BY <1>2 DEF MayHold, LayerOf, RoleOf
<1>7. Taken(e, decision)
    <2>1. decision \in DecisionsOn(e)
        BY <1>2, <1>5 DEF DecisionsOn, Contours
    <2>2. decision.contours = selected /\ decision.lot = lot
        OBVIOUS
    <2>3. \A c \in selected : MayHold(e, c) /\ e.zones[c] # None /\ e.zones[c].lot = lot
        BY <1>2, <1>3, <1>4, <1>6
    <2> HIDE DEF decision
    <2> QED
        BY <2>1, <2>2, <2>3 DEF Taken
<1>8. Stays(dossier, e)
    BY <1>2 DEF Stays
<1> HIDE DEF decision
<1>9. LedgerStep
    <2>1. SameInputs(e, f) /\ Ready(f)
        BY <1>1, <1>2, <1>7, <1>8, DecisionTaken DEF Inv
    <2>2. dossier'.zones = e.zones /\ dossier'.import = dossier.import
        BY <1>1, <1>2, <2>1, ReconcileTyped DEF Ready, SameInputs, SameDrawing
    <2> QED
        BY <1>1, <1>2, <2>2, GivenInLedger DEF z
<1> HIDE DEF f
<1>10. f = Deciding(e, n, decision)
    BY DEF f
<1> QED
    BY <1>1, <1>2, <1>5, <1>7, <1>8, <1>9, <1>10, DecisionHandled

\* An annex is no contour that a lot may hold: moving it changes no decision.
LEMMA AnnexIsApart ==
    ASSUME Inv, NEW c, IsAnnex(dossier, c)
    PROVE  c \in Contours(dossier) /\ ~MayHold(dossier, c)
BY HoldOrAnnex DEF Inv, Resulted, AnnexesShown, IsAnnex, BusinessOf, Follows

LEMMA AnnexHandled ==
    ASSUME Inv, NEW q \in DOMAIN dossier.zones, NEW lot \in Numbers \union {None}, AttachAnnex(q, lot)
    PROVE  \E d : Handles(d)
<1> DEFINE g == Detached(dossier, q)
           z == [lot |-> lot, category |-> "secondaire_annexe"]
<1>1. /\ Typed(dossier) /\ Handler /\ UNCHANGED asked
      /\ IsAnnex(dossier, q) /\ Movable(dossier, q)
    BY DEF Inv, AttachAnnex
<1>2. q \in Contours(dossier) /\ ~MayHold(dossier, q) /\ DOMAIN dossier.zones = Contours(dossier)
    BY <1>1, AnnexIsApart DEF Typed
<1>3. Ledger!Mobile(q)
    BY <1>1 DEF Movable, Ledger!Mobile, Ledger!Available
<1>4. /\ Typed(g)
      /\ g.plan = dossier.plan /\ g.usage = dossier.usage
      /\ g.recon = dossier.recon /\ g.import = dossier.import /\ g.stage = dossier.stage
      /\ g.zones = [dossier.zones EXCEPT ![q] = None]
    BY <1>1, <1>2, Detaches
<1>5. CASE lot = None
    <2>1. dossier' = Reconcile(g)
        BY <1>5 DEF AttachAnnex, Reconciled
    <2> HIDE DEF g
    <2>2. Stays(dossier, g)
        BY <1>2, <1>4 DEF Stays
    <2>3. dossier'.zones = g.zones /\ dossier'.import = dossier.import
        BY <1>4, <2>1, ReconcileTyped DEF SameInputs, SameDrawing
    <2>4. Ledger!Detach
        BY <1>3, <1>4, <2>3 DEF Ledger!Detach
    <2>5. LedgerStep
        BY <2>4 DEF LedgerStep, Ledger!Next
    <2> QED
        BY <1>1, <1>4, <2>1, <2>2, <2>5, ZonesHandled
<1>6. CASE lot # None
    <2> DEFINE Q == {q}
               kind == "secondaire_annexe"
               e == Associate(g, Q, lot, kind)
    <2>1. dossier' = Reconcile(e)
        BY <1>6 DEF AttachAnnex, Reconciled
    <2> HIDE DEF g, Q
    <2>2. kind \in ZoneKinds /\ z = [lot |-> lot, category |-> kind]
        BY DEF ZoneKinds
    <2> HIDE DEF kind, z
    <2>3. /\ Typed(e)
          /\ e.plan = dossier.plan /\ e.usage = dossier.usage
          /\ e.recon = dossier.recon /\ e.import = dossier.import /\ e.stage = dossier.stage
          /\ e.zones = [c \in Contours(g) |->
                          IF c \in Q /\ g.zones[c] = None THEN [lot |-> lot, category |-> kind]
                          ELSE g.zones[c]]
        <3>1. /\ Typed(e) /\ e.plan = g.plan /\ e.usage = g.usage
              /\ e.recon = g.recon /\ e.import = g.import /\ e.stage = g.stage
              /\ e.zones = [c \in Contours(g) |->
                              IF c \in Q /\ g.zones[c] = None THEN [lot |-> lot, category |-> kind]
                              ELSE g.zones[c]]
            <4>1. Typed(g) /\ kind \in ZoneKinds
                BY <1>4, <2>2
            <4> QED
                BY <4>1, Associates
        <3> HIDE DEF e
        <3> QED
            BY <1>4, <3>1
    <2> HIDE DEF e
    <2>4. Contours(g) = Contours(dossier)
        BY <1>4 DEF Contours
    <2>5. e.zones = [c \in Contours(dossier) |-> IF c = q THEN z ELSE dossier.zones[c]]
        BY <1>2, <1>4, <2>2, <2>3, <2>4 DEF Q
    <2>6. Stays(dossier, e)
        BY <1>2, <2>5 DEF Stays
    <2>7. dossier'.zones = e.zones /\ dossier'.import = dossier.import
        BY <2>1, <2>3, ReconcileTyped DEF SameInputs, SameDrawing
    <2>8. z \in {y \in Ledger!Zones : y.category = "secondaire_annexe"}
        BY DEF z, Ledger!Zones, Ledger!Kinds
    <2>9. Q \in SUBSET {c \in DOMAIN dossier.zones : Ledger!Mobile(c)}
        BY <1>3 DEF Q
    <2>10. \A c \in DOMAIN dossier.zones : IF c \in Q THEN dossier'.zones[c] = z
                                           ELSE dossier'.zones[c] = dossier.zones[c]
        BY <1>2, <2>5, <2>7 DEF Q
    <2>11. Ledger!Attach
        BY <1>2, <2>5, <2>7, <2>8, <2>9, <2>10 DEF Ledger!Attach
    <2>12. LedgerStep
        BY <2>11 DEF LedgerStep, Ledger!Next
    <2> QED
        BY <1>1, <2>1, <2>3, <2>6, <2>12, ZonesHandled
<1> QED
    BY <1>5, <1>6

LEMMA AnnexesHandled ==
    ASSUME Inv, AttachProposedAnnexes
    PROVE  \E d : Handles(d)
<1> DEFINE pending == Pending(dossier)
           Given == [c \in pending |-> [lot |-> dossier.recon.business[c].lot,
                                        category |-> "secondaire_annexe"]]
           Z == [c \in Contours(dossier) |-> IF c \in pending THEN Given[c] ELSE dossier.zones[c]]
           e == [dossier EXCEPT !.zones = Z]
<1>1. Typed(dossier) /\ Handler /\ UNCHANGED asked
    BY DEF Inv, AttachProposedAnnexes
<1>2. DOMAIN dossier.zones = Contours(dossier)
    BY <1>1 DEF Typed
<1>3. dossier' = Reconcile(e)
    BY <1>2 DEF AttachProposedAnnexes, Reconciled
<1>4. \A c \in pending : /\ c \in Contours(dossier) /\ ~MayHold(dossier, c)
                         /\ Movable(dossier, c)
                         /\ dossier.recon.business[c].lot \in Numbers
    <2>1. \A c \in pending : IsAnnex(dossier, c) /\ dossier.recon.business[c].lot \in dossier.lots
        BY DEF Pending
    <2>2. \A c \in pending : Movable(dossier, c)
        BY DEF AttachProposedAnnexes
    <2> QED
        BY <1>1, <2>1, <2>2, AnnexIsApart DEF Typed
<1>5. \A c \in pending : Given[c] \in {y \in Ledger!Zones : y.category = "secondaire_annexe"}
    BY <1>4 DEF Ledger!Zones, Ledger!Kinds
<1>6. \A c \in Contours(dossier) : c \notin pending => dossier.zones[c] \in Zones \union {None}
    BY <1>1 DEF Typed
<1> HIDE DEF Given
<1>7. pending \subseteq {c \in DOMAIN dossier.zones : Ledger!Mobile(c)}
    BY <1>2, <1>4 DEF Movable, Ledger!Mobile, Ledger!Available
<1> HIDE DEF pending
<1>8. Z \in [Contours(dossier) -> Zones \union {None}]
    BY <1>5, <1>6 DEF Zones
<1>9. /\ DOMAIN Z = Contours(dossier)
      /\ \A c \in Contours(dossier) : IF c \in pending THEN Z[c] = Given[c]
                                      ELSE Z[c] = dossier.zones[c]
    OBVIOUS
<1> HIDE DEF Z
<1>10. /\ Typed(e) /\ e.zones = Z
       /\ e.plan = dossier.plan /\ e.usage = dossier.usage
       /\ e.recon = dossier.recon /\ e.import = dossier.import /\ e.stage = dossier.stage
    BY <1>1, <1>8 DEF Typed, IsDossier, Contours
<1> HIDE DEF e
<1>11. Stays(dossier, e)
    BY <1>4, <1>9, <1>10 DEF Stays
<1>12. dossier'.zones = Z /\ dossier'.import = dossier.import
    BY <1>3, <1>10, ReconcileTyped DEF SameInputs, SameDrawing
<1>13. Ledger!Attach
    <2>1. \A c \in DOMAIN dossier.zones :
            IF c \in pending THEN dossier'.zones[c] \in {y \in Ledger!Zones : y.category = "secondaire_annexe"}
            ELSE dossier'.zones[c] = dossier.zones[c]
        BY <1>2, <1>5, <1>9, <1>12
    <2> QED
        BY <1>2, <1>7, <1>9, <1>12, <2>1 DEF Ledger!Attach
<1>14. LedgerStep
    BY <1>13 DEF LedgerStep, Ledger!Next
<1> QED
    BY <1>1, <1>3, <1>10, <1>11, <1>14, ZonesHandled

\* The result is about the plan and the zones, not about the stage.
LEMMA ResultedAgain ==
    ASSUME NEW d, Typed(d), Resulted(d), NEW e, Typed(e), SameDrawing(d, e), e.recon = d.recon
    PROVE  Resulted(e)
<1>1. ProposalsOf(e) = ProposalsOf(d) /\ BusinessOf(e) = BusinessOf(d) /\ Contours(e) = Contours(d)
    BY DEF ProposalsOf, BusinessOf, SameDrawing, Contours
<1>2. IsResult(e.recon) /\ OneLotOnly(e) /\ NumbersKnown(e)
    BY <1>1 DEF Resulted, OneLotOnly, NumbersKnown
<1>3. DecisionsShown(e)
    <2>1. \A c : MayHold(e, c) <=> MayHold(d, c)
        BY DEF SameDrawing, MayHold, LayerOf, RoleOf
    <2>2. \A decision : Taken(e, decision) <=> Taken(d, decision)
        BY <2>1 DEF Taken, SameDrawing, DecisionsOn, Contours
    <2> QED
        BY <1>1, <2>1, <2>2 DEF DecisionsShown, Resulted
<1>4. AnnexesShown(e)
    <2>1. \A c, z : Follows(d, c, z) => Follows(e, c, z)
        BY DEF Follows, SameDrawing, MayBeAnnex, LayerOf, RoleOf, Attached
    <2> QED
        BY <1>1, <2>1 DEF AnnexesShown, Resulted
<1>5. AuthorityOf(e)
    <2>1. Human(e) = Human(d) /\ \A c : c \in Grouped(e) <=> c \in Grouped(d)
        BY SameClassification, GroupedMember
    <2>2. e.usage = d.usage
        BY DEF SameDrawing
    <2> QED
        BY <2>1, <2>2, SameReadings DEF AuthorityOf, Resulted
<1>6. AddedUp(e)
    <2>1. \A a, b : Duplicate(e, a, b) <=> Duplicate(d, a, b)
        BY DEF Duplicate, SameDrawing
    <2> QED
        BY <2>1, SameOccurrences DEF AddedUp, Resulted
<1>7. SafelySuggested(e)
    <2>1. \A n : Counted(e, OfNumber(Occurrences(d), n)) = Counted(d, OfNumber(Occurrences(d), n))
        BY SameCounted, OccurrencesRanked, DrawingsAreHandled
    <2>2. Occurrences(e) = Occurrences(d) /\ e.plan = d.plan /\ e.usage = d.usage
        BY SameOccurrences DEF SameDrawing
    <2> QED
        BY <2>1, <2>2 DEF SafelySuggested, Resulted
<1>8. Measured(e)
    <2>1. \A C : TotalArea(e, C) = TotalArea(d, C)
        BY SameAreas
    <2> QED
        BY <2>1 DEF Measured, Resulted
<1> QED
    BY <1>2, <1>3, <1>4, <1>5, <1>6, <1>7, <1>8 DEF Resulted

LEMMA PromoteFields ==
    ASSUME Inv, Promote
    PROVE  /\ Typed(dossier') /\ SameDrawing(dossier, dossier')
           /\ dossier'.recon = dossier.recon /\ dossier'.import = dossier.import
           /\ dossier'.stage = "dossier"
<1>1. Typed(dossier) /\ dossier' = [dossier EXCEPT !.stage = "dossier"]
    BY DEF Inv, Promote
<1> QED
    BY <1>1 DEF Typed, IsDossier, Contours, SameDrawing

LEMMA PromoteInv ==
    ASSUME Inv, Promote
    PROVE  Inv' /\ LedgerStep
<1>1. Resulted(dossier')
    BY PromoteFields, ResultedAgain DEF Inv
<1>2. Counters'
    BY PromoteFields DEF Inv, Counters, Promote
<1>3. Undecided1'
    BY PromoteFields DEF Undecided1
<1>4. LedgerStep
    BY PromoteFields DEF LedgerStep, Ledger!vars, SameDrawing
<1>5. Analysed(dossier')
    BY PromoteFields DEF Analysed
<1> QED
    BY <1>1, <1>2, <1>3, <1>4, <1>5, PromoteFields DEF Inv

\* A step promotes the dossier, or rebuilds its result.
LEMMA NextHandled ==
    ASSUME Inv, Next
    PROVE  Promote \/ \E d : Handles(d)
<1>1. CASE \E f \in Profiles \union {None} : AnalyseWithProfile(f)
    BY <1>1, ProfileHandled
<1>2. CASE \E p \in Plans : AttachImport(p)
    BY <1>2, ImportHandled
<1>3. CASE \E u \in DOMAIN Metres : ConfirmUnit(u)
    BY <1>3, UnitHandled
<1>4. CASE \E s \in Sheets, review \in Reviews : SetPlancheStatus(s, review)
    BY <1>4, PlancheHandled
<1>5. CASE \E l \in Layers, review \in Reviews : SetLayerStatus(l, review)
    BY <1>5, LayerHandled
<1>6. CASE \E n \in Numbers : MarkForReview(n)
    BY <1>6, MarkHandled
<1>7. CASE \E c \in DOMAIN dossier.zones, lot \in Numbers \union {None}, category \in Categories :
             ValidateZone(c, lot, category)
    BY <1>7, ZoneHandled
<1>8. CASE \E n, lot \in Numbers, category \in Categories, selected \in SUBSET DOMAIN dossier.zones :
             ConfirmLot(n, selected, lot, category)
    BY <1>8, LotHandled
<1>9. CASE \E c \in DOMAIN dossier.zones, lot \in Numbers \union {None} : AttachAnnex(c, lot)
    BY <1>9, AnnexHandled
<1>10. CASE AttachProposedAnnexes
    BY <1>10, AnnexesHandled
<1> QED
    BY <1>1, <1>2, <1>3, <1>4, <1>5, <1>6, <1>7, <1>8, <1>9, <1>10 DEF Next

LEMMA InitInv == Init => Inv /\ Ledger!Init
<1> SUFFICES ASSUME Init PROVE Inv /\ Ledger!Init
    OBVIOUS
<1>1. PICK p \in Plans, f \in Profiles \union {None} : dossier = WithProfile(Prepared(p), f)
    BY DEF Init
<1> DEFINE g == Prepared(p)
           e == Chosen(g, f)
<1>2. Typed(g) /\ g.zones = NoZones(p) /\ g.stage = "analyse" /\ g.import = 0
    BY PreparedFields
<1> HIDE DEF g
<1>3. dossier = Reconcile(e) /\ Ready(e) /\ e.recon = None /\ e.zones = g.zones /\ e.import = g.import
      /\ e.plan = g.plan /\ e.usage = f /\ (f # None => e.unit = f.unit)
    BY <1>1, <1>2, ProfileChosen DEF g
<1> HIDE DEF e
<1>4. Typed(dossier) /\ SameInputs(e, dossier) /\ Resulted(dossier)
    BY <1>3, ReconcileResulted
<1>5. asked = Undecided0 /\ steps = 0
    BY DEF Init
<1>6. dossier.zones = NoZones(p) /\ dossier.import = 0 /\ Analysed(dossier)
    <2>1. g.plan = p
        BY DEF g, Prepared
    <2> QED
        BY <1>2, <1>3, <1>4, <2>1 DEF SameInputs, SameDrawing, Analysed
<1>7. Counters
    BY <1>5, <1>6, ReconciliationAssumption DEF Counters, Undecided0
<1>8. Undecided1
    <2>1. ProposalsHold(e, ProposalsOf(dossier))
        BY <1>3, Reconciles, DrawingsAreHandled DEF Ready, ProposalsOf
    <2> QED
        BY <1>3, <1>5, <2>1 DEF Undecided1, ProposalsHold, Carries, PreviousDecision
<1>9. Ledger!Init
    BY <1>6, Blanks DEF Ledger!Init
<1> QED
    BY <1>4, <1>6, <1>7, <1>8, <1>9 DEF Inv

LEMMA NextInv == Inv /\ [Next]_vars => Inv' /\ LedgerStep
<1> SUFFICES ASSUME Inv, [Next]_vars PROVE Inv' /\ LedgerStep
    OBVIOUS
<1>1. CASE Next
    BY <1>1, NextHandled, HandledInv, PromoteInv DEF Handles
<1>2. CASE UNCHANGED vars
    <2>1. dossier' = dossier /\ asked' = asked /\ steps' = steps
        BY <1>2 DEF vars
    <2>2. Inv'
        BY <2>1 DEF Inv, Undecided1, Analysed, Counters
    <2>3. LedgerStep
        BY <2>1 DEF LedgerStep, Ledger!vars
    <2> QED
        BY <2>2, <2>3
<1> QED
    BY <1>1, <1>2

LEMMA Invariance == Spec => []Inv
<1>1. Init => Inv
    BY InitInv
<1>2. Inv /\ [Next]_vars => Inv'
    BY NextInv
<1> QED
    BY <1>1, <1>2, PTL DEF Spec

-----------------------------------------------------------------------------
(* What holds of the review.                                                *)

\* Every reachable dossier is well typed, and so is the result that its last
\* handler rebuilt (workflow.py, engine.py).
THEOREM TypeCorrect == Spec => []TypeOK
<1>1. Inv => TypeOK
    <2> SUFFICES ASSUME Inv PROVE TypeOK
        OBVIOUS
    <2>1. Typed(dossier) /\ Resulted(dossier) /\ Counters
        BY DEF Inv
    <2>2. DOMAIN dossier.zones = Contours(dossier)
        BY <2>1 DEF Typed
    <2>3. dossier.import \in 0..MaxSteps
        BY <2>1, ReconciliationAssumption DEF Typed, Counters
    <2>4. DOMAIN dossier.recon.proposals \subseteq Numbers
        BY <2>1 DEF Resulted, NumbersKnown, ProposalsOf
    <2>5. ASSUME NEW n \in DOMAIN dossier.recon.proposals
          PROVE  /\ dossier.recon.proposals[n].status \in Statuses
                 /\ dossier.recon.proposals[n].automatic \in DOMAIN Priority
                 /\ dossier.recon.proposals[n].contours \subseteq Contours(dossier)
        <3> DEFINE p == ProposalsOf(dossier)[n]
        <3>1. /\ Taken(dossier, p.decision) /\ p.automatic \in DOMAIN Priority
              /\ p.status = IF p.decision = None THEN p.automatic ELSE p.decision.status
              /\ \A c \in p.contours \union p.aside : c \in Contours(dossier)
            BY <2>1, <2>5 DEF Resulted, DecisionsShown, ProposalsOf
        <3>2. p.decision # None => p.decision.status \in Decisions
            BY <3>1 DEF Taken, DecisionsOn
        <3>3. p = dossier.recon.proposals[n]
            BY DEF ProposalsOf
        <3> HIDE DEF p
        <3> QED
            BY <3>1, <3>2, <3>3 DEF Statuses
    <2> QED
        BY <2>1, <2>2, <2>3, <2>4, <2>5 DEF TypeOK, Typed, Counters
<1> QED
    BY <1>1, Invariance, PTL

\* The user has authority over the profile, and the profile over the automatic
\* engine, whatever is retained, excluded or confirmed (profiled.py:3-17).
THEOREM AuthorityIsKept == Spec => []AuthorityHolds
<1>1. Inv => AuthorityHolds
    BY DEF Inv, Resulted, AuthorityOf, AuthorityHolds, HumanExclusionWins, ProfileNotOverruled,
       ReadOf, Skipped
<1> QED
    BY <1>1, Invariance, PTL

\* No two representations that are added up for a lot are copies of each other,
\* and a lot of which one is set aside is not verified, on every plan
\* (_split_representations, engine.py).
THEOREM RepresentationsAreKept == Spec => []RepresentationsHold
<1>1. Inv => RepresentationsAddUp
    <2> SUFFICES ASSUME Inv PROVE RepresentationsAddUp
        OBVIOUS
    <2>1. AddedUp(dossier)
        BY DEF Inv, Resulted
    <2> QED
        BY <2>1 DEF AddedUp, RepresentationsAddUp
<1>2. Inv => AsideNeverVerified
    BY DEF Inv, Resulted, OneLotOnly, Prudent, ProposalsOf, AsideNeverVerified
<1>3. Inv => RepresentationsHold
    BY <1>1, <1>2 DEF RepresentationsHold
<1> QED
    BY <1>3, Invariance, PTL

\* An annex is confirmed exactly when the user attached it, and a lot is
\* suggested only where no other lot competes for the annex
\* (_annex_attachment, engine.py).
THEOREM AnnexesAreKept == Spec => []AnnexesHold
<1>1. Inv => AnnexesFollowZones
    BY DEF Inv, Resulted, AnnexesShown, Follows, BusinessOf, AnnexesFollowZones
<1>2. Inv => SuggestionsAreSafe
    <2> SUFFICES ASSUME Inv PROVE SuggestionsAreSafe
        OBVIOUS
    <2>1. SafelySuggested(dossier)
        BY DEF Inv, Resulted
    <2> QED
        BY <2>1 DEF SafelySuggested, SuggestionsAreSafe
<1>3. Inv => AnnexesHold
    BY <1>1, <1>2 DEF AnnexesHold
<1> QED
    BY <1>3, Invariance, PTL

\* A contour that a confirmation selected is still of the lot it confirmed:
\* annexes may move, surfaces of a lot may not (workflow.py:434-803).
THEOREM ConfirmationsHold == Spec => []ConfirmedIsAssigned
<1>1. Inv => ConfirmedIsAssigned
    <2> SUFFICES ASSUME Inv, NEW n \in DOMAIN dossier.recon.proposals,
                        dossier.recon.proposals[n].decision # None,
                        dossier.recon.proposals[n].status = "confirme_manuel",
                        NEW c \in dossier.recon.proposals[n].decision.contours
                 PROVE  /\ dossier.zones[c] # None
                        /\ dossier.zones[c].lot = dossier.recon.proposals[n].decision.lot
        BY DEF ConfirmedIsAssigned
    <2> DEFINE p == ProposalsOf(dossier)[n]
    <2>1. /\ Taken(dossier, p.decision)
          /\ p.status = IF p.decision = None THEN p.automatic ELSE p.decision.status
        BY DEF Inv, Resulted, DecisionsShown, ProposalsOf
    <2>2. p = dossier.recon.proposals[n]
        BY DEF ProposalsOf
    <2> HIDE DEF p
    <2> QED
        BY <2>1, <2>2 DEF Taken
<1> QED
    BY <1>1, Invariance, PTL

\* No contour is in two lots, nor counted and set aside by one, so the check
\* zones_non_reutilisees never blocks; and the calculated surface of a lot,
\* summed by occurrence, is that of its contours, each once (engine.py).
THEOREM SurfacesCountOnce == Spec => []CountedOnce
<1>1. Inv => NoContourTwice
    BY DEF Inv, Resulted, OneLotOnly, Counts, ProposalsOf, NoContourTwice
<1>2. Inv => SurfacesAddUp
    BY DEF Inv, Resulted, Measured, SurfacesAddUp
<1>3. Inv => CountedOnce
    BY <1>1, <1>2 DEF CountedOnce
<1> QED
    BY <1>3, Invariance, PTL

\* Whatever is proposed, confirmed, attached or excluded, the review implements
\* the ledger: surfaces are given once and stay, annexes alone may move.
THEOREM ReviewKeepsLedger == Spec => KeepsLedger
<1>1. Init => Ledger!Init
    BY InitInv
<1>2. Inv /\ [Next]_vars => [Ledger!Next]_(Ledger!vars)
    BY NextInv DEF LedgerStep
<1> QED
    BY <1>1, <1>2, Invariance, PTL DEF Spec, KeepsLedger, Ledger!Spec

\* A decision of the user is shown by its proposal and stays as long as the
\* proposal does, whichever engine rebuilds it (previous_decisions, engine.py).
\* The marker of what is missing is not taken for a result.
THEOREM DecisionsAreKept ==
    ASSUME \A r : IsResult(r) => r # None
    PROVE  Spec => DecisionsStay
<1> DEFINE Kept0 == \A n \in DOMAIN dossier.recon.proposals \intersect DOMAIN dossier'.recon.proposals :
                      (/\ asked'[n] # None
                       /\ asked'[n] # asked[n] \/ dossier.recon.proposals[n].status = asked[n]) =>
                         dossier'.recon.proposals[n].status = asked'[n]
<1>1. ASSUME Inv, Inv', NEW d, Handles(d)
      PROVE  Kept0
    <2> SUFFICES ASSUME NEW n \in DOMAIN dossier.recon.proposals \intersect DOMAIN dossier'.recon.proposals,
                        asked'[n] # None,
                        asked'[n] # asked[n] \/ dossier.recon.proposals[n].status = asked[n]
                 PROVE  dossier'.recon.proposals[n].status = asked'[n]
        OBVIOUS
    <2> DEFINE p == ProposalsOf(dossier)[n]
               q == ProposalsOf(dossier')[n]
    <2>1. n \in DOMAIN ProposalsOf(dossier) /\ n \in DOMAIN ProposalsOf(dossier') /\ n \in Numbers
        BY <1>1 DEF ProposalsOf, Inv, Resulted, NumbersKnown
    <2>2. p.automatic \in DOMAIN Priority
          /\ p.status = IF p.decision = None THEN p.automatic ELSE p.decision.status
        BY <1>1, <2>1 DEF Inv, Resulted, DecisionsShown
    <2>3. ProposalsHold(d, ProposalsOf(dossier'))
        BY <1>1, Reconciles, DrawingsAreHandled DEF Handles, Ready, ProposalsOf
    <2>4. q.status = IF PreviousDecision(d, n) = None THEN q.automatic
                     ELSE PreviousDecision(d, n).status
        BY <2>1, <2>3 DEF ProposalsHold, Carries
    <2>5. asked' # Undecided0
        BY <2>1 DEF Undecided0
    <2>6. /\ d.recon # None /\ DOMAIN ProposalsOf(d) = DOMAIN ProposalsOf(dossier)
          /\ \/ asked'[n] = asked[n] /\ ProposalsOf(d)[n].decision = p.decision
             \/ /\ ProposalsOf(d)[n].decision # None
                /\ ProposalsOf(d)[n].decision.status = asked'[n]
        BY <1>1, <2>1, <2>5 DEF Handles, Decides
    <2>7. PreviousDecision(d, n) = ProposalsOf(d)[n].decision
        BY <2>1, <2>6 DEF PreviousDecision, ProposalsOf
    <2>8. p = dossier.recon.proposals[n] /\ q = dossier'.recon.proposals[n]
        BY DEF ProposalsOf
    <2>9. asked[n] \in Decisions \union {None}
        BY <1>1, <2>1 DEF Inv, Counters
    <2>10. DOMAIN Priority \intersect Decisions = {}
        BY DEF Priority, Decisions
    <2> HIDE DEF p, q
    <2> QED
        BY <2>2, <2>4, <2>6, <2>7, <2>8, <2>9, <2>10
<1>2. ASSUME Inv, Inv', [Next]_vars
      PROVE  [Kept0]_vars
    <2>1. CASE Promote
        BY <2>1, PromoteFields DEF Promote
    <2>2. CASE \E d : Handles(d)
        BY <1>1, <1>2, <2>2
    <2>3. CASE Next
        BY <1>2, <2>1, <2>2, <2>3, NextHandled
    <2> QED
        BY <1>2, <2>3 DEF vars
<1> HIDE DEF Kept0
<1>3. Spec => [][Kept0]_vars
    BY <1>2, Invariance, PTL DEF Spec
<1> QED
    BY <1>3 DEF DecisionsStay, Kept0

-----------------------------------------------------------------------------
(* The result that is stored is the one of the dossier.                     *)

\* The stored result is what reconciling the dossier again would give.
Current(d) == Reconcile(d) = d

\* A result that carries the decisions of d, on the drawing of d, is current.
LEMMA ReconciledIsCurrent ==
    ASSUME \A r : IsResult(r) => r # None,
           NEW d, IsDossier(d), Drawing(d.plan), Handled(d.plan)
    PROVE  Current(Reconcile(d))
<1> DEFINE e == Reconcile(d)
           P == e.recon.proposals
<1>1. IsDossier(e) /\ SameInputs(d, e)
    BY ReconcileFields
<1>2. IsResult(e.recon) /\ ProposalsHold(d, P)
    BY Reconciles
<1>3. ASSUME NEW n \in DOMAIN P
      PROVE  PreviousDecision(e, n) = PreviousDecision(d, n)
    <2>1. e.recon # None
        BY <1>2
    <2>2. P[n].decision = PreviousDecision(d, n)
        BY <1>2 DEF ProposalsHold, Carries
    <2> QED
        BY <2>1, <2>2 DEF PreviousDecision
<1>4. Reconcile(e).recon = e.recon
    BY <1>1, <1>3, ReconcilesAgain DEF SameInputs, SameDecisions
<1> HIDE DEF e
<1>5. IsDossier(Reconcile(e)) /\ SameInputs(e, Reconcile(e))
    BY <1>1, ReconcileFields
<1>6. Reconcile(e) = e
    BY <1>1, <1>4, <1>5 DEF IsDossier, SameInputs, SameDrawing
<1> QED
    BY <1>6 DEF Current, e

LEMMA PromotedIsCurrent ==
    ASSUME NEW d, IsDossier(d), Drawing(d.plan), Current(d)
    PROVE  Current([d EXCEPT !.stage = "dossier"])
<1> DEFINE e == [d EXCEPT !.stage = "dossier"]
<1>1. IsDossier(e) /\ SameDrawing(d, e) /\ e.recon = d.recon
    BY DEF IsDossier, SameDrawing
<1> HIDE DEF e
<1>2. \A n : PreviousDecision(e, n) = PreviousDecision(d, n)
    BY <1>1 DEF PreviousDecision
<1>3. Reconcile(e).recon = e.recon
    BY <1>1, <1>2, ReconcilesAgain DEF SameDecisions, Current
<1>4. IsDossier(Reconcile(e)) /\ SameInputs(e, Reconcile(e))
    BY <1>1, ReconcileFields
<1>5. Reconcile(e) = e
    BY <1>1, <1>3, <1>4 DEF IsDossier, SameInputs, SameDrawing
<1> QED
    BY <1>5 DEF Current, e

LEMMA CurrentInvariance ==
    ASSUME \A r : IsResult(r) => r # None
    PROVE  Spec => []Current(dossier)
<1>1. \A d : Typed(d) => IsDossier(d) /\ Drawing(d.plan) /\ Handled(d.plan)
    BY DrawingsAreHandled
<1>2. Init => Current(dossier)
    <2> SUFFICES ASSUME Init PROVE Current(dossier)
        OBVIOUS
    <2>1. PICK p \in Plans, f \in Profiles \union {None} : dossier = WithProfile(Prepared(p), f)
        BY DEF Init
    <2>2. dossier = Reconcile(Chosen(Prepared(p), f)) /\ Typed(Chosen(Prepared(p), f))
        BY <2>1, PreparedFields, ProfileChosen DEF Ready
    <2> QED
        BY <1>1, <2>2, ReconciledIsCurrent
<1>3. ASSUME Inv, Current(dossier), [Next]_vars
      PROVE  Current(dossier)'
    <2>1. CASE Promote
        <3>1. dossier' = [dossier EXCEPT !.stage = "dossier"]
            BY <2>1 DEF Promote
        <3>2. Current([dossier EXCEPT !.stage = "dossier"])
            BY <1>1, <1>3, PromotedIsCurrent DEF Inv
        <3> QED
            BY <3>1, <3>2
    <2>2. CASE \E d : Handles(d)
        <3>1. PICK d : Handles(d)
            BY <2>2
        <3>2. Current(Reconcile(d))
            BY <1>1, <3>1, ReconciledIsCurrent DEF Handles, Ready
        <3> QED
            BY <3>1, <3>2 DEF Handles
    <2>3. CASE UNCHANGED vars
        BY <1>3, <2>3 DEF vars, Current
    <2>4. CASE Next
        BY <1>3, <2>1, <2>2, <2>4, NextHandled
    <2> QED
        BY <1>3, <2>3, <2>4
<1> QED
    BY <1>2, <1>3, Invariance, PTL DEF Spec

\* The stored result, from which the pages are made, is the one that reconciling
\* the dossier again would give: no handler leaves it behind (workflow.py).
THEOREM ResultStaysCurrent ==
    ASSUME \A r : IsResult(r) => r # None
    PROVE  Spec => []ResultIsCurrent
<1>1. Current(dossier) => ResultIsCurrent
    BY DEF Current, ResultIsCurrent
<1> QED
    BY <1>1, CurrentInvariance, PTL

-----------------------------------------------------------------------------
(* What is shown of a dossier is what the engine does with it.              *)

\* What a dossier shows, while its result is the one that reconciling it gives.
LEMMA CurrentResult ==
    ASSUME NEW d, IsDossier(d), Current(d)
    PROVE  d.recon = IF d.usage = None THEN ReconcileLegacy(d) ELSE ReconcileProfile(d, d.usage)
BY ReconcileFields DEF Current

LEMMA ReasonHolds ==
    ASSUME Inv, Current(dossier)
    PROVE  ReasonIsTrue
<1> SUFFICES ASSUME dossier.usage = None, NEW o \in Occurrences(dossier),
                    OfNumber(Occurrences(dossier), o.number) = {o},
                    dossier.recon.proposals[o.number].status = "a_confirmer"
             PROVE  /\ MissingReason(dossier, o.number) = "planche_non_retenue" =>
                         dossier.sheet[o.sheet] # "retenue"
                    /\ MissingReason(dossier, o.number) = "un_seul_contour" =>
                         Cardinality(o.contours) < MinimumContours
                    /\ MissingReason(dossier, o.number) = "titre_generique" =>
                         ~AutomaticallyTitled(dossier, o.anchor)
    BY DEF ReasonIsTrue
<1> DEFINE p == Proposals(dossier)[o.number]
           q == LegacyProposal({o}, {o})
<1>1. Typed(dossier) /\ Drawing(dossier.plan) /\ IsDossier(dossier)
    BY DrawingsAreHandled DEF Inv
<1>2. Ranked({o})
    BY <1>1, OccurrencesRanked DEF Drawing, Handled
<1>3. Counted(dossier, {o}) = {o}
    BY <1>2, CountedOnceDrawn
<1>4. dossier.recon = ReconcileLegacy(dossier)
    BY <1>1, CurrentResult
<1>5. o.number \in DOMAIN Proposals(dossier) /\ p = Decided(dossier, o.number, q)
    BY <1>3, <1>4, LegacyProposalOf DEF Proposals
<1>6. Proposal(q) /\ q.contours = o.contours /\ q.status = o.status
    <2>1. ContoursOf({o}) = o.contours
        BY DEF ContoursOf
    <2>2. {o} \ {o} = {} /\ {k.status : k \in {o}} = {o.status}
        OBVIOUS
    <2>3. AutomaticStatus({o}, {}) = o.status
        BY <2>2, WeakestOfOne DEF AutomaticStatus
    <2> QED
        BY <2>1, <2>2, <2>3, LegacyProposalFields
<1> HIDE DEF q
<1>7. p.contours = o.contours /\ p.decision = PreviousDecision(dossier, o.number)
      /\ p.status = IF p.decision = None THEN o.status ELSE p.decision.status
    BY <1>5, <1>6, DecidedFields
<1>8. p.status = "a_confirmer"
    BY DEF Proposals
<1> HIDE DEF p
<1>9. Taken(dossier, p.decision)
    BY <1>5 DEF p, Inv, Resulted, DecisionsShown, ProposalsOf, Proposals
<1>10. o.status = "a_confirmer"
    BY <1>7, <1>8, <1>9 DEF Taken, DecisionsOn, Decisions
<1>11. /\ o.contours # {} /\ o.contours \subseteq Contours(dossier)
       /\ dossier.sheet[o.sheet] = "retenue" /\ Cardinality(o.contours) >= MinimumContours =>
            ~AutomaticallyTitled(dossier, o.anchor)
    BY <1>1, <1>10, VerifiedOccurrence, OccurrenceTypes
<1>12. \A c \in o.contours : dossier.plan.contours[c].sheet = o.sheet
    BY <1>1, OccurrenceSheet, MarkerAssumption
<1>13. Cardinality(o.contours) \in Nat /\ MinimumContours \in Nat
    BY <1>1, <1>11, FS_Subset, FS_CardinalityType, PlanReadingAssumption DEF Drawing, Contours
<1>14. (\E c \in o.contours : dossier.sheet[dossier.plan.contours[c].sheet] # "retenue")
         <=> dossier.sheet[o.sheet] # "retenue"
    BY <1>11, <1>12
<1>15. /\ MissingReason(dossier, o.number) = "planche_non_retenue" => dossier.sheet[o.sheet] # "retenue"
       /\ MissingReason(dossier, o.number) = "un_seul_contour" => Cardinality(p.contours) < MinimumContours
       /\ MissingReason(dossier, o.number) = "titre_generique" =>
            dossier.sheet[o.sheet] = "retenue" /\ ~(Cardinality(p.contours) < MinimumContours)
    BY <1>7, <1>14 DEF MissingReason, p
<1> DEFINE k == Cardinality(o.contours)
<1>16. k = Cardinality(p.contours) /\ k \in Nat
    BY <1>7, <1>13
<1>17. MissingReason(dossier, o.number) = "un_seul_contour" => k < MinimumContours
    BY <1>15, <1>16
<1>18. MissingReason(dossier, o.number) = "titre_generique" => ~AutomaticallyTitled(dossier, o.anchor)
    <2>1. ~(k < MinimumContours) => k >= MinimumContours
        BY <1>13, <1>16
    <2> HIDE DEF k
    <2> QED
        BY <1>11, <1>15, <1>16, <2>1 DEF k
<1> QED
    BY <1>15, <1>17, <1>18

LEMMA RecommendationHolds ==
    ASSUME Inv, Current(dossier)
    PROVE  RecommendedFindsLots
<1> DEFINE facts == [f \in Profiles |-> Facts(f, dossier.plan)]
           f == dossier.usage
           R == ReadOf(dossier)
           P == dossier.recon.proposals
<1> SUFFICES ASSUME f \in Winners(facts), Human(dossier) = {}
             PROVE  \E n \in DOMAIN P : P[n].origin = "profil"
    BY DEF RecommendedFindsLots
<1>1. Typed(dossier) /\ Handled(dossier.plan) /\ IsDossier(dossier)
    BY DrawingsAreHandled DEF Inv
<1>2. f \in Profiles /\ f # None /\ Facts(f, dossier.plan).rank # 3
    <2>1. f \in DOMAIN facts /\ facts[f].rank = Best(facts) /\ Best(facts) # 3
        BY DEF Winners, Contenders
    <2>2. DOMAIN facts = Profiles /\ \A g \in Profiles : facts[g] = Facts(g, dossier.plan)
        OBVIOUS
    <2> HIDE DEF facts
    <2> QED
        BY <2>1, <2>2, MarkerAssumption
<1>3. Incomplete(R) = {}
    <2>1. R = ShownReading(f, dossier.plan)
        BY AppliedAsShown
    <2>2. Facts(f, dossier.plan).rank = Rank(f, dossier.plan, R)
        BY <2>1 DEF Facts, FactsOf
    <2> HIDE DEF R
    <2> QED
        BY <1>2, <2>2 DEF Rank
<1>4. PICK c \in Identified(R) : TRUE
    BY <1>3 DEF Incomplete, Numbered
<1>5. R.lot[c].value \in LotsOf(R)
    BY IdentifiedLots
<1>6. dossier.recon = ReconcileProfile(dossier, f)
    BY <1>1, <1>2, CurrentResult
<1> QED
    BY <1>1, <1>2, <1>5, <1>6, ProfileReconciled DEF HybridHolds

\* Where the user retained no layer, the profile leaves to the automatic engine
\* what it has no role for.
LEMMA UndecidedUncovered ==
    ASSUME NEW d, d.plan \in Plans, \A l \in Layers : d.layer[l] # "retenue"
    PROVE  Undecided(d, ReadOf(d)) \subseteq Uncovered(ReadOf(d))
<1> DEFINE R == ReadOf(d)
<1> SUFFICES ASSUME NEW c \in Undecided(d, R) PROVE c \in ByRole(R, {None})
    BY DEF Uncovered
<1>1. c \in DOMAIN R.role /\ c \notin ProfileExcluded(d, R) /\ c \notin ByRole(R, ZoneRoles)
    BY DEF Undecided
<1>2. c \in Contours(d) /\ R.role[c] = RoleOf(d, c)
    BY <1>1, ReadOfFields
<1>3. d.layer[d.plan.contours[c].layer] # "retenue"
    BY <1>2, PlanAssumption DEF Contours
<1> HIDE DEF R
<1>4. c \notin ByRole(R, SetAsideRoles)
    BY <1>1, <1>3 DEF ProfileExcluded
<1>5. R.role[c] \notin SetAsideRoles \union ZoneRoles
    BY <1>1, <1>4 DEF ByRole
<1>6. RoleOf(d, c) \in SetAsideRoles \union ZoneRoles \union {None}
    BY RoleKinds DEF RoleOf, ContourRole
<1> QED
    BY <1>1, <1>2, <1>5, <1>6 DEF ByRole

\* The lots that a profile makes of a dossier it was chosen for.
LEMMA ProfileShown ==
    ASSUME Inv, Current(dossier), dossier.usage # None
    PROVE  /\ Typed(dossier) /\ IsDossier(dossier) /\ Drawing(dossier.plan) /\ Handled(dossier.plan)
           /\ dossier.usage \in Profiles
           /\ dossier.recon = ReconcileProfile(dossier, dossier.usage)
           /\ \A n \in LotsOf(ReadOf(dossier)) :
                /\ Members(ReadOf(dossier), n) \subseteq DOMAIN ReadOf(dossier).lot
                /\ AnnotationTexts(ReadOf(dossier), Members(ReadOf(dossier), n))
                     \subseteq Texts(dossier.plan, "surface")
<1>1. Typed(dossier) /\ IsDossier(dossier) /\ Drawing(dossier.plan) /\ Handled(dossier.plan)
    BY DrawingsAreHandled DEF Inv
<1>2. dossier.usage \in Profiles
    BY <1>1 DEF Typed
<1>3. \A n : Members(ReadOf(dossier), n) \subseteq DOMAIN ReadOf(dossier).lot
    BY DEF Members
<1>4. DOMAIN dossier.usage.surfaceSources \subseteq Nat
    BY <1>2, ReconciliationAssumption
<1>5. \A C \in SUBSET DOMAIN ReadOf(dossier).lot :
        AnnotationTexts(ReadOf(dossier), C) \subseteq Texts(dossier.plan, "surface")
    BY <1>1, <1>4, AnnotationTextsRead
<1>6. dossier.recon = ReconcileProfile(dossier, dossier.usage)
    BY <1>1, CurrentResult
<1> QED
    BY <1>1, <1>2, <1>3, <1>5, <1>6

LEMMA ShownHolds ==
    ASSUME Inv, Current(dossier)
    PROVE  ShownIsApplied
<1> DEFINE f == dossier.usage
           shown == ShownReading(f, dossier.plan)
           R == ReadOf(dossier)
           P == dossier.recon.proposals
           own == {n \in DOMAIN P : P[n].origin = "profil"}
           B == dossier.recon.business
           L == ReconcileLegacy(dossier)
           U == LegacyUsable(dossier, R, L)
           V == Undecided(dossier, R)
<1> SUFFICES ASSUME f # None, Human(dossier) = {}, \A l \in Layers : dossier.layer[l] # "retenue"
             PROVE  /\ UNION {P[n].contours : n \in own} = Numbered(shown)
                    /\ {n \in own : P[n].annotated # None} = Annotated(shown)
                    /\ dossier.recon.unresolved \union {c \in DOMAIN B : B[c].origin = "legacy"}
                         \union UNION {P[n].contours : n \in DOMAIN P \ own}
                       \subseteq Fallback(shown)
    BY DEF ShownIsApplied
<1>1. shown = R
    BY AppliedAsShown
<1>2. /\ Typed(dossier) /\ Drawing(dossier.plan) /\ Handled(dossier.plan) /\ f \in Profiles
      /\ dossier.recon = ReconcileProfile(dossier, f)
      /\ \A n \in LotsOf(R) : AnnotationTexts(R, Members(R, n)) \subseteq Texts(dossier.plan, "surface")
    BY ProfileShown
<1>3. HybridHolds(dossier, R, U, L.proposals, P)
    BY <1>2, ProfileReconciled
<1> HIDE DEF shown
<1>4. own = LotsOf(R)
    BY <1>3 DEF HybridHolds
<1>5. UNION {P[n].contours : n \in own} = Identified(R)
    <2>1. \A n \in own : P[n].contours = Members(R, n)
        BY <1>3, <1>4 DEF HybridHolds
    <2> HIDE DEF own, P, R
    <2>2. Identified(R) = UNION {Members(R, n) : n \in LotsOf(R)}
        BY IdentifiedLots
    <2> QED
        BY <1>4, <2>1, <2>2
<1>6. ASSUME NEW n \in LotsOf(R)
      PROVE  P[n].annotated # None <=> AnnotationTexts(R, Members(R, n)) # {}
    <2> DEFINE T == AnnotationTexts(R, Members(R, n))
               q == ProfileProposal(dossier, f, R, Members(R, n))
    <2>1. P[n].annotated = q.annotated
        BY <1>2, ProfileLots
    <2>2. q.annotated = AnnotatedBy(dossier.plan, T)
        BY ProfileSurfaces
    <2>3. T \in SUBSET Texts(dossier.plan, "surface")
        BY <1>2
    <2> HIDE DEF T, q
    <2>4. AnnotatedBy(dossier.plan, T) = None <=> T = {}
        BY <1>2, <2>3, AnnotatedType, MarkerAssumption
    <2> QED
        BY <2>1, <2>2, <2>4 DEF T
<1>7. {n \in own : P[n].annotated # None} = Annotated(R)
    BY <1>4, <1>6 DEF Annotated
<1>8. V \subseteq Uncovered(R)
    BY <1>2, UndecidedUncovered DEF Typed
<1>9. U \subseteq Fallback(R)
    BY <1>8 DEF LegacyUsable, Fallback, Numbered
<1>10. dossier.recon.unresolved \subseteq V
    BY <1>2 DEF ReconcileProfile, ProfileOf, Combined, ReadOf
<1>11. {c \in DOMAIN B : B[c].origin = "legacy"} \subseteq V
    <2> SUFFICES ASSUME NEW c \in DOMAIN B, B[c].origin = "legacy", c \notin V
                 PROVE  FALSE
        OBVIOUS
    <2>1. DOMAIN B = ByRole(R, ZoneRoles) \union (V \intersect DOMAIN L.business)
        BY <1>2, ProfileFields
    <2>2. c \in ByRole(R, ZoneRoles)
        BY <2>1
    <2>3. B[c] = ProfileZone(dossier, f, R, P, c)
        BY <1>2, <2>2, ProfileFields
    <2> HIDE DEF B
    <2>4. B[c].origin = "profil"
        BY <2>3, ProfileOrigin
    <2> QED
        BY <2>4
<1>12. \A n \in DOMAIN P \ own : P[n].contours \subseteq U
    BY <1>3, <1>4 DEF HybridHolds
<1>13. V \subseteq Fallback(R)
    BY <1>8 DEF Fallback
<1> HIDE DEF P, R, U, V, B, own
<1>14. dossier.recon.unresolved \union {c \in DOMAIN B : B[c].origin = "legacy"}
         \union UNION {P[n].contours : n \in DOMAIN P \ own}
       \subseteq Fallback(R)
    BY <1>9, <1>10, <1>11, <1>12, <1>13
<1> QED
    BY <1>1, <1>5, <1>7, <1>14 DEF Numbered

-----------------------------------------------------------------------------
(* Nothing is left to take over.                                            *)

\* When nothing is left, every lot is settled and every zone is in one.
LEMMA NoWorkLeft ==
    ASSUME Inv, Current(dossier), NothingLeft(dossier)
    PROVE  WithStatus(dossier, Unsettled) = {} /\ Unmatched(dossier) = {}
<1> DEFINE A == WithStatus(dossier, Unsettled)
           B == Unmatched(dossier)
<1>1. Typed(dossier) /\ Drawing(dossier.plan) /\ IsDossier(dossier)
    BY DrawingsAreHandled DEF Inv
<1>2. IsFiniteSet(DOMAIN dossier.recon.proposals)
    BY <1>1, CurrentResult, LegacyProposalsFinite, ProfileProposalsFinite
<1>3. IsFiniteSet(A)
    <2>1. A \subseteq DOMAIN dossier.recon.proposals
        BY DEF WithStatus, Proposals
    <2> QED
        BY <1>2, <2>1, FS_Subset
<1>4. IsFiniteSet(B)
    <2>1. B \subseteq Contours(dossier)
        BY DEF Unmatched, Inv, Resulted, AnnexesShown, BusinessOf
    <2> QED
        BY <1>1, <2>1, FS_Subset DEF Drawing, Contours
<1>5. Cardinality(A) + Cardinality(B) = 0
    BY DEF NothingLeft, Burden
<1> HIDE DEF A, B
<1>6. Cardinality(A) \in Nat /\ Cardinality(B) \in Nat
    BY <1>3, <1>4, FS_CardinalityType
<1>7. Cardinality(A) = 0 /\ Cardinality(B) = 0
    BY <1>5, <1>6
<1> QED
    BY <1>3, <1>4, <1>7, FS_EmptySet DEF A, B

\* A lot that is verified, by either engine, has contours and a surface when
\* the surfaces that the plan annotates are positive.
LEMMA VerifiedComplete ==
    ASSUME Inv, Current(dossier), Positive(dossier.plan), NEW n \in DOMAIN dossier.recon.proposals,
           dossier.recon.proposals[n].automatic = "auto_verifie"
    PROVE  /\ dossier.recon.proposals[n].contours # {}
           /\ dossier.recon.proposals[n].proposed \in Nat
           /\ dossier.recon.proposals[n].proposed > 0
<1> DEFINE P == dossier.recon.proposals
           R == ReadOf(dossier)
<1>1. Typed(dossier) /\ Drawing(dossier.plan) /\ Handled(dossier.plan) /\ IsDossier(dossier)
    BY DrawingsAreHandled DEF Inv
<1>2. CASE dossier.usage = None
    BY <1>1, <1>2, CurrentResult, LegacyVerified, MarkerAssumption
<1>3. CASE dossier.usage # None /\ n \notin LotsOf(R)
    <2>1. dossier.recon = ReconcileProfile(dossier, dossier.usage)
        BY <1>1, <1>3, CurrentResult
    <2> DEFINE q == ReconcileLegacy(dossier).proposals[n]
    <2>2. /\ n \in DOMAIN ReconcileLegacy(dossier).proposals
          /\ P[n].contours = q.contours /\ P[n].automatic = q.automatic /\ P[n].proposed = q.proposed
        BY <1>1, <1>3, <2>1, CompletingLots
    <2> QED
        BY <1>1, <2>2, LegacyVerified, MarkerAssumption
<1>4. CASE dossier.usage # None /\ n \in LotsOf(R)
    <2> DEFINE C == Members(R, n)
               T == AnnotationTexts(R, C)
               a == AnnotatedBy(dossier.plan, T)
               q == ProfileProposal(dossier, dossier.usage, R, C)
    <2>1. dossier.recon = ReconcileProfile(dossier, dossier.usage) /\ T \subseteq Texts(dossier.plan, "surface")
        BY <1>4, ProfileShown
    <2>2. P[n].contours = C /\ P[n].automatic = q.automatic /\ P[n].proposed = q.proposed
        BY <1>4, <2>1, ProfileLots
    <2>3. q.automatic = "auto_verifie" => a # None /\ q.proposed = a
        BY ProfileSurfaces
    <2>4. C # {}
        BY <1>4, IdentifiedLots
    <2> HIDE DEF C, T, q
    <2>5. a # None => a \in Nat /\ a > 0
        BY <1>1, <2>1, AnnotatedType, MarkerAssumption
    <2> QED
        BY <2>2, <2>3, <2>4, <2>5
<1> QED
    BY <1>2, <1>3, <1>4

\* A principal surface in no lot is a zone that waits.
LEMMA UngroupedZone ==
    ASSUME Inv, Current(dossier), NEW c \in DOMAIN dossier.recon.business \ Grouped(dossier),
           dossier.recon.business[c].category = "principale"
    PROVE  dossier.recon.business[c].status = "non_resolu"
<1> DEFINE P == dossier.recon.proposals
           B == dossier.recon.business
           R == ReadOf(dossier)
           L == ReconcileLegacy(dossier)
<1>1. IsDossier(dossier) /\ Typed(dossier)
    BY DrawingsAreHandled DEF Inv
<1>2. HoldingProposals(P, c) = {}
    BY GroupedMember DEF HoldingProposals
<1>3. \A z : IsZone(z) /\ z.category = "principale" => WithProposal(z, P, c).status = "non_resolu"
    <2>1. \A z, s : IsZone(z) => [z EXCEPT !.status = s].status = s
        BY DEF IsZone
    <2> QED
        BY <1>2, <2>1 DEF WithProposal
<1>4. \A category, origin : LET z == Zone(category, origin)
                            IN  IsZone(z) /\ z.category = category /\ z.status = "non_resolu"
    BY DEF Zone, IsZone
<1>5. CASE dossier.usage = None
    <2> DEFINE A == CountedAnchors(dossier, Occurrences(dossier))
               Q == LegacyProposals(dossier, Occurrences(dossier))
    <2>1. dossier.recon = L
        BY <1>1, <1>5, CurrentResult
    <2>2. LayerOf(dossier, c) \notin AnnexLayers
        BY <2>1, LegacyZoneFields
    <2>3. B[c] = LegacyZone(dossier, c, Q, A) /\ P = Q
        BY <2>1, LegacyFields
    <2> HIDE DEF A, Q, P, B
    <2>4. B[c] = Zone("principale", "legacy")
        BY <1>2, <2>2, <2>3 DEF LegacyZone, LayerOf
    <2> QED
        BY <1>4, <2>4 DEF B
<1>6. CASE dossier.usage # None
    <2>1. dossier.recon = ReconcileProfile(dossier, dossier.usage)
        BY <1>1, <1>6, CurrentResult
    <2>2. /\ DOMAIN B = ByRole(R, ZoneRoles) \union (Undecided(dossier, R) \intersect DOMAIN L.business)
          /\ B[c] = IF c \in ByRole(R, ZoneRoles) THEN ProfileZone(dossier, dossier.usage, R, P, c)
                    ELSE WithProposal(L.business[c], P, c)
        BY <2>1, ProfileFields
    <2>3. CASE c \notin ByRole(R, ZoneRoles)
        <3>1. c \in DOMAIN L.business /\ B[c] = WithProposal(L.business[c], P, c)
            BY <2>2, <2>3
        <3>2. IsZone(L.business[c])
            BY <3>1, LegacyZoneFields
        <3> DEFINE z == L.business[c]
        <3>3. B[c].category = "principale"
            OBVIOUS
        <3> HIDE DEF P, B, L, z
        <3>4. z.category = "principale"
            BY <3>1, <3>2, <3>3, ProposedFields DEF z
        <3> QED
            BY <1>3, <3>1, <3>2, <3>4 DEF z, B
    <2>4. CASE c \in ByRole(R, ZoneRoles)
        <3>1. B[c] = ProfileZone(dossier, dossier.usage, R, P, c)
            BY <2>2, <2>4
        <3>2. B[c].category = "principale"
            OBVIOUS
        <3> DEFINE z == Zone(CategoryByRole[R.role[c]], "profil")
                   S == AnnexNumbers(dossier, dossier.usage, P, c, LotInside(dossier.usage, dossier.plan, c))
        <3> HIDE DEF P, B, R
        <3>3. \/ B[c] = Annex(dossier, c, Zone("secondaire_annexe", "profil"), S)
              \/ B[c] = WithProposal(z, P, c)
            BY <3>1 DEF ProfileZone
        <3> HIDE DEF S, z
        <3>4. B[c] = WithProposal(z, P, c)
            BY <3>2, <3>3, AnnexFields
        <3>5. IsZone(z)
            BY <1>4 DEF z
        <3>6. z.category = "principale"
            BY <3>2, <3>4, <3>5, ProposedFields
        <3> QED
            BY <1>3, <3>4, <3>5, <3>6 DEF B
    <2> QED
        BY <2>3, <2>4
<1> QED
    BY <1>5, <1>6

LEMMA NothingLeftHolds ==
    ASSUME Inv, Current(dossier), Positive(dossier.plan)
    PROVE  NothingLeftNothingBlocks
<1> DEFINE P == dossier.recon.proposals
           B == dossier.recon.business
<1> SUFFICES ASSUME dossier.stage = "analyse", NothingLeft(dossier)
             PROVE  /\ dossier.recon.blocking = {}
                    /\ \A c \in DOMAIN B \ Grouped(dossier) : B[c].category # "principale"
    BY DEF NothingLeftNothingBlocks
<1>1. WithStatus(dossier, Unsettled) = {} /\ Unmatched(dossier) = {}
    BY NoWorkLeft
<1>2. ASSUME NEW n \in DOMAIN P
      PROVE  P[n].status \notin Unsettled /\ P[n].automatic = "auto_verifie"
    <2>1. P[n].status \notin Unsettled
        BY <1>1 DEF WithStatus, Proposals
    <2>2. P[n].status = P[n].automatic /\ P[n].automatic \in DOMAIN Priority
        BY DEF Inv, Undecided1, Resulted, DecisionsShown, ProposalsOf
    <2> QED
        BY <2>1, <2>2 DEF Unsettled, Priority
<1>3. \A n \in DOMAIN P : P[n].contours # {} /\ ~(P[n].proposed <= 0)
    BY <1>2, VerifiedComplete
<1>4. \A n, m \in DOMAIN P : n # m => P[n].contours \intersect P[m].contours = {}
    BY DEF Inv, Resulted, OneLotOnly, Counts, ProposalsOf
<1>5. dossier.recon.blocking = Blocking(P)
    <2>1. IsDossier(dossier)
        BY DEF Inv, Typed
    <2>2. ReconcileLegacy(dossier).blocking = Blocking(ReconcileLegacy(dossier).proposals)
        BY DEF ReconcileLegacy, LegacyOf, LegacyResult
    <2>3. ReconcileProfile(dossier, dossier.usage).blocking
            = Blocking(ReconcileProfile(dossier, dossier.usage).proposals)
        BY DEF ReconcileProfile, ProfileOf, Combined
    <2> QED
        BY <2>1, <2>2, <2>3, CurrentResult
<1>6. Blocking(P) = {}
    BY <1>2, <1>3, <1>4 DEF Blocking
<1>7. ASSUME NEW c \in DOMAIN B \ Grouped(dossier), B[c].category = "principale"
      PROVE  FALSE
    <2>1. B[c].status = "non_resolu"
        BY <1>7, UngroupedZone
    <2>2. c \in Unmatched(dossier)
        BY <1>7, <2>1 DEF Unmatched
    <2> QED
        BY <1>1, <2>2
<1> QED
    BY <1>5, <1>6, <1>7

-----------------------------------------------------------------------------
(* A plan that is read completely.                                          *)

LEMMA CompleteLot ==
    ASSUME Inv, Current(dossier), dossier.usage # None, dossier.stage = "analyse",
           NEW R, R = ReadOf(dossier), Conclusion(dossier.usage, dossier.plan, R) = "complet",
           NEW c \in DOMAIN R.role, RoleOf(dossier, c) = "surface_principale",
           NEW P, P = dossier.recon.proposals
    PROVE  \E n \in HoldingProposals(P, c) :
             \/ P[n].status = "auto_verifie"
             \/ Cardinality({ContourSpace(dossier.plan, q) : q \in P[n].contours}) > 1
<1> DEFINE f == dossier.usage
           n == R.lot[c].value
           C == Members(R, n)
           T == AnnotationTexts(R, C)
           a == AnnotatedBy(dossier.plan, T)
           q == ProfileProposal(dossier, f, R, C)
<1>1. /\ Typed(dossier) /\ f \in Profiles /\ Drawing(dossier.plan)
      /\ dossier.recon = ReconcileProfile(dossier, f)
    BY ProfileShown
<1>2. c \in Identified(R)
    <2>1. c \in DOMAIN R.lot
        BY ReadOfFields DEF IsReading, ByRole
    <2> QED
        BY <2>1, CompleteFacts DEF Numbered
<1>3. n \in LotsOf(R)
    BY <1>2, IdentifiedLots
<1>4. HoldingProposals(P, c) = {n}
    BY <1>2 DEF Inv, Resulted, AuthorityOf
<1>5. P[n].contours = C /\ P[n].automatic = q.automatic
    BY <1>1, <1>3, ProfileLots
<1>6. P[n].status = P[n].automatic
    <2>1. n \in DOMAIN P
        BY <1>4 DEF HoldingProposals
    <2> QED
        BY <2>1 DEF Inv, Undecided1, Resulted, DecisionsShown, ProposalsOf
<1>7. T # {} /\ Doubted(R, C) = {} /\ Coherent(f, dossier.plan, C, T)
    <2>1. n \in Annotated(R) /\ Doubts(R) = {} /\ Coherent(f, dossier.plan, C, T)
        BY <1>3, CompleteFacts
    <2>2. C \subseteq DOMAIN R.lot
        BY DEF Members
    <2> QED
        BY <2>1, <2>2 DEF Annotated, Doubts, Doubted
<1>8. T \in SUBSET Texts(dossier.plan, "surface")
    BY <1>3, ProfileShown
<1>9. dossier.unit = f.unit /\ f.unit # None
    BY <1>1, ReconciliationAssumption, PlanReadingAssumption DEF Inv, Analysed
<1> HIDE DEF T, C, n
<1>10. a # None
    BY <1>1, <1>7, <1>8, AnnotatedType, MarkerAssumption
<1>11. Accepts(f.tolerance, TotalArea(dossier, C), a)
    <2>1. C \subseteq Contours(dossier)
        BY ReadOfFields DEF C, Members, IsReading, ByRole
    <2>2. IsFiniteSet(C)
        BY <1>1, <2>1, FS_Subset DEF Drawing, Contours
    <2> QED
        BY <1>7, <1>9, <2>1, <2>2, CoherentAccepted
<1>12. CASE Cardinality({ContourSpace(dossier.plan, k) : k \in C}) > 1
    BY <1>4, <1>5, <1>12
<1>13. CASE ~(Cardinality({ContourSpace(dossier.plan, k) : k \in C}) > 1)
    <2>1. ~Doubtful(dossier.plan, R, C)
        BY <1>7, <1>13 DEF Doubtful
    <2>2. q.automatic = "auto_verifie"
        BY <1>10, <1>11, <2>1, ProfileSurfaces DEF T
    <2> QED
        BY <1>4, <1>5, <1>6, <2>2
<1> QED
    BY <1>12, <1>13

LEMMA CompleteAnnex ==
    ASSUME Inv, Current(dossier), dossier.usage # None, dossier.stage = "analyse",
           NEW R, R = ReadOf(dossier), Conclusion(dossier.usage, dossier.plan, R) = "complet",
           NEW c \in DOMAIN R.role, RoleOf(dossier, c) = "annexe"
    PROVE  dossier.recon.business[c].lot = LotInside(dossier.usage, dossier.plan, c)
<1> DEFINE f == dossier.usage
           P == dossier.recon.proposals
           inside == LotInside(f, dossier.plan, c)
           z == Zone("secondaire_annexe", "profil")
<1>1. dossier.recon = ReconcileProfile(dossier, f) /\ Typed(dossier)
    BY ProfileShown
<1>2. R.role[c] = "annexe" /\ c \in Contours(dossier)
    BY ReadOfFields
<1>3. c \in ByRole(R, {"annexe"}) /\ c \in ByRole(R, ZoneRoles)
    BY <1>2 DEF ByRole, ZoneRoles
<1>4. dossier.recon.business[c] = ProfileZone(dossier, f, R, P, c)
    BY <1>1, <1>3, ProfileFields
<1>5. HoldingProposals(P, c) = {}
    <2>1. c \notin Grouped(dossier)
        BY <1>2 DEF ByRole, Inv, Resulted, AuthorityOf
    <2> QED
        BY <2>1, GroupedMember DEF HoldingProposals
<1>6. AnnexNumbers(dossier, f, P, c, inside) = {inside}
    BY <1>3, CompleteFacts DEF AnnexNumbers
<1>7. ~Attached(dossier, c)
    BY <1>2 DEF Inv, Analysed, NoZones, Attached, Contours
<1> HIDE DEF inside, P
<1>8. ProfileZone(dossier, f, R, P, c) = Annex(dossier, c, z, {inside})
    BY <1>2, <1>5, <1>6 DEF ProfileZone, inside
<1>9. Annex(dossier, c, z, {inside}).lot = inside
    <2>1. (CHOOSE n \in {inside} : TRUE) = inside
        OBVIOUS
    <2>2. \A n : [z EXCEPT !.status = "a_confirmer", !.lot = n].lot = n
        BY DEF Zone
    <2> HIDE DEF z
    <2> QED
        BY <1>7, <2>1, <2>2 DEF Annex
<1> QED
    BY <1>4, <1>8, <1>9 DEF inside

LEMMA CompleteHolds ==
    ASSUME Inv, Current(dossier)
    PROVE  CompleteIsVerified
<1> DEFINE f == dossier.usage
           P == dossier.recon.proposals
           R == ReadOf(dossier)
           shown == ShownReading(f, dossier.plan)
<1> SUFFICES ASSUME f # None, dossier.stage = "analyse", Human(dossier) = {},
                    Conclusion(f, dossier.plan, shown) = "complet",
                    NEW c \in DOMAIN shown.role
             PROVE  /\ ContourRole(f, dossier.plan, c) = "surface_principale" =>
                         \E n \in HoldingProposals(P, c) :
                           \/ P[n].status = "auto_verifie"
                           \/ Cardinality({ContourSpace(dossier.plan, q) : q \in P[n].contours}) > 1
                    /\ ContourRole(f, dossier.plan, c) = "annexe" =>
                         dossier.recon.business[c].lot = LotInside(f, dossier.plan, c)
    BY DEF CompleteIsVerified
<1>1. shown = R
    BY AppliedAsShown
<1>2. ContourRole(f, dossier.plan, c) = RoleOf(dossier, c)
    BY DEF RoleOf
<1> HIDE DEF R, shown, P
<1>3. Conclusion(f, dossier.plan, R) = "complet" /\ c \in DOMAIN R.role
    BY <1>1
<1>4. RoleOf(dossier, c) = "surface_principale" =>
        \E n \in HoldingProposals(P, c) :
          \/ P[n].status = "auto_verifie"
          \/ Cardinality({ContourSpace(dossier.plan, q) : q \in P[n].contours}) > 1
    BY <1>3, CompleteLot DEF R, P
<1>5. RoleOf(dossier, c) = "annexe" => dossier.recon.business[c].lot = LotInside(f, dossier.plan, c)
    BY <1>3, CompleteAnnex DEF R
<1> QED
    BY <1>2, <1>4, <1>5

-----------------------------------------------------------------------------
(* What the user is shown is true.                                          *)

\* A profile is applied as its check showed it, the one that is recommended
\* finds lots, the reason shown for a lot is what its verification lacked, and a
\* plan said to be read completely is (evaluation.py, compatibility.py).
THEOREM ShownAsApplied ==
    ASSUME \A r : IsResult(r) => r # None
    PROVE  Spec => [](ShownIsApplied /\ RecommendedFindsLots /\ ReasonIsTrue /\ CompleteIsVerified)
<1>1. Inv /\ Current(dossier) =>
        ShownIsApplied /\ RecommendedFindsLots /\ ReasonIsTrue /\ CompleteIsVerified
    BY ShownHolds, RecommendationHolds, ReasonHolds, CompleteHolds
<1> QED
    BY <1>1, Invariance, CurrentInvariance, PTL

\* All that the user is shown of a profile, of a plan and of a dossier is what
\* the engine does with them, the announcement that nothing is left to take over
\* (quick_analysis.py) too when the plans annotate no surface as zero: such a
\* surface would be verified beside a contour within the tolerance of zero, and
\* block the dossier.
THEOREM ShownIsAlwaysTrue ==
    ASSUME \A r : IsResult(r) => r # None, \A p \in Plans : Positive(p)
    PROVE  Spec => []ShownIsTrue
<1>1. Inv /\ Current(dossier) => NothingLeftNothingBlocks
    <2>1. Inv => dossier.plan \in Plans
        BY DEF Inv, Typed
    <2> QED
        BY <2>1, NothingLeftHolds
<1>2. Spec => []NothingLeftNothingBlocks
    BY <1>1, Invariance, CurrentInvariance, PTL
<1>3. ShownIsApplied /\ RecommendedFindsLots /\ ReasonIsTrue /\ CompleteIsVerified
        /\ NothingLeftNothingBlocks /\ ResultIsCurrent => ShownIsTrue
    BY DEF ShownIsTrue
<1> QED
    BY <1>2, <1>3, ShownAsApplied, ResultStaysCurrent, PTL
=============================================================================
