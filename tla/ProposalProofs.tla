--------------------------- MODULE ProposalProofs ---------------------------
(***************************************************************************)
(* Facts about the two engines, for every plan, profile, tolerance and     *)
(* distance: what a reconciliation may put in a proposal and in a business *)
(* zone.  Contours are assigned by the nearest number, the representations *)
(* of a lot are selected by preference, and the lots of the profile and    *)
(* those of the automatic engine are put together.                         *)
(***************************************************************************)
EXTENDS ProfileFit, FiniteSetTheorems, WellFoundedInduction, TLAPS

-----------------------------------------------------------------------------
(* The preference is a well-founded order of the occurrences of a plan.     *)

LEMMA NatMin ==
    ASSUME NEW T \in SUBSET Nat, T # {}
    PROVE  \E x \in T : \A y \in T : x <= y
<1>1. PICK x \in T : \A y \in T : ~ (<<y, x>> \in OpToRel(<, Nat))
    BY NatLessThanWellFounded, WFMin
<1>2. \A y \in T : ~ (y < x)
    BY <1>1 DEF OpToRel
<1> QED
    BY <1>2

Ranks == Nat \X Nat \X Nat \X Nat

\* Before is the lexicographic order.
LEMMA BeforeCases ==
    ASSUME NEW x \in Ranks, NEW y \in Ranks
    PROVE  Before(x, y) <=>
             \/ x[1] < y[1]
             \/ x[1] = y[1] /\ x[2] < y[2]
             \/ x[1] = y[1] /\ x[2] = y[2] /\ x[3] < y[3]
             \/ x[1] = y[1] /\ x[2] = y[2] /\ x[3] = y[3] /\ x[4] < y[4]
<1>1. DOMAIN x = 1..4
    BY DEF Ranks
<1>2. Before(x, y) <=> \E i \in 1..4 : x[i] < y[i] /\ \A j \in 1..(i - 1) : x[j] = y[j]
    BY <1>1 DEF Before
<1>3. ASSUME NEW i \in 1..4
      PROVE  (\A j \in 1..(i - 1) : x[j] = y[j]) <=>
               /\ i > 1 => x[1] = y[1]
               /\ i > 2 => x[2] = y[2]
               /\ i > 3 => x[3] = y[3]
    <2>1. i \in {1, 2, 3, 4}
        OBVIOUS
    <2>2. 1..0 = {} /\ 1..1 = {1} /\ 1..2 = {1, 2} /\ 1..3 = {1, 2, 3}
        OBVIOUS
    <2> QED
        BY <2>1, <2>2
<1>4. 1..4 = {1, 2, 3, 4}
    OBVIOUS
<1> QED
    BY <1>2, <1>3, <1>4

\* Occurrences are told apart by their anchors, which are handles.
Ranked(G) ==
    /\ \A o \in G : o.anchor \in Nat
    /\ \A o, k \in G : o.anchor = k.anchor => o = k

LEMMA PreferenceRanks ==
    ASSUME NEW d, NEW G, Ranked(G), NEW o \in G
    PROVE  Preference(d, o) \in Ranks
BY DEF Ranked, Preference, Ranks

LEMMA PreferredTransitive ==
    ASSUME NEW d, NEW G, Ranked(G), NEW a \in G, NEW b \in G, NEW c \in G,
           Preferred(d, a, b), Preferred(d, b, c)
    PROVE  Preferred(d, a, c)
<1> DEFINE x == Preference(d, a)
           y == Preference(d, b)
           z == Preference(d, c)
<1>1. x \in Ranks /\ y \in Ranks /\ z \in Ranks
    BY PreferenceRanks
<1>2. Before(x, y) /\ Before(y, z)
    BY DEF Preferred
<1> HIDE DEF x, y, z
<1>3. /\ x[1] \in Nat /\ x[2] \in Nat /\ x[3] \in Nat /\ x[4] \in Nat
      /\ y[1] \in Nat /\ y[2] \in Nat /\ y[3] \in Nat /\ y[4] \in Nat
      /\ z[1] \in Nat /\ z[2] \in Nat /\ z[3] \in Nat /\ z[4] \in Nat
    BY <1>1 DEF Ranks
<1>4. Before(x, z)
    BY <1>1, <1>2, <1>3, BeforeCases
<1> QED
    BY <1>4 DEF Preferred, x, z

\* There is always a most preferred occurrence.
LEMMA PreferredMin ==
    ASSUME NEW d, NEW G, Ranked(G), NEW T \in SUBSET G, T # {}
    PROVE  \E o \in T : \A k \in T : ~Preferred(d, k, o)
<1> DEFINE p(o) == Preference(d, o)
<1>0. \A o \in T : /\ p(o) \in Ranks
                   /\ p(o)[1] \in Nat /\ p(o)[2] \in Nat /\ p(o)[3] \in Nat /\ p(o)[4] \in Nat
    BY PreferenceRanks DEF Ranks
<1> HIDE DEF p
<1>1. PICK a \in T : \A k \in T : p(a)[1] <= p(k)[1]
    <2> DEFINE V == {p(o)[1] : o \in T}
    <2>1. V \in SUBSET Nat /\ V # {}
        BY <1>0
    <2>2. \E v \in V : \A w \in V : v <= w
        BY <2>1, NatMin
    <2> QED
        BY <2>2
<1> DEFINE T1 == {o \in T : p(o)[1] = p(a)[1]}
<1>2. PICK b \in T1 : \A k \in T1 : p(b)[2] <= p(k)[2]
    <2> DEFINE V == {p(o)[2] : o \in T1}
    <2>1. V \in SUBSET Nat /\ V # {}
        BY <1>0
    <2>2. \E v \in V : \A w \in V : v <= w
        BY <2>1, NatMin
    <2> QED
        BY <2>2
<1> DEFINE T2 == {o \in T1 : p(o)[2] = p(b)[2]}
<1>3. PICK c \in T2 : \A k \in T2 : p(c)[3] <= p(k)[3]
    <2> DEFINE V == {p(o)[3] : o \in T2}
    <2>1. V \in SUBSET Nat /\ V # {}
        BY <1>0
    <2>2. \E v \in V : \A w \in V : v <= w
        BY <2>1, NatMin
    <2> QED
        BY <2>2
<1> DEFINE T3 == {o \in T2 : p(o)[3] = p(c)[3]}
<1>4. PICK o \in T3 : \A k \in T3 : p(o)[4] <= p(k)[4]
    <2> DEFINE V == {p(o)[4] : o \in T3}
    <2>1. V \in SUBSET Nat /\ V # {}
        BY <1>0
    <2>2. \E v \in V : \A w \in V : v <= w
        BY <2>1, NatMin
    <2> QED
        BY <2>2
<1>5. ASSUME NEW k \in T, Before(p(k), p(o))
      PROVE  FALSE
    <2>1. o \in T /\ p(o)[1] = p(a)[1] /\ p(o)[2] = p(b)[2] /\ p(o)[3] = p(c)[3]
        OBVIOUS
    <2>2. \/ p(k)[1] < p(o)[1]
          \/ p(k)[1] = p(o)[1] /\ p(k)[2] < p(o)[2]
          \/ p(k)[1] = p(o)[1] /\ p(k)[2] = p(o)[2] /\ p(k)[3] < p(o)[3]
          \/ p(k)[1] = p(o)[1] /\ p(k)[2] = p(o)[2] /\ p(k)[3] = p(o)[3] /\ p(k)[4] < p(o)[4]
        BY <1>0, <1>5, <2>1, BeforeCases
    <2> QED
        BY <1>0, <1>1, <1>2, <1>3, <1>4, <2>1, <2>2
<1> QED
    BY <1>5 DEF Preferred, p

-----------------------------------------------------------------------------
(* The representations kept of a lot: the selection exists, and is one.     *)

\* k is preferred to o and o duplicates it.
Excludes(d, k, o) == Preferred(d, k, o) /\ Duplicate(d, k, o)

IsKernel(d, D, K) ==
    /\ K \subseteq D
    /\ \A o \in D : o \in K <=> ~ \E k \in K : Excludes(d, k, o)

\* D holds what is preferred to its members.
Closed(d, G, D) ==
    /\ D \subseteq G
    /\ \A o \in D, k \in G : Preferred(d, k, o) => k \in D

\* Two selections agree where both are made.
LEMMA KernelsAgree ==
    ASSUME NEW d, NEW G, Ranked(G), NEW D, NEW E, Closed(d, G, D), Closed(d, G, E),
           NEW K, NEW L, IsKernel(d, D, K), IsKernel(d, E, L)
    PROVE  \A o \in D \intersect E : o \in K <=> o \in L
<1> DEFINE T == {o \in D \intersect E : ~(o \in K <=> o \in L)}
<1> SUFFICES ASSUME T # {}
             PROVE  FALSE
    OBVIOUS
<1>1. T \in SUBSET G
    BY DEF Closed
<1>2. PICK o \in T : \A k \in T : ~Preferred(d, k, o)
    BY <1>1, PreferredMin
<1>3. ASSUME NEW k \in G, Excludes(d, k, o)
      PROVE  k \in K <=> k \in L
    <2>1. k \in D \intersect E
        BY <1>3 DEF Closed, Excludes
    <2> QED
        BY <1>2, <1>3, <2>1 DEF Excludes
<1>4. K \subseteq G /\ L \subseteq G
    BY DEF IsKernel, Closed
<1>5. (\E k \in K : Excludes(d, k, o)) <=> (\E k \in L : Excludes(d, k, o))
    BY <1>3, <1>4
<1> QED
    BY <1>5 DEF IsKernel

\* o has a place in the selection of some closed set.
Settled(d, G, o) ==
    \E D \in SUBSET G : \E K \in SUBSET D : Closed(d, G, D) /\ IsKernel(d, D, K) /\ o \in D

LEMMA KernelOfSettled ==
    ASSUME NEW d, NEW G, Ranked(G), NEW B, Closed(d, G, B), \A o \in B : Settled(d, G, o)
    PROVE  \E K \in SUBSET B : IsKernel(d, B, K)
<1> DEFINE K == {o \in B : \E D \in SUBSET G : \E L \in SUBSET D :
                     Closed(d, G, D) /\ IsKernel(d, D, L) /\ o \in L}
<1>1. ASSUME NEW D \in SUBSET G, NEW L \in SUBSET D, Closed(d, G, D), IsKernel(d, D, L),
             NEW o \in B, o \in D
      PROVE  o \in K <=> o \in L
    <2>1. ASSUME o \in K
          PROVE  o \in L
        <3>1. PICK E \in SUBSET G : \E M \in SUBSET E : Closed(d, G, E) /\ IsKernel(d, E, M) /\ o \in M
            BY <2>1
        <3>2. PICK M \in SUBSET E : Closed(d, G, E) /\ IsKernel(d, E, M) /\ o \in M
            BY <3>1
        <3>3. o \in D \intersect E
            BY <1>1, <3>2
        <3> QED
            BY <1>1, <3>2, <3>3, KernelsAgree
    <2> QED
        BY <1>1, <2>1
<1>2. ASSUME NEW o \in B
      PROVE  o \in K <=> ~ \E k \in K : Excludes(d, k, o)
    <2>1. PICK D \in SUBSET G : \E L \in SUBSET D : Closed(d, G, D) /\ IsKernel(d, D, L) /\ o \in D
        BY DEF Settled
    <2>2. PICK L \in SUBSET D : Closed(d, G, D) /\ IsKernel(d, D, L) /\ o \in D
        BY <2>1
    <2>3. o \in K <=> o \in L
        BY <1>1, <2>2
    <2>4. o \in L <=> ~ \E k \in L : Excludes(d, k, o)
        BY <2>2 DEF IsKernel
    <2>5. ASSUME NEW k \in G, Excludes(d, k, o)
          PROVE  k \in K <=> k \in L
        <3>1. k \in B /\ k \in D
            BY <2>2, <2>5 DEF Closed, Excludes
        <3> QED
            BY <1>1, <2>2, <3>1
    <2>6. K \subseteq G /\ L \subseteq G
        BY DEF Closed
    <2> HIDE DEF K
    <2> QED
        BY <2>3, <2>4, <2>5, <2>6
<1>3. K \in SUBSET B
    OBVIOUS
<1> HIDE DEF K
<1> QED
    BY <1>2, <1>3 DEF IsKernel

LEMMA KernelExists ==
    ASSUME NEW d, NEW G, Ranked(G)
    PROVE  \E K \in SUBSET G : IsKernel(d, G, K)
<1>1. \A o \in G : Settled(d, G, o)
    <2> DEFINE T == {o \in G : ~Settled(d, G, o)}
    <2> SUFFICES ASSUME T # {}
                 PROVE  FALSE
        OBVIOUS
    <2>1. PICK o \in T : \A k \in T : ~Preferred(d, k, o)
        BY PreferredMin
    <2> DEFINE B == {k \in G : Preferred(d, k, o)}
               D == B \union {o}
    <2>2. ASSUME NEW k \in G, NEW j \in G, Preferred(d, k, j), Preferred(d, j, o)
          PROVE  Preferred(d, k, o)
        BY <2>2, PreferredTransitive
    <2>3. Closed(d, G, B) /\ Closed(d, G, D)
        BY <2>2 DEF Closed
    <2>4. \A k \in B : Settled(d, G, k)
        BY <2>1
    <2>5. PICK K \in SUBSET B : IsKernel(d, B, K)
        <3> HIDE DEF B
        <3> QED
            BY <2>3, <2>4, KernelOfSettled
    <2>6. \A k \in D : ~Preferred(d, o, k)
        <3>1. ~Preferred(d, o, o)
            <4>1. {o} \in SUBSET G /\ {o} # {}
                OBVIOUS
            <4>2. \E x \in {o} : \A k \in {o} : ~Preferred(d, k, x)
                BY <4>1, PreferredMin, ZenonT(20)
            <4> QED
                BY <4>2
        <3> QED
            BY <2>2, <3>1
    <2> DEFINE L == IF \E k \in K : Excludes(d, k, o) THEN K ELSE K \union {o}
    <2>7. L \in SUBSET D
        OBVIOUS
    <2>8. ASSUME NEW j \in D
          PROVE  j \in L <=> ~ \E k \in L : Excludes(d, k, j)
        <3>1. (\E k \in L : Excludes(d, k, j)) <=> (\E k \in K : Excludes(d, k, j))
            BY <2>6 DEF Excludes
        <3>2. o \notin B
            BY <2>6
        <3>3. CASE j = o
            BY <3>1, <3>2, <3>3
        <3>4. CASE j # o
            <4>1. j \in B /\ (j \in L <=> j \in K)
                BY <3>4
            <4> QED
                BY <2>5, <3>1, <4>1 DEF IsKernel
        <3> QED
            BY <3>3, <3>4
    <2>9. IsKernel(d, D, L)
        <3> HIDE DEF L, D
        <3> QED
            BY <2>7, <2>8 DEF IsKernel
    <2>10. D \in SUBSET G
        OBVIOUS
    <2>11. Settled(d, G, o)
        <3> HIDE DEF L, D
        <3>1. o \in D
            BY DEF D
        <3> QED
            BY <2>3, <2>7, <2>9, <2>10, <3>1 DEF Settled
    <2> QED
        BY <2>11
<1>2. Closed(d, G, G)
    BY DEF Closed
<1> QED
    BY <1>1, <1>2, KernelOfSettled

\* The representations kept are some of those drawn, and an occurrence is set
\* aside exactly when it duplicates a kept one that is preferred
\* (_split_representations).
LEMMA KeptIsKernel ==
    ASSUME NEW d, NEW G, Ranked(G)
    PROVE  IsKernel(d, G, Kept(d, G))
<1>1. PICK K \in SUBSET G : IsKernel(d, G, K)
    BY KernelExists
<1>2. \A o \in G : o \in K <=> ~ \E k \in K : Preferred(d, k, o) /\ Duplicate(d, k, o)
    BY <1>1 DEF IsKernel, Excludes
<1>3. /\ Kept(d, G) \in SUBSET G
      /\ \A o \in G : o \in Kept(d, G) <=>
            ~ \E k \in Kept(d, G) : Preferred(d, k, o) /\ Duplicate(d, k, o)
    BY <1>2 DEF Kept
<1> QED
    BY <1>3 DEF IsKernel, Excludes

LEMMA CountedOfKept ==
    ASSUME NEW d, NEW G, Ranked(G)
    PROVE  /\ Counted(d, G) \subseteq Kept(d, G)
           /\ Counted(d, G) \subseteq G
BY KeptIsKernel DEF Counted, Representations, IsKernel

-----------------------------------------------------------------------------
(* Occurrences of lot numbers.                                              *)

\* Handles are ordered as naturals.
Handled(p) == DOMAIN p.texts \subseteq Nat

LEMMA OccurrenceFields ==
    ASSUME NEW d, NEW o \in Occurrences(d)
    PROVE  /\ o.anchor \in Anchors(d)
           /\ o = OccurrenceOf(d, o.anchor, Assigned(d, o.anchor), Annotation(d, o.anchor))
           /\ o.contours = Assigned(d, o.anchor)
           /\ o.number = d.plan.texts[o.anchor].value
           /\ o.sheet = d.plan.texts[o.anchor].sheet
           /\ o.contours # {} \/ o.annotated # None
           /\ o.status \in DOMAIN Priority
<1>1. PICK t \in Anchors(d) : o = OccurrenceOf(d, t, Assigned(d, t), Annotation(d, t))
    BY DEF Occurrences
<1>2. o.anchor = t /\ o.contours = Assigned(d, t)
    BY <1>1 DEF OccurrenceOf
<1>3. o.contours # {} \/ o.annotated # None
    BY DEF Occurrences
<1>4. o.number = d.plan.texts[t].value /\ o.sheet = d.plan.texts[t].sheet
    BY <1>1 DEF OccurrenceOf
<1>5. o.status = OccurrenceStatus(d, t, Assigned(d, t), Annotation(d, t))
    BY <1>1 DEF OccurrenceOf
<1>6. o.status \in DOMAIN Priority
    BY <1>5 DEF OccurrenceStatus, Priority
<1> QED
    BY <1>1, <1>2, <1>3, <1>4, <1>6

LEMMA OccurrencesRanked ==
    ASSUME NEW d, Handled(d.plan)
    PROVE  /\ Ranked(Occurrences(d))
           /\ \A n : Ranked(OfNumber(Occurrences(d), n))
<1>1. \A o \in Occurrences(d) : o.anchor \in Nat
    BY OccurrenceFields DEF Anchors, Texts, Handled
<1>2. ASSUME NEW o \in Occurrences(d), NEW k \in Occurrences(d), o.anchor = k.anchor
      PROVE  o = k
    BY <1>2, OccurrenceFields
<1> QED
    BY <1>1, <1>2 DEF Ranked, OfNumber

\* A contour is drawn for one occurrence, the nearest, and nobody excluded it.
LEMMA OccurrencesApart ==
    ASSUME NEW d
    PROVE  /\ \A o \in Occurrences(d) : o.contours \subseteq Principal(d)
           /\ \A o, k \in Occurrences(d) : o.contours \intersect k.contours # {} => o = k
<1>1. \A o \in Occurrences(d) : o.contours \subseteq Principal(d)
    BY OccurrenceFields DEF Assigned
<1>2. ASSUME NEW o \in Occurrences(d), NEW k \in Occurrences(d),
             NEW c, c \in o.contours, c \in k.contours
      PROVE  o = k
    <2>1. c \in Assigned(d, o.anchor) /\ c \in Assigned(d, k.anchor)
        BY <1>2, OccurrenceFields
    <2>2. o.anchor = k.anchor
        BY <2>1 DEF Assigned
    <2> QED
        BY <2>2, OccurrenceFields
<1> QED
    BY <1>1, <1>2

-----------------------------------------------------------------------------
(* Proposals.                                                               *)

\* The fields of a proposal, whichever engine makes it.
Proposal(p) ==
    p = [contours |-> p.contours, aside |-> p.aside, texts |-> p.texts,
         geometric |-> p.geometric, annotated |-> p.annotated, proposed |-> p.proposed,
         automatic |-> p.automatic, status |-> p.status, decision |-> p.decision,
         origin |-> p.origin]

\* A decision changes the status and nothing else.
LEMMA DecidedFields ==
    ASSUME NEW d, NEW n, NEW p, Proposal(p)
    PROVE  LET q == Decided(d, n, p)
           IN  /\ Proposal(q)
               /\ q.contours = p.contours /\ q.aside = p.aside /\ q.texts = p.texts
               /\ q.geometric = p.geometric /\ q.automatic = p.automatic /\ q.origin = p.origin
               /\ q.annotated = p.annotated /\ q.proposed = p.proposed
               /\ q.decision = PreviousDecision(d, n)
               /\ q.status = IF PreviousDecision(d, n) = None THEN p.status
                             ELSE PreviousDecision(d, n).status
<1> DEFINE e == PreviousDecision(d, n)
           r == [contours |-> p.contours, aside |-> p.aside, texts |-> p.texts,
                 geometric |-> p.geometric, annotated |-> p.annotated, proposed |-> p.proposed,
                 automatic |-> p.automatic,
                 status |-> IF e = None THEN p.status ELSE e.status,
                 decision |-> e, origin |-> p.origin]
<1>1. Decided(d, n, p) = [p EXCEPT !.decision = e, !.status = IF e = None THEN @ ELSE e.status]
    BY DEF Decided
<1> HIDE DEF e
<1>2. Decided(d, n, p) = r
    BY <1>1 DEF Proposal
<1>3. Proposal(r)
    BY DEF Proposal
<1> QED
    BY <1>2, <1>3 DEF e

\* What both engines respect: a contour is counted once, and a lot of which a
\* representation is set aside is not verified.
Counts(P) ==
    \A n \in DOMAIN P :
        /\ P[n].contours \intersect P[n].aside = {}
        /\ \A m \in DOMAIN P \ {n} : P[n].contours \intersect P[m].contours = {}

Prudent(P) == \A n \in DOMAIN P : P[n].aside # {} => P[n].automatic # "auto_verifie"

\* The proposals carry the decisions of the previous result.
Carries(d, P) ==
    \A n \in DOMAIN P :
        /\ P[n].decision = PreviousDecision(d, n)
        /\ P[n].automatic \in DOMAIN Priority
        /\ P[n].status = IF PreviousDecision(d, n) = None THEN P[n].automatic
                         ELSE PreviousDecision(d, n).status

\* The weakest of some statuses is one of them.
LEMMA WeakestStatus ==
    ASSUME NEW S \in SUBSET DOMAIN Priority, S # {}
    PROVE  Weakest(S) \in S /\ \A q \in S : Priority[q] <= Priority[Weakest(S)]
<1>1. DOMAIN Priority = {"auto_verifie", "a_confirmer", "non_resolu", "contradictoire"}
    BY DEF Priority
<1>2. /\ Priority["auto_verifie"] = 1 /\ Priority["a_confirmer"] = 2
      /\ Priority["non_resolu"] = 3 /\ Priority["contradictoire"] = 4
    BY DEF Priority
<1>3. \E s \in S : \A q \in S : Priority[q] <= Priority[s]
    BY <1>1, <1>2
<1> QED
    BY <1>3 DEF Weakest

\* Setting representations aside never verifies a lot.
LEMMA AutomaticStatusPrudent ==
    ASSUME NEW counted, NEW aside, counted \union aside # {},
           \A o \in counted : o.status \in DOMAIN Priority
    PROVE  /\ AutomaticStatus(counted, aside) \in DOMAIN Priority
           /\ aside # {} => AutomaticStatus(counted, aside) # "auto_verifie"
<1> DEFINE S == {o.status : o \in counted}
<1>1. CASE aside # {} /\ \A o \in counted : o.status = "auto_verifie"
    BY <1>1 DEF AutomaticStatus, Priority
<1>2. CASE ~(aside # {} /\ \A o \in counted : o.status = "auto_verifie")
    <2>1. S # {} /\ S \in SUBSET DOMAIN Priority
        BY <1>2
    <2>2. Weakest(S) \in S /\ \A q \in S : Priority[q] <= Priority[Weakest(S)]
        BY <2>1, WeakestStatus
    <2>3. AutomaticStatus(counted, aside) = Weakest(S)
        BY <1>2 DEF AutomaticStatus
    <2>4. ASSUME aside # {}
          PROVE  Weakest(S) # "auto_verifie"
        <3>1. PICK o \in counted : o.status # "auto_verifie"
            BY <1>2, <2>4
        <3>2. o.status \in S /\ Priority[o.status] \in 2..4
            BY <3>1 DEF Priority
        <3>3. Priority["auto_verifie"] = 1
            BY DEF Priority
        <3> QED
            BY <2>2, <3>2, <3>3
    <2> QED
        BY <2>1, <2>2, <2>3, <2>4
<1> QED
    BY <1>1, <1>2

-----------------------------------------------------------------------------
(* The automatic engine.                                                    *)

\* The calculated surface of a lot, occurrence by occurrence.
GeometricSum(O) == MapThenSumSet(LAMBDA o : o.geometric, O)

\* What its proposals are.
LegacyHolds(d, P) ==
    /\ DOMAIN P = {o.number : o \in Occurrences(d)}
    /\ \A n \in DOMAIN P :
        /\ Proposal(P[n]) /\ P[n].origin = "legacy"
        /\ P[n].contours = ContoursOf(Counted(d, OfNumber(Occurrences(d), n)))
        /\ P[n].geometric = GeometricSum(Counted(d, OfNumber(Occurrences(d), n)))
        /\ P[n].contours \union P[n].aside \subseteq Principal(d)
    /\ Counts(P) /\ Prudent(P) /\ Carries(d, P)

LEMMA ContoursOfMember ==
    ASSUME NEW O, NEW c
    PROVE  c \in ContoursOf(O) <=> \E o \in O : c \in o.contours
BY DEF ContoursOf

LEMMA LegacyProposalFields ==
    ASSUME NEW G, NEW counted
    PROVE  /\ Proposal(LegacyProposal(G, counted))
           /\ LegacyProposal(G, counted).contours = ContoursOf(counted)
           /\ LegacyProposal(G, counted).aside = ContoursOf(G \ counted) \ ContoursOf(counted)
           /\ LegacyProposal(G, counted).automatic = AutomaticStatus(counted, G \ counted)
           /\ LegacyProposal(G, counted).status = AutomaticStatus(counted, G \ counted)
           /\ LegacyProposal(G, counted).origin = "legacy"
           /\ LegacyProposal(G, counted).geometric = GeometricSum(counted)
BY DEF LegacyProposal, ProposalOf, Proposal, Surfaces, GeometricSum

LEMMA LegacyProposalsHold ==
    ASSUME NEW d, Handled(d.plan)
    PROVE  LegacyHolds(d, LegacyProposals(d, Occurrences(d)))
<1> DEFINE O == Occurrences(d)
           P == LegacyProposals(d, O)
           Group(n) == OfNumber(O, n)
           counted(n) == Counted(d, Group(n))
           Raw(n) == LegacyProposal(Group(n), counted(n))
<1>1. DOMAIN P = {o.number : o \in O} /\ \A n \in DOMAIN P : P[n] = Decided(d, n, Raw(n))
    BY DEF LegacyProposals
<1>2. ASSUME NEW n
      PROVE  Group(n) \subseteq O /\ counted(n) \subseteq Group(n)
    <2>1. Ranked(Group(n))
        BY OccurrencesRanked
    <2>2. counted(n) \subseteq Group(n)
        BY <2>1, CountedOfKept
    <2> QED
        BY <2>2 DEF OfNumber
<1> HIDE DEF counted, Group, P, O
<1>3. ASSUME NEW n \in DOMAIN P
      PROVE  /\ Proposal(P[n]) /\ P[n].origin = "legacy"
             /\ P[n].contours = ContoursOf(counted(n)) /\ P[n].geometric = GeometricSum(counted(n))
             /\ P[n].aside = ContoursOf(Group(n) \ counted(n)) \ ContoursOf(counted(n))
             /\ P[n].automatic = AutomaticStatus(counted(n), Group(n) \ counted(n))
             /\ P[n].decision = PreviousDecision(d, n)
             /\ P[n].status = IF PreviousDecision(d, n) = None THEN P[n].automatic
                              ELSE PreviousDecision(d, n).status
    <2>1. /\ Proposal(Raw(n)) /\ Raw(n).origin = "legacy"
          /\ Raw(n).contours = ContoursOf(counted(n)) /\ Raw(n).geometric = GeometricSum(counted(n))
          /\ Raw(n).aside = ContoursOf(Group(n) \ counted(n)) \ ContoursOf(counted(n))
          /\ Raw(n).automatic = AutomaticStatus(counted(n), Group(n) \ counted(n))
          /\ Raw(n).status = AutomaticStatus(counted(n), Group(n) \ counted(n))
        BY LegacyProposalFields
    <2>2. P[n] = Decided(d, n, Raw(n))
        BY <1>1
    <2> DEFINE p == Raw(n)
               q == Decided(d, n, p)
    <2>3. Proposal(p)
        BY <2>1
    <2> HIDE DEF Raw, p
    <2>4. /\ Proposal(q)
          /\ q.contours = p.contours /\ q.aside = p.aside
          /\ q.geometric = p.geometric /\ q.automatic = p.automatic /\ q.origin = p.origin
          /\ q.decision = PreviousDecision(d, n)
          /\ q.status = IF PreviousDecision(d, n) = None THEN p.status
                        ELSE PreviousDecision(d, n).status
        BY <2>3, DecidedFields
    <2>5. P[n] = q
        BY <2>2 DEF p
    <2> HIDE DEF q
    <2> QED
        BY <2>1, <2>4, <2>5 DEF p
<1>4. \A o \in O : o.contours \subseteq Principal(d)
    BY OccurrencesApart DEF O
<1>5. \A n \in DOMAIN P : P[n].contours \union P[n].aside \subseteq Principal(d)
    <2> SUFFICES ASSUME NEW n \in DOMAIN P, NEW c \in P[n].contours \union P[n].aside
                 PROVE  c \in Principal(d)
        OBVIOUS
    <2>1. PICK o \in Group(n) : c \in o.contours
        <3>1. c \in ContoursOf(counted(n)) \/ c \in ContoursOf(Group(n) \ counted(n))
            BY <1>3
        <3> QED
            BY <1>2, <3>1, ContoursOfMember
    <2> QED
        BY <1>2, <1>4, <2>1
<1>6. Counts(P)
    <2>1. ASSUME NEW n \in DOMAIN P
          PROVE  P[n].contours \intersect P[n].aside = {}
        BY <1>3
    <2>2. ASSUME NEW n \in DOMAIN P, NEW m \in DOMAIN P, n # m,
                 NEW c, c \in P[n].contours, c \in P[m].contours
          PROVE  FALSE
        <3>1. PICK o \in counted(n) : c \in o.contours
            BY <1>3, <2>2, ContoursOfMember
        <3>2. PICK k \in counted(m) : c \in k.contours
            BY <1>3, <2>2, ContoursOfMember
        <3>3. o \in Group(n) /\ k \in Group(m)
            BY <1>2, <3>1, <3>2
        <3>4. o \in O /\ k \in O /\ o.number = n /\ k.number = m
            BY <3>3 DEF Group, OfNumber
        <3>5. o = k
            BY <3>1, <3>2, <3>4, OccurrencesApart DEF O
        <3> QED
            BY <2>2, <3>4, <3>5
    <2> QED
        BY <2>1, <2>2 DEF Counts
<1>7. ASSUME NEW n \in DOMAIN P
      PROVE  /\ P[n].automatic \in DOMAIN Priority
             /\ P[n].aside # {} => P[n].automatic # "auto_verifie"
    <2>1. Group(n) # {}
        BY <1>1 DEF Group, OfNumber
    <2>2. counted(n) \union (Group(n) \ counted(n)) # {}
        BY <1>2, <2>1
    <2>3. \A o \in counted(n) : o.status \in DOMAIN Priority
        BY <1>2, OccurrenceFields DEF O
    <2>4. P[n].aside # {} => Group(n) \ counted(n) # {}
        BY <1>3 DEF ContoursOf
    <2> DEFINE rest == Group(n) \ counted(n)
    <2>5. /\ AutomaticStatus(counted(n), rest) \in DOMAIN Priority
          /\ rest # {} => AutomaticStatus(counted(n), rest) # "auto_verifie"
        <3> HIDE DEF rest
        <3>1. counted(n) \union rest # {}
            BY <2>2 DEF rest
        <3> QED
            BY <2>3, <3>1, AutomaticStatusPrudent
    <2> QED
        BY <1>3, <2>4, <2>5
<1>8. Prudent(P) /\ Carries(d, P)
    BY <1>3, <1>7 DEF Prudent, Carries
<1>9. \A n \in DOMAIN P :
        /\ P[n].contours = ContoursOf(Counted(d, OfNumber(Occurrences(d), n)))
        /\ P[n].geometric = GeometricSum(Counted(d, OfNumber(Occurrences(d), n)))
    BY <1>3 DEF counted, Group, O
<1>10. DOMAIN P = {o.number : o \in Occurrences(d)}
    BY <1>1 DEF O
<1>11. LegacyHolds(d, P)
    BY <1>3, <1>5, <1>6, <1>8, <1>9, <1>10 DEF LegacyHolds
<1> QED
    BY <1>11 DEF P, O

-----------------------------------------------------------------------------
(* The lots of a profile and those that complete them.                      *)

LEMMA ReadingFields ==
    ASSUME NEW f, NEW p, NEW skipped
    PROVE  /\ DOMAIN ReadPlan(f, p, skipped).role
                = {c \in DOMAIN p.contours \ skipped : ~Rejected(f, p, c)}
           /\ \A c \in DOMAIN ReadPlan(f, p, skipped).role :
                ReadPlan(f, p, skipped).role[c] = ContourRole(f, p, c)
           /\ DOMAIN ReadPlan(f, p, skipped).lot
                = ByRole(ReadPlan(f, p, skipped), {"surface_principale"})
BY DEF ReadPlan, ValuesOf, Principals, ByRole

\* A reading gives a role to contours, and a number to some principal ones.
IsReading(reading) ==
    DOMAIN reading.lot = ByRole(reading, {"surface_principale"})

\* The numbers of a profile and the contours left to the automatic engine
\* never meet.
LEMMA UsableApart ==
    ASSUME NEW d, NEW reading, NEW legacy, IsReading(reading)
    PROVE  /\ \A n \in LotsOf(reading) :
                Members(reading, n) \intersect LegacyUsable(d, reading, legacy) = {}
           /\ \A n, m \in LotsOf(reading) :
                n # m => Members(reading, n) \intersect Members(reading, m) = {}
           /\ LegacyUsable(d, reading, legacy)
                \intersect (ProfileExcluded(d, reading) \union ByRole(reading, {"annexe", "partie_commune"})) = {}
           /\ \A n \in LotsOf(reading) :
                Members(reading, n)
                  \intersect (ProfileExcluded(d, reading) \union ByRole(reading, {"annexe", "partie_commune"})) = {}
<1>1. ASSUME NEW n \in LotsOf(reading), NEW c \in Members(reading, n)
      PROVE  c \in Identified(reading) /\ c \in DOMAIN reading.role /\ reading.role[c] = "surface_principale"
    <2>1. n # None
        BY DEF LotsOf
    <2>2. c \in DOMAIN reading.lot /\ reading.lot[c].value = n
        BY DEF Members
    <2> QED
        BY <2>1, <2>2 DEF Identified, IsReading, ByRole
<1>2. ASSUME NEW c \in DOMAIN reading.role, reading.role[c] = "surface_principale"
      PROVE  /\ c \notin Undecided(d, reading)
             /\ c \notin ByRole(reading, {"annexe", "partie_commune"})
    BY <1>2 DEF Undecided, ByRole, ZoneRoles
<1>3. ASSUME NEW c \in DOMAIN reading.role, reading.role[c] = "surface_principale",
             c \in ProfileExcluded(d, reading)
      PROVE  FALSE
    <2>1. c \in ByRole(reading, SetAsideRoles)
        BY <1>3 DEF ProfileExcluded
    <2> QED
        BY <1>3, <2>1 DEF ByRole, SetAsideRoles
<1>4. \A n \in LotsOf(reading) :
        Members(reading, n) \intersect LegacyUsable(d, reading, legacy) = {}
    BY <1>1, <1>2 DEF LegacyUsable
<1>5. \A n, m \in LotsOf(reading) : n # m => Members(reading, n) \intersect Members(reading, m) = {}
    BY DEF Members
<1>6. ASSUME NEW c \in LegacyUsable(d, reading, legacy)
      PROVE  c \notin ProfileExcluded(d, reading) \union ByRole(reading, {"annexe", "partie_commune"})
    <2>1. CASE c \in DOMAIN reading.lot
        <3>1. c \in DOMAIN reading.role /\ reading.role[c] = "surface_principale"
            BY <2>1 DEF IsReading, ByRole
        <3> QED
            BY <1>2, <1>3, <3>1
    <2>2. CASE c \in Undecided(d, reading)
        BY <2>2 DEF Undecided, ByRole, ZoneRoles
    <2> QED
        BY <2>1, <2>2 DEF LegacyUsable
<1>7. \A n \in LotsOf(reading) :
        Members(reading, n)
          \intersect (ProfileExcluded(d, reading) \union ByRole(reading, {"annexe", "partie_commune"})) = {}
    BY <1>1, <1>2, <1>3
<1> QED
    BY <1>4, <1>5, <1>6, <1>7

\* What the proposals of a profiled dossier are.
HybridHolds(d, reading, usable, L, P) ==
    /\ DOMAIN P \subseteq LotsOf(reading) \union DOMAIN L
    /\ LotsOf(reading) \subseteq DOMAIN P
    /\ \A n \in LotsOf(reading) :
        /\ Proposal(P[n]) /\ P[n].origin = "profil"
        /\ P[n].contours = Members(reading, n) /\ P[n].aside = {}
        /\ P[n].geometric = TotalArea(d, Members(reading, n))
    /\ \A n \in DOMAIN P \ LotsOf(reading) :
        /\ Proposal(P[n]) /\ P[n].origin = "legacy"
        /\ P[n].contours = L[n].contours /\ P[n].contours \subseteq usable
        /\ P[n].geometric = L[n].geometric
        /\ P[n].aside = L[n].aside \intersect usable
    /\ Counts(P) /\ Prudent(P) /\ Carries(d, P)

LEMMA ProfileProposalFields ==
    ASSUME NEW d, NEW f, NEW reading, NEW C
    PROVE  /\ Proposal(ProfileProposal(d, f, reading, C))
           /\ ProfileProposal(d, f, reading, C).contours = C
           /\ ProfileProposal(d, f, reading, C).geometric = TotalArea(d, C)
           /\ ProfileProposal(d, f, reading, C).aside = {}
           /\ ProfileProposal(d, f, reading, C).origin = "profil"
           /\ ProfileProposal(d, f, reading, C).automatic \in DOMAIN Priority
           /\ ProfileProposal(d, f, reading, C).status = ProfileProposal(d, f, reading, C).automatic
<1> DEFINE surfaces == Surfaces(TotalArea(d, C), AnnotatedBy(d.plan, AnnotationTexts(reading, C)))
           status == ProfileStatus(f, surfaces, Doubtful(d.plan, reading, C))
<1>1. ProfileProposal(d, f, reading, C)
        = ProfileProposalOf(reading, C, ByPriority(f, surfaces), status)
    BY DEF ProfileProposal, WithSurfaces
<1>2. status \in DOMAIN Priority
    BY DEF ProfileStatus, Priority
<1>3. ByPriority(f, surfaces).geometric = TotalArea(d, C)
    BY DEF ByPriority, Surfaces
<1> HIDE DEF surfaces, status
<1> QED
    BY <1>1, <1>2, <1>3 DEF ProfileProposalOf, Proposal

\* A proposal of the automatic engine loses only what it may not set aside.
LEMMA TrimmedFields ==
    ASSUME NEW p, Proposal(p), NEW U
    PROVE  /\ Proposal([p EXCEPT !.aside = @ \intersect U])
           /\ [p EXCEPT !.aside = @ \intersect U].contours = p.contours
           /\ [p EXCEPT !.aside = @ \intersect U].geometric = p.geometric
           /\ [p EXCEPT !.aside = @ \intersect U].aside = p.aside \intersect U
           /\ [p EXCEPT !.aside = @ \intersect U].automatic = p.automatic
           /\ [p EXCEPT !.aside = @ \intersect U].status = p.status
           /\ [p EXCEPT !.aside = @ \intersect U].origin = p.origin
    BY DEF Proposal

LEMMA HybridProposalsHold ==
    ASSUME NEW d, NEW f, NEW reading, IsReading(reading), NEW legacy,
           LegacyHolds(d, legacy.proposals)
    PROVE  HybridHolds(d, reading, LegacyUsable(d, reading, legacy), legacy.proposals,
                       HybridProposals(d, f, reading, legacy, LegacyUsable(d, reading, legacy)))
<1> DEFINE usable == LegacyUsable(d, reading, legacy)
           L == legacy.proposals
           rest == Completing(reading, legacy, usable)
           P == HybridProposals(d, f, reading, legacy, usable)
           Own(n) == ProfileProposal(d, f, reading, Members(reading, n))
           Other(n) == [L[n] EXCEPT !.aside = @ \intersect usable]
<1>1. /\ DOMAIN P = LotsOf(reading) \union rest
      /\ \A n \in LotsOf(reading) : P[n] = Decided(d, n, Own(n))
      /\ \A n \in rest \ LotsOf(reading) : P[n] = Decided(d, n, Other(n))
    BY DEF HybridProposals
<1>2. rest \subseteq DOMAIN L \ LotsOf(reading) /\ \A n \in rest : L[n].contours \subseteq usable
    BY DEF Completing
<1>3. ASSUME NEW n \in LotsOf(reading)
      PROVE  /\ Proposal(P[n]) /\ P[n].origin = "profil"
             /\ P[n].contours = Members(reading, n) /\ P[n].aside = {}
             /\ P[n].geometric = TotalArea(d, Members(reading, n))
             /\ P[n].automatic \in DOMAIN Priority
             /\ P[n].decision = PreviousDecision(d, n)
             /\ P[n].status = IF PreviousDecision(d, n) = None THEN P[n].automatic
                              ELSE PreviousDecision(d, n).status
    <2>1. /\ Proposal(Own(n)) /\ Own(n).origin = "profil"
          /\ Own(n).contours = Members(reading, n) /\ Own(n).aside = {}
          /\ Own(n).geometric = TotalArea(d, Members(reading, n))
          /\ Own(n).automatic \in DOMAIN Priority /\ Own(n).status = Own(n).automatic
        BY ProfileProposalFields
    <2>2. P[n] = Decided(d, n, Own(n))
        BY <1>1
    <2> HIDE DEF Own, P
    <2> QED
        BY <2>1, <2>2, DecidedFields
<1>4. ASSUME NEW n \in rest
      PROVE  /\ Proposal(P[n]) /\ P[n].origin = "legacy"
             /\ P[n].contours = L[n].contours /\ P[n].aside = L[n].aside \intersect usable
             /\ P[n].geometric = L[n].geometric
             /\ P[n].automatic = L[n].automatic
             /\ P[n].automatic \in DOMAIN Priority
             /\ P[n].decision = PreviousDecision(d, n)
             /\ P[n].status = IF PreviousDecision(d, n) = None THEN P[n].automatic
                              ELSE PreviousDecision(d, n).status
    <2>1. /\ Proposal(L[n]) /\ L[n].origin = "legacy"
          /\ L[n].automatic \in DOMAIN Priority
          /\ PreviousDecision(d, n) = None => L[n].status = L[n].automatic
        BY <1>2 DEF LegacyHolds, Carries
    <2>2. /\ Proposal(Other(n)) /\ Other(n).origin = "legacy"
          /\ Other(n).contours = L[n].contours /\ Other(n).aside = L[n].aside \intersect usable
          /\ Other(n).geometric = L[n].geometric
          /\ Other(n).automatic = L[n].automatic /\ Other(n).status = L[n].status
        <3> HIDE DEF L, usable
        <3> QED
            BY <2>1, TrimmedFields
    <2>3. P[n] = Decided(d, n, Other(n))
        BY <1>1, <1>2
    <2> HIDE DEF Other, P, L
    <2> QED
        BY <2>1, <2>2, <2>3, DecidedFields
<1> HIDE DEF P, rest, usable, L
<1>5. Counts(P)
    <2>1. /\ \A n \in LotsOf(reading) : Members(reading, n) \intersect usable = {}
          /\ \A n, m \in LotsOf(reading) :
                n # m => Members(reading, n) \intersect Members(reading, m) = {}
        BY UsableApart DEF usable
    <2>2. Counts(L)
        BY DEF LegacyHolds, L
    <2>3. ASSUME NEW n \in DOMAIN P
          PROVE  P[n].contours \intersect P[n].aside = {}
        <3>1. CASE n \in LotsOf(reading)
            BY <1>3, <3>1
        <3>2. CASE n \in rest
            BY <1>2, <1>4, <2>2, <3>2 DEF Counts
        <3> QED
            BY <1>1, <3>1, <3>2
    <2>4. ASSUME NEW n \in DOMAIN P, NEW m \in DOMAIN P, n # m
          PROVE  P[n].contours \intersect P[m].contours = {}
        <3>1. CASE n \in LotsOf(reading) /\ m \in LotsOf(reading)
            BY <1>3, <2>1, <2>4, <3>1
        <3>2. CASE n \in LotsOf(reading) /\ m \in rest
            BY <1>2, <1>3, <1>4, <2>1, <3>2
        <3>3. CASE n \in rest /\ m \in LotsOf(reading)
            BY <1>2, <1>3, <1>4, <2>1, <3>3
        <3>4. CASE n \in rest /\ m \in rest
            BY <1>2, <1>4, <2>2, <2>4, <3>4 DEF Counts
        <3> QED
            BY <1>1, <3>1, <3>2, <3>3, <3>4
    <2> QED
        BY <2>3, <2>4 DEF Counts
<1>6. Prudent(P)
    <2> SUFFICES ASSUME NEW n \in DOMAIN P, P[n].aside # {}
                 PROVE  P[n].automatic # "auto_verifie"
        BY DEF Prudent
    <2>1. n \in rest
        BY <1>1, <1>3
    <2>2. L[n].aside # {}
        BY <1>4, <2>1
    <2> QED
        BY <1>2, <1>4, <2>1, <2>2 DEF LegacyHolds, Prudent, L
<1>7. Carries(d, P)
    BY <1>1, <1>3, <1>4 DEF Carries
<1>8. HybridHolds(d, reading, usable, L, P)
    BY <1>1, <1>2, <1>3, <1>4, <1>5, <1>6, <1>7 DEF HybridHolds
<1> QED
    BY <1>8 DEF P, usable, L

-----------------------------------------------------------------------------
(* The dossier and its result.                                              *)

\* The fields of a dossier, and of a result whichever engine makes it.
IsDossier(d) ==
    d = [stage |-> d.stage, plan |-> d.plan, usage |-> d.usage, unit |-> d.unit,
         sheet |-> d.sheet, layer |-> d.layer, zones |-> d.zones, lots |-> d.lots,
         recon |-> d.recon, import |-> d.import]

IsResult(r) ==
    r = [proposals |-> r.proposals, business |-> r.business, excluded |-> r.excluded,
         unresolved |-> r.unresolved, blocking |-> r.blocking]

\* What the engines read, the decisions of the previous result apart; and all
\* that a handler decides before it reconciles.
SameDrawing(d, e) ==
    /\ e.plan = d.plan /\ e.usage = d.usage /\ e.unit = d.unit
    /\ e.sheet = d.sheet /\ e.layer = d.layer /\ e.zones = d.zones
SameInputs(d, e) ==
    SameDrawing(d, e) /\ e.stage = d.stage /\ e.lots = d.lots /\ e.import = d.import

\* Reconciling changes the result alone.
LEMMA ReconcileFields ==
    ASSUME NEW d, IsDossier(d)
    PROVE  /\ IsDossier(Reconcile(d)) /\ SameInputs(d, Reconcile(d))
           /\ Reconcile(d).recon = IF d.usage = None THEN ReconcileLegacy(d)
                                   ELSE ReconcileProfile(d, d.usage)
<1> DEFINE r == IF d.usage = None THEN ReconcileLegacy(d) ELSE ReconcileProfile(d, d.usage)
           e == [stage |-> d.stage, plan |-> d.plan, usage |-> d.usage, unit |-> d.unit,
                 sheet |-> d.sheet, layer |-> d.layer, zones |-> d.zones, lots |-> d.lots,
                 recon |-> r, import |-> d.import]
<1>1. Reconcile(d) = [d EXCEPT !.recon = r]
    BY DEF Reconcile
<1> HIDE DEF r
<1>2. Reconcile(d) = e
    BY <1>1 DEF IsDossier
<1>3. IsDossier(e) /\ SameInputs(d, e) /\ e.recon = r
    BY DEF IsDossier, SameInputs, SameDrawing
<1> QED
    BY <1>2, <1>3 DEF r

\* The result of the automatic engine.
LEMMA LegacyFields ==
    ASSUME NEW d
    PROVE  /\ IsResult(ReconcileLegacy(d))
           /\ ReconcileLegacy(d).proposals = LegacyProposals(d, Occurrences(d))
           /\ ReconcileLegacy(d).excluded = {c \in Contours(d) : Excluded(d, c)}
           /\ DOMAIN ReconcileLegacy(d).business = OnLayers(d, PrincipalLayers \union AnnexLayers)
           /\ \A c \in DOMAIN ReconcileLegacy(d).business :
                ReconcileLegacy(d).business[c]
                  = LegacyZone(d, c, LegacyProposals(d, Occurrences(d)), CountedAnchors(d, Occurrences(d)))
<1> DEFINE P == LegacyProposals(d, Occurrences(d))
           A == CountedAnchors(d, Occurrences(d))
           X == {c \in Contours(d) : Excluded(d, c)}
           B == OnLayers(d, PrincipalLayers \union AnnexLayers)
<1>1. ReconcileLegacy(d) = LegacyResult(d, P, A, X, B)
    BY DEF ReconcileLegacy, LegacyOf
<1> HIDE DEF P, A, X, B
<1>2. /\ IsResult(LegacyResult(d, P, A, X, B))
      /\ LegacyResult(d, P, A, X, B).proposals = P
      /\ LegacyResult(d, P, A, X, B).excluded = X
      /\ LegacyResult(d, P, A, X, B).business = [c \in B |-> LegacyZone(d, c, P, A)]
    BY DEF LegacyResult, IsResult
<1> QED
    BY <1>1, <1>2 DEF P, A, X, B

\* What the profile of a dossier reads of its plan.
ReadOf(d) == ReadPlan(d.usage, d.plan, Skipped(d))

\* The result with a profile.
LEMMA ProfileFields ==
    ASSUME NEW d
    PROVE  /\ IsResult(ReconcileProfile(d, d.usage))
           /\ ReconcileProfile(d, d.usage).proposals
                = HybridProposals(d, d.usage, ReadOf(d), ReconcileLegacy(d),
                                  LegacyUsable(d, ReadOf(d), ReconcileLegacy(d)))
           /\ ReconcileProfile(d, d.usage).excluded
                = Skipped(d) \union ProfileExcluded(d, ReadOf(d))
                    \union (Undecided(d, ReadOf(d)) \intersect ReconcileLegacy(d).excluded)
           /\ DOMAIN ReconcileProfile(d, d.usage).business
                = ByRole(ReadOf(d), ZoneRoles)
                    \union (Undecided(d, ReadOf(d)) \intersect DOMAIN ReconcileLegacy(d).business)
           /\ \A c \in DOMAIN ReconcileProfile(d, d.usage).business :
                ReconcileProfile(d, d.usage).business[c]
                  = IF c \in ByRole(ReadOf(d), ZoneRoles)
                    THEN ProfileZone(d, d.usage, ReadOf(d), ReconcileProfile(d, d.usage).proposals, c)
                    ELSE WithProposal(ReconcileLegacy(d).business[c],
                                      ReconcileProfile(d, d.usage).proposals, c)
<1> DEFINE R == ReadOf(d)
           L == ReconcileLegacy(d)
           P == HybridProposals(d, d.usage, R, L, LegacyUsable(d, R, L))
           Z == ByRole(R, ZoneRoles)
           U == Undecided(d, R)
           r == Combined(d, d.usage, R, L, P, Z, U)
<1>1. ReconcileProfile(d, d.usage) = r
    BY DEF ReconcileProfile, ProfileOf, ReadOf
<1> HIDE DEF R, L, P, Z, U
<1>2. /\ IsResult(r) /\ r.proposals = P
      /\ r.excluded = Skipped(d) \union ProfileExcluded(d, R) \union (U \intersect L.excluded)
      /\ r.business = [c \in Z \union (U \intersect DOMAIN L.business) |->
                         IF c \in Z THEN ProfileZone(d, d.usage, R, P, c)
                         ELSE WithProposal(L.business[c], P, c)]
    BY DEF Combined, IsResult
<1> HIDE DEF r
<1> QED
    BY <1>1, <1>2 DEF R, L, P, Z, U

-----------------------------------------------------------------------------
(* What is read of a dossier does not depend on its result.                 *)

LEMMA SameClassification ==
    ASSUME NEW d, NEW e, SameDrawing(d, e)
    PROVE  /\ Contours(e) = Contours(d) /\ Human(e) = Human(d)
           /\ \A c : Excluded(e, c) <=> Excluded(d, c)
           /\ \A layers : OnLayers(e, layers) = OnLayers(d, layers)
           /\ Principal(e) = Principal(d)
           /\ Anchors(e) = Anchors(d)
<1>1. \A c : HumanExcluded(e, c) <=> HumanExcluded(d, c)
    BY DEF HumanExcluded, SameDrawing
<1>2. \A c : Excluded(e, c) <=> Excluded(d, c)
    BY <1>1 DEF Excluded, SameDrawing
<1>3. Contours(e) = Contours(d) /\ Anchors(e) = Anchors(d)
    BY DEF Contours, Anchors, SameDrawing
<1>4. Human(e) = Human(d)
    BY <1>1, <1>3 DEF Human
<1>5. \A layers : OnLayers(e, layers) = OnLayers(d, layers)
    BY <1>2, <1>3 DEF OnLayers, SameDrawing
<1> QED
    BY <1>2, <1>3, <1>4, <1>5 DEF Principal

LEMMA SameAreas ==
    ASSUME NEW d, NEW e, SameDrawing(d, e), NEW C
    PROVE  TotalArea(e, C) = TotalArea(d, C)
<1> DEFINE Sum(p, u) == MapThenSumSet(LAMBDA c : IF u = None THEN 0 ELSE Size(p.contours[c]) * Metres[u], C)
<1>1. TotalArea(d, C) = Sum(d.plan, d.unit) /\ TotalArea(e, C) = Sum(e.plan, e.unit)
    BY DEF TotalArea, Area
<1> HIDE DEF Sum
<1> QED
    BY <1>1 DEF SameDrawing

LEMMA SameOccurrences ==
    ASSUME NEW d, NEW e, SameDrawing(d, e)
    PROVE  Occurrences(e) = Occurrences(d)
<1>1. \A sheet, x, radius : NearestAnchor(e, sheet, x, radius) = NearestAnchor(d, sheet, x, radius)
    BY SameClassification DEF NearestAnchor, SameDrawing
<1>2. \A t : Assigned(e, t) = Assigned(d, t)
    BY <1>1, SameClassification DEF Assigned, SameDrawing
<1>3. ASSUME NEW t
      PROVE  Annotation(e, t) = Annotation(d, t)
    <2> DEFINE Received(x) == {s \in Texts(x.plan, "surface") :
                  t = NearestAnchor(x, x.plan.texts[s].sheet, x.plan.texts[s].x, SurfaceRadius)}
               Closest0(p, T) == Nearest(p, T, p.texts[t].x, SurfaceRadius)
               Value(p, s) == IF s = None THEN None ELSE p.texts[s].value
    <2>1. Received(e) = Received(d)
        BY <1>1 DEF SameDrawing
    <2>2. /\ Annotation(e, t) = Value(e.plan, Closest0(e.plan, Received(e)))
          /\ Annotation(d, t) = Value(d.plan, Closest0(d.plan, Received(d)))
        BY DEF Annotation
    <2> HIDE DEF Received, Closest0, Value
    <2> QED
        BY <2>1, <2>2 DEF SameDrawing
<1>4. \A t, kinds, radius : Reached(e, t, kinds, radius) = Reached(d, t, kinds, radius)
    BY DEF Reached, SameDrawing
<1>5. \A t : /\ Titled(e, t) <=> Titled(d, t)
             /\ AutomaticallyTitled(e, t) <=> AutomaticallyTitled(d, t)
             /\ Labelled(e, t) <=> Labelled(d, t)
    BY <1>4 DEF Titled, AutomaticallyTitled, Labelled, SameDrawing
<1>6. \A t, C, a : OccurrenceStatus(e, t, C, a) = OccurrenceStatus(d, t, C, a)
    BY <1>5, SameAreas DEF OccurrenceStatus, SameDrawing
<1>7. \A t, C, a : OccurrenceOf(e, t, C, a) = OccurrenceOf(d, t, C, a)
    BY <1>5, <1>6, SameAreas DEF OccurrenceOf, SameDrawing, Titled
<1>8. \A t : OccurrenceOf(e, t, Assigned(e, t), Annotation(e, t))
               = OccurrenceOf(d, t, Assigned(d, t), Annotation(d, t))
    BY <1>2, <1>3, <1>7
<1> DEFINE Drawn(x) == {OccurrenceOf(x, t, Assigned(x, t), Annotation(x, t)) : t \in Anchors(x)}
<1>9. Drawn(e) = Drawn(d)
    BY <1>8, SameClassification
<1>10. \A x : Occurrences(x) = {o \in Drawn(x) : /\ (o.titled \/ Labelled(x, o.anchor))
                                                  /\ (o.contours # {} \/ o.annotated # None)}
    BY DEF Occurrences
<1> HIDE DEF Drawn
<1> QED
    BY <1>5, <1>9, <1>10

LEMMA SameCounted ==
    ASSUME NEW d, NEW e, SameDrawing(d, e), NEW G, Ranked(G)
    PROVE  Counted(e, G) = Counted(d, G)
<1>1. \A k, o : Excludes(e, k, o) <=> Excludes(d, k, o)
    BY DEF Excludes, Preferred, Preference, Duplicate, SameDrawing
<1>2. IsKernel(d, G, Kept(e, G)) /\ IsKernel(d, G, Kept(d, G))
    BY <1>1, KeptIsKernel DEF IsKernel
<1>3. Closed(d, G, G)
    BY DEF Closed
<1>4. Kept(e, G) = Kept(d, G)
    BY <1>2, <1>3, KernelsAgree DEF IsKernel
<1> QED
    BY <1>4 DEF Counted

-----------------------------------------------------------------------------
(* What a reconciliation puts in a proposal, with a profile or without.     *)

LayerOf(d, c) == d.plan.contours[c].layer
RoleOf(d, c) == ContourRole(d.usage, d.plan, c)

\* The contours of a plan that lots and annexes may take: neither the user nor
\* the review of the plan changes them.
MayHold(d, c) ==
    IF d.usage = None THEN LayerOf(d, c) \in PrincipalLayers
    ELSE \/ RoleOf(d, c) = "surface_principale"
         \/ RoleOf(d, c) \notin ZoneRoles /\ LayerOf(d, c) \in PrincipalLayers
MayBeAnnex(d, c) ==
    IF d.usage = None THEN LayerOf(d, c) \in AnnexLayers
    ELSE \/ RoleOf(d, c) = "annexe"
         \/ RoleOf(d, c) \notin ZoneRoles /\ LayerOf(d, c) \in AnnexLayers

LEMMA HoldOrAnnex ==
    ASSUME NEW d, NEW c
    PROVE  ~ (MayHold(d, c) /\ MayBeAnnex(d, c))
BY PlanReadingAssumption DEF MayHold, MayBeAnnex, ZoneRoles

LEMMA PrincipalFields ==
    ASSUME NEW d, NEW layers, NEW c \in OnLayers(d, layers)
    PROVE  c \in Contours(d) /\ c \notin Human(d) /\ LayerOf(d, c) \in layers /\ ~Excluded(d, c)
BY DEF OnLayers, Human, Excluded, LayerOf

LEMMA ReadOfFields ==
    ASSUME NEW d
    PROVE  /\ IsReading(ReadOf(d))
           /\ DOMAIN ReadOf(d).role \subseteq Contours(d) \ Human(d)
           /\ \A c \in DOMAIN ReadOf(d).role : ReadOf(d).role[c] = RoleOf(d, c)
BY ReadingFields DEF ReadOf, IsReading, Contours, Skipped, RoleOf

\* The contours that the automatic engine may still make a lot of.
LEMMA UsableFields ==
    ASSUME NEW d, NEW c \in LegacyUsable(d, ReadOf(d), ReconcileLegacy(d))
    PROVE  /\ c \in DOMAIN ReadOf(d).role
           /\ RoleOf(d, c) = "surface_principale" \/ RoleOf(d, c) \notin ZoneRoles
<1>1. CASE c \in DOMAIN ReadOf(d).lot
    BY <1>1, ReadOfFields DEF IsReading, ByRole
<1>2. CASE c \in Undecided(d, ReadOf(d))
    BY <1>2, ReadOfFields DEF Undecided, ByRole, ZoneRoles
<1> QED
    BY <1>1, <1>2 DEF LegacyUsable

LEMMA MembersFields ==
    ASSUME NEW d, NEW n \in LotsOf(ReadOf(d)), NEW c \in Members(ReadOf(d), n)
    PROVE  c \in DOMAIN ReadOf(d).role /\ RoleOf(d, c) = "surface_principale"
BY ReadOfFields DEF Members, IsReading, ByRole

\* What the proposals of a reconciled dossier are.
ProposalsHold(d, P) ==
    /\ Counts(P) /\ Prudent(P) /\ Carries(d, P)
    /\ \A n \in DOMAIN P :
        /\ Proposal(P[n])
        /\ \A c \in P[n].contours \union P[n].aside :
             c \in Contours(d) /\ c \notin Human(d) /\ MayHold(d, c)

LEMMA LegacyReconciled ==
    ASSUME NEW d, Handled(d.plan)
    PROVE  /\ LegacyHolds(d, ReconcileLegacy(d).proposals)
           /\ d.usage = None => ProposalsHold(d, ReconcileLegacy(d).proposals)
<1> DEFINE P == ReconcileLegacy(d).proposals
<1>1. LegacyHolds(d, P)
    BY LegacyFields, LegacyProposalsHold
<1>2. ASSUME NEW n \in DOMAIN P, NEW c \in P[n].contours \union P[n].aside
      PROVE  c \in Contours(d) /\ c \notin Human(d) /\ LayerOf(d, c) \in PrincipalLayers
    <2>1. c \in Principal(d)
        BY <1>1 DEF LegacyHolds
    <2> QED
        BY <2>1, PrincipalFields DEF Principal
<1> QED
    BY <1>1, <1>2 DEF LegacyHolds, ProposalsHold, MayHold

LEMMA ProfileReconciled ==
    ASSUME NEW d, Handled(d.plan), d.usage # None
    PROVE  /\ HybridHolds(d, ReadOf(d), LegacyUsable(d, ReadOf(d), ReconcileLegacy(d)),
                          ReconcileLegacy(d).proposals, ReconcileProfile(d, d.usage).proposals)
           /\ ProposalsHold(d, ReconcileProfile(d, d.usage).proposals)
<1> DEFINE P == ReconcileProfile(d, d.usage).proposals
           L == ReconcileLegacy(d).proposals
           usable == LegacyUsable(d, ReadOf(d), ReconcileLegacy(d))
<1>1. LegacyHolds(d, L)
    BY LegacyReconciled
<1>2. HybridHolds(d, ReadOf(d), usable, L, P)
    BY <1>1, ProfileFields, HybridProposalsHold, ReadOfFields
<1>3. ASSUME NEW n \in DOMAIN P, NEW c \in P[n].contours \union P[n].aside
      PROVE  c \in Contours(d) /\ c \notin Human(d) /\ MayHold(d, c)
    <2>1. CASE n \in LotsOf(ReadOf(d))
        <3>1. c \in Members(ReadOf(d), n)
            BY <1>2, <2>1 DEF HybridHolds
        <3> QED
            BY <2>1, <3>1, MembersFields, ReadOfFields DEF MayHold
    <2>2. CASE n \notin LotsOf(ReadOf(d))
        <3>1. n \in DOMAIN L /\ c \in usable /\ c \in L[n].contours \union L[n].aside
            BY <1>2, <2>2 DEF HybridHolds
        <3>2. c \in Principal(d)
            BY <1>1, <3>1 DEF LegacyHolds
        <3>3. LayerOf(d, c) \in PrincipalLayers
            BY <3>2, PrincipalFields DEF Principal
        <3> QED
            BY <3>1, <3>3, UsableFields, ReadOfFields DEF MayHold
    <2> QED
        BY <2>1, <2>2
<1>4. \A n \in DOMAIN P : Proposal(P[n])
    BY <1>2 DEF HybridHolds
<1> QED
    BY <1>2, <1>3, <1>4 DEF HybridHolds, ProposalsHold

\* Both engines, as a handler runs them.
LEMMA Reconciles ==
    ASSUME NEW d, IsDossier(d), Handled(d.plan)
    PROVE  IsResult(Reconcile(d).recon) /\ ProposalsHold(d, Reconcile(d).recon.proposals)
<1>1. CASE d.usage = None
    <2>1. Reconcile(d).recon = ReconcileLegacy(d)
        BY <1>1, ReconcileFields
    <2> QED
        BY <1>1, <2>1, LegacyFields, LegacyReconciled
<1>2. CASE d.usage # None
    <2>1. Reconcile(d).recon = ReconcileProfile(d, d.usage)
        BY <1>2, ReconcileFields
    <2> QED
        BY <1>2, <2>1, ProfileFields, ProfileReconciled
<1> QED
    BY <1>1, <1>2

-----------------------------------------------------------------------------
(* The order of authority.                                                  *)

AuthorityOf(e) ==
    /\ \A c \in Human(e) :
        c \in e.recon.excluded /\ c \notin DOMAIN e.recon.business /\ c \notin Grouped(e)
    /\ e.usage # None =>
        /\ \A c \in Identified(ReadOf(e)) :
             HoldingProposals(e.recon.proposals, c) = {ReadOf(e).lot[c].value}
        /\ \A c \in ProfileExcluded(e, ReadOf(e)) \union ByRole(ReadOf(e), {"annexe", "partie_commune"}) :
             c \notin Grouped(e)

LEMMA GroupedMember ==
    ASSUME NEW d, NEW c
    PROVE  c \in Grouped(d) <=>
             \E n \in DOMAIN d.recon.proposals :
               c \in d.recon.proposals[n].contours \union d.recon.proposals[n].aside
BY DEF Grouped, Proposals

LEMMA SameReadings ==
    ASSUME NEW d, NEW e, SameDrawing(d, e)
    PROVE  /\ ReadOf(e) = ReadOf(d)
           /\ \A reading : ProfileExcluded(e, reading) = ProfileExcluded(d, reading)
<1>1. Skipped(e) = Skipped(d) /\ Contours(e) = Contours(d)
    BY SameClassification DEF Skipped
<1>2. ReadOf(e) = ReadOf(d)
    BY <1>1 DEF ReadOf, SameDrawing
<1>3. ASSUME NEW reading
      PROVE  ProfileExcluded(e, reading) = ProfileExcluded(d, reading)
    BY <1>1 DEF ProfileExcluded, SameDrawing
<1> QED
    BY <1>2, <1>3

\* The business zones are contours that nobody excluded.
LEMMA BusinessFields ==
    ASSUME NEW d, IsDossier(d)
    PROVE  /\ DOMAIN Reconcile(d).recon.business \subseteq Contours(d) \ Human(d)
           /\ Human(d) \subseteq Reconcile(d).recon.excluded
<1>1. DOMAIN ReconcileLegacy(d).business \subseteq Contours(d) \ Human(d)
    BY LegacyFields, PrincipalFields
<1>2. Human(d) \subseteq ReconcileLegacy(d).excluded
    BY LegacyFields DEF Human, Excluded
<1>3. CASE d.usage = None
    BY <1>1, <1>2, <1>3, ReconcileFields
<1>4. CASE d.usage # None
    <2>1. Reconcile(d).recon = ReconcileProfile(d, d.usage)
        BY <1>4, ReconcileFields
    <2>2. ByRole(ReadOf(d), ZoneRoles) \subseteq Contours(d) \ Human(d)
        BY ReadOfFields DEF ByRole
    <2> QED
        BY <1>1, <2>1, <2>2, ProfileFields DEF Skipped
<1> QED
    BY <1>3, <1>4

\* With a profile, a number it reads holds the contours it numbers and a lot
\* of the automatic engine none of those.
LEMMA ProfileHolds ==
    ASSUME NEW d, NEW reading, NEW legacy, IsReading(reading), NEW L, NEW P,
           HybridHolds(d, reading, LegacyUsable(d, reading, legacy), L, P)
    PROVE  /\ \A c \in Identified(reading) : HoldingProposals(P, c) = {reading.lot[c].value}
           /\ \A n \in DOMAIN P : (P[n].contours \union P[n].aside)
                \intersect (ProfileExcluded(d, reading) \union ByRole(reading, {"annexe", "partie_commune"})) = {}
<1> DEFINE usable == LegacyUsable(d, reading, legacy)
           apart == ProfileExcluded(d, reading) \union ByRole(reading, {"annexe", "partie_commune"})
<1>1. /\ \A n \in LotsOf(reading) : Members(reading, n) \intersect usable = {}
      /\ \A n, m \in LotsOf(reading) : n # m => Members(reading, n) \intersect Members(reading, m) = {}
      /\ usable \intersect apart = {}
      /\ \A n \in LotsOf(reading) : Members(reading, n) \intersect apart = {}
    BY UsableApart
<1> HIDE DEF usable, apart
<1>2. HybridHolds(d, reading, usable, L, P)
    BY DEF usable
<1>3. ASSUME NEW c \in Identified(reading)
      PROVE  HoldingProposals(P, c) = {reading.lot[c].value}
    <2> DEFINE n == reading.lot[c].value
    <2>1. n \in LotsOf(reading) /\ c \in Members(reading, n)
        BY DEF Identified, LotsOf, Members
    <2>2. n \in DOMAIN P /\ c \in P[n].contours
        BY <1>2, <2>1 DEF HybridHolds
    <2>3. ASSUME NEW m \in DOMAIN P, c \in P[m].contours
          PROVE  m = n
        BY <2>2, <2>3, <1>2 DEF HybridHolds, Counts
    <2> QED
        BY <2>2, <2>3 DEF HoldingProposals
<1>4. ASSUME NEW n \in DOMAIN P
      PROVE  (P[n].contours \union P[n].aside) \intersect apart = {}
    <2>1. CASE n \in LotsOf(reading)
        BY <1>1, <1>2, <2>1 DEF HybridHolds
    <2>2. CASE n \notin LotsOf(reading)
        BY <1>1, <1>2, <2>2 DEF HybridHolds
    <2> QED
        BY <2>1, <2>2
<1> QED
    BY <1>3, <1>4 DEF apart

LEMMA ReconcileAuthority ==
    ASSUME NEW d, IsDossier(d), Handled(d.plan)
    PROVE  AuthorityOf(Reconcile(d))
<1> DEFINE e == Reconcile(d)
           P == e.recon.proposals
<1>1. SameDrawing(d, e) /\ Human(e) = Human(d)
    BY ReconcileFields, SameClassification DEF SameInputs
<1>2. ProposalsHold(d, P)
    BY Reconciles
<1>3. ASSUME NEW c \in Human(e)
      PROVE  c \in e.recon.excluded /\ c \notin DOMAIN e.recon.business /\ c \notin Grouped(e)
    <2>1. c \notin Grouped(e)
        BY <1>1, <1>2, GroupedMember DEF ProposalsHold
    <2> QED
        BY <1>1, <2>1, BusinessFields
<1>4. ASSUME e.usage # None
      PROVE  /\ \A c \in Identified(ReadOf(e)) :
                  HoldingProposals(P, c) = {ReadOf(e).lot[c].value}
             /\ \A c \in ProfileExcluded(e, ReadOf(e)) \union ByRole(ReadOf(e), {"annexe", "partie_commune"}) :
                  c \notin Grouped(e)
    <2>1. d.usage # None /\ e.recon = ReconcileProfile(d, d.usage)
        BY <1>1, <1>4, ReconcileFields DEF SameDrawing
    <2>2. HybridHolds(d, ReadOf(d), LegacyUsable(d, ReadOf(d), ReconcileLegacy(d)),
                      ReconcileLegacy(d).proposals, P)
        BY <2>1, ProfileReconciled
    <2>3. ReadOf(e) = ReadOf(d) /\ ProfileExcluded(e, ReadOf(d)) = ProfileExcluded(d, ReadOf(d))
        BY <1>1, SameReadings
    <2>4. IsReading(ReadOf(d))
        BY ReadOfFields
    <2> HIDE DEF e
    <2>5. /\ \A c \in Identified(ReadOf(d)) : HoldingProposals(P, c) = {ReadOf(d).lot[c].value}
          /\ \A n \in DOMAIN P : (P[n].contours \union P[n].aside)
               \intersect (ProfileExcluded(d, ReadOf(d))
                             \union ByRole(ReadOf(d), {"annexe", "partie_commune"})) = {}
        BY <2>2, <2>4, ProfileHolds
    <2> QED
        BY <2>3, <2>5, GroupedMember
<1> QED
    BY <1>3, <1>4 DEF AuthorityOf

-----------------------------------------------------------------------------
(* Annexes.                                                                 *)

\* The fields of a business zone.
IsZone(z) == z = [category |-> z.category, status |-> z.status, lot |-> z.lot, origin |-> z.origin]

\* z, the business zone of c, says of an annex what the user made of it.
Follows(d, c, z) ==
    /\ IsZone(z)
    /\ z.category = "secondaire_annexe" =>
        /\ MayBeAnnex(d, c)
        /\ (z.status = "confirme_manuel") <=> Attached(d, c)
        /\ Attached(d, c) => z.lot = d.zones[c].lot

LEMMA AnnexFields ==
    ASSUME NEW d, NEW c, NEW origin, NEW S
    PROVE  /\ IsZone(Annex(d, c, Zone("secondaire_annexe", origin), S))
           /\ Annex(d, c, Zone("secondaire_annexe", origin), S).category = "secondaire_annexe"
           /\ (Annex(d, c, Zone("secondaire_annexe", origin), S).status = "confirme_manuel")
                <=> Attached(d, c)
           /\ Attached(d, c) =>
                Annex(d, c, Zone("secondaire_annexe", origin), S).lot = d.zones[c].lot
           /\ Annex(d, c, Zone("secondaire_annexe", origin), S).status = "a_confirmer" =>
                /\ S # {}
                /\ Annex(d, c, Zone("secondaire_annexe", origin), S).lot = CHOOSE n \in S : TRUE
<1> HIDE DEF Attached
<1>1. CASE Attached(d, c)
    BY <1>1 DEF Annex, Zone, IsZone
<1>2. CASE ~Attached(d, c) /\ S = {}
    BY <1>2 DEF Annex, Zone, IsZone
<1>3. CASE ~Attached(d, c) /\ S # {}
    BY <1>3 DEF Annex, Zone, IsZone
<1> QED
    BY <1>1, <1>2, <1>3

\* The status of a proposal changes no category.
LEMMA ProposedFields ==
    ASSUME NEW z, IsZone(z), NEW P, NEW c
    PROVE  /\ IsZone(Proposed(z, P, c)) /\ Proposed(z, P, c).category = z.category
           /\ IsZone(WithProposal(z, P, c)) /\ WithProposal(z, P, c).category = z.category
           /\ HoldingProposals(P, c) = {} /\ z.category # "principale" => WithProposal(z, P, c) = z
<1> DEFINE s == P[CHOOSE n \in HoldingProposals(P, c) : TRUE].status
<1>1. Proposed(z, P, c) = [z EXCEPT !.status = s]
    BY DEF Proposed
<1> HIDE DEF s
<1>2. \A t : /\ IsZone([z EXCEPT !.status = t])
             /\ [z EXCEPT !.status = t].category = z.category
    BY DEF IsZone
<1> QED
    BY <1>1, <1>2 DEF WithProposal

LEMMA LegacyZoneFields ==
    ASSUME NEW d, NEW c \in DOMAIN ReconcileLegacy(d).business
    PROVE  /\ IsZone(ReconcileLegacy(d).business[c])
           /\ ReconcileLegacy(d).business[c].category
                = IF LayerOf(d, c) \in AnnexLayers THEN "secondaire_annexe" ELSE "principale"
           /\ LayerOf(d, c) \in AnnexLayers =>
                /\ (ReconcileLegacy(d).business[c].status = "confirme_manuel") <=> Attached(d, c)
                /\ Attached(d, c) => ReconcileLegacy(d).business[c].lot = d.zones[c].lot
<1> DEFINE P == LegacyProposals(d, Occurrences(d))
           A == CountedAnchors(d, Occurrences(d))
           z == LegacyZone(d, c, P, A)
           S == Suggested(d, c, A, LotRadius, P)
<1>1. ReconcileLegacy(d).business[c] = z
    BY LegacyFields
<1> HIDE DEF P, A
<1>2. CASE LayerOf(d, c) \in AnnexLayers
    <2>1. z = Annex(d, c, Zone("secondaire_annexe", "legacy"), S)
        BY <1>2 DEF LegacyZone, LayerOf
    <2> HIDE DEF z, S
    <2> QED
        BY <1>1, <1>2, <2>1, AnnexFields
<1>3. CASE LayerOf(d, c) \notin AnnexLayers
    <2> DEFINE y == Zone("principale", "legacy")
    <2>1. z = y \/ z = Proposed(y, P, c)
        BY <1>3 DEF LegacyZone, LayerOf
    <2>2. IsZone(y) /\ y.category = "principale"
        BY DEF Zone, IsZone
    <2> HIDE DEF z, y
    <2> QED
        BY <1>1, <1>3, <2>1, <2>2, ProposedFields
<1> QED
    BY <1>2, <1>3

\* No proposal holds an annex.
LEMMA AnnexesAreFree ==
    ASSUME NEW d, NEW P, ProposalsHold(d, P), NEW c, MayBeAnnex(d, c)
    PROVE  HoldingProposals(P, c) = {}
BY HoldOrAnnex DEF HoldingProposals, ProposalsHold

LEMMA ProfileZoneFields ==
    ASSUME NEW d, NEW P, ProposalsHold(d, P), d.usage # None,
           NEW c \in ByRole(ReadOf(d), ZoneRoles)
    PROVE  Follows(d, c, ProfileZone(d, d.usage, ReadOf(d), P, c))
<1> DEFINE role == ReadOf(d).role[c]
           z == ProfileZone(d, d.usage, ReadOf(d), P, c)
           S == AnnexNumbers(d, d.usage, P, c, LotInside(d.usage, d.plan, c))
<1>1. role = RoleOf(d, c) /\ role \in ZoneRoles
    BY ReadOfFields DEF ByRole
<1>2. CASE role = "annexe"
    <2>1. MayBeAnnex(d, c)
        BY <1>1, <1>2 DEF MayBeAnnex
    <2>2. HoldingProposals(P, c) = {}
        BY <2>1, AnnexesAreFree
    <2>3. z = Annex(d, c, Zone("secondaire_annexe", "profil"), S)
        BY <1>2, <2>2 DEF ProfileZone
    <2> HIDE DEF S, z
    <2> QED
        BY <2>1, <2>3, AnnexFields DEF Follows, z
<1>3. CASE role # "annexe"
    <2> DEFINE y == Zone(CategoryByRole[role], "profil")
    <2>1. CategoryByRole[role] # "secondaire_annexe"
        BY <1>1, <1>3 DEF ZoneRoles, CategoryByRole
    <2>2. z = WithProposal(y, P, c)
        BY <1>3 DEF ProfileZone
    <2>3. IsZone(y) /\ y.category = CategoryByRole[role]
        BY DEF Zone, IsZone
    <2> HIDE DEF y, z, role
    <2> QED
        BY <2>1, <2>2, <2>3, ProposedFields DEF Follows, z
<1> QED
    BY <1>2, <1>3

LEMMA ReconcileAnnexes ==
    ASSUME NEW d, IsDossier(d), Handled(d.plan), NEW c \in DOMAIN Reconcile(d).recon.business
    PROVE  Follows(d, c, Reconcile(d).recon.business[c])
<1> DEFINE r == Reconcile(d).recon
           L == ReconcileLegacy(d)
           P == ReconcileProfile(d, d.usage).proposals
<1>1. CASE d.usage = None
    <2>1. r = L
        BY <1>1, ReconcileFields
    <2> QED
        BY <1>1, <2>1, LegacyZoneFields DEF Follows, MayBeAnnex
<1>2. CASE d.usage # None
    <2>1. r = ReconcileProfile(d, d.usage)
        BY <1>2, ReconcileFields
    <2>2. ProposalsHold(d, P)
        BY <1>2, ProfileReconciled
    <2>3. CASE c \in ByRole(ReadOf(d), ZoneRoles)
        BY <1>2, <2>1, <2>2, <2>3, ProfileFields, ProfileZoneFields
    <2>4. CASE c \notin ByRole(ReadOf(d), ZoneRoles)
        <3>1. /\ c \in Undecided(d, ReadOf(d)) /\ c \in DOMAIN L.business
              /\ r.business[c] = WithProposal(L.business[c], P, c)
            BY <2>1, <2>4, ProfileFields
        <3>2. RoleOf(d, c) \notin ZoneRoles
            BY <3>1, ReadOfFields DEF Undecided, ByRole
        <3> DEFINE y == L.business[c]
        <3>3. /\ IsZone(y)
              /\ y.category = IF LayerOf(d, c) \in AnnexLayers THEN "secondaire_annexe" ELSE "principale"
              /\ LayerOf(d, c) \in AnnexLayers =>
                   /\ (y.status = "confirme_manuel") <=> Attached(d, c)
                   /\ Attached(d, c) => y.lot = d.zones[c].lot
            BY <3>1, LegacyZoneFields
        <3>4. LayerOf(d, c) \in AnnexLayers => MayBeAnnex(d, c) /\ HoldingProposals(P, c) = {}
            BY <1>2, <2>2, <3>2, AnnexesAreFree DEF MayBeAnnex
        <3> HIDE DEF y, P, r
        <3>5. CASE LayerOf(d, c) \in AnnexLayers
            <4>1. r.business[c] = y
                BY <3>1, <3>3, <3>4, <3>5, ProposedFields DEF y
            <4> QED
                BY <3>3, <3>4, <3>5, <4>1 DEF Follows, r
        <3>6. CASE LayerOf(d, c) \notin AnnexLayers
            <4>1. IsZone(r.business[c]) /\ r.business[c].category = "principale"
                BY <3>1, <3>3, <3>6, ProposedFields DEF y
            <4> QED
                BY <4>1 DEF Follows, r
        <3> QED
            BY <3>5, <3>6
    <2> QED
        BY <2>3, <2>4
<1> QED
    BY <1>1, <1>2

-----------------------------------------------------------------------------
(* Finite sets.                                                             *)

\* Of some subsets of a finite set, one contains no other.
LEMMA SmallestSet ==
    ASSUME NEW S, IsFiniteSet(S), NEW F \in SUBSET SUBSET S, F # {}
    PROVE  \E T \in F : \A U \in F : U \subseteq T => U = T
<1>1. IsWellFoundedOn(StrictSubsetOrdering(S), SUBSET S)
    BY FS_StrictSubsetOrderingWellFounded, FS_FiniteSubsetsOfFinite
<1> DEFINE R == StrictSubsetOrdering(S)
           Sets == SUBSET S
<1>4. F \subseteq Sets /\ IsWellFoundedOn(R, Sets)
    BY <1>1
<1> HIDE DEF R, Sets
<1>5. \E T \in F : \A U \in F : ~ (<<U, T>> \in R)
    BY <1>4, WFMin
<1>2. PICK T \in F : \A U \in F : ~ (<<U, T>> \in StrictSubsetOrdering(S))
    BY <1>5 DEF R
<1>3. ASSUME NEW U \in F, U \subseteq T, U # T
      PROVE  FALSE
    <2>1. <<U, T>> \in (SUBSET S) \X (SUBSET S)
        OBVIOUS
    <2> QED
        BY <1>2, <1>3, <2>1 DEF StrictSubsetOrdering
<1> QED
    BY <1>3

LEMMA GreatestWeight ==
    ASSUME NEW S, IsFiniteSet(S), S # {}, NEW w \in [S -> Int]
    PROVE  \E x \in S : \A y \in S : w[y] <= w[x]
<1> DEFINE Headless(T) == \A x \in T : \E y \in T : w[x] < w[y]
           F == {T \in SUBSET S : T # {} /\ Headless(T)}
<1> SUFFICES ASSUME ~ \E x \in S : \A y \in S : w[y] <= w[x]
             PROVE  FALSE
    OBVIOUS
<1>1. F \in SUBSET SUBSET S /\ F # {}
    <2>1. S \in F
        OBVIOUS
    <2> QED
        BY <2>1
<1> HIDE DEF F
<1>2. PICK T \in F : \A U \in F : U \subseteq T => U = T
    BY <1>1, SmallestSet
<1> USE DEF F
<1>3. PICK a \in T : TRUE
    OBVIOUS
<1>4. PICK b \in T : w[a] < w[b]
    OBVIOUS
<1> DEFINE U == T \ {a}
<1>5. U \in F
    <2>1. b \in U
        BY <1>4
    <2>2. ASSUME NEW x \in U
          PROVE  \E y \in U : w[x] < w[y]
        <3>1. PICK y \in T : w[x] < w[y]
            OBVIOUS
        <3>2. CASE y # a
            BY <3>1, <3>2
        <3>3. CASE y = a
            <4>1. w[x] < w[b]
                BY <1>4, <3>1, <3>3
            <4> QED
                BY <2>1, <4>1
        <3> QED
            BY <3>2, <3>3
    <2> QED
        BY <2>1, <2>2
<1> QED
    BY <1>2, <1>5

LEMMA LeastWeight ==
    ASSUME NEW S, IsFiniteSet(S), S # {}, NEW w \in [S -> Int]
    PROVE  \E x \in S : \A y \in S : w[x] <= w[y]
<1> DEFINE v == [x \in S |-> 0 - w[x]]
<1>2. v \in [S -> Int]
    OBVIOUS
<1> HIDE DEF v
<1>3. PICK x \in S : \A y \in S : v[y] <= v[x]
    BY <1>2, GreatestWeight
<1>1. \A y \in S : 0 - w[y] <= 0 - w[x]
    BY <1>3 DEF v
<1> QED
    BY <1>1

LEMMA MinMaxOfFinite ==
    ASSUME NEW S \in SUBSET Int, IsFiniteSet(S), S # {}
    PROVE  /\ Min(S) \in S /\ \A x \in S : Min(S) <= x
           /\ Max(S) \in S /\ \A x \in S : x <= Max(S)
<1> DEFINE w == [x \in S |-> x]
<1>1. PICK x \in S : \A y \in S : w[x] <= w[y]
    BY LeastWeight
<1>2. PICK z \in S : \A y \in S : w[y] <= w[z]
    BY GreatestWeight
<1>3. \A y \in S : x <= y /\ z >= y
    BY <1>1, <1>2
<1> QED
    BY <1>3 DEF Min, Max

-----------------------------------------------------------------------------
(* The numbers that are read are written in the plan.                       *)

\* What the inspection makes of a drawing.
Drawing(p) ==
    /\ DOMAIN p.contours \subseteq Nat /\ IsFiniteSet(DOMAIN p.contours)
    /\ DOMAIN p.texts \subseteq Nat /\ IsFiniteSet(DOMAIN p.texts)
    /\ \A c \in DOMAIN p.contours :
         p.contours[c].lo \in Int /\ p.contours[c].hi \in Int /\ p.contours[c].lo < p.contours[c].hi
    /\ \A t \in DOMAIN p.texts :
         p.texts[t].x \in Int /\ (p.texts[t].kind = "surface" => p.texts[t].value \in Nat)

LEMMA DistanceType ==
    ASSUME NEW x \in Int, NEW y \in Int
    PROVE  Distance(x, y) \in Nat /\ Distance(x, y) = Distance(y, x)
BY DEF Distance

LEMMA CenterType ==
    ASSUME NEW p, Drawing(p), NEW c \in DOMAIN p.contours
    PROVE  Center(p.contours[c]) \in Int
BY DEF Drawing, Center

LEMMA NearestIsOne ==
    ASSUME NEW p, Drawing(p), NEW T \in SUBSET DOMAIN p.texts, NEW x \in Int, NEW radius
    PROVE  Nearest(p, T, x, radius) \in T \union {None}
<1> DEFINE N == Near(p, T, x, radius)
           w == [t \in N |-> Distance(p.texts[t].x, x)]
           C == {t \in N : \A u \in N : Distance(p.texts[t].x, x) <= Distance(p.texts[u].x, x)}
<1>1. N \subseteq T
    BY DEF Near
<1>2. IsFiniteSet(N) /\ N \subseteq Nat
    BY <1>1, FS_Subset DEF Drawing
<1> HIDE DEF N
<1>3. CASE N = {}
    BY <1>3 DEF Nearest, Closest, N
<1>4. CASE N # {}
    <2>1. w \in [N -> Int]
        BY <1>1, DistanceType DEF Drawing
    <2>2. PICK t \in N : \A u \in N : w[t] <= w[u]
        BY <1>2, <1>4, <2>1, LeastWeight
    <2>3. C # {} /\ C \subseteq N /\ C \subseteq Int
        <3>1. t \in C
            BY <2>2
        <3>2. C \subseteq N
            OBVIOUS
        <3> HIDE DEF C
        <3> QED
            BY <1>2, <3>1, <3>2
    <2>4. IsFiniteSet(C)
        BY <1>2, <2>3, FS_Subset
    <2>5. Min(C) \in C
        BY <2>3, <2>4, MinMaxOfFinite
    <2>6. Nearest(p, T, x, radius) = Min(C)
        BY <1>4 DEF Nearest, Closest, N
    <2> QED
        BY <1>1, <2>3, <2>5, <2>6
<1> QED
    BY <1>3, <1>4

LEMMA OnlyValueIsOne ==
    ASSUME NEW p, Drawing(p), NEW T \in SUBSET DOMAIN p.texts, NEW c \in DOMAIN p.contours
    PROVE  OnlyValue(p, c, T) \in T \union {None}
<1> DEFINE x == Center(p.contours[c])
           w == [t \in T |-> Distance(p.texts[t].x, x)]
           C == {t \in T : \A u \in T : Distance(p.texts[u].x, x) <= Distance(p.texts[t].x, x)}
<1>1. CASE Cardinality(Values(p, T)) # 1
    BY <1>1 DEF OnlyValue
<1>2. CASE Cardinality(Values(p, T)) = 1
    <2>1. T # {}
        <3>1. T = {} => Values(p, T) = {}
            BY DEF Values
        <3> QED
            BY <1>2, <3>1, FS_EmptySet
    <2>2. IsFiniteSet(T) /\ T \subseteq Int
        BY FS_Subset DEF Drawing
    <2>3. x \in Int
        BY CenterType
    <2>4. OnlyValue(p, c, T) = Max(C)
        BY <1>2 DEF OnlyValue
    <2> HIDE DEF x
    <2>5. w \in [T -> Int]
        <3>1. \A t \in T : p.texts[t].x \in Int
            BY DEF Drawing
        <3>2. \A t \in T : Distance(p.texts[t].x, x) \in Int
            <4> TAKE t \in T
            <4> DEFINE y == p.texts[t].x
            <4>1. y \in Int
                BY <3>1
            <4> HIDE DEF y
            <4>2. Distance(y, x) \in Nat
                BY <2>3, <4>1, DistanceType
            <4> QED
                BY <4>2 DEF y
        <3> QED
            BY <3>2
    <2>6. PICK t \in T : \A u \in T : w[u] <= w[t]
        BY <2>1, <2>2, <2>5, GreatestWeight
    <2>7. C # {} /\ C \subseteq T /\ C \subseteq Int
        BY <2>2, <2>6
    <2>8. IsFiniteSet(C)
        BY <2>2, <2>7, FS_Subset
    <2>9. Max(C) \in C
        BY <2>7, <2>8, MinMaxOfFinite
    <2> QED
        BY <2>4, <2>7, <2>9
<1> QED
    BY <1>1, <1>2

\* What a source answers is one of the texts it was given.
LEMMA ReadText ==
    ASSUME NEW p, Drawing(p), NEW c \in DOMAIN p.contours, NEW T \in SUBSET DOMAIN p.texts,
           NEW radius, NEW sources, DOMAIN sources \subseteq Nat
    PROVE  /\ Reading(radius, p, c, sources, T).text \in T \union {None}
           /\ Reading(radius, p, c, sources, T).value
                = IF Reading(radius, p, c, sources, T).text = None THEN None
                  ELSE p.texts[Reading(radius, p, c, sources, T).text].value
<1> DEFINE answers == [i \in DOMAIN sources |-> Answer(radius, p, c, sources[i], T)]
           several == {i \in DOMAIN sources : /\ sources[i] = "texte_dans_zone"
                                              /\ Cardinality(Values(p, Written(p, c, T))) > 1}
           yields == {i \in DOMAIN answers : answers[i] # None}
           first == IF yields = {} THEN None ELSE answers[Min(yields)]
<1>1. ASSUME NEW i \in DOMAIN sources
      PROVE  answers[i] \in T \union {None}
    <2>1. Center(p.contours[c]) \in Int
        BY CenterType
    <2>2. Written(p, c, T) \subseteq T
        BY DEF Written
    <2>3. Written(p, c, T) \in SUBSET DOMAIN p.texts
        BY <2>2
    <2>4. OnlyValue(p, c, Written(p, c, T)) \in Written(p, c, T) \union {None}
        BY <2>3, OnlyValueIsOne
    <2>5. Nearest(p, T, Center(p.contours[c]), radius) \in T \union {None}
        BY <2>1, NearestIsOne
    <2> QED
        BY <2>2, <2>4, <2>5 DEF Answer
<1>2. Reading(radius, p, c, sources, T) = Prioritised(p, answers, several)
    BY DEF Reading
<1> HIDE DEF answers, several
<1>3. /\ Reading(radius, p, c, sources, T).text = first
      /\ Reading(radius, p, c, sources, T).value = IF first = None THEN None ELSE p.texts[first].value
    BY <1>2 DEF Prioritised
<1>4. yields \subseteq DOMAIN sources
    BY DEF answers
<1>5. CASE yields # {}
    <2>1. PICK i \in yields : \A j \in yields : i <= j
        BY <1>4, <1>5, NatMin
    <2> HIDE DEF yields
    <2>2. Min(yields) \in yields
        BY <2>1 DEF Min
    <2> USE DEF yields
    <2>3. first = answers[Min(yields)]
        BY <1>5
    <2> QED
        BY <1>1, <1>3, <1>4, <2>2, <2>3
<1>6. CASE yields = {}
    BY <1>3, <1>6
<1> QED
    BY <1>5, <1>6

LEMMA ReadValue ==
    ASSUME NEW p, Drawing(p), NEW c \in DOMAIN p.contours, NEW T \in SUBSET DOMAIN p.texts,
           NEW radius, NEW sources, DOMAIN sources \subseteq Nat,
           Reading(radius, p, c, sources, T).value # None
    PROVE  \E t \in T : Reading(radius, p, c, sources, T).value = p.texts[t].value
BY ReadText

LEMMA LotsAreWritten ==
    ASSUME NEW d, Drawing(d.plan), DOMAIN d.usage.lotSources \subseteq Nat,
           NEW n \in LotsOf(ReadOf(d))
    PROVE  \E t \in DOMAIN d.plan.texts :
             d.plan.texts[t].kind = d.usage.lotKind /\ d.plan.texts[t].value = n
<1> DEFINE f == d.usage
           p == d.plan
           T(c) == Around(f, p, f.lotKind, c)
<1>1. PICK c \in DOMAIN ReadOf(d).lot : ReadOf(d).lot[c].value = n
    BY DEF LotsOf
<1>2. n # None
    BY DEF LotsOf
<1>3. ReadOf(d).lot[c] = Reading(f.lotRadius, p, c, f.lotSources, T(c))
    BY <1>1 DEF ReadOf, ReadPlan, ValuesOf
<1>4. c \in DOMAIN p.contours
    BY ReadOfFields DEF IsReading, ByRole, Contours
<1>5. T(c) \subseteq {t \in DOMAIN p.texts : p.texts[t].kind = f.lotKind}
    BY DEF Around, Usable, Texts
<1> HIDE DEF T, f, p
<1>6. T(c) \in SUBSET DOMAIN p.texts
    BY <1>5
<1>7. \E t \in T(c) : n = p.texts[t].value
    BY <1>1, <1>2, <1>3, <1>4, <1>6, ReadValue DEF f, p
<1> QED
    BY <1>5, <1>7 DEF f, p

-----------------------------------------------------------------------------
(* Copies of one another.                                                   *)

\* The contours of X that have the outline of a, moved by dx.
Twins(p, X, a, dx) == {c \in X : SameOutline(p.contours[a], p.contours[c], dx)}

LEMMA TwinsOfTwin ==
    ASSUME NEW p, Drawing(p), NEW X \in SUBSET DOMAIN p.contours,
           NEW a \in DOMAIN p.contours, NEW b \in DOMAIN p.contours,
           NEW dx \in Int, SameOutline(p.contours[a], p.contours[b], dx), NEW dy \in Int
    PROVE  Twins(p, X, b, dy) = Twins(p, X, a, dx + dy)
<1>1. ASSUME NEW c \in X
      PROVE  SameOutline(p.contours[b], p.contours[c], dy)
               <=> SameOutline(p.contours[a], p.contours[c], dx + dy)
    <2>1. /\ p.contours[a].lo \in Int /\ p.contours[a].hi \in Int
          /\ p.contours[b].lo \in Int /\ p.contours[b].hi \in Int
          /\ p.contours[c].lo \in Int /\ p.contours[c].hi \in Int
        BY DEF Drawing
    <2> QED
        BY <2>1 DEF SameOutline
<1> QED
    BY <1>1 DEF Twins

\* A translation that pairs the contours off reaches each of them.
LEMMA TranslationIsOnto ==
    ASSUME NEW p, Drawing(p), NEW A \in SUBSET DOMAIN p.contours, NEW B \in SUBSET DOMAIN p.contours,
           NEW dx \in Int, Cardinality(A) = Cardinality(B),
           \A a \in A : Cardinality(Twins(p, A, a, 0)) = Cardinality(Twins(p, B, a, dx))
    PROVE  \A b \in B : \E a \in A : SameOutline(p.contours[a], p.contours[b], dx)
<1> DEFINE From(a) == Twins(p, A, a, 0)
           To(a) == Twins(p, B, a, dx)
           h(a) == CHOOSE f : f \in Bijection(From(a), To(a))
           g == [a \in A |-> h(a)[a]]
<1>1. IsFiniteSet(A) /\ IsFiniteSet(B)
    BY FS_Subset DEF Drawing
<1>2. ASSUME NEW a \in A
      PROVE  a \in From(a) /\ h(a) \in Bijection(From(a), To(a))
    <2>1. From(a) \in SUBSET A /\ To(a) \in SUBSET B
        BY DEF Twins
    <2>2. IsFiniteSet(From(a)) /\ IsFiniteSet(To(a))
        BY <1>1, <2>1, FS_Subset
    <2>3. Cardinality(From(a)) = Cardinality(To(a))
        OBVIOUS
    <2>4. a \in From(a)
        BY DEF Twins, SameOutline, Drawing
    <2> HIDE DEF From, To
    <2>5. ExistsBijection(From(a), To(a))
        BY <2>2, <2>3, FS_SameCardinalityBij
    <2> QED
        BY <2>4, <2>5 DEF ExistsBijection
<1>3. ASSUME NEW a \in A
      PROVE  g[a] \in B /\ SameOutline(p.contours[a], p.contours[g[a]], dx)
    <2>1. h(a)[a] \in To(a)
        <3> HIDE DEF h, From, To
        <3> QED
            BY <1>2 DEF Bijection, Injection
    <2> QED
        BY <2>1 DEF Twins
<1>4. ASSUME NEW a \in A, NEW b \in A, g[a] = g[b]
      PROVE  a = b
    <2>1. SameOutline(p.contours[a], p.contours[b], 0)
        <3>1. g[a] \in DOMAIN p.contours
            BY <1>3
        <3>2. /\ p.contours[a].lo \in Int /\ p.contours[a].hi \in Int
              /\ p.contours[b].lo \in Int /\ p.contours[b].hi \in Int
            BY DEF Drawing
        <3> QED
            BY <1>3, <1>4, <3>2 DEF SameOutline
    <2> HIDE DEF g, h
    <2>2. ASSUME NEW X \in SUBSET DOMAIN p.contours, NEW dy \in Int
          PROVE  Twins(p, X, b, dy) = Twins(p, X, a, dy)
        <3>1. 0 + dy = dy /\ 0 \in Int /\ a \in DOMAIN p.contours /\ b \in DOMAIN p.contours
            OBVIOUS
        <3>2. Twins(p, X, b, dy) = Twins(p, X, a, 0 + dy)
            BY <2>1, <3>1, TwinsOfTwin
        <3> QED
            BY <3>1, <3>2
    <2>3. From(b) = From(a) /\ To(b) = To(a)
        BY <2>2
    <2> USE DEF g, h
    <2>4. h(a) = h(b) /\ a \in From(a) /\ b \in From(a) /\ h(a) \in Bijection(From(a), To(a))
        BY <1>2, <2>3
    <2>5. h(a)[a] = h(a)[b]
        BY <1>4, <2>4
    <2> HIDE DEF h, From, To
    <2> QED
        BY <2>4, <2>5 DEF Bijection, Injection, IsInjective
<1>5. g \in Injection(A, B)
    <2>1. g \in [A -> B]
        BY <1>3
    <2> HIDE DEF g
    <2> QED
        BY <1>4, <2>1 DEF Injection, IsInjective
<1> HIDE DEF g
<1>6. g \in Surjection(A, B)
    BY <1>1, <1>5, FS_Injection
<1> QED
    BY <1>3, <1>6 DEF Surjection

LEMMA CopiesAreMutual ==
    ASSUME NEW p, Drawing(p), NEW A \in SUBSET DOMAIN p.contours, NEW B \in SUBSET DOMAIN p.contours,
           TranslatedCopy(p, A, B)
    PROVE  TranslatedCopy(p, B, A)
<1> DEFINE Dx(a, b) == p.contours[b].lo - p.contours[a].lo
           Pairs(X, Y, dx) == \A a \in X : Cardinality(Twins(p, X, a, 0)) = Cardinality(Twins(p, Y, a, dx))
<1>1. \A X, Y : TranslatedCopy(p, X, Y) <=>
        /\ X # {} /\ Cardinality(X) = Cardinality(Y)
        /\ \E b \in Y : Pairs(X, Y, Dx(Min(X), b))
    BY DEF TranslatedCopy, Twins
<1>2. PICK b \in B : Pairs(A, B, Dx(Min(A), b))
    BY <1>1
<1>3. A # {} /\ Cardinality(A) = Cardinality(B) /\ B # {}
    BY <1>1
<1>4. \A X \in SUBSET DOMAIN p.contours : X # {} => Min(X) \in X
    <2> TAKE X \in SUBSET DOMAIN p.contours
    <2>1. X \in SUBSET Int /\ IsFiniteSet(X)
        BY FS_Subset DEF Drawing
    <2> QED
        BY <2>1, MinMaxOfFinite
<1>5. Min(A) \in A /\ Min(B) \in B
    BY <1>3, <1>4
<1>6. \A c \in DOMAIN p.contours : p.contours[c].lo \in Int /\ p.contours[c].hi \in Int
    BY DEF Drawing
<1> DEFINE dx == Dx(Min(A), b)
<1>7. dx \in Int /\ Pairs(A, B, dx)
    BY <1>2, <1>5, <1>6
<1> HIDE DEF dx
<1>8. \A y \in B : \E a \in A : SameOutline(p.contours[a], p.contours[y], dx)
    BY <1>3, <1>7, TranslationIsOnto
<1>9. PICK a \in A : SameOutline(p.contours[a], p.contours[Min(B)], dx)
    BY <1>5, <1>8
<1>10. Dx(Min(B), a) = 0 - dx
    BY <1>5, <1>6, <1>7, <1>9 DEF SameOutline
<1>11. Pairs(B, A, 0 - dx)
    <2> TAKE y \in B
    <2>1. PICK x \in A : SameOutline(p.contours[x], p.contours[y], dx)
        BY <1>8
    <2>2. Twins(p, B, y, 0) = Twins(p, B, x, dx + 0)
        BY <1>7, <2>1, TwinsOfTwin
    <2>3. Twins(p, A, y, 0 - dx) = Twins(p, A, x, dx + (0 - dx))
        BY <1>7, <2>1, TwinsOfTwin
    <2>4. dx + 0 = dx /\ dx + (0 - dx) = 0
        BY <1>7
    <2> QED
        BY <1>7, <2>2, <2>3, <2>4
<1> QED
    BY <1>1, <1>3, <1>9, <1>10, <1>11

-----------------------------------------------------------------------------
(* The representations that are added up.                                   *)

LEMMA AnnotationIsText ==
    ASSUME NEW d, Drawing(d.plan), NEW t \in DOMAIN d.plan.texts, Annotation(d, t) # None
    PROVE  \E s \in Texts(d.plan, "surface") : Annotation(d, t) = d.plan.texts[s].value
<1> DEFINE p == d.plan
           received == {s \in Texts(p, "surface") :
                          t = NearestAnchor(d, p.texts[s].sheet, p.texts[s].x, SurfaceRadius)}
           s == Nearest(p, received, p.texts[t].x, SurfaceRadius)
<1>1. Annotation(d, t) = IF s = None THEN None ELSE p.texts[s].value
    BY DEF Annotation
<1>2. received \subseteq {u \in DOMAIN p.texts : p.texts[u].kind = "surface"}
    BY DEF Texts
<1>3. p.texts[t].x \in Int
    BY DEF Drawing
<1> HIDE DEF received, p
<1>4. s \in received \union {None}
    BY <1>2, <1>3, NearestIsOne DEF p
<1>5. s \in received
    BY <1>1, <1>4
<1> HIDE DEF s
<1>6. s \in DOMAIN p.texts /\ p.texts[s].kind = "surface"
    BY <1>2, <1>5
<1> QED
    BY <1>1, <1>5, <1>6 DEF Texts, p

LEMMA AnnotationType ==
    ASSUME NEW d, Drawing(d.plan), NEW t \in DOMAIN d.plan.texts, Annotation(d, t) # None
    PROVE  Annotation(d, t) \in Nat
BY AnnotationIsText DEF Texts, Drawing

LEMMA OccurrenceTypes ==
    ASSUME NEW d, Drawing(d.plan), NEW o \in Occurrences(d)
    PROVE  /\ o.anchor \in DOMAIN d.plan.texts
           /\ o.annotated \in Nat \union {None}
           /\ o.contours \subseteq Contours(d)
<1>1. o.anchor \in DOMAIN d.plan.texts /\ o.annotated = Annotation(d, o.anchor)
    BY OccurrenceFields DEF Anchors, Texts, OccurrenceOf
<1>2. o.contours \subseteq Contours(d)
    BY OccurrencesApart, PrincipalFields DEF Principal
<1> QED
    BY <1>1, <1>2, AnnotationType

LEMMA OccurrencesFinite ==
    ASSUME NEW d, Drawing(d.plan)
    PROVE  IsFiniteSet(Occurrences(d))
<1> DEFINE O == Occurrences(d)
           a == [o \in O |-> o.anchor]
<1>1. \A o \in O : a[o] \in DOMAIN d.plan.texts
    BY OccurrenceTypes
<1>2. \A o, k \in O : a[o] = a[k] => o = k
    BY OccurrencesRanked DEF Ranked, Handled, Drawing
<1>3. a \in Injection(O, DOMAIN d.plan.texts)
    BY <1>1, <1>2 DEF Injection, IsInjective
<1> HIDE DEF a
<1> QED
    BY <1>3, FS_Injection DEF Drawing

LEMMA DuplicatesAreMutual ==
    ASSUME NEW d, Drawing(d.plan), NEW k \in Occurrences(d), NEW o \in Occurrences(d),
           Duplicate(d, k, o)
    PROVE  Duplicate(d, o, k)
<1>1. SameAnnotation(o, k)
    <2>1. SameAnnotation(k, o)
        BY DEF Duplicate
    <2>2. CASE k.annotated = None /\ o.annotated = None
        BY <2>2 DEF SameAnnotation
    <2>3. CASE k.annotated # None /\ o.annotated # None /\ Accepts(Tolerance, k.annotated, o.annotated)
        <3>1. k.annotated \in Int /\ o.annotated \in Int
            BY <2>3, OccurrenceTypes
        <3>2. Distance(k.annotated, o.annotated) = Distance(o.annotated, k.annotated)
            BY <3>1, DistanceType
        <3>3. Larger(k.annotated, o.annotated) = Larger(o.annotated, k.annotated)
            BY <3>1 DEF Larger
        <3> QED
            BY <2>3, <3>2, <3>3 DEF SameAnnotation, Accepts
    <2> QED
        BY <2>1, <2>2, <2>3 DEF SameAnnotation
<1>2. TranslatedCopy(d.plan, o.contours, k.contours)
    BY OccurrenceTypes, CopiesAreMutual DEF Duplicate, Contours
<1> QED
    BY <1>1, <1>2 DEF Duplicate

\* Of two occurrences, one is preferred.
LEMMA PreferredTotal ==
    ASSUME NEW d, NEW G, Ranked(G), NEW k \in G, NEW o \in G, k # o
    PROVE  Preferred(d, k, o) \/ Preferred(d, o, k)
<1> DEFINE x == Preference(d, k)
           y == Preference(d, o)
<1>1. x \in Ranks /\ y \in Ranks /\ x[4] = k.anchor /\ y[4] = o.anchor
    <2>1. x[4] = k.anchor /\ y[4] = o.anchor
        BY DEF Preference
    <2> QED
        BY <2>1, PreferenceRanks
<1>2. x[4] # y[4]
    BY <1>1 DEF Ranked
<1> HIDE DEF x, y
<1>3. x[1] \in Nat /\ x[2] \in Nat /\ x[3] \in Nat /\ x[4] \in Nat
    BY <1>1 DEF Ranks
<1>4. y[1] \in Nat /\ y[2] \in Nat /\ y[3] \in Nat /\ y[4] \in Nat
    BY <1>1 DEF Ranks
<1>5. Before(x, y) \/ Before(y, x)
    BY <1>1, <1>2, <1>3, <1>4, BeforeCases
<1> QED
    BY <1>5 DEF Preferred, x, y

\* No two occurrences that count for a lot are copies of each other.
LEMMA CountedApart ==
    ASSUME NEW d, Drawing(d.plan), NEW n,
           NEW a \in Counted(d, OfNumber(Occurrences(d), n)),
           NEW b \in Counted(d, OfNumber(Occurrences(d), n))
    PROVE  ~Duplicate(d, a, b) /\ (a.annotated # None => b.annotated # None)
<1> DEFINE G == OfNumber(Occurrences(d), n)
<1>1. Ranked(G)
    BY OccurrencesRanked DEF Drawing, Handled
<1>2. G \subseteq Occurrences(d)
    BY DEF OfNumber
<1> HIDE DEF G
<1>3. a \in Kept(d, G) /\ b \in Kept(d, G) /\ a \in G /\ b \in G
    BY <1>1, CountedOfKept DEF G
<1>4. ASSUME Duplicate(d, a, b)
      PROVE  FALSE
    <2>1. a # b /\ Duplicate(d, b, a)
        BY <1>2, <1>3, <1>4, DuplicatesAreMutual DEF Duplicate
    <2>2. Preferred(d, a, b) \/ Preferred(d, b, a)
        BY <1>1, <1>3, <2>1, PreferredTotal
    <2>3. IsKernel(d, G, Kept(d, G))
        BY <1>1, KeptIsKernel
    <2> QED
        BY <1>3, <1>4, <2>1, <2>2, <2>3 DEF IsKernel, Excludes
<1>5. a.annotated # None => b.annotated # None
    BY DEF Counted, Representations
<1> QED
    BY <1>4, <1>5

\* What the automatic engine adds up for the lots of a reconciled dossier.
AddedUp(e) ==
    \A n \in DOMAIN e.recon.proposals : e.recon.proposals[n].origin = "legacy" =>
        \A a, b \in {o \in OfNumber(Occurrences(e), n) :
                       o.contours # {} /\ o.contours \subseteq e.recon.proposals[n].contours} :
          ~Duplicate(e, a, b) /\ (a.annotated # None => b.annotated # None)

\* The contours of a lot of the automatic engine are those of the occurrences
\* that count, with a profile too.
LEMMA LegacyContours ==
    ASSUME NEW d, IsDossier(d), Drawing(d.plan), NEW n \in DOMAIN Reconcile(d).recon.proposals,
           Reconcile(d).recon.proposals[n].origin = "legacy"
    PROVE  Reconcile(d).recon.proposals[n].contours = ContoursOf(Counted(d, OfNumber(Occurrences(d), n)))
<1> DEFINE L == ReconcileLegacy(d).proposals
           P == Reconcile(d).recon.proposals
<1>1. Handled(d.plan) /\ LegacyHolds(d, L)
    BY LegacyReconciled DEF Handled, Drawing
<1>2. CASE d.usage = None
    BY <1>1, <1>2, ReconcileFields DEF LegacyHolds
<1>3. CASE d.usage # None
    <2>1. HybridHolds(d, ReadOf(d), LegacyUsable(d, ReadOf(d), ReconcileLegacy(d)), L, P)
        BY <1>1, <1>3, ReconcileFields, ProfileReconciled
    <2>2. n \notin LotsOf(ReadOf(d))
        BY <2>1 DEF HybridHolds
    <2>3. n \in DOMAIN L /\ P[n].contours = L[n].contours
        BY <2>1, <2>2 DEF HybridHolds
    <2> QED
        BY <1>1, <2>3 DEF LegacyHolds
<1> QED
    BY <1>2, <1>3

LEMMA ReconcileAddsUp ==
    ASSUME NEW d, IsDossier(d), Drawing(d.plan)
    PROVE  AddedUp(Reconcile(d))
<1> DEFINE e == Reconcile(d)
           P == e.recon.proposals
<1>1. SameDrawing(d, e)
    BY ReconcileFields DEF SameInputs
<1>2. Occurrences(e) = Occurrences(d)
    BY <1>1, SameOccurrences
<1>3. \A a, b : Duplicate(e, a, b) <=> Duplicate(d, a, b)
    BY <1>1 DEF Duplicate, SameDrawing
<1> SUFFICES ASSUME NEW n \in DOMAIN P, P[n].origin = "legacy",
                    NEW a \in OfNumber(Occurrences(d), n), a.contours # {}, a.contours \subseteq P[n].contours,
                    NEW b \in OfNumber(Occurrences(d), n), b.contours # {}, b.contours \subseteq P[n].contours
             PROVE  ~Duplicate(d, a, b) /\ (a.annotated # None => b.annotated # None)
    BY <1>2, <1>3 DEF AddedUp
<1> DEFINE G == OfNumber(Occurrences(d), n)
           C == Counted(d, G)
<1>4. P[n].contours = ContoursOf(C)
    BY LegacyContours
<1>5. C \subseteq G
    BY CountedOfKept, OccurrencesRanked DEF Drawing, Handled
<1>6. G \subseteq Occurrences(d)
    BY DEF OfNumber
<1> HIDE DEF C, P, e
<1>7. ASSUME NEW o \in G, o.contours # {}, o.contours \subseteq P[n].contours
      PROVE  o \in C
    <2>1. PICK c \in o.contours : TRUE
        BY <1>7
    <2>2. PICK k \in C : c \in k.contours
        BY <1>4, <1>7, <2>1, ContoursOfMember
    <2> QED
        BY <1>5, <1>6, <2>1, <2>2, OccurrencesApart
<1>8. a \in C /\ b \in C
    BY <1>7
<1> QED
    BY <1>8, CountedApart DEF C

-----------------------------------------------------------------------------
(* The lots that are suggested for annexes.                                 *)

LEMMA GapType ==
    ASSUME NEW p, Drawing(p), NEW a \in DOMAIN p.contours, NEW b \in DOMAIN p.contours
    PROVE  Gap(p.contours[a], p.contours[b]) \in Nat
<1> DEFINE x == p.contours[a].lo - p.contours[b].hi
           y == p.contours[b].lo - p.contours[a].hi
           S == {0, x, y}
<1>1. x \in Int /\ y \in Int
    BY DEF Drawing
<1> HIDE DEF x, y
<1>2. S \in SUBSET Int /\ S # {} /\ 0 \in S
    BY <1>1
<1>3. IsFiniteSet(S)
    <2>1. IsFiniteSet({0}) /\ IsFiniteSet({0} \union {x}) /\ IsFiniteSet(({0} \union {x}) \union {y})
        BY FS_Singleton, FS_AddElement
    <2>2. S = ({0} \union {x}) \union {y}
        OBVIOUS
    <2> QED
        BY <2>1, <2>2
<1>4. Gap(p.contours[a], p.contours[b]) = Max(S)
    BY DEF Gap, x, y
<1> HIDE DEF S
<1>5. Max(S) \in S /\ 0 <= Max(S)
    BY <1>2, <1>3, MinMaxOfFinite
<1>6. Max(S) \in Int
    BY <1>2, <1>5
<1>7. Max(S) \in Nat
    BY <1>5, <1>6
<1> QED
    BY <1>4, <1>7

LEMMA TouchingGap ==
    ASSUME NEW p, Drawing(p), NEW c \in DOMAIN p.contours, NEW C \in SUBSET DOMAIN p.contours,
           NEW q \in C, Gap(p.contours[c], p.contours[q]) = 0
    PROVE  GapTo(p, c, C) = 0
<1> DEFINE S == {Gap(p.contours[c], p.contours[r]) : r \in C}
<1>1. S \subseteq Nat /\ 0 \in S
    BY GapType
<1>2. GapTo(p, c, C) = Min(S)
    BY DEF GapTo
<1> HIDE DEF S
<1>3. \A y \in S : 0 <= y
    BY <1>1
<1>4. Min(S) \in S /\ \A y \in S : Min(S) <= y
    BY <1>1, <1>3 DEF Min
<1>5. Min(S) \in Nat /\ Min(S) <= 0
    BY <1>1, <1>4
<1>6. Min(S) = 0
    BY <1>5
<1> QED
    BY <1>2, <1>6

\* A set of at most one element.
LEMMA AtMostOne ==
    ASSUME NEW S, IsFiniteSet(S), Cardinality(S) <= 1, NEW x \in S, NEW y \in S
    PROVE  x = y
<1>1. Cardinality(S) \in Nat /\ Cardinality(S) # 0
    BY FS_CardinalityType, FS_EmptySet
<1>2. Cardinality(S) = 1
    BY <1>1
<1>3. \E z : S = {z}
    BY <1>2, FS_Singleton
<1> QED
    BY <1>3

\* The numbers within reach of an annex.
InReach(d, c, anchors, radius) ==
    Values(d.plan, Near(d.plan, OnSheet(d.plan, anchors, d.plan.contours[c].sheet),
                        Center(d.plan.contours[c]), radius))

LEMMA InReachFields ==
    ASSUME NEW d, Drawing(d.plan), NEW c, NEW anchors \in SUBSET DOMAIN d.plan.texts, NEW radius
    PROVE  /\ IsFiniteSet(InReach(d, c, anchors, radius))
           /\ \A n \in InReach(d, c, anchors, radius) : \E t \in anchors : d.plan.texts[t].value = n
           /\ \A t \in anchors :
                /\ d.plan.texts[t].sheet = d.plan.contours[c].sheet
                /\ Distance(d.plan.texts[t].x, Center(d.plan.contours[c])) <= radius
                => d.plan.texts[t].value \in InReach(d, c, anchors, radius)
<1> DEFINE T == Near(d.plan, OnSheet(d.plan, anchors, d.plan.contours[c].sheet),
                     Center(d.plan.contours[c]), radius)
           V == {d.plan.texts[t].value : t \in T}
           g == [t \in T |-> d.plan.texts[t].value]
<1>1. T \subseteq anchors
    BY DEF Near, OnSheet
<1>2. IsFiniteSet(T)
    BY <1>1, FS_Subset DEF Drawing
<1>3. InReach(d, c, anchors, radius) = V
    BY DEF InReach, Values
<1>4. \A t \in anchors :
        /\ d.plan.texts[t].sheet = d.plan.contours[c].sheet
        /\ Distance(d.plan.texts[t].x, Center(d.plan.contours[c])) <= radius
        => t \in T
    BY DEF Near, OnSheet
<1> HIDE DEF T
<1>5. g \in Surjection(T, V)
    BY DEF Surjection
<1>6. IsFiniteSet(V)
    <2> HIDE DEF g, V
    <2> QED
        BY <1>2, <1>5, FS_Surjection
<1> QED
    BY <1>1, <1>3, <1>4, <1>6

LEMMA AnchorFields ==
    ASSUME NEW d, Drawing(d.plan)
    PROVE  /\ CountedAnchors(d, Occurrences(d)) \subseteq DOMAIN d.plan.texts
           /\ \A t \in CountedAnchors(d, Occurrences(d)) :
                \E o \in Occurrences(d) : o.anchor = t /\ o.number = d.plan.texts[t].value
           /\ \A o \in Occurrences(d) :
                o \in Counted(d, OfNumber(Occurrences(d), o.number)) =>
                  o.anchor \in CountedAnchors(d, Occurrences(d))
<1> DEFINE O == Occurrences(d)
           A(n) == {o.anchor : o \in Counted(d, OfNumber(O, n))}
           N == {o.number : o \in O}
<1>1. CountedAnchors(d, O) = UNION {A(n) : n \in N}
    BY DEF CountedAnchors
<1>2. ASSUME NEW n
      PROVE  Counted(d, OfNumber(O, n)) \subseteq O
    <2>1. Ranked(OfNumber(O, n))
        BY OccurrencesRanked DEF Drawing, Handled
    <2>2. Counted(d, OfNumber(O, n)) \subseteq OfNumber(O, n)
        BY <2>1, CountedOfKept
    <2> QED
        BY <2>2 DEF OfNumber
<1>3. \A t \in CountedAnchors(d, O) : \E o \in O : o.anchor = t
    BY <1>1, <1>2
<1>4. ASSUME NEW o \in O, o \in Counted(d, OfNumber(O, o.number))
      PROVE  o.anchor \in CountedAnchors(d, O)
    <2>1. o.anchor \in A(o.number) /\ o.number \in N
        BY <1>4
    <2> QED
        BY <1>1, <2>1
<1> QED
    BY <1>3, <1>4, OccurrenceFields, OccurrenceTypes

\* What is suggested is within reach, and of several lots within reach the only
\* one that the annex touches.
LEMMA SuggestedFields ==
    ASSUME NEW d, NEW c, NEW anchors, NEW radius, NEW P,
           NEW n \in Suggested(d, c, anchors, radius, P)
    PROVE  /\ n \in InReach(d, c, anchors, radius)
           /\ IsFiniteSet(InReach(d, c, anchors, radius)) =>
                \A m \in InReach(d, c, anchors, radius) :
                  m = n \/ ~Touches(d.plan, c, P, m)
<1> DEFINE N == InReach(d, c, anchors, radius)
           touching == {m \in N : Touches(d.plan, c, P, m)}
<1>1. Suggested(d, c, anchors, radius, P) = Suggestions(d, c, P, N)
    BY DEF Suggested, InReach
<1> HIDE DEF N
<1>2. CASE Cardinality(N) <= 1
    <2>1. n \in N
        BY <1>1, <1>2 DEF Suggestions
    <2>2. IsFiniteSet(N) => \A m \in N : m = n
        BY <1>2, <2>1, AtMostOne
    <2> QED
        BY <2>1, <2>2 DEF N
<1>3. CASE ~(Cardinality(N) <= 1)
    <2>1. n \in Contacts(d.plan, c, P, N)
        BY <1>1, <1>3 DEF Suggestions
    <2>2. Cardinality(touching) = 1 /\ n \in touching
        BY <2>1 DEF Contacts
    <2>3. ASSUME IsFiniteSet(N), NEW m \in N, Touches(d.plan, c, P, m)
          PROVE  m = n
        <3>1. IsFiniteSet(touching) /\ m \in touching
            BY <2>3, FS_Subset
        <3> HIDE DEF touching
        <3> QED
            BY <2>2, <3>1, AtMostOne
    <2>4. n \in N
        BY <2>2
    <2> HIDE DEF touching
    <2> QED
        BY <2>3, <2>4 DEF N
<1> QED
    BY <1>2, <1>3 DEF N

\* The suggestions of a dossier reconciled without a profile.
SafelySuggested(e) ==
    e.usage = None =>
      \A c \in DOMAIN e.recon.business :
        (/\ e.recon.business[c].category = "secondaire_annexe"
         /\ e.recon.business[c].status = "a_confirmer") =>
          /\ e.recon.business[c].lot \in DOMAIN e.recon.proposals
          /\ \A o \in Occurrences(e) :
               (/\ o.number # e.recon.business[c].lot /\ o.sheet = e.plan.contours[c].sheet
                /\ o \in Counted(e, OfNumber(Occurrences(e), o.number))
                /\ \E q \in o.contours : Gap(e.plan.contours[c], e.plan.contours[q]) = 0)
               => Distance(e.plan.texts[o.anchor].x, Center(e.plan.contours[c])) > LotRadius

LEMMA ReconcileSuggests ==
    ASSUME NEW d, IsDossier(d), Drawing(d.plan)
    PROVE  SafelySuggested(Reconcile(d))
<1> DEFINE e == Reconcile(d)
           O == Occurrences(d)
           L == ReconcileLegacy(d)
           P == LegacyProposals(d, O)
           A == CountedAnchors(d, O)
<1>1. SameDrawing(d, e) /\ Occurrences(e) = O
    BY ReconcileFields, SameOccurrences DEF SameInputs
<1>2. \A n : Counted(e, OfNumber(O, n)) = Counted(d, OfNumber(O, n))
    BY <1>1, SameCounted, OccurrencesRanked DEF Drawing, Handled
<1> SUFFICES ASSUME d.usage = None, NEW c \in DOMAIN L.business,
                    L.business[c].category = "secondaire_annexe", L.business[c].status = "a_confirmer"
             PROVE  /\ L.business[c].lot \in DOMAIN P
                    /\ \A o \in O :
                         (/\ o.number # L.business[c].lot /\ o.sheet = d.plan.contours[c].sheet
                          /\ o \in Counted(d, OfNumber(O, o.number))
                          /\ \E q \in o.contours : Gap(d.plan.contours[c], d.plan.contours[q]) = 0)
                         => Distance(d.plan.texts[o.anchor].x, Center(d.plan.contours[c])) > LotRadius
    BY <1>1, <1>2, ReconcileFields, LegacyFields DEF SafelySuggested, SameDrawing
<1> DEFINE S == Suggested(d, c, A, LotRadius, P)
           lot == L.business[c].lot
<1>3. S # {} /\ lot = CHOOSE n \in S : TRUE
    <2>1. LayerOf(d, c) \in AnnexLayers
        BY LegacyZoneFields
    <2>2. L.business[c] = Annex(d, c, Zone("secondaire_annexe", "legacy"), S)
        BY <2>1, LegacyFields DEF LegacyZone, LayerOf
    <2> HIDE DEF S, L
    <2> QED
        BY <2>2, AnnexFields
<1>4. lot \in S
    BY <1>3
<1>5. c \in DOMAIN d.plan.contours
    BY LegacyFields, PrincipalFields DEF Contours
<1>6. LegacyHolds(d, P)
    BY LegacyProposalsHold DEF Handled, Drawing
<1> HIDE DEF S, L, P, A, O, lot, e
<1>7. /\ A \subseteq DOMAIN d.plan.texts
      /\ \A t \in A : \E o \in O : o.anchor = t /\ o.number = d.plan.texts[t].value
      /\ \A o \in O : o \in Counted(d, OfNumber(O, o.number)) => o.anchor \in A
    BY AnchorFields DEF A, O
<1> DEFINE N == InReach(d, c, A, LotRadius)
<1>8. /\ IsFiniteSet(N)
      /\ \A n \in N : \E t \in A : d.plan.texts[t].value = n
      /\ \A t \in A : /\ d.plan.texts[t].sheet = d.plan.contours[c].sheet
                      /\ Distance(d.plan.texts[t].x, Center(d.plan.contours[c])) <= LotRadius
                      => d.plan.texts[t].value \in N
    BY <1>7, InReachFields
<1>9. lot \in N /\ \A m \in N : m = lot \/ ~Touches(d.plan, c, P, m)
    BY <1>4, <1>8, SuggestedFields DEF S
<1> HIDE DEF N
<1>10. lot \in DOMAIN P
    <2>1. PICK o \in O : o.number = lot
        BY <1>7, <1>8, <1>9
    <2> QED
        BY <1>6, <2>1 DEF LegacyHolds, O
<1>11. ASSUME NEW o \in O, o.number # lot, o.sheet = d.plan.contours[c].sheet,
              o \in Counted(d, OfNumber(O, o.number)),
              NEW q \in o.contours, Gap(d.plan.contours[c], d.plan.contours[q]) = 0
       PROVE  Distance(d.plan.texts[o.anchor].x, Center(d.plan.contours[c])) > LotRadius
    <2> DEFINE distance == Distance(d.plan.texts[o.anchor].x, Center(d.plan.contours[c]))
    <2>1. /\ o.anchor \in DOMAIN d.plan.texts /\ o.contours \subseteq DOMAIN d.plan.contours
          /\ o.sheet = d.plan.texts[o.anchor].sheet /\ o.number = d.plan.texts[o.anchor].value
        BY OccurrenceTypes, OccurrenceFields DEF O, Contours
    <2>2. distance \in Nat /\ LotRadius \in Nat
        BY <1>5, <2>1, CenterType, DistanceType, PlanReadingAssumption DEF Drawing
    <2>3. o.number \in DOMAIN P /\ q \in P[o.number].contours /\ P[o.number].contours \subseteq DOMAIN d.plan.contours
        <3>1. o.number \in DOMAIN P
            BY <1>6 DEF LegacyHolds, O
        <3>2. q \in ContoursOf(Counted(d, OfNumber(O, o.number)))
            BY <1>11, ContoursOfMember
        <3>3. P[o.number].contours \subseteq Principal(d)
            BY <1>6, <3>1 DEF LegacyHolds
        <3>4. Principal(d) \subseteq DOMAIN d.plan.contours
            BY PrincipalFields DEF Principal, Contours
        <3> QED
            BY <1>6, <3>1, <3>2, <3>3, <3>4 DEF LegacyHolds, O
    <2>4. Touches(d.plan, c, P, o.number)
        BY <1>5, <1>11, <2>3, TouchingGap DEF Touches
    <2>5. ASSUME distance <= LotRadius
          PROVE  FALSE
        <3>1. o.number \in N
            BY <1>7, <1>8, <1>11, <2>1, <2>5
        <3> QED
            BY <1>9, <1>11, <2>4, <3>1
    <2> HIDE DEF distance
    <2>6. distance > LotRadius
        BY <2>2, <2>5
    <2> QED
        BY <2>6 DEF distance
<1> QED
    BY <1>10, <1>11 DEF lot

-----------------------------------------------------------------------------
(* Sums over finite sets: the fold of the library chooses an order, and no   *)
(* sum depends on it.                                                       *)

Some(s) == CHOOSE x \in s : TRUE

\* g sums the weights w over the subsets of S, one element after another.
Adds(S, w, g) ==
    g = [s \in SUBSET S |-> IF s = {} THEN 0 ELSE w[Some(s)] + g[s \ {Some(s)}]]

SumOf(w, S) == (CHOOSE g : Adds(S, w, g))[S]

LEMMA SomeMember ==
    ASSUME NEW s, s # {}
    PROVE  Some(s) \in s
BY DEF Some

LEMMA AdderIsOne ==
    ASSUME NEW S, IsFiniteSet(S), NEW w, NEW g, Adds(S, w, g), NEW h, Adds(S, w, h)
    PROVE  g = h
<1> DEFINE F == {s \in SUBSET S : g[s] # h[s]}
<1>1. CASE F = {}
    BY <1>1 DEF Adds
<1>2. CASE F # {}
    <2>1. PICK T \in F : \A U \in F : U \subseteq T => U = T
        <3>1. F \in SUBSET SUBSET S
            OBVIOUS
        <3> HIDE DEF F
        <3> QED
            BY <1>2, <3>1, SmallestSet
    <2>2. T \in SUBSET S /\ g[T] # h[T]
        OBVIOUS
    <2>3. T # {}
        BY <2>2 DEF Adds
    <2> DEFINE U == T \ {Some(T)}
    <2>4. U \in SUBSET S /\ U \subseteq T /\ U # T
        BY <2>2, <2>3, SomeMember
    <2>5. g[U] = h[U]
        BY <2>1, <2>4
    <2>6. g[T] = w[Some(T)] + g[U] /\ h[T] = w[Some(T)] + h[U]
        BY <2>2, <2>3 DEF Adds
    <2> QED
        BY <2>2, <2>5, <2>6
<1> QED
    BY <1>1, <1>2

LEMMA AdderRestricts ==
    ASSUME NEW S, NEW w, NEW g, Adds(S, w, g), NEW T \in SUBSET S
    PROVE  Adds(T, w, [s \in SUBSET T |-> g[s]])
<1> DEFINE h == [s \in SUBSET T |-> g[s]]
<1>1. ASSUME NEW s \in SUBSET T
      PROVE  h[s] = IF s = {} THEN 0 ELSE w[Some(s)] + h[s \ {Some(s)}]
    <2>1. s \in SUBSET S /\ s \ {Some(s)} \in SUBSET T
        OBVIOUS
    <2>2. h[s] = g[s] /\ h[s \ {Some(s)}] = g[s \ {Some(s)}]
        BY <2>1
    <2>3. g[s] = IF s = {} THEN 0 ELSE w[Some(s)] + g[s \ {Some(s)}]
        BY <2>1 DEF Adds
    <2> HIDE DEF h
    <2> QED
        BY <2>2, <2>3
<1>2. h = [s \in SUBSET T |-> h[s]]
    OBVIOUS
<1> HIDE DEF h
<1>3. Adds(T, w, h)
    BY <1>1, <1>2 DEF Adds
<1> QED
    BY <1>3 DEF h

LEMMA AdderExists ==
    ASSUME NEW S, IsFiniteSet(S), NEW w
    PROVE  \E g : Adds(S, w, g)
<1> DEFINE F == {s \in SUBSET S : ~ \E g : Adds(s, w, g)}
<1> SUFFICES ASSUME F # {} PROVE FALSE
    OBVIOUS
<1>1. PICK T \in F : \A U \in F : U \subseteq T => U = T
    <2>1. F \in SUBSET SUBSET S
        OBVIOUS
    <2> HIDE DEF F
    <2> QED
        BY <2>1, SmallestSet
<1>2. T \in SUBSET S /\ ~ \E g : Adds(T, w, g)
    OBVIOUS
<1>3. \A U \in SUBSET T : U # T => \E g : Adds(U, w, g)
    BY <1>1, <1>2
<1> HIDE DEF F
<1> DEFINE G(u) == CHOOSE g : Adds(u, w, g)
           g == [s \in SUBSET T |-> IF s = {} THEN 0
                                    ELSE w[Some(s)] + G(s \ {Some(s)})[s \ {Some(s)}]]
<1>4. \A U \in SUBSET T : U # T => Adds(U, w, G(U))
    BY <1>3
<1>5. ASSUME NEW U \in SUBSET T, U # T
      PROVE  G(U)[U] = g[U]
    <2>1. Adds(U, w, G(U))
        BY <1>4, <1>5
    <2>2. CASE U = {}
        BY <2>1, <2>2 DEF Adds
    <2>3. CASE U # {}
        <3> DEFINE V == U \ {Some(U)}
        <3>1. V \in SUBSET U /\ V \in SUBSET T /\ V # T
            BY <1>5, <2>3, SomeMember
        <3>2. Adds(V, w, [s \in SUBSET V |-> G(U)[s]])
            <4> HIDE DEF G, V
            <4> QED
                BY <2>1, <3>1, AdderRestricts
        <3>3. Adds(V, w, G(V))
            BY <1>4, <3>1
        <3>4. IsFiniteSet(V)
            BY <1>2, <3>1, FS_Subset
        <3>5. G(V) = [s \in SUBSET V |-> G(U)[s]]
            <4> DEFINE h == [s \in SUBSET V |-> G(U)[s]]
                       k == G(V)
            <4>1. Adds(V, w, h) /\ Adds(V, w, k)
                BY <3>2, <3>3
            <4> HIDE DEF h, k, V
            <4>2. h = k
                BY <3>4, <4>1, AdderIsOne
            <4> QED
                BY <4>2 DEF h, k
        <3>6. G(V)[V] = G(U)[V]
            <4> HIDE DEF G
            <4> QED
                BY <3>5
        <3>7. G(U)[U] = w[Some(U)] + G(U)[V]
            <4> DEFINE k == G(U)
            <4>1. Adds(U, w, k)
                BY <2>1
            <4> HIDE DEF k
            <4>2. k[U] = w[Some(U)] + k[V]
                BY <2>3, <4>1 DEF Adds
            <4> QED
                BY <4>2 DEF k
        <3>8. g[U] = w[Some(U)] + G(V)[V]
            <4> HIDE DEF G
            <4> QED
                BY <2>3
        <3> QED
            BY <3>6, <3>7, <3>8
    <2> QED
        BY <2>2, <2>3
<1>6. ASSUME NEW s \in SUBSET T
      PROVE  g[s] = IF s = {} THEN 0 ELSE w[Some(s)] + g[s \ {Some(s)}]
    <2>1. CASE s = {}
        BY <2>1
    <2>2. CASE s # {}
        <3> DEFINE V == s \ {Some(s)}
        <3>1. V \in SUBSET T /\ V # T
            BY <2>2, SomeMember
        <3>2. G(V)[V] = g[V]
            BY <1>5, <3>1
        <3>3. g[s] = w[Some(s)] + G(V)[V]
            <4> HIDE DEF G
            <4> QED
                BY <2>2
        <3> QED
            BY <2>2, <3>2, <3>3
    <2> QED
        BY <2>1, <2>2
<1>7. g = [s \in SUBSET T |-> g[s]]
    OBVIOUS
<1> HIDE DEF g
<1>8. Adds(T, w, g)
    BY <1>6, <1>7 DEF Adds
<1> QED
    BY <1>2, <1>8

LEMMA SumOfAdder ==
    ASSUME NEW S, IsFiniteSet(S), NEW w, NEW g, Adds(S, w, g), NEW T \in SUBSET S
    PROVE  g[T] = SumOf(w, T)
<1> DEFINE h == [s \in SUBSET T |-> g[s]]
           k == CHOOSE f : Adds(T, w, f)
<1>1. Adds(T, w, h) /\ h[T] = g[T]
    BY AdderRestricts
<1>2. Adds(T, w, k)
    BY <1>1
<1>3. IsFiniteSet(T)
    BY FS_Subset
<1>4. SumOf(w, T) = k[T]
    BY DEF SumOf
<1> HIDE DEF h, k
<1>5. h = k
    BY <1>1, <1>2, <1>3, AdderIsOne
<1> QED
    BY <1>1, <1>4, <1>5

LEMMA SumOfSome ==
    ASSUME NEW S, IsFiniteSet(S), NEW w
    PROVE  SumOf(w, S) = IF S = {} THEN 0 ELSE w[Some(S)] + SumOf(w, S \ {Some(S)})
<1>1. PICK g : Adds(S, w, g)
    BY AdderExists
<1> DEFINE T == S \ {Some(S)}
<1>2. T \in SUBSET S /\ S \in SUBSET S
    OBVIOUS
<1> HIDE DEF T
<1>3. g[S] = SumOf(w, S) /\ g[T] = SumOf(w, T)
    BY <1>1, <1>2, SumOfAdder
<1>4. g[S] = IF S = {} THEN 0 ELSE w[Some(S)] + g[T]
    BY <1>1, <1>2 DEF Adds, T
<1> QED
    BY <1>3, <1>4 DEF T

LEMMA SumType ==
    ASSUME NEW D, NEW w \in [D -> Nat], NEW S \in SUBSET D, IsFiniteSet(S)
    PROVE  SumOf(w, S) \in Nat
<1> DEFINE F == {s \in SUBSET S : SumOf(w, s) \notin Nat}
<1> SUFFICES ASSUME F # {} PROVE FALSE
    OBVIOUS
<1>1. PICK T \in F : \A U \in F : U \subseteq T => U = T
    <2>1. F \in SUBSET SUBSET S
        OBVIOUS
    <2> HIDE DEF F
    <2> QED
        BY <2>1, SmallestSet
<1>2. T \in SUBSET S /\ SumOf(w, T) \notin Nat /\ IsFiniteSet(T)
    BY FS_Subset
<1>3. SumOf(w, T) = IF T = {} THEN 0 ELSE w[Some(T)] + SumOf(w, T \ {Some(T)})
    BY <1>2, SumOfSome
<1>4. T # {}
    BY <1>2, <1>3
<1> DEFINE U == T \ {Some(T)}
<1>5. Some(T) \in T /\ U \in SUBSET S /\ U \subseteq T /\ U # T
    BY <1>2, <1>4, SomeMember
<1>6. SumOf(w, U) \in Nat
    BY <1>1, <1>5
<1>7. w[Some(T)] \in Nat
    BY <1>2, <1>5
<1> QED
    BY <1>2, <1>3, <1>4, <1>6, <1>7

\* Any element may be summed first.
LEMMA SumRemove ==
    ASSUME NEW D, NEW w \in [D -> Nat], NEW S \in SUBSET D, IsFiniteSet(S), NEW x \in S
    PROVE  SumOf(w, S) = w[x] + SumOf(w, S \ {x})
<1> DEFINE Free(s) == \A y \in s : SumOf(w, s) = w[y] + SumOf(w, s \ {y})
           F == {s \in SUBSET S : ~Free(s)}
<1>1. CASE F = {}
    <2>1. Free(S)
        BY <1>1
    <2> QED
        BY <2>1
<1>2. CASE F # {}
    <2>1. PICK T \in F : \A U \in F : U \subseteq T => U = T
        <3>1. F \in SUBSET SUBSET S
            OBVIOUS
        <3> HIDE DEF F
        <3> QED
            BY <1>2, <3>1, SmallestSet
    <2>2. T \in SUBSET S /\ ~Free(T) /\ IsFiniteSet(T)
        BY FS_Subset
    <2>3. \A U \in SUBSET T : U # T => Free(U)
        BY <2>1, <2>2
    <2> HIDE DEF F
    <2>4. PICK y \in T : SumOf(w, T) # w[y] + SumOf(w, T \ {y})
        BY <2>2
    <2> DEFINE a == Some(T)
               A == T \ {a}
               Y == T \ {y}
               R == T \ {a, y}
    <2>5. a \in T /\ SumOf(w, T) = w[a] + SumOf(w, A)
        BY <2>2, <2>4, SomeMember, SumOfSome
    <2> HIDE DEF a
    <2>6. a # y
        BY <2>4, <2>5
    <2>7. A \in SUBSET T /\ A # T /\ Y \in SUBSET T /\ Y # T /\ y \in A /\ a \in Y
        BY <2>5, <2>6
    <2>8. A \ {y} = R /\ Y \ {a} = R /\ R \in SUBSET D /\ R \in SUBSET T
        BY <2>2
    <2>9. Free(A) /\ Free(Y)
        BY <2>3, <2>7
    <2>10. SumOf(w, A) = w[y] + SumOf(w, R)
        BY <2>7, <2>8, <2>9
    <2>11. SumOf(w, Y) = w[a] + SumOf(w, R)
        BY <2>7, <2>8, <2>9
    <2>12. SumOf(w, R) \in Nat
        BY <2>2, <2>8, FS_Subset, SumType
    <2>13. w[a] \in Nat /\ w[y] \in Nat
        BY <2>2, <2>5
    <2> QED
        BY <2>4, <2>5, <2>10, <2>11, <2>12, <2>13
<1> QED
    BY <1>1, <1>2

LEMMA SumDisjoint ==
    ASSUME NEW D, NEW w \in [D -> Nat], NEW A \in SUBSET D, IsFiniteSet(A),
           NEW B \in SUBSET D, IsFiniteSet(B), A \intersect B = {}
    PROVE  SumOf(w, A \union B) = SumOf(w, A) + SumOf(w, B)
<1> DEFINE F == {s \in SUBSET A : SumOf(w, s \union B) # SumOf(w, s) + SumOf(w, B)}
<1>1. CASE F = {}
    BY <1>1
<1>2. CASE F # {}
    <2>1. PICK T \in F : \A U \in F : U \subseteq T => U = T
        <3>1. F \in SUBSET SUBSET A
            OBVIOUS
        <3> HIDE DEF F
        <3> QED
            BY <1>2, <3>1, SmallestSet
    <2>2. T \in SUBSET A /\ T \in SUBSET D /\ IsFiniteSet(T)
          /\ SumOf(w, T \union B) # SumOf(w, T) + SumOf(w, B)
        BY FS_Subset
    <2>3. SumOf(w, B) \in Nat
        BY SumType
    <2>4. T # {}
        <3>1. SumOf(w, {}) = 0
            BY FS_EmptySet, SumOfSome
        <3>2. T = {} => T \union B = B
            OBVIOUS
        <3> QED
            BY <2>2, <2>3, <3>1, <3>2
    <2>5. PICK x \in T : TRUE
        BY <2>4
    <2> DEFINE U == T \ {x}
               X == T \union B
    <2>6. U \in SUBSET A /\ U \subseteq T /\ U # T /\ U \in SUBSET D
        BY <2>2
    <2>7. SumOf(w, U \union B) = SumOf(w, U) + SumOf(w, B)
        BY <2>1, <2>6
    <2> HIDE DEF F
    <2>8. SumOf(w, T) = w[x] + SumOf(w, U)
        BY <2>2, SumRemove
    <2>9. X \in SUBSET D /\ IsFiniteSet(X) /\ x \in X
        BY <2>2, FS_Union
    <2>10. X \ {x} = U \union B
        BY <2>2
    <2>11. SumOf(w, X) = w[x] + SumOf(w, U \union B)
        <3> HIDE DEF X
        <3>1. SumOf(w, X) = w[x] + SumOf(w, X \ {x})
            BY <2>9, SumRemove
        <3> QED
            BY <2>10, <3>1
    <2>12. SumOf(w, U) \in Nat /\ w[x] \in Nat
        BY <2>2, <2>6, FS_Subset, SumType
    <2> QED
        BY <2>2, <2>3, <2>7, <2>8, <2>11, <2>12
<1> QED
    BY <1>1, <1>2

\* The weights of K are the sums over sets apart: their sum is that of all.
LEMMA SumOfSums ==
    ASSUME NEW D, NEW w \in [D -> Nat], NEW K, IsFiniteSet(K), NEW f \in [K -> SUBSET D],
           \A k \in K : IsFiniteSet(f[k]),
           \A k, l \in K : k # l => f[k] \intersect f[l] = {},
           NEW v \in [K -> Nat], \A k \in K : v[k] = SumOf(w, f[k])
    PROVE  SumOf(v, K) = SumOf(w, UNION {f[k] : k \in K})
<1> DEFINE All(s) == UNION {f[k] : k \in s}
           F == {s \in SUBSET K : ~ (IsFiniteSet(All(s)) /\ SumOf(v, s) = SumOf(w, All(s)))}
<1>1. CASE F = {}
    BY <1>1
<1>2. CASE F # {}
    <2>1. PICK T \in F : \A U \in F : U \subseteq T => U = T
        <3>1. F \in SUBSET SUBSET K
            OBVIOUS
        <3> HIDE DEF F
        <3> QED
            BY <1>2, <3>1, SmallestSet
    <2>2. T \in SUBSET K /\ IsFiniteSet(T) /\ ~ (IsFiniteSet(All(T)) /\ SumOf(v, T) = SumOf(w, All(T)))
        BY FS_Subset
    <2>3. \A U \in SUBSET T : U # T => IsFiniteSet(All(U)) /\ SumOf(v, U) = SumOf(w, All(U))
        BY <2>1, <2>2
    <2> HIDE DEF F
    <2>4. T # {}
        <3>1. T = {} => All(T) = {}
            OBVIOUS
        <3>2. SumOf(v, {}) = 0 /\ SumOf(w, {}) = 0 /\ IsFiniteSet({})
            BY FS_EmptySet, SumOfSome
        <3> HIDE DEF All
        <3> QED
            BY <2>2, <3>1, <3>2
    <2>5. PICK k \in T : TRUE
        BY <2>4
    <2> DEFINE U == T \ {k}
    <2>6. U \in SUBSET T /\ U # T
        BY <2>2
    <2>7. IsFiniteSet(All(U)) /\ SumOf(v, U) = SumOf(w, All(U))
        BY <2>3, <2>6
    <2>8. All(T) = f[k] \union All(U)
        OBVIOUS
    <2>9. f[k] \intersect All(U) = {} /\ f[k] \in SUBSET D /\ All(U) \in SUBSET D /\ IsFiniteSet(f[k])
        BY <2>2
    <2> HIDE DEF All
    <2>10. SumOf(w, All(T)) = SumOf(w, f[k]) + SumOf(w, All(U)) /\ IsFiniteSet(All(T))
        <3> DEFINE A == f[k]
                   B == All(U)
        <3>1. A \in SUBSET D /\ B \in SUBSET D /\ IsFiniteSet(A) /\ IsFiniteSet(B) /\ A \intersect B = {}
              /\ All(T) = A \union B
            BY <2>7, <2>8, <2>9
        <3> HIDE DEF A, B
        <3>2. SumOf(w, A \union B) = SumOf(w, A) + SumOf(w, B) /\ IsFiniteSet(A \union B)
            <4>1. A \in SUBSET D /\ B \in SUBSET D /\ IsFiniteSet(A) /\ IsFiniteSet(B)
                  /\ A \intersect B = {}
                BY <3>1
            <4>2. SumOf(w, A \union B) = SumOf(w, A) + SumOf(w, B)
                BY <4>1, SumDisjoint
            <4> QED
                BY <4>1, <4>2, FS_Union
        <3>3. SumOf(w, All(T)) = SumOf(w, A) + SumOf(w, B) /\ IsFiniteSet(All(T))
            <4> HIDE DEF All
            <4> QED
                BY <3>1, <3>2
        <3> QED
            BY <3>3 DEF A, B
    <2>11. SumOf(v, T) = v[k] + SumOf(v, U)
        BY <2>2, SumRemove
    <2>12. v[k] = SumOf(w, f[k])
        BY <2>2
    <2> QED
        BY <2>2, <2>7, <2>10, <2>11, <2>12
<1> QED
    BY <1>1, <1>2

-----------------------------------------------------------------------------
(* Surfaces.                                                                *)

Weights(d) == [c \in Contours(d) |-> Area(d, c)]

LEMMA WeightsType ==
    ASSUME NEW d, Drawing(d.plan), d.unit \in DOMAIN Metres \union {None}
    PROVE  Weights(d) \in [Contours(d) -> Nat] /\ IsFiniteSet(Contours(d))
<1>1. ASSUME NEW c \in Contours(d)
      PROVE  Area(d, c) \in Nat
    <2>1. CASE d.unit = None
        BY <2>1 DEF Area
    <2>2. CASE d.unit # None
        <3>1. Metres[d.unit] \in Nat
            BY <2>2, PlanReadingAssumption
        <3>2. Size(d.plan.contours[c]) \in Nat
            BY DEF Size, Drawing, Contours
        <3>3. Area(d, c) = Size(d.plan.contours[c]) * Metres[d.unit]
            BY <2>2 DEF Area
        <3> QED
            BY <3>1, <3>2, <3>3
    <2> QED
        BY <2>1, <2>2
<1> QED
    BY <1>1 DEF Weights, Drawing, Contours

LEMMA TotalIsSum ==
    ASSUME NEW d, NEW C \in SUBSET Contours(d), IsFiniteSet(C)
    PROVE  TotalArea(d, C) = SumOf(Weights(d), C)
<1> DEFINE Sums(g) == g = [s \in SUBSET C |-> IF s = {} THEN 0
                             ELSE Area(d, CHOOSE x \in s : TRUE) + g[s \ {CHOOSE x \in s : TRUE}]]
           iter == CHOOSE g : Sums(g)
<1>1. TotalArea(d, C) = iter[C]
    BY DEF TotalArea, MapThenSumSet, MapThenFoldSet
<1>2. \A s \in SUBSET C : s # {} => Weights(d)[Some(s)] = Area(d, CHOOSE x \in s : TRUE)
    BY SomeMember DEF Weights, Some
<1>3. \A g : Sums(g) <=> Adds(C, Weights(d), g)
    BY <1>2 DEF Adds, Some
<1>4. \E g : Adds(C, Weights(d), g)
    BY AdderExists
<1> HIDE DEF Sums
<1>5. Sums(iter)
    BY <1>3, <1>4
<1> HIDE DEF iter
<1>6. Adds(C, Weights(d), iter)
    BY <1>3, <1>5
<1>7. C \in SUBSET C
    OBVIOUS
<1> QED
    BY <1>1, <1>6, <1>7, SumOfAdder

LEMMA GeometricIsSum ==
    ASSUME NEW O, IsFiniteSet(O)
    PROVE  GeometricSum(O) = SumOf([o \in O |-> o.geometric], O)
<1> DEFINE v == [o \in O |-> o.geometric]
           Sums(g) == g = [s \in SUBSET O |-> IF s = {} THEN 0
                             ELSE (CHOOSE x \in s : TRUE).geometric + g[s \ {CHOOSE x \in s : TRUE}]]
           iter == CHOOSE g : Sums(g)
<1>1. GeometricSum(O) = iter[O]
    BY DEF GeometricSum, MapThenSumSet, MapThenFoldSet
<1>2. \A s \in SUBSET O : s # {} => v[Some(s)] = (CHOOSE x \in s : TRUE).geometric
    BY SomeMember DEF Some
<1> HIDE DEF v
<1>3. \A g : Sums(g) <=> Adds(O, v, g)
    BY <1>2 DEF Adds, Some
<1>4. \E g : Adds(O, v, g)
    BY AdderExists
<1> HIDE DEF Sums
<1>5. Sums(iter)
    BY <1>3, <1>4
<1> HIDE DEF iter
<1>6. Adds(O, v, iter)
    BY <1>3, <1>5
<1>7. O \in SUBSET O
    OBVIOUS
<1>8. iter[O] = SumOf(v, O)
    BY <1>6, <1>7, SumOfAdder
<1> QED
    BY <1>1, <1>8 DEF v

\* Occurrences share no contour: their surfaces add up to that of all contours.
LEMMA OccurrencesAddUp ==
    ASSUME NEW d, Drawing(d.plan), d.unit \in DOMAIN Metres \union {None},
           NEW K \in SUBSET Occurrences(d)
    PROVE  GeometricSum(K) = TotalArea(d, ContoursOf(K))
<1> DEFINE f == [o \in K |-> o.contours]
           v == [o \in K |-> o.geometric]
           w == Weights(d)
           D == Contours(d)
<1>1. w \in [D -> Nat] /\ IsFiniteSet(D)
    BY WeightsType
<1>2. IsFiniteSet(K)
    BY OccurrencesFinite, FS_Subset
<1>3. \A o \in K : o.contours \subseteq D
    BY OccurrenceTypes
<1>4. \A o, k \in K : o # k => o.contours \intersect k.contours = {}
    BY OccurrencesApart
<1>5. \A o \in K : o.geometric = TotalArea(d, o.contours)
    BY OccurrenceFields DEF OccurrenceOf
<1>6. \A o \in K : /\ f[o] = o.contours /\ IsFiniteSet(f[o]) /\ f[o] \in SUBSET D
                   /\ v[o] = o.geometric
    BY <1>1, <1>3, FS_Subset
<1>7. f \in [K -> SUBSET D]
    BY <1>3
<1>8. UNION {f[o] : o \in K} = ContoursOf(K)
    BY <1>6 DEF ContoursOf
<1>9. GeometricSum(K) = SumOf(v, K)
    BY <1>2, GeometricIsSum
<1>10. v = [o \in K |-> v[o]]
    OBVIOUS
<1> HIDE DEF f, v, D, w
<1>11. \A o \in K : v[o] = SumOf(w, f[o])
    BY <1>5, <1>6, TotalIsSum DEF w, D
<1>12. v \in [K -> Nat]
    BY <1>1, <1>6, <1>10, <1>11, SumType
<1>13. \A o, k \in K : o # k => f[o] \intersect f[k] = {}
    BY <1>4, <1>6
<1>14. \A o \in K : IsFiniteSet(f[o])
    BY <1>6
<1>15. SumOf(v, K) = SumOf(w, UNION {f[o] : o \in K})
    BY <1>1, <1>2, <1>7, <1>11, <1>12, <1>13, <1>14, SumOfSums
<1>16. ContoursOf(K) \subseteq D
    BY <1>3 DEF ContoursOf
<1>17. TotalArea(d, ContoursOf(K)) = SumOf(w, ContoursOf(K))
    <2> DEFINE C == ContoursOf(K)
    <2>1. C \in SUBSET Contours(d) /\ IsFiniteSet(C)
        BY <1>1, <1>16, FS_Subset DEF D
    <2> HIDE DEF C
    <2>2. TotalArea(d, C) = SumOf(Weights(d), C)
        BY <2>1, TotalIsSum
    <2> QED
        BY <2>2 DEF C, w
<1> QED
    BY <1>8, <1>9, <1>15, <1>17

\* The calculated surface of a lot is that of its contours.
Measured(e) ==
    \A n \in DOMAIN e.recon.proposals :
        e.recon.proposals[n].geometric = TotalArea(e, e.recon.proposals[n].contours)

LEMMA ReconcileMeasures ==
    ASSUME NEW d, IsDossier(d), Drawing(d.plan), d.unit \in DOMAIN Metres \union {None}
    PROVE  Measured(Reconcile(d))
<1> DEFINE e == Reconcile(d)
           P == e.recon.proposals
           L == ReconcileLegacy(d).proposals
           C(n) == Counted(d, OfNumber(Occurrences(d), n))
<1>1. Handled(d.plan) /\ LegacyHolds(d, L) /\ SameDrawing(d, e)
    BY LegacyReconciled, ReconcileFields DEF Handled, Drawing, SameInputs
<1>2. \A X : TotalArea(e, X) = TotalArea(d, X)
    BY <1>1, SameAreas
<1>3. ASSUME NEW n \in DOMAIN L
      PROVE  L[n].geometric = TotalArea(d, L[n].contours)
    <2>1. L[n].contours = ContoursOf(C(n)) /\ L[n].geometric = GeometricSum(C(n))
        BY <1>1 DEF LegacyHolds
    <2>2. C(n) \subseteq Occurrences(d)
        <3> DEFINE G == OfNumber(Occurrences(d), n)
        <3>1. Ranked(G) /\ G \subseteq Occurrences(d)
            BY <1>1, OccurrencesRanked DEF OfNumber
        <3> HIDE DEF G
        <3>2. Counted(d, G) \subseteq G
            BY <3>1, CountedOfKept
        <3> QED
            BY <3>1, <3>2 DEF G
    <2> HIDE DEF C, L
    <2> QED
        BY <2>1, <2>2, OccurrencesAddUp
<1>4. CASE d.usage = None
    <2>1. P = L
        BY <1>4, ReconcileFields
    <2> HIDE DEF P, L, e
    <2> QED
        BY <1>2, <1>3, <2>1 DEF Measured, P, e
<1>5. CASE d.usage # None
    <2>1. HybridHolds(d, ReadOf(d), LegacyUsable(d, ReadOf(d), ReconcileLegacy(d)), L, P)
        BY <1>1, <1>5, ReconcileFields, ProfileReconciled
    <2>2. ASSUME NEW n \in DOMAIN P
          PROVE  P[n].geometric = TotalArea(d, P[n].contours)
        <3>1. CASE n \in LotsOf(ReadOf(d))
            BY <2>1, <3>1 DEF HybridHolds
        <3>2. CASE n \notin LotsOf(ReadOf(d))
            <4>1. n \in DOMAIN L /\ P[n].contours = L[n].contours /\ P[n].geometric = L[n].geometric
                BY <2>1, <2>2, <3>2 DEF HybridHolds
            <4> HIDE DEF P, L
            <4> QED
                BY <1>3, <4>1
        <3> QED
            BY <3>1, <3>2
    <2> QED
        BY <1>2, <2>2 DEF Measured
<1> QED
    BY <1>4, <1>5

-----------------------------------------------------------------------------
(* Reconciling twice is reconciling once.                                   *)

\* The decisions that d and e remember of the numbers of N are the same.
SameDecisions(d, e, N) == \A n \in N : PreviousDecision(e, n) = PreviousDecision(d, n)

LEMMA SameGroups ==
    ASSUME NEW d, Handled(d.plan), NEW e, SameDrawing(d, e)
    PROVE  /\ Occurrences(e) = Occurrences(d)
           /\ \A n : Counted(e, OfNumber(Occurrences(d), n)) = Counted(d, OfNumber(Occurrences(d), n))
           /\ CountedAnchors(e, Occurrences(d)) = CountedAnchors(d, Occurrences(d))
<1>1. Occurrences(e) = Occurrences(d)
    BY SameOccurrences
<1>2. \A n : Counted(e, OfNumber(Occurrences(d), n)) = Counted(d, OfNumber(Occurrences(d), n))
    BY SameCounted, OccurrencesRanked
<1> DEFINE O == Occurrences(d)
<1> HIDE DEF O
<1>3. CountedAnchors(e, O) = CountedAnchors(d, O)
    BY <1>2 DEF CountedAnchors, O
<1> QED
    BY <1>1, <1>2, <1>3 DEF O

\* A proposal of the automatic engine changes with the decision on it alone.
LEMMA LegacyAgain ==
    ASSUME NEW d, Handled(d.plan), NEW e, SameDrawing(d, e), NEW P, NEW Q,
           P = LegacyProposals(d, Occurrences(d)), Q = LegacyProposals(e, Occurrences(e))
    PROVE  /\ DOMAIN Q = DOMAIN P
           /\ \A n \in DOMAIN P : Q[n].contours = P[n].contours
           /\ \A n \in DOMAIN P : PreviousDecision(e, n) = PreviousDecision(d, n) => Q[n] = P[n]
           /\ SameDecisions(d, e, DOMAIN P) => Q = P
<1> DEFINE O == Occurrences(d)
           N == {o.number : o \in O}
           Raw(n) == LegacyProposal(OfNumber(O, n), Counted(d, OfNumber(O, n)))
<1>1. /\ P = [n \in N |-> Decided(d, n, Raw(n))]
      /\ Q = [n \in N |-> Decided(e, n, Raw(n))]
    BY SameGroups DEF LegacyProposals
<1>2. \A n : Proposal(Raw(n))
    BY LegacyProposalFields
<1> HIDE DEF N, Raw
<1>3. ASSUME NEW n \in N
      PROVE  /\ Q[n].contours = P[n].contours
             /\ PreviousDecision(e, n) = PreviousDecision(d, n) => Q[n] = P[n]
    <2>1. Q[n] = Decided(e, n, Raw(n)) /\ P[n] = Decided(d, n, Raw(n))
        BY <1>1
    <2>2. Q[n].contours = Raw(n).contours /\ P[n].contours = Raw(n).contours
        BY <1>2, <2>1, DecidedFields
    <2>3. PreviousDecision(e, n) = PreviousDecision(d, n) => Decided(e, n, Raw(n)) = Decided(d, n, Raw(n))
        BY DEF Decided
    <2> QED
        BY <2>1, <2>2, <2>3
<1> QED
    BY <1>1, <1>3 DEF SameDecisions

\* What touches a lot and keeps clear of others are its contours alone.
LEMMA SuggestedAgain ==
    ASSUME NEW d, NEW e, SameDrawing(d, e), NEW c, NEW anchors, NEW radius, NEW P, NEW Q,
           \A n \in InReach(d, c, anchors, radius) : Q[n].contours = P[n].contours
    PROVE  Suggested(e, c, anchors, radius, Q) = Suggested(d, c, anchors, radius, P)
<1> DEFINE N == InReach(d, c, anchors, radius)
           p == d.plan
<1>1. /\ Suggested(d, c, anchors, radius, P) = Suggestions(d, c, P, N)
      /\ Suggested(e, c, anchors, radius, Q) = Suggestions(e, c, Q, N)
    BY DEF Suggested, InReach, SameDrawing
<1>2. \A n \in N : Q[n].contours = P[n].contours
    OBVIOUS
<1> HIDE DEF N, p
<1>3. \A n \in N : /\ Touches(p, c, Q, n) <=> Touches(p, c, P, n)
                   /\ Clear(p, c, Q, n) <=> Clear(p, c, P, n)
    BY <1>2 DEF Touches, Clear
<1> DEFINE T == {n \in N : Touches(p, c, P, n)}
           U == {n \in N : Touches(p, c, Q, n)}
<1>4. T = U
    BY <1>3
<1>5. /\ Contacts(p, c, P, N) = IF Cardinality(T) = 1 /\ (\A n \in N \ T : Clear(p, c, P, n)) THEN T ELSE {}
      /\ Contacts(p, c, Q, N) = IF Cardinality(U) = 1 /\ (\A n \in N \ U : Clear(p, c, Q, n)) THEN U ELSE {}
    BY DEF Contacts
<1> HIDE DEF T, U
<1>6. Contacts(p, c, P, N) = Contacts(p, c, Q, N)
    BY <1>3, <1>4, <1>5
<1> QED
    BY <1>1, <1>6 DEF Suggestions, SameDrawing, p

LEMMA AnnexAgain ==
    ASSUME NEW d, NEW e, SameDrawing(d, e), NEW c, NEW z, NEW S
    PROVE  Annex(e, c, z, S) = Annex(d, c, z, S)
BY DEF Annex, Attached, SameDrawing

\* The zones of the automatic engine: those of annexes do not depend on any
\* decision, of the others the status only.
LEMMA LegacyZoneAgain ==
    ASSUME NEW d, Drawing(d.plan), NEW e, SameDrawing(d, e), NEW P, NEW Q,
           P = LegacyProposals(d, Occurrences(d)), Q = LegacyProposals(e, Occurrences(e)),
           NEW A, A = CountedAnchors(d, Occurrences(d)), NEW c
    PROVE  /\ LayerOf(d, c) \in AnnexLayers => LegacyZone(e, c, Q, A) = LegacyZone(d, c, P, A)
           /\ Q = P => LegacyZone(e, c, Q, A) = LegacyZone(d, c, P, A)
<1>1. ASSUME NEW n \in InReach(d, c, A, LotRadius)
      PROVE  Q[n].contours = P[n].contours
    <2>1. \A m \in InReach(d, c, A, LotRadius) : \E t \in A : d.plan.texts[t].value = m
        BY DEF InReach, Values, Near, OnSheet
    <2>2. \E o \in Occurrences(d) : o.number = n
        BY <1>1, <2>1, AnchorFields
    <2>3. n \in DOMAIN P
        BY <2>2 DEF LegacyProposals
    <2> QED
        BY <2>3, LegacyAgain DEF Drawing, Handled
<1>2. Suggested(e, c, A, LotRadius, Q) = Suggested(d, c, A, LotRadius, P)
    BY <1>1, SuggestedAgain
<1>3. LayerOf(d, c) \in AnnexLayers => LegacyZone(e, c, Q, A) = LegacyZone(d, c, P, A)
    BY <1>2, AnnexAgain DEF LegacyZone, LayerOf, SameDrawing
<1>4. LayerOf(d, c) \notin AnnexLayers /\ Q = P => LegacyZone(e, c, Q, A) = LegacyZone(d, c, P, A)
    BY DEF LegacyZone, LayerOf, SameDrawing
<1> QED
    BY <1>3, <1>4

LEMMA LegacyReconciledAgain ==
    ASSUME NEW d, Drawing(d.plan), NEW e, SameDrawing(d, e), d.usage = None,
           SameDecisions(d, e, DOMAIN ReconcileLegacy(d).proposals)
    PROVE  ReconcileLegacy(e) = ReconcileLegacy(d)
<1> DEFINE P == LegacyProposals(d, Occurrences(d))
           Q == LegacyProposals(e, Occurrences(e))
           A == CountedAnchors(d, Occurrences(d))
           r == ReconcileLegacy(d)
           s == ReconcileLegacy(e)
<1>1. Handled(d.plan)
    BY DEF Drawing, Handled
<1>2. Q = P
    BY <1>1, LegacyAgain, LegacyFields
<1>3. CountedAnchors(e, Occurrences(e)) = A
    BY <1>1, SameGroups
<1>4. \A c : LegacyZone(e, c, Q, A) = LegacyZone(d, c, P, A)
    BY <1>2, LegacyZoneAgain
<1>5. \A layers : OnLayers(e, layers) = OnLayers(d, layers)
    BY SameClassification
<1>6. {c \in Contours(e) : Excluded(e, c)} = {c \in Contours(d) : Excluded(d, c)}
    BY SameClassification
<1> DEFINE X == {c \in Contours(d) : Excluded(d, c)}
           B == OnLayers(d, PrincipalLayers \union AnnexLayers)
<1>7. /\ ReconcileLegacy(d) = LegacyResult(d, P, A, X, B)
      /\ ReconcileLegacy(e) = LegacyResult(e, Q, A, X, B)
    BY <1>3, <1>5, <1>6 DEF ReconcileLegacy, LegacyOf
<1>8. Contours(e) = Contours(d)
    BY SameClassification
<1> HIDE DEF P, Q, A, X, B
<1>9. LegacyResult(e, Q, A, X, B) = LegacyResult(d, P, A, X, B)
    BY <1>2, <1>4, <1>8 DEF LegacyResult
<1> QED
    BY <1>7, <1>9

\* The status of a zone that is set again is forgotten.
Alike(y, z) == IsZone(y) /\ IsZone(z) /\ y.category = z.category /\ y.lot = z.lot /\ y.origin = z.origin

LEMMA ProposedAgain ==
    ASSUME NEW y, NEW z, Alike(y, z), NEW P, NEW c,
           HoldingProposals(P, c) = {} => y.category = "principale" \/ y = z
    PROVE  WithProposal(y, P, c) = WithProposal(z, P, c)
<1>1. \A s : [y EXCEPT !.status = s] = [z EXCEPT !.status = s]
    <2> SUFFICES ASSUME NEW s PROVE [y EXCEPT !.status = s] = [z EXCEPT !.status = s]
        OBVIOUS
    <2>1. [y EXCEPT !.status = s] = [category |-> y.category, status |-> s, lot |-> y.lot, origin |-> y.origin]
        BY DEF Alike, IsZone
    <2>2. [z EXCEPT !.status = s] = [category |-> z.category, status |-> s, lot |-> z.lot, origin |-> z.origin]
        BY DEF Alike, IsZone
    <2> QED
        BY <2>1, <2>2 DEF Alike
<1>2. CASE HoldingProposals(P, c) # {}
    BY <1>1, <1>2 DEF WithProposal, Proposed
<1>3. CASE HoldingProposals(P, c) = {}
    BY <1>1, <1>3 DEF WithProposal, Alike
<1> QED
    BY <1>2, <1>3

LEMMA LegacyZonesAlike ==
    ASSUME NEW d, Drawing(d.plan), NEW e, SameDrawing(d, e),
           NEW c \in DOMAIN ReconcileLegacy(d).business
    PROVE  /\ c \in DOMAIN ReconcileLegacy(e).business
           /\ Alike(ReconcileLegacy(e).business[c], ReconcileLegacy(d).business[c])
           /\ \/ ReconcileLegacy(e).business[c].category = "principale"
              \/ ReconcileLegacy(e).business[c] = ReconcileLegacy(d).business[c]
<1> DEFINE P == LegacyProposals(d, Occurrences(d))
           Q == LegacyProposals(e, Occurrences(e))
           A == CountedAnchors(d, Occurrences(d))
           y == ReconcileLegacy(e).business[c]
           z == ReconcileLegacy(d).business[c]
<1>1. c \in DOMAIN ReconcileLegacy(e).business
    BY LegacyFields, SameClassification
<1>2. CountedAnchors(e, Occurrences(e)) = A
    BY SameGroups DEF Drawing, Handled
<1>3. y = LegacyZone(e, c, Q, A) /\ z = LegacyZone(d, c, P, A)
    BY <1>1, <1>2, LegacyFields
<1>4. IsZone(y) /\ IsZone(z)
    BY <1>1, LegacyZoneFields
<1>5. CASE LayerOf(d, c) \in AnnexLayers
    BY <1>1, <1>3, <1>4, <1>5, LegacyZoneAgain DEF Alike
<1>6. CASE LayerOf(d, c) \notin AnnexLayers
    <2> DEFINE w == Zone("principale", "legacy")
    <2>1. (y = w \/ y = Proposed(w, Q, c)) /\ (z = w \/ z = Proposed(w, P, c))
        BY <1>3, <1>6 DEF LegacyZone, LayerOf, SameDrawing
    <2>2. \A R : /\ Proposed(w, R, c).category = "principale" /\ Proposed(w, R, c).lot = None
                 /\ Proposed(w, R, c).origin = "legacy"
        BY DEF Proposed, Zone
    <2>3. w.category = "principale" /\ w.lot = None /\ w.origin = "legacy"
        BY DEF Zone
    <2> HIDE DEF w, y, z
    <2> QED
        BY <1>1, <1>4, <2>1, <2>2, <2>3 DEF Alike, y, z
<1> QED
    BY <1>5, <1>6

LEMMA ProfileProposalAgain ==
    ASSUME NEW d, NEW e, SameDrawing(d, e), NEW f, NEW reading, NEW C
    PROVE  ProfileProposal(e, f, reading, C) = ProfileProposal(d, f, reading, C)
<1>1. TotalArea(e, C) = TotalArea(d, C)
    BY SameAreas
<1>2. e.plan = d.plan
    BY DEF SameDrawing
<1> QED
    BY <1>1, <1>2 DEF ProfileProposal, WithSurfaces

\* What a profile makes of a plan changes with the decisions on the lots it shows.
LEMMA HybridAgain ==
    ASSUME NEW d, Drawing(d.plan), NEW e, SameDrawing(d, e), NEW f, NEW R, NEW P, NEW Q,
           P = HybridProposals(d, f, R, ReconcileLegacy(d), LegacyUsable(d, R, ReconcileLegacy(d))),
           Q = HybridProposals(e, f, R, ReconcileLegacy(e), LegacyUsable(e, R, ReconcileLegacy(e))),
           SameDecisions(d, e, DOMAIN P)
    PROVE  Q = P
<1> DEFINE L == ReconcileLegacy(d)
           M == ReconcileLegacy(e)
           U == LegacyUsable(d, R, L)
           N == Completing(R, L, U)
           Own(n) == ProfileProposal(d, f, R, Members(R, n))
           p(n) == Decided(d, n, IF n \in LotsOf(R) THEN Own(n)
                                 ELSE [L.proposals[n] EXCEPT !.aside = @ \intersect U])
           q(n) == Decided(e, n, IF n \in LotsOf(R) THEN Own(n)
                                 ELSE [M.proposals[n] EXCEPT !.aside = @ \intersect U])
<1>1. /\ L.proposals = LegacyProposals(d, Occurrences(d))
      /\ M.proposals = LegacyProposals(e, Occurrences(e))
      /\ DOMAIN L.business = DOMAIN M.business
    BY LegacyFields, SameClassification
<1>2. /\ DOMAIN M.proposals = DOMAIN L.proposals
      /\ \A n \in DOMAIN L.proposals : M.proposals[n].contours = L.proposals[n].contours
      /\ \A n \in DOMAIN L.proposals :
           PreviousDecision(e, n) = PreviousDecision(d, n) => M.proposals[n] = L.proposals[n]
    BY <1>1, LegacyAgain DEF Drawing, Handled
<1> HIDE DEF L, M
<1>3. Undecided(e, R) = Undecided(d, R)
    BY SameReadings DEF Undecided
<1>4. LegacyUsable(e, R, M) = U
    BY <1>1, <1>3 DEF LegacyUsable
<1> HIDE DEF U
<1>5. Completing(R, M, U) = N
    BY <1>2 DEF Completing
<1>6. \A n \in N : n \in DOMAIN L.proposals
    BY DEF Completing
<1> HIDE DEF N
<1>7. P = [n \in LotsOf(R) \union N |-> p(n)]
    BY DEF HybridProposals, L, U, N
<1>8. Q = [n \in LotsOf(R) \union N |-> q(n)]
    BY <1>4, <1>5, ProfileProposalAgain DEF HybridProposals, M
<1>9. ASSUME NEW n \in LotsOf(R) \union N
      PROVE  p(n) = q(n)
    <2>1. PreviousDecision(e, n) = PreviousDecision(d, n)
        BY <1>7 DEF SameDecisions
    <2>2. n \notin LotsOf(R) => M.proposals[n] = L.proposals[n]
        BY <1>2, <1>6, <2>1
    <2>3. \A x : Decided(e, n, x) = Decided(d, n, x)
        BY <2>1 DEF Decided
    <2> QED
        BY <2>2, <2>3
<1> HIDE DEF p, q
<1> QED
    BY <1>7, <1>8, <1>9

LEMMA ProfileZoneAgain ==
    ASSUME NEW d, NEW e, SameDrawing(d, e), NEW f, NEW R, NEW P, NEW c
    PROVE  ProfileZone(e, f, R, P, c) = ProfileZone(d, f, R, P, c)
<1>1. \A anchors, radius : Suggested(e, c, anchors, radius, P) = Suggested(d, c, anchors, radius, P)
    BY SuggestedAgain
<1>2. \A inside : AnnexNumbers(e, f, P, c, inside) = AnnexNumbers(d, f, P, c, inside)
    BY <1>1 DEF AnnexNumbers
<1>3. e.plan = d.plan
    BY DEF SameDrawing
<1>4. \A z, S : Annex(e, c, z, S) = Annex(d, c, z, S)
    BY AnnexAgain
<1> QED
    BY <1>2, <1>3, <1>4 DEF ProfileZone

LEMMA ProfileReconciledAgain ==
    ASSUME NEW d, Drawing(d.plan), NEW e, SameDrawing(d, e),
           SameDecisions(d, e, DOMAIN ReconcileProfile(d, d.usage).proposals)
    PROVE  ReconcileProfile(e, e.usage) = ReconcileProfile(d, d.usage)
<1> DEFINE f == d.usage
           R == ReadOf(d)
           L == ReconcileLegacy(d)
           M == ReconcileLegacy(e)
           P == HybridProposals(d, f, R, L, LegacyUsable(d, R, L))
           Q == HybridProposals(e, f, R, M, LegacyUsable(e, R, M))
           Z == ByRole(R, ZoneRoles)
           V == Undecided(d, R)
<1>1. e.usage = f /\ ReadOf(e) = R /\ Undecided(e, R) = V /\ Skipped(e) = Skipped(d)
      /\ ProfileExcluded(e, R) = ProfileExcluded(d, R)
    BY SameReadings, SameClassification DEF SameDrawing, Undecided, Skipped
<1>2. DOMAIN M.business = DOMAIN L.business /\ M.excluded = L.excluded
    <2>1. {c \in Contours(e) : Excluded(e, c)} = {c \in Contours(d) : Excluded(d, c)}
        BY SameClassification
    <2>2. DOMAIN M.business = DOMAIN L.business
        BY LegacyFields, SameClassification
    <2>3. M.excluded = L.excluded
        BY <2>1, LegacyFields
    <2> QED
        BY <2>2, <2>3
<1>3. Q = P
    BY HybridAgain, ProfileFields
<1>4. ASSUME NEW c \in V \intersect DOMAIN L.business
      PROVE  WithProposal(M.business[c], P, c) = WithProposal(L.business[c], P, c)
    BY <1>4, LegacyZonesAlike, ProposedAgain
<1>5. \A c : ProfileZone(e, f, R, P, c) = ProfileZone(d, f, R, P, c)
    BY ProfileZoneAgain
<1>6. /\ ReconcileProfile(d, d.usage) = Combined(d, f, R, L, P, Z, V)
      /\ ReconcileProfile(e, e.usage) = Combined(e, f, R, M, Q, Z, V)
    BY <1>1 DEF ReconcileProfile, ProfileOf, ReadOf
<1> HIDE DEF R, L, M, P, Q, Z, V
<1> DEFINE B == [c \in Z \union (V \intersect DOMAIN L.business) |->
                   IF c \in Z THEN ProfileZone(d, f, R, P, c) ELSE WithProposal(L.business[c], P, c)]
           C == [c \in Z \union (V \intersect DOMAIN M.business) |->
                   IF c \in Z THEN ProfileZone(e, f, R, Q, c) ELSE WithProposal(M.business[c], Q, c)]
<1>7. B = C
    BY <1>2, <1>3, <1>4, <1>5
<1> HIDE DEF B, C
<1>8. Combined(d, f, R, L, P, Z, V)
        = [proposals |-> P, business |-> B,
           excluded |-> Skipped(d) \union ProfileExcluded(d, R) \union (V \intersect L.excluded),
           unresolved |-> V \ (DOMAIN L.business \union L.excluded),
           blocking |-> Blocking(P)]
    BY DEF Combined, B
<1>9. Combined(e, f, R, M, Q, Z, V)
        = [proposals |-> Q, business |-> C,
           excluded |-> Skipped(e) \union ProfileExcluded(e, R) \union (V \intersect M.excluded),
           unresolved |-> V \ (DOMAIN M.business \union M.excluded),
           blocking |-> Blocking(Q)]
    BY DEF Combined, C
<1> QED
    BY <1>1, <1>2, <1>3, <1>6, <1>7, <1>8, <1>9

\* Reconciling is a function of the drawing and of the decisions on the lots
\* that it shows.
LEMMA ReconcilesAgain ==
    ASSUME NEW d, IsDossier(d), Drawing(d.plan), NEW e, IsDossier(e), SameDrawing(d, e),
           SameDecisions(d, e, DOMAIN Reconcile(d).recon.proposals)
    PROVE  Reconcile(e).recon = Reconcile(d).recon
<1>1. CASE d.usage = None
    <2>1. e.usage = None
        BY <1>1 DEF SameDrawing
    <2> QED
        BY <1>1, <2>1, ReconcileFields, LegacyReconciledAgain
<1>2. CASE d.usage # None
    <2>1. e.usage # None
        BY <1>2 DEF SameDrawing
    <2> QED
        BY <1>2, <2>1, ReconcileFields, ProfileReconciledAgain
<1> QED
    BY <1>1, <1>2

-----------------------------------------------------------------------------
(* What a verification of the automatic engine rests on.                    *)

\* Of the representations of a lot, some count.
LEMMA SomeCount ==
    ASSUME NEW d, NEW G, Ranked(G), G # {}
    PROVE  Counted(d, G) # {}
<1> DEFINE K == Kept(d, G)
<1>1. IsKernel(d, G, K)
    BY KeptIsKernel
<1>2. PICK o \in G : \A k \in G : ~Preferred(d, k, o)
    <2>1. G \in SUBSET G
        OBVIOUS
    <2> QED
        BY <2>1, PreferredMin
<1> HIDE DEF K
<1>3. o \in K
    BY <1>1, <1>2 DEF IsKernel, Excludes
<1> QED
    BY <1>3 DEF Counted, Representations, K

\* A lot drawn once is its drawing.
LEMMA CountedOnceDrawn ==
    ASSUME NEW d, NEW o, Ranked({o})
    PROVE  Counted(d, {o}) = {o}
<1> DEFINE K == Kept(d, {o})
<1>1. IsKernel(d, {o}, K)
    BY KeptIsKernel
<1>2. ~Duplicate(d, o, o)
    BY DEF Duplicate
<1> HIDE DEF K
<1>3. K = {o}
    BY <1>1, <1>2 DEF IsKernel, Excludes
<1> QED
    BY <1>3 DEF Counted, Representations, K

LEMMA WeakestOfOne ==
    ASSUME NEW s
    PROVE  Weakest({s}) = s
BY DEF Weakest

\* The representations of a lot that is verified are all verified, and none is
\* set aside.
LEMMA VerifiedCount ==
    ASSUME NEW counted, NEW aside, counted # {}, \A o \in counted : o.status \in DOMAIN Priority,
           AutomaticStatus(counted, aside) = "auto_verifie"
    PROVE  aside = {} /\ \A o \in counted : o.status = "auto_verifie"
<1> DEFINE S == {o.status : o \in counted}
<1>1. S \in SUBSET DOMAIN Priority /\ S # {}
    OBVIOUS
<1> HIDE DEF S
<1>2. Weakest(S) = "auto_verifie"
    BY DEF AutomaticStatus, S
<1>3. \A q \in S : Priority[q] <= Priority["auto_verifie"]
    BY <1>1, <1>2, WeakestStatus
<1>4. \A q \in S : q = "auto_verifie"
    BY <1>1, <1>3 DEF Priority
<1>5. \A o \in counted : o.status = "auto_verifie"
    BY <1>4 DEF S
<1> QED
    BY <1>5 DEF AutomaticStatus

\* A representation that is verified has contours and an annotation.
LEMMA VerifiedOccurrence ==
    ASSUME NEW d, NEW o \in Occurrences(d)
    PROVE  /\ o.status = "auto_verifie" => o.contours # {} /\ o.annotated # None
           /\ o.status = "a_confirmer" =>
                /\ o.contours # {}
                /\ d.sheet[o.sheet] = "retenue" /\ Cardinality(o.contours) >= MinimumContours =>
                     ~AutomaticallyTitled(d, o.anchor)
<1>1. /\ o = OccurrenceOf(d, o.anchor, Assigned(d, o.anchor), Annotation(d, o.anchor))
      /\ o.contours = Assigned(d, o.anchor) /\ o.sheet = d.plan.texts[o.anchor].sheet
    BY OccurrenceFields
<1>2. /\ o.annotated = Annotation(d, o.anchor)
      /\ o.status = OccurrenceStatus(d, o.anchor, o.contours, o.annotated)
    BY <1>1 DEF OccurrenceOf
<1> QED
    BY <1>1, <1>2 DEF OccurrenceStatus

\* The contours of an occurrence are on its planche.
LEMMA OccurrenceSheet ==
    ASSUME NEW d, Drawing(d.plan), None \notin Nat, NEW o \in Occurrences(d), NEW c \in o.contours
    PROVE  d.plan.contours[c].sheet = o.sheet
<1> DEFINE s == d.plan.contours[c].sheet
           x == Center(d.plan.contours[c])
           T == OnSheet(d.plan, Anchors(d), s)
<1>1. c \in Assigned(d, o.anchor) /\ o.anchor \in Anchors(d) /\ o.sheet = d.plan.texts[o.anchor].sheet
    BY OccurrenceFields
<1>2. c \in Contours(d) /\ o.anchor = NearestAnchor(d, s, x, LotRadius)
    BY <1>1 DEF Assigned, Principal, OnLayers
<1>3. x \in Int
    BY <1>2, CenterType DEF Contours
<1>4. T \in SUBSET DOMAIN d.plan.texts
    BY DEF OnSheet, Anchors, Texts
<1> HIDE DEF x, T, s
<1>5. Nearest(d.plan, T, x, LotRadius) \in T \union {None}
    BY <1>3, <1>4, NearestIsOne
<1>6. o.anchor = Nearest(d.plan, T, x, LotRadius)
    BY <1>2 DEF NearestAnchor, T
<1>7. o.anchor # None
    BY <1>1 DEF Anchors, Texts, Drawing
<1>8. o.anchor \in T
    BY <1>5, <1>6, <1>7
<1> QED
    BY <1>1, <1>8 DEF T, OnSheet, s

\* The proposal of a number of the plan, whose decision is taken.
LEMMA LegacyProposalOf ==
    ASSUME NEW d, NEW o \in Occurrences(d), NEW G, G = OfNumber(Occurrences(d), o.number)
    PROVE  /\ o.number \in DOMAIN ReconcileLegacy(d).proposals
           /\ ReconcileLegacy(d).proposals[o.number]
                = Decided(d, o.number, LegacyProposal(G, Counted(d, G)))
<1> DEFINE N == {k.number : k \in Occurrences(d)}
<1>1. o.number \in N
    OBVIOUS
<1>2. LegacyProposals(d, Occurrences(d))
        = [n \in N |-> Decided(d, n, LegacyProposal(OfNumber(Occurrences(d), n),
                                                    Counted(d, OfNumber(Occurrences(d), n))))]
    BY DEF LegacyProposals
<1> HIDE DEF N
<1> QED
    BY <1>1, <1>2, LegacyFields

-----------------------------------------------------------------------------
(* The surfaces that are annotated.                                         *)

LEMMA SumPositive ==
    ASSUME NEW D, NEW w \in [D -> Nat], NEW S \in SUBSET D, IsFiniteSet(S), NEW x \in S, w[x] > 0
    PROVE  SumOf(w, S) > 0
<1>1. SumOf(w, S) = w[x] + SumOf(w, S \ {x})
    BY SumRemove
<1>2. S \ {x} \in SUBSET D /\ IsFiniteSet(S \ {x})
    BY FS_RemoveElement
<1>3. SumOf(w, S \ {x}) \in Nat
    BY <1>2, SumType
<1>4. w[x] \in Nat
    OBVIOUS
<1> QED
    BY <1>1, <1>3, <1>4

LEMMA TextsAddUp ==
    ASSUME NEW p, NEW T, IsFiniteSet(T)
    PROVE  MapThenSumSet(LAMBDA t : p.texts[t].value, T) = SumOf([t \in T |-> p.texts[t].value], T)
<1> DEFINE v == [t \in T |-> p.texts[t].value]
           Sums(g) == g = [s \in SUBSET T |-> IF s = {} THEN 0
                             ELSE p.texts[CHOOSE x \in s : TRUE].value + g[s \ {CHOOSE x \in s : TRUE}]]
           iter == CHOOSE g : Sums(g)
<1>1. MapThenSumSet(LAMBDA t : p.texts[t].value, T) = iter[T]
    BY DEF MapThenSumSet, MapThenFoldSet
<1>2. \A s \in SUBSET T : s # {} => v[Some(s)] = p.texts[CHOOSE x \in s : TRUE].value
    BY SomeMember DEF Some
<1> HIDE DEF v
<1>3. \A g : Sums(g) <=> Adds(T, v, g)
    BY <1>2 DEF Adds, Some
<1>4. \E g : Adds(T, v, g)
    BY AdderExists
<1> HIDE DEF Sums
<1>5. Sums(iter)
    BY <1>3, <1>4
<1> HIDE DEF iter
<1>6. Adds(T, v, iter)
    BY <1>3, <1>5
<1>7. T \in SUBSET T
    OBVIOUS
<1>8. iter[T] = SumOf(v, T)
    BY <1>6, <1>7, SumOfAdder
<1> QED
    BY <1>1, <1>8 DEF v

LEMMA AnnotationsAddUp ==
    ASSUME NEW O, IsFiniteSet(O)
    PROVE  MapThenSumSet(LAMBDA o : o.annotated, O) = SumOf([o \in O |-> o.annotated], O)
<1> DEFINE v == [o \in O |-> o.annotated]
           Sums(g) == g = [s \in SUBSET O |-> IF s = {} THEN 0
                             ELSE (CHOOSE x \in s : TRUE).annotated + g[s \ {CHOOSE x \in s : TRUE}]]
           iter == CHOOSE g : Sums(g)
<1>1. MapThenSumSet(LAMBDA o : o.annotated, O) = iter[O]
    BY DEF MapThenSumSet, MapThenFoldSet
<1>2. \A s \in SUBSET O : s # {} => v[Some(s)] = (CHOOSE x \in s : TRUE).annotated
    BY SomeMember DEF Some
<1> HIDE DEF v
<1>3. \A g : Sums(g) <=> Adds(O, v, g)
    BY <1>2 DEF Adds, Some
<1>4. \E g : Adds(O, v, g)
    BY AdderExists
<1> HIDE DEF Sums
<1>5. Sums(iter)
    BY <1>3, <1>4
<1> HIDE DEF iter
<1>6. Adds(O, v, iter)
    BY <1>3, <1>5
<1>7. O \in SUBSET O
    OBVIOUS
<1>8. iter[O] = SumOf(v, O)
    BY <1>6, <1>7, SumOfAdder
<1> QED
    BY <1>1, <1>8 DEF v

\* The surfaces annotated in a plan are positive.
Positive(p) == \A t \in Texts(p, "surface") : p.texts[t].value > 0

\* Annotations add up to a surface, to a positive one when each is.
LEMMA AnnotatedType ==
    ASSUME NEW p, Drawing(p), None \notin Nat, NEW T \in SUBSET Texts(p, "surface")
    PROVE  /\ AnnotatedBy(p, T) \in Nat \union {None}
           /\ AnnotatedBy(p, T) = None <=> T = {}
           /\ T # {} /\ Positive(p) => AnnotatedBy(p, T) \in Nat /\ AnnotatedBy(p, T) > 0
<1> DEFINE v == [t \in T |-> p.texts[t].value]
<1>1. IsFiniteSet(T) /\ v \in [T -> Nat]
    BY FS_Subset DEF Drawing, Texts
<1>2. T # {} => AnnotatedBy(p, T) = SumOf(v, T)
    BY <1>1, TextsAddUp DEF AnnotatedBy
<1>3. \A t \in T : Positive(p) => v[t] > 0
    BY DEF Positive
<1> HIDE DEF v
<1>4. SumOf(v, T) \in Nat
    BY <1>1, SumType
<1>5. T # {} /\ Positive(p) => SumOf(v, T) > 0
    BY <1>1, <1>3, SumPositive
<1> QED
    BY <1>2, <1>4, <1>5 DEF AnnotatedBy

LEMMA AnnotatedSumType ==
    ASSUME NEW O, IsFiniteSet(O), \A o \in O : o.annotated \in Nat
    PROVE  /\ O # {} => AnnotatedSum(O) \in Nat
           /\ O # {} /\ (\A o \in O : o.annotated > 0) => AnnotatedSum(O) > 0
<1> DEFINE v == [o \in O |-> o.annotated]
<1>1. v \in [O -> Nat]
    OBVIOUS
<1>2. O # {} => AnnotatedSum(O) = SumOf(v, O)
    BY AnnotationsAddUp DEF AnnotatedSum
<1>3. \A o \in O : v[o] = o.annotated
    OBVIOUS
<1> HIDE DEF v
<1>4. SumOf(v, O) \in Nat
    BY <1>1, SumType
<1>5. O # {} /\ (\A o \in O : o.annotated > 0) => SumOf(v, O) > 0
    BY <1>1, <1>3, SumPositive
<1> QED
    BY <1>2, <1>4, <1>5

\* The surface of a lot of the automatic engine that is verified is positive
\* when those that the plan annotates are.
LEMMA LegacyVerified ==
    ASSUME NEW d, Drawing(d.plan), None \notin Nat, Positive(d.plan),
           NEW n \in DOMAIN ReconcileLegacy(d).proposals,
           ReconcileLegacy(d).proposals[n].automatic = "auto_verifie"
    PROVE  /\ ReconcileLegacy(d).proposals[n].contours # {}
           /\ ReconcileLegacy(d).proposals[n].proposed \in Nat
           /\ ReconcileLegacy(d).proposals[n].proposed > 0
<1> DEFINE O == Occurrences(d)
           G == OfNumber(O, n)
           K == Counted(d, G)
           q == LegacyProposal(G, K)
           p == ReconcileLegacy(d).proposals[n]
<1>1. PICK k \in O : k.number = n
    BY LegacyReconciled DEF LegacyHolds, Drawing, Handled
<1>2. p = Decided(d, n, q)
    BY <1>1, LegacyProposalOf
<1>3. Proposal(q) /\ q.contours = ContoursOf(K) /\ q.automatic = AutomaticStatus(K, G \ K)
    BY LegacyProposalFields
<1>4. q.annotated = AnnotatedSum({o \in K : o.annotated # None})
      /\ q.proposed = IF q.annotated = None THEN q.geometric ELSE q.annotated
    BY DEF LegacyProposal, ProposalOf, Surfaces
<1> HIDE DEF q
<1>5. p.contours = q.contours /\ p.automatic = q.automatic /\ p.proposed = q.proposed
    BY <1>2, <1>3, DecidedFields
<1> HIDE DEF p
<1>6. Ranked(G) /\ G # {} /\ G \subseteq O
    BY <1>1, OccurrencesRanked DEF Drawing, Handled, OfNumber
<1>7. K # {} /\ K \subseteq G
    BY <1>6, SomeCount, CountedOfKept
<1> HIDE DEF O, G, K
<1>8. ASSUME NEW o \in K
      PROVE  o \in Occurrences(d) /\ o.status \in DOMAIN Priority
    BY <1>6, <1>7, OccurrenceFields DEF O
<1>9. AutomaticStatus(K, G \ K) = "auto_verifie"
    BY <1>3, <1>5 DEF p
<1>10. \A o \in K : o.status = "auto_verifie"
    BY <1>7, <1>8, <1>9, VerifiedCount
<1>11. ASSUME NEW o \in K
       PROVE  o.contours # {} /\ o.annotated \in Nat /\ o.annotated > 0 /\ o.annotated # None
    <2>1. o.contours # {} /\ o.annotated # None
        BY <1>8, <1>10, VerifiedOccurrence
    <2>2. o.anchor \in DOMAIN d.plan.texts /\ o.annotated \in Nat
        BY <1>8, <2>1, OccurrenceTypes
    <2>3. o.annotated = Annotation(d, o.anchor)
        BY <1>8, OccurrenceFields DEF OccurrenceOf
    <2>4. PICK s \in Texts(d.plan, "surface") : o.annotated = d.plan.texts[s].value
        BY <2>1, <2>2, <2>3, AnnotationIsText
    <2> QED
        BY <2>1, <2>2, <2>4 DEF Positive
<1>12. {o \in K : o.annotated # None} = K
    BY <1>11
<1>13. IsFiniteSet(K)
    BY <1>6, <1>7, OccurrencesFinite, FS_Subset DEF O
<1>14. q.annotated \in Nat /\ q.annotated > 0
    BY <1>4, <1>7, <1>11, <1>12, <1>13, AnnotatedSumType
<1>15. ContoursOf(K) # {}
    BY <1>7, <1>11 DEF ContoursOf
<1> QED
    BY <1>3, <1>4, <1>5, <1>14, <1>15 DEF p

-----------------------------------------------------------------------------
(* What the lots of a profile, and those that complete them, are.           *)

LEMMA IdentifiedLots ==
    ASSUME NEW reading
    PROVE  /\ \A c \in Identified(reading) :
                reading.lot[c].value \in LotsOf(reading) /\ c \in Members(reading, reading.lot[c].value)
           /\ \A n \in LotsOf(reading) :
                n # None /\ Members(reading, n) # {} /\ Members(reading, n) \subseteq Identified(reading)
           /\ Identified(reading) = UNION {Members(reading, n) : n \in LotsOf(reading)}
<1>1. \A c \in Identified(reading) :
        reading.lot[c].value \in LotsOf(reading) /\ c \in Members(reading, reading.lot[c].value)
    BY DEF Identified, LotsOf, Members
<1>2. \A n \in LotsOf(reading) :
        n # None /\ Members(reading, n) # {} /\ Members(reading, n) \subseteq Identified(reading)
    BY DEF Identified, LotsOf, Members
<1> QED
    BY <1>1, <1>2

\* The roles of a profile are those that it may give.
LEMMA RoleKinds ==
    ASSUME NEW f, NEW layer
    PROVE  Role(f, layer) \in SetAsideRoles \union ZoneRoles \union {None}
<1> DEFINE M == {i \in DOMAIN Precedence : Precedence[i] \in f.roles[layer]}
<1>1. M \subseteq Nat /\ \A i \in M : Precedence[i] \in SetAsideRoles \union ZoneRoles
    BY DEF Precedence, SetAsideRoles, ZoneRoles
<1>2. Role(f, layer) = IF M = {} THEN None ELSE Precedence[Min(M)]
    BY DEF Role
<1> HIDE DEF M
<1>3. CASE M # {}
    <2>1. PICK i \in M : \A j \in M : i <= j
        BY <1>1, <1>3, NatMin
    <2>2. Min(M) \in M
        BY <2>1 DEF Min
    <2> QED
        BY <1>1, <1>2, <1>3, <2>2
<1> QED
    BY <1>2, <1>3

\* The lots of a profile, of the contours C, as ProfileProposal makes them.
LEMMA ProfileSurfaces ==
    ASSUME NEW d, NEW f, NEW reading, NEW C, NEW a, a = AnnotatedBy(d.plan, AnnotationTexts(reading, C)),
           NEW q, q = ProfileProposal(d, f, reading, C)
    PROVE  /\ q.annotated = a
           /\ q.automatic = "auto_verifie" =>
                a # None /\ q.proposed = a
           /\ (a # None /\ Accepts(f.tolerance, TotalArea(d, C), a) /\ ~Doubtful(d.plan, reading, C)) =>
                q.automatic = "auto_verifie"
<1> DEFINE g == TotalArea(d, C)
           surfaces == Surfaces(g, a)
           doubt == Doubtful(d.plan, reading, C)
<1>1. q = ProfileProposalOf(reading, C, ByPriority(f, surfaces), ProfileStatus(f, surfaces, doubt))
    BY DEF ProfileProposal, WithSurfaces
<1>2. surfaces.geometric = g /\ surfaces.annotated = a /\ surfaces.proposed = IF a = None THEN g ELSE a
    BY DEF Surfaces
<1>3. /\ q.annotated = ByPriority(f, surfaces).annotated
      /\ q.proposed = ByPriority(f, surfaces).proposed
      /\ q.automatic = ProfileStatus(f, surfaces, doubt)
    BY <1>1 DEF ProfileProposalOf
<1>4. ByPriority(f, surfaces).annotated = a
    BY DEF ByPriority, Surfaces
<1> HIDE DEF g, doubt, surfaces
<1>5. ProfileStatus(f, surfaces, doubt) = "auto_verifie" <=> a # None /\ Accepts(f.tolerance, g, a) /\ ~doubt
    BY <1>2 DEF ProfileStatus
<1>6. a # None /\ Accepts(f.tolerance, g, a) => ByPriority(f, surfaces).proposed = a
    BY <1>2 DEF ByPriority
<1> QED
    BY <1>3, <1>4, <1>5, <1>6 DEF g, doubt

LEMMA ProfileLots ==
    ASSUME NEW d, NEW n \in LotsOf(ReadOf(d)), NEW p, p = ReconcileProfile(d, d.usage).proposals[n],
           NEW q, q = ProfileProposal(d, d.usage, ReadOf(d), Members(ReadOf(d), n))
    PROVE  /\ p.contours = Members(ReadOf(d), n) /\ p.automatic = q.automatic
           /\ p.annotated = q.annotated /\ p.proposed = q.proposed
<1> DEFINE R == ReadOf(d)
           L == ReconcileLegacy(d)
           U == LegacyUsable(d, R, L)
           N == LotsOf(R) \union Completing(R, L, U)
<1>1. ReconcileProfile(d, d.usage).proposals = HybridProposals(d, d.usage, R, L, U)
    BY ProfileFields
<1>2. HybridProposals(d, d.usage, R, L, U)
        = [m \in N |-> Decided(d, m, IF m \in LotsOf(R) THEN ProfileProposal(d, d.usage, R, Members(R, m))
                                     ELSE [L.proposals[m] EXCEPT !.aside = @ \intersect U])]
    BY DEF HybridProposals
<1> HIDE DEF L, U
<1>3. n \in N /\ n \in LotsOf(R)
    OBVIOUS
<1> HIDE DEF N, R
<1>4. p = Decided(d, n, q)
    BY <1>1, <1>2, <1>3 DEF R
<1>5. Proposal(q) /\ q.contours = Members(R, n)
    BY ProfileProposalFields DEF R
<1> QED
    BY <1>4, <1>5, DecidedFields DEF R

LEMMA CompletingLots ==
    ASSUME NEW d, Handled(d.plan), NEW n \in DOMAIN ReconcileProfile(d, d.usage).proposals,
           n \notin LotsOf(ReadOf(d)), NEW p, p = ReconcileProfile(d, d.usage).proposals[n],
           NEW q, q = ReconcileLegacy(d).proposals[n]
    PROVE  /\ n \in DOMAIN ReconcileLegacy(d).proposals
           /\ p.contours = q.contours /\ p.automatic = q.automatic /\ p.proposed = q.proposed
<1> DEFINE R == ReadOf(d)
           L == ReconcileLegacy(d)
           U == LegacyUsable(d, R, L)
           N == LotsOf(R) \union Completing(R, L, U)
<1>1. ReconcileProfile(d, d.usage).proposals = HybridProposals(d, d.usage, R, L, U)
    BY ProfileFields
<1>2. HybridProposals(d, d.usage, R, L, U)
        = [m \in N |-> Decided(d, m, IF m \in LotsOf(R) THEN ProfileProposal(d, d.usage, R, Members(R, m))
                                     ELSE [L.proposals[m] EXCEPT !.aside = @ \intersect U])]
    BY DEF HybridProposals
<1>3. Completing(R, L, U) \subseteq DOMAIN L.proposals
    BY DEF Completing
<1> HIDE DEF U
<1>4. n \in N /\ n \notin LotsOf(R)
    BY <1>1, <1>2
<1>5. n \in DOMAIN L.proposals
    BY <1>3, <1>4
<1> DEFINE m == [q EXCEPT !.aside = @ \intersect U]
<1>6. p = Decided(d, n, m)
    BY <1>1, <1>2, <1>4
<1>7. Proposal(q)
    BY <1>5, LegacyReconciled DEF LegacyHolds
<1>8. Proposal(m) /\ m.contours = q.contours /\ m.automatic = q.automatic /\ m.proposed = q.proposed
    BY <1>7 DEF Proposal
<1> HIDE DEF m
<1> QED
    BY <1>5, <1>6, <1>8, DecidedFields

\* The annotations of a lot are texts of its plan.
LEMMA AnnotationTextsRead ==
    ASSUME NEW d, Drawing(d.plan), DOMAIN d.usage.surfaceSources \subseteq Nat,
           NEW C \in SUBSET DOMAIN ReadOf(d).lot
    PROVE  AnnotationTexts(ReadOf(d), C) \subseteq Texts(d.plan, "surface")
<1> DEFINE f == d.usage
           p == d.plan
           R == ReadOf(d)
<1> SUFFICES ASSUME NEW c \in C, R.surface[c].text # None
             PROVE  R.surface[c].text \in Texts(p, "surface")
    BY DEF AnnotationTexts
<1> DEFINE T == Around(f, p, "surface", c)
           roles == R.role
<1>1. c \in Principals(roles) /\ R.surface = [q \in Principals(roles) |->
                                    Reading(f.surfaceRadius, p, q, f.surfaceSources, Around(f, p, "surface", q))]
    BY DEF ReadOf, ReadPlan, ValuesOf
<1>2. c \in DOMAIN p.contours
    BY ReadOfFields DEF IsReading, ByRole, Contours
<1>3. T \subseteq Texts(p, "surface")
    BY DEF Around, Usable
<1>4. T \in SUBSET DOMAIN p.texts
    BY <1>3 DEF Texts
<1>5. R.surface[c] = Reading(f.surfaceRadius, p, c, f.surfaceSources, T)
    BY <1>1
<1> HIDE DEF T, R, f, p
<1>6. Reading(f.surfaceRadius, p, c, f.surfaceSources, T).text \in T \union {None}
    BY <1>2, <1>4, ReadText DEF f, p
<1> QED
    BY <1>3, <1>5, <1>6

\* Without a role of the profile, a zone is the one of the automatic engine.
LEMMA ProfileOrigin ==
    ASSUME NEW d, NEW f, NEW R, NEW P, NEW c
    PROVE  ProfileZone(d, f, R, P, c).origin = "profil"
<1>1. \A category : LET z == Zone(category, "profil")
                    IN  IsZone(z) /\ z.origin = "profil" /\ z.category = category
    BY DEF Zone, IsZone
<1>2. \A z, s : IsZone(z) => [z EXCEPT !.status = s].origin = z.origin
    BY DEF IsZone
<1>3. \A z, s, l : IsZone(z) => [z EXCEPT !.status = s, !.lot = l].origin = z.origin
    <2> TAKE z, s, l
    <2> HAVE IsZone(z)
    <2> DEFINE y == [z EXCEPT !.status = s]
    <2>1. y = [category |-> z.category, status |-> s, lot |-> z.lot, origin |-> z.origin]
        BY DEF IsZone
    <2>2. [z EXCEPT !.status = s, !.lot = l] = [y EXCEPT !.lot = l]
        OBVIOUS
    <2> HIDE DEF y
    <2> QED
        BY <2>1, <2>2
<1>4. \A z, S : IsZone(z) => Annex(d, c, z, S).origin = z.origin
    BY <1>3 DEF Annex
<1>5. \A z : IsZone(z) => WithProposal(z, P, c).origin = z.origin
    BY <1>2 DEF WithProposal, Proposed
<1> QED
    BY <1>1, <1>4, <1>5 DEF ProfileZone

-----------------------------------------------------------------------------
(* What a profile shows of a plan is what it reads in a dossier.            *)

LEMMA AppliedAsShown ==
    ASSUME NEW d, Human(d) = {}
    PROVE  ReadOf(d) = ShownReading(d.usage, d.plan)
BY DEF ReadOf, Skipped, ShownReading

\* What a conclusion without a warning says of the lots and of the annexes.
LEMMA CompleteFacts ==
    ASSUME NEW f, NEW p, NEW R, Conclusion(f, p, R) = "complet"
    PROVE  /\ Numbered(R) = DOMAIN R.lot
           /\ Annotated(R) = LotsOf(R)
           /\ Doubts(R) = {}
           /\ \A n \in LotsOf(R) : Coherent(f, p, Members(R, n), AnnotationTexts(R, Members(R, n)))
           /\ \A c \in ByRole(R, {"annexe"}) : f.annexInside /\ LotInside(f, p, c) # None
<1>1. Doubts(R) = {} /\ \A w \in Warnings : ~Warned(f, p, R, w)
    BY DEF Conclusion
<1>2. /\ ~Warned(f, p, R, "numeros_de_lot") /\ ~Warned(f, p, R, "surfaces_annotees")
      /\ ~Warned(f, p, R, "ecarts_de_surface") /\ ~Warned(f, p, R, "annexes")
    BY <1>1 DEF Warnings
<1>3. Numbered(R) = DOMAIN R.lot
    BY <1>2 DEF Warned
<1>4. Annotated(R) = LotsOf(R)
    BY <1>2 DEF Warned
<1>5. \A n \in Annotated(R) : Coherent(f, p, Members(R, n), AnnotationTexts(R, Members(R, n)))
    BY <1>2 DEF Warned
<1>6. \A c \in ByRole(R, {"annexe"}) : f.annexInside /\ LotInside(f, p, c) # None
    BY <1>2 DEF Warned
<1> QED
    BY <1>1, <1>3, <1>4, <1>5, <1>6

\* The check measures the contours with the unit of the profile: the surfaces
\* that it finds coherent are accepted by the engine.
LEMMA CoherentAccepted ==
    ASSUME NEW d, NEW f, d.unit = f.unit, f.unit # None, NEW C \in SUBSET Contours(d), IsFiniteSet(C),
           NEW T, T # {}, Coherent(f, d.plan, C, T)
    PROVE  Accepts(f.tolerance, TotalArea(d, C), AnnotatedBy(d.plan, T))
<1> DEFINE Sums(g) == g = [s \in SUBSET C |-> IF s = {} THEN 0
                             ELSE Size(d.plan.contours[CHOOSE x \in s : TRUE]) * Metres[f.unit]
                                    + g[s \ {CHOOSE x \in s : TRUE}]]
           iter == CHOOSE g : Sums(g)
<1>1. MapThenSumSet(LAMBDA c : Size(d.plan.contours[c]) * Metres[f.unit], C) = iter[C]
    BY DEF MapThenSumSet, MapThenFoldSet
<1>2. \A s \in SUBSET C : s # {} =>
        Weights(d)[Some(s)] = Size(d.plan.contours[CHOOSE x \in s : TRUE]) * Metres[f.unit]
    <2>1. \A c : Area(d, c) = Size(d.plan.contours[c]) * Metres[f.unit]
        BY DEF Area
    <2> QED
        BY <2>1, SomeMember DEF Weights, Some
<1>3. \A g : Sums(g) <=> Adds(C, Weights(d), g)
    BY <1>2 DEF Adds, Some
<1>4. \E g : Adds(C, Weights(d), g)
    BY AdderExists
<1> HIDE DEF Sums
<1>5. Sums(iter)
    BY <1>3, <1>4
<1> HIDE DEF iter
<1>6. Adds(C, Weights(d), iter)
    BY <1>3, <1>5
<1>7. C \in SUBSET C
    OBVIOUS
<1>8. iter[C] = SumOf(Weights(d), C)
    BY <1>6, <1>7, SumOfAdder
<1>9. TotalArea(d, C) = iter[C]
    BY <1>8, TotalIsSum
<1>10. AnnotatedBy(d.plan, T) = MapThenSumSet(LAMBDA t : d.plan.texts[t].value, T)
    BY DEF AnnotatedBy
<1>11. Accepts(f.tolerance, MapThenSumSet(LAMBDA c : Size(d.plan.contours[c]) * Metres[f.unit], C),
               AnnotatedBy(d.plan, T))
    BY <1>10 DEF Coherent
<1> QED
    BY <1>1, <1>9, <1>11

-----------------------------------------------------------------------------
(* The proposals of a dossier are finitely many.                            *)

LEMMA ImageFinite ==
    ASSUME NEW S, IsFiniteSet(S), NEW f, DOMAIN f = S
    PROVE  IsFiniteSet({f[x] : x \in S})
<1> DEFINE T == {f[x] : x \in S}
           g == [x \in S |-> f[x]]
<1>1. g \in [S -> T] /\ \A y \in T : \E x \in S : g[x] = y
    OBVIOUS
<1>2. g \in Surjection(S, T)
    BY <1>1 DEF Surjection
<1> QED
    BY <1>2, FS_Surjection

LEMMA LegacyProposalsFinite ==
    ASSUME NEW d, Drawing(d.plan)
    PROVE  IsFiniteSet(DOMAIN ReconcileLegacy(d).proposals)
<1> DEFINE O == Occurrences(d)
           number == [o \in O |-> o.number]
<1>1. IsFiniteSet({number[o] : o \in O})
    BY OccurrencesFinite, ImageFinite
<1>2. {number[o] : o \in O} = {o.number : o \in O}
    OBVIOUS
<1>3. DOMAIN LegacyProposals(d, O) = {o.number : o \in O}
    BY DEF LegacyProposals
<1> QED
    BY <1>1, <1>2, <1>3, LegacyFields

LEMMA ProfileProposalsFinite ==
    ASSUME NEW d, Drawing(d.plan), d.usage # None
    PROVE  IsFiniteSet(DOMAIN ReconcileProfile(d, d.usage).proposals)
<1> DEFINE R == ReadOf(d)
           P == ReconcileProfile(d, d.usage).proposals
           number == [c \in DOMAIN R.lot |-> R.lot[c].value]
<1>1. IsFiniteSet(DOMAIN R.lot)
    <2>1. DOMAIN R.lot \subseteq Contours(d)
        BY ReadOfFields DEF IsReading, ByRole
    <2> QED
        BY <2>1, FS_Subset DEF Drawing, Contours
<1>2. IsFiniteSet({number[c] : c \in DOMAIN R.lot})
    BY <1>1, ImageFinite
<1>3. {number[c] : c \in DOMAIN R.lot} = {R.lot[c].value : c \in DOMAIN R.lot}
    OBVIOUS
<1>4. LotsOf(R) \subseteq {R.lot[c].value : c \in DOMAIN R.lot}
    BY DEF LotsOf
<1>5. DOMAIN P \subseteq LotsOf(R) \union DOMAIN ReconcileLegacy(d).proposals
    BY ProfileReconciled DEF HybridHolds, Drawing, Handled
<1> HIDE DEF P, R, number
<1>6. IsFiniteSet(LotsOf(R))
    BY <1>2, <1>3, <1>4, FS_Subset
<1>7. IsFiniteSet(LotsOf(R) \union DOMAIN ReconcileLegacy(d).proposals)
    BY <1>6, LegacyProposalsFinite, FS_Union
<1> QED
    BY <1>5, <1>7, FS_Subset DEF P
=============================================================================
