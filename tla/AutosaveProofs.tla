--------------------------- MODULE AutosaveProofs ---------------------------
(***************************************************************************)
(* What Autosave guarantees for every set of forms and values and every    *)
(* number of changes.                                                      *)
(*                                                                         *)
(* The counter is right because a save has one number, carried by its post *)
(* and then by its settling, never by both.  What is saved is of the  *)
(* last burst because the posts in flight carry values of that burst, and  *)
(* a good answer comes after one of them was stored: whatever is stored    *)
(* later, in whatever order, is of the same burst.                         *)
(***************************************************************************)
EXTENDS Autosave, FiniteSetTheorems, TLAPS

Types ==
    /\ shown \in [Forms -> Values]
    /\ stored \in [Forms -> Values \ Invalid]
    /\ local \in [Forms -> Statuses]
    /\ global \in Statuses
    /\ requests \subseteq [n : 0..MaxEdits, form : Forms, value : Values \ Invalid]
    /\ answers \subseteq [n : 0..MaxEdits, form : Forms, ok : BOOLEAN]
    /\ edits \in 0..MaxEdits
    /\ burst \in [Forms -> SUBSET Values]
    /\ page \in {"open", "left", "warned"}

\* A save is a post or a settling under a number of its own.
Numbered ==
    /\ \A r1, r2 \in requests : r1.n = r2.n => r1 = r2
    /\ \A a1, a2 \in answers : a1.n = a2.n => a1 = a2
    /\ \A r \in requests, a \in answers : r.n # a.n
    /\ \A m \in requests \union answers : m.n < edits

Counted ==
    /\ IsFiniteSet(requests)
    /\ IsFiniteSet(answers)
    /\ pending = Cardinality(requests) + Cardinality(answers)
    /\ pending <= edits
    /\ page = "left" => requests = {} /\ answers = {}

\* The saves of f carry values of its burst, and a good answer tells that one
\* of them is stored.
Faithful(f) ==
    /\ \A r \in requests : r.form = f => r.value \in burst[f]
    /\ \A a \in answers : a.form = f /\ a.ok => stored[f] \in burst[f]
    /\ Settled(f) => stored[f] \in burst[f]
    /\ burst[f] # {} => shown[f] \in burst[f]

Inv ==
    /\ Types
    /\ Numbered
    /\ Counted
    /\ \A f \in Forms : Faithful(f)

-----------------------------------------------------------------------------
LEMMA InitInv == Init => Inv
  <1> SUFFICES ASSUME Init
               PROVE  Inv
    OBVIOUS
  <1>1. Types
    BY AutosaveAssumption DEF Init, Types, Statuses
  <1>2. Numbered
    BY DEF Init, Numbered
  <1>3. Counted
    BY FS_EmptySet DEF Init, Counted
  <1>4. \A f \in Forms : Faithful(f)
    BY DEF Init, Faithful, Settled
  <1> QED
    BY <1>1, <1>2, <1>3, <1>4 DEF Inv

\* A change keeps the promises about the form it is made on, whose saves in
\* flight stay of the burst or are none, and about the others.
LEMMA ChangeFaithful ==
    ASSUME Inv, NEW f \in Forms, NEW v \in Values, Change(f, v),
           local' \in [Forms -> Statuses],
           \A g \in Forms : g # f => local'[g] = local[g],
           local'[f] # "saved",
           requests \subseteq requests',
           \A r \in requests' : r \in requests \/ (r.form = f /\ r.value = v),
           UNCHANGED <<stored, answers>>,
           NEW g \in Forms
    PROVE  Faithful(g)'
  <1>0. Faithful(g) /\ burst \in [Forms -> SUBSET Values] /\ shown \in [Forms -> Values]
    BY DEF Inv, Types
  <1>1. CASE g # f
    <2>1. burst'[g] = burst[g] /\ shown'[g] = shown[g] /\ local'[g] = local[g]
      BY <1>0, <1>1 DEF Change
    <2>2. InFlight(g)' = InFlight(g)
      BY <1>1 DEF InFlight
    <2> QED
      BY <1>0, <1>1, <2>1, <2>2 DEF Faithful, Settled
  <1>2. CASE g = f
    <2>1. v \in burst'[g] /\ shown'[g] = v /\ ~Settled(g)'
      BY <1>0, <1>2 DEF Change, Settled
    <2>2. CASE InFlight(f) = {}
      <3>1. \A m \in requests \union answers : m.form # f
        BY <2>2 DEF InFlight
      <3> QED
        BY <1>2, <2>1, <3>1 DEF Faithful
    <2>3. CASE InFlight(f) # {}
      <3>1. burst[g] \subseteq burst'[g]
        BY <1>0, <1>2, <2>3 DEF Change
      <3> QED
        BY <1>0, <1>2, <2>1, <3>1 DEF Faithful
    <2> QED
      BY <2>2, <2>3
  <1> QED
    BY <1>1, <1>2

LEMMA PostSound ==
    ASSUME Inv, NEW f \in Forms, NEW v \in Values, Post(f, v)
    PROVE  Inv'
  <1> DEFINE r == [n |-> edits, form |-> f, value |-> v]
  <1>1. /\ requests' = requests \union {r}
        /\ UNCHANGED <<stored, answers, page>>
        /\ edits' = edits + 1
        /\ pending' = pending + 1
        /\ page = "open"
    BY DEF Post, Change
  <1>2. edits \in Nat /\ edits < MaxEdits /\ MaxEdits \in Nat
    BY AutosaveAssumption DEF Post, Change, Inv, Types
  <1>3. Types'
    <2>1. /\ shown' \in [Forms -> Values]
          /\ local' \in [Forms -> Statuses]
          /\ global' \in Statuses
          /\ burst' \in [Forms -> SUBSET Values]
      BY DEF Inv, Types, Post, Change, SetSaveStatus, Statuses
    <2>2. r \in [n : 0..MaxEdits, form : Forms, value : Values \ Invalid]
      BY <1>2 DEF Post
    <2>3. edits' \in 0..MaxEdits
      BY <1>1, <1>2
    <2> HIDE DEF r
    <2> QED
      BY <1>1, <2>1, <2>2, <2>3 DEF Inv, Types
  <1>4. Numbered'
    <2>1. r.n = edits
      OBVIOUS
    <2>2. \A m \in requests \union answers : m.n \in Nat /\ m.n < edits
      BY AutosaveAssumption DEF Inv, Types, Numbered
    <2> HIDE DEF r
    <2> QED
      BY <1>1, <1>2, <2>1, <2>2 DEF Inv, Numbered
  <1>5. Counted'
    <2>1. r \notin requests
      BY <1>2 DEF Inv, Numbered
    <2>2. /\ IsFiniteSet(requests')
          /\ Cardinality(requests') = Cardinality(requests) + 1
      BY <1>1, <2>1, FS_AddElement DEF Inv, Counted
    <2>3. Cardinality(requests) \in Nat /\ Cardinality(answers) \in Nat
      BY FS_CardinalityType DEF Inv, Counted
    <2> QED
      BY <1>1, <1>2, <2>2, <2>3 DEF Inv, Counted
  <1>6. ASSUME NEW g \in Forms
        PROVE  Faithful(g)'
    <2>1. /\ local' \in [Forms -> Statuses]
          /\ \A h \in Forms : h # f => local'[h] = local[h]
          /\ local'[f] # "saved"
      BY DEF Post, SetSaveStatus, Inv, Types, Statuses
    <2>2. \A m \in requests' : m \in requests \/ (m.form = f /\ m.value = v)
      BY <1>1
    <2> QED
      BY <1>1, <2>1, <2>2, ChangeFaithful DEF Post
  <1> QED
    BY <1>3, <1>4, <1>5, <1>6 DEF Inv

LEMMA RefuseSound ==
    ASSUME Inv, NEW f \in Forms, NEW v \in Values, Refuse(f, v)
    PROVE  Inv'
  <1>1. /\ UNCHANGED <<stored, pending, requests, answers, page>>
        /\ edits' = edits + 1
    BY DEF Refuse, Change
  <1>2. edits \in Nat /\ edits < MaxEdits /\ MaxEdits \in Nat
    BY AutosaveAssumption DEF Refuse, Change, Inv, Types
  <1>3. Types'
    BY <1>1, <1>2 DEF Inv, Types, Refuse, Change, SetSaveStatus, Statuses
  <1>4. Numbered'
    <2>1. \A m \in requests \union answers : m.n \in Nat
      BY AutosaveAssumption DEF Inv, Types
    <2> QED
      BY <1>1, <1>2, <2>1 DEF Inv, Numbered
  <1>5. Counted'
    <2>1. Cardinality(requests) \in Nat /\ Cardinality(answers) \in Nat
      BY FS_CardinalityType DEF Inv, Counted
    <2> QED
      BY <1>1, <1>2, <2>1 DEF Inv, Counted
  <1>6. ASSUME NEW g \in Forms
        PROVE  Faithful(g)'
    <2>1. /\ local' \in [Forms -> Statuses]
          /\ \A h \in Forms : h # f => local'[h] = local[h]
          /\ local'[f] # "saved"
      BY DEF Refuse, SetSaveStatus, Inv, Types, Statuses
    <2> QED
      BY <1>1, <2>1, ChangeFaithful DEF Refuse
  <1> QED
    BY <1>3, <1>4, <1>5, <1>6 DEF Inv

\* A post settles as a success only when the dossier has its value.
LEMMA SettleSound ==
    ASSUME Inv, NEW r \in requests, NEW ok \in BOOLEAN, Settle(r, ok),
           \/ stored' = [stored EXCEPT ![r.form] = r.value]
           \/ ~ok /\ UNCHANGED stored
    PROVE  Inv'
  <1> DEFINE a == [n |-> r.n, form |-> r.form, ok |-> ok]
  <1>1. /\ requests' = requests \ {r}
        /\ answers' = answers \union {a}
        /\ UNCHANGED <<shown, local, global, pending, edits, burst, page>>
    BY DEF Settle
  <1>2. r \in [n : 0..MaxEdits, form : Forms, value : Values \ Invalid]
    BY DEF Inv, Types
  <1>3. a \in [n : 0..MaxEdits, form : Forms, ok : BOOLEAN]
    BY <1>2
  <1>4. a.n = r.n /\ a.form = r.form /\ a.ok = ok
    OBVIOUS
  <1> HIDE DEF a
  <1>5. Types'
    <2>1. stored' \in [Forms -> Values \ Invalid]
      BY <1>2 DEF Inv, Types
    <2> QED
      BY <1>1, <1>3, <2>1 DEF Inv, Types
  <1>6. Numbered'
    BY <1>1, <1>4 DEF Inv, Numbered
  <1>7. Counted'
    <2>1. a \notin answers
      BY <1>4 DEF Inv, Numbered
    <2>2. /\ IsFiniteSet(requests')
          /\ Cardinality(requests') = Cardinality(requests) - 1
      BY <1>1, FS_RemoveElement DEF Inv, Counted
    <2>3. /\ IsFiniteSet(answers')
          /\ Cardinality(answers') = Cardinality(answers) + 1
      BY <1>1, <2>1, FS_AddElement DEF Inv, Counted
    <2>4. Cardinality(requests) \in Nat /\ Cardinality(answers) \in Nat
      BY FS_CardinalityType DEF Inv, Counted
    <2>5. page # "left"
      BY DEF Inv, Counted
    <2> QED
      BY <1>1, <2>2, <2>3, <2>4, <2>5 DEF Inv, Counted
  <1>8. ASSUME NEW g \in Forms
        PROVE  Faithful(g)'
    <2>1. Faithful(g)
      BY <1>1 DEF Inv
    <2>2. CASE g = r.form
      <3>1. ~Settled(g)'
        BY <1>1, <1>4, <2>2 DEF Settled, InFlight
      <3>2. r.value \in burst[g]
        BY <2>1, <2>2 DEF Faithful
      <3>3. stored'[g] \in burst[g] \/ (~ok /\ UNCHANGED stored)
        BY <2>2, <3>2 DEF Inv, Types
      <3> QED
        BY <1>1, <1>4, <2>1, <3>1, <3>3 DEF Faithful
    <2>3. CASE g # r.form
      <3>1. stored'[g] = stored[g]
        BY <1>2, <2>3 DEF Inv, Types
      <3>2. InFlight(g)' = InFlight(g)
        BY <1>1, <1>4, <2>3 DEF InFlight
      <3> QED
        BY <1>1, <1>4, <2>1, <2>3, <3>1, <3>2 DEF Faithful, Settled
    <2> QED
      BY <2>2, <2>3
  <1> QED
    BY <1>5, <1>6, <1>7, <1>8 DEF Inv

LEMMA ReceiveSound ==
    ASSUME Inv, NEW a \in answers, Receive(a)
    PROVE  Inv'
  <1>1. /\ answers' = answers \ {a}
        /\ UNCHANGED <<shown, stored, requests, edits, burst, page>>
        /\ pending' = pending - 1
        /\ page = "open"
    BY DEF Receive, CountAnswer
  <1>2. a \in [n : 0..MaxEdits, form : Forms, ok : BOOLEAN]
    BY DEF Inv, Types
  <1>3. /\ local' = [local EXCEPT ![a.form] = IF a.ok THEN "saved" ELSE "error"]
        /\ global' = IF a.ok THEN "saved" ELSE "error"
    BY DEF Receive, ShowAnswer, SetSaveStatus
  <1>4. Types'
    BY <1>1, <1>2, <1>3 DEF Inv, Types, Statuses
  <1>5. Numbered'
    BY <1>1 DEF Inv, Numbered
  <1>6. Counted'
    <2>1. /\ IsFiniteSet(answers')
          /\ Cardinality(answers') = Cardinality(answers) - 1
      BY <1>1, FS_RemoveElement DEF Inv, Counted
    <2>2. Cardinality(requests) \in Nat /\ Cardinality(answers) \in Nat
      BY FS_CardinalityType DEF Inv, Counted
    <2>3. edits \in Nat
      BY AutosaveAssumption DEF Inv, Types
    <2> QED
      BY <1>1, <2>1, <2>2, <2>3 DEF Inv, Counted
  <1>7. ASSUME NEW g \in Forms
        PROVE  Faithful(g)'
    <2>1. Faithful(g)
      BY <1>1 DEF Inv
    <2>2. Settled(g)' => stored[g] \in burst[g]
      <3>1. CASE g = a.form
        BY <1>3, <2>1, <3>1 DEF Settled, Faithful, Inv, Types
      <3>2. CASE g # a.form
        <4>1. InFlight(g)' = InFlight(g) /\ local'[g] = local[g]
          BY <1>1, <1>3, <3>2 DEF InFlight, Inv, Types
        <4> QED
          BY <2>1, <4>1 DEF Settled, Faithful
      <3> QED
        BY <3>1, <3>2
    <2> QED
      BY <1>1, <2>1, <2>2 DEF Faithful
  <1> QED
    BY <1>4, <1>5, <1>6, <1>7 DEF Inv

\* Leaving without a warning is leaving with nothing in flight.
LEMMA LeaveSound ==
    ASSUME Inv, Leave
    PROVE  Inv'
  <1>1. UNCHANGED <<shown, stored, local, global, pending, requests, answers,
                    edits, burst>>
    BY DEF Leave
  <1>2. page' = "left" => requests = {} /\ answers = {}
    <2>1. Cardinality(requests) \in Nat /\ Cardinality(answers) \in Nat
      BY FS_CardinalityType DEF Inv, Counted
    <2>2. page' = "left" => Cardinality(requests) = 0 /\ Cardinality(answers) = 0
      BY <2>1 DEF Leave, Inv, Counted
    <2> QED
      BY <2>2, FS_EmptySet DEF Inv, Counted
  <1>3. page' \in {"open", "left", "warned"}
    BY DEF Leave
  <1> QED
    BY <1>1, <1>2, <1>3
    DEF Inv, Types, Numbered, Counted, Faithful, Settled, InFlight

LEMMA NextInv == Inv /\ [Next]_vars => Inv'
  <1> SUFFICES ASSUME Inv, [Next]_vars
               PROVE  Inv'
    OBVIOUS
  <1>1. ASSUME NEW f \in Forms, NEW v \in Values, Post(f, v) \/ Refuse(f, v)
        PROVE  Inv'
    BY <1>1, PostSound, RefuseSound
  <1>2. ASSUME NEW r \in requests, Serve(r)
        PROVE  Inv'
    BY <1>2, SettleSound DEF Serve
  <1>3. ASSUME NEW r \in requests, LoseAnswer(r) \/ LoseRequest(r)
        PROVE  Inv'
    BY <1>3, SettleSound DEF LoseAnswer, LoseRequest
  <1>4. ASSUME NEW a \in answers, Receive(a)
        PROVE  Inv'
    BY <1>4, ReceiveSound
  <1>5. CASE Leave
    BY <1>5, LeaveSound
  <1>6. CASE UNCHANGED vars
    BY <1>6
    DEF vars, Inv, Types, Numbered, Counted, Faithful, Settled, InFlight
  <1> QED
    BY <1>1, <1>2, <1>3, <1>4, <1>5, <1>6 DEF Next, User, Network, Browser

LEMMA Invariance == Spec => []Inv
  <1> QED
    BY InitInv, NextInv, PTL DEF Spec

-----------------------------------------------------------------------------
(* The results.                                                             *)

\* Every reachable state of the page is well typed, and a save in flight is
\* known by its number.
THEOREM TypeCorrect == Spec => []TypeOK
  <1>1. Inv => TypeOK
    <2> SUFFICES ASSUME Inv
                 PROVE  TypeOK
      OBVIOUS
    <2>1. pending \in 0..MaxEdits
      <3>1. Cardinality(requests) \in Nat /\ Cardinality(answers) \in Nat
        BY FS_CardinalityType DEF Inv, Counted
      <3> QED
        BY <3>1, AutosaveAssumption DEF Inv, Types, Counted
    <2>2. \A m1, m2 \in requests \union answers : m1.n = m2.n => m1 = m2
      BY DEF Inv, Numbered
    <2> QED
      BY <2>1, <2>2 DEF Inv, Types, TypeOK
  <1> QED
    BY <1>1, Invariance, PTL

\* pendingSaves is the number of saves in flight, however their answers are
\* delayed, lost or reordered, and a page left silently loses none.
THEOREM SavesCounted == Spec => []SavesAreCounted
  <1>1. Inv => SavesAreCounted
    BY DEF Inv, Counted, SavesAreCounted
  <1> QED
    BY <1>1, Invariance, PTL

\* Once a form has its answers and says "saved", the dossier holds a value of
\* the last burst of changes, as the page does: the one shown, when the user
\* waited before the last change.
THEOREM SavedIsStored == Spec => []SavedMeansStored
  <1>1. Inv => SavedMeansStored
    BY DEF Inv, Faithful, SavedMeansStored
  <1> QED
    BY <1>1, Invariance, PTL

=============================================================================
