-------------------------- MODULE AdmissionProofs --------------------------
(***************************************************************************)
(* What Admission guarantees for every finite set of requests and every    *)
(* size of the two limiters.                                               *)
(*                                                                         *)
(* The inductive invariant ties where a task is to all that it may hold.   *)
(* The limiter is the delicate part: a token passes from the task that     *)
(* leaves to the oldest waiter, so the proof needs that the queue holds    *)
(* each waiting task once and nothing else.                                *)
(***************************************************************************)
EXTENDS Admission, FiniteSetTheorems, SequenceTheorems, TLAPS

\* Where the task of r is, and what it holds there.
Uploaded == {"saving", "waiting", "granted", "running"}

Holds(r) ==
    /\ r \in admitted <=> pc[r] \notin {"idle", "refused"}
    /\ worker[r] # "none" <=> pc[r] = "running"
    /\ r \in workspaces => worker[r] \in Busy
    /\ r \in tmp => pc[r] \in Uploaded \union {"closing"} /\ HasFile(r)
    /\ pc[r] \in Uploaded /\ HasFile(r) => r \in tmp
    /\ r \in rerun => pc[r] \in {"waiting", "granted", "running", "leaving"}

\* The places of r in a queue.
Queued(r, q) == \E i \in 1..Len(q) : q[i] = r
Distinct(q) == \A i, j \in 1..Len(q) : q[i] = q[j] => i = j

Limiter ==
    /\ \A r \in Requests : r \in tokens <=> pc[r] \in {"granted", "running"}
    /\ \A r \in Requests : Queued(r, queue) <=> pc[r] = "waiting"
    /\ Distinct(queue)
    /\ Cardinality(tokens) <= WorkerSlots

Types ==
    /\ pc \in [Requests -> PCs]
    /\ admitted \subseteq Requests
    /\ tokens \subseteq Requests
    /\ queue \in Seq(Requests)
    /\ worker \in [Requests -> Busy \union {"none", "returned"}]
    /\ tmp \subseteq Requests
    /\ workspaces \subseteq Requests
    /\ inspected \subseteq Requests
    /\ rerun \subseteq Requests
    /\ cancelled \subseteq Requests

Inv ==
    /\ Types
    /\ \A r \in Requests : Holds(r)
    /\ Limiter
    /\ Cardinality(admitted) <= AdmissionSlots

-----------------------------------------------------------------------------
(* The queue.                                                               *)

\* The oldest waiter leaves the front of the queue.
LEMMA HeadLeaves ==
    ASSUME NEW q \in Seq(Requests), Distinct(q), q # << >>
    PROVE  /\ Head(q) \in Requests
           /\ Queued(Head(q), q)
           /\ Tail(q) \in Seq(Requests)
           /\ Distinct(Tail(q))
           /\ \A r : Queued(r, Tail(q)) <=> Queued(r, q) /\ r # Head(q)
  <1>1. /\ Len(q) \in Nat
        /\ Len(q) > 0
        /\ Head(q) = q[1]
        /\ q[1] \in Requests
    OBVIOUS
  <1>2. /\ Tail(q) \in Seq(Requests)
        /\ Len(Tail(q)) = Len(q) - 1
        /\ \A i \in 1..(Len(q) - 1) : Tail(q)[i] = q[i + 1]
    OBVIOUS
  <1>3. Distinct(Tail(q))
    BY <1>1, <1>2 DEF Distinct
  <1>4. ASSUME NEW r
        PROVE  Queued(r, Tail(q)) <=> Queued(r, q) /\ r # Head(q)
    <2>1. ASSUME Queued(r, Tail(q))
          PROVE  Queued(r, q) /\ r # Head(q)
      <3>1. PICK i \in 1..(Len(q) - 1) : Tail(q)[i] = r
        BY <1>1, <1>2, <2>1 DEF Queued
      <3>2. q[i + 1] = r /\ i + 1 \in 1..Len(q) /\ i + 1 # 1
        BY <1>1, <1>2, <3>1
      <3> QED
        BY <1>1, <3>2 DEF Queued, Distinct
    <2>2. ASSUME Queued(r, q), r # Head(q)
          PROVE  Queued(r, Tail(q))
      <3>1. PICK i \in 1..Len(q) : q[i] = r
        BY <2>2 DEF Queued
      <3>2. i - 1 \in 1..(Len(q) - 1) /\ (i - 1) + 1 = i
        BY <1>1, <2>2, <3>1
      <3>3. Tail(q)[i - 1] = r
        BY <1>2, <3>1, <3>2
      <3> QED
        BY <1>2, <3>2, <3>3 DEF Queued
    <2> QED
      BY <2>1, <2>2
  <1> QED
    BY <1>1, <1>2, <1>3, <1>4 DEF Queued

\* A new waiter joins the back of the queue.
LEMMA WaiterJoins ==
    ASSUME NEW q \in Seq(Requests), Distinct(q), NEW r \in Requests,
           ~Queued(r, q)
    PROVE  /\ Append(q, r) \in Seq(Requests)
           /\ Distinct(Append(q, r))
           /\ \A s : Queued(s, Append(q, r)) <=> Queued(s, q) \/ s = r
  <1>1. /\ Len(q) \in Nat
        /\ Append(q, r) \in Seq(Requests)
        /\ Len(Append(q, r)) = Len(q) + 1
        /\ \A i \in 1..Len(q) : Append(q, r)[i] = q[i]
        /\ Append(q, r)[Len(q) + 1] = r
    OBVIOUS
  <1>2. Distinct(Append(q, r))
    BY <1>1 DEF Distinct, Queued
  <1>3. ASSUME NEW s
        PROVE  Queued(s, Append(q, r)) <=> Queued(s, q) \/ s = r
    BY <1>1 DEF Queued
  <1> QED
    BY <1>1, <1>2, <1>3

\* A cancelled waiter leaves its place, and the others keep theirs.
LEMMA WaiterLeaves ==
    ASSUME queue \in Seq(Requests), Distinct(queue), NEW r \in Requests,
           Queued(r, queue)
    PROVE  /\ Unqueued(r) \in Seq(Requests)
           /\ Distinct(Unqueued(r))
           /\ \A s : Queued(s, Unqueued(r)) <=> Queued(s, queue) /\ s # r
  <1> DEFINE place == CHOOSE i \in 1..Len(queue) : queue[i] = r
             front == SubSeq(queue, 1, place - 1)
             back == SubSeq(queue, place + 1, Len(queue))
             n == Len(queue)
  <1>1. place \in 1..n /\ queue[place] = r
    BY DEF Queued
  <1>2. Unqueued(r) = front \o back
    BY DEF Unqueued
  <1> HIDE DEF place
  <1>3. n \in Nat /\ \A i \in 1..n : queue[i] \in Requests
    OBVIOUS
  <1>4. /\ front \in Seq(Requests)
        /\ Len(front) = place - 1
        /\ \A i \in 1..(place - 1) : front[i] = queue[i]
    BY <1>1, <1>3, SubSeqProperties
  <1>5. /\ back \in Seq(Requests)
        /\ Len(back) = n - place
        /\ \A i \in 1..(n - place) : back[i] = queue[place + i]
    BY <1>1, <1>3, SubSeqProperties
  <1> HIDE DEF front, back
  <1> DEFINE rest == front \o back
  <1>6. /\ rest \in Seq(Requests)
        /\ Len(rest) = n - 1
        /\ \A i \in 1..(n - 1) :
             rest[i] = IF i < place THEN queue[i] ELSE queue[i + 1]
    <2>1. /\ rest \in Seq(Requests)
          /\ Len(rest) = Len(front) + Len(back)
          /\ \A i \in 1..(Len(front) + Len(back)) :
               rest[i] = IF i <= Len(front) THEN front[i] ELSE back[i - Len(front)]
      BY <1>4, <1>5, ConcatProperties, Zenon
    <2>2. Len(rest) = n - 1
      BY <1>1, <1>3, <1>4, <1>5, <2>1
    <2> HIDE DEF rest
    <2>3. ASSUME NEW i \in 1..(n - 1)
          PROVE  rest[i] = IF i < place THEN queue[i] ELSE queue[i + 1]
      <3>1. CASE i < place
        BY <1>1, <1>3, <1>4, <2>1, <2>2, <3>1
      <3>2. CASE ~(i < place)
        <4>1. rest[i] = back[i - (place - 1)]
          BY <1>1, <1>3, <1>4, <2>1, <2>2, <3>2
        <4>2. /\ i - (place - 1) \in 1..(n - place)
              /\ place + (i - (place - 1)) = i + 1
          BY <1>1, <1>3, <3>2
        <4> QED
          BY <1>5, <3>2, <4>1, <4>2
      <3> QED
        BY <3>1, <3>2
    <2> QED
      BY <2>1, <2>2, <2>3
  <1> HIDE DEF rest
  <1>7. Distinct(rest)
    BY <1>1, <1>3, <1>6 DEF Distinct
  <1>8. ASSUME NEW s
        PROVE  Queued(s, rest) <=> Queued(s, queue) /\ s # r
    <2>1. ASSUME NEW i \in 1..(n - 1), rest[i] = s
          PROVE  Queued(s, queue) /\ s # r
      BY <1>1, <1>3, <1>6, <2>1 DEF Queued, Distinct
    <2>2. ASSUME NEW i \in 1..n, queue[i] = s, s # r
          PROVE  Queued(s, rest)
      <3>1. CASE i < place
        BY <1>1, <1>3, <1>6, <2>2, <3>1 DEF Queued
      <3>2. CASE i > place
        <4>1. i - 1 \in 1..(n - 1) /\ ~(i - 1 < place) /\ (i - 1) + 1 = i
          BY <1>1, <1>3, <3>2
        <4>2. rest[i - 1] = s
          BY <1>6, <2>2, <4>1
        <4> QED
          BY <1>6, <4>1, <4>2 DEF Queued
      <3> QED
        BY <1>1, <2>2, <3>1, <3>2
    <2> QED
      BY <1>6, <2>1, <2>2 DEF Queued
  <1> QED
    BY <1>2, <1>6, <1>7, <1>8 DEF rest

-----------------------------------------------------------------------------
(* The limiter.                                                             *)

LEMMA TokensAreFinite ==
    ASSUME NEW S, S \subseteq Requests
    PROVE  IsFiniteSet(S) /\ Cardinality(S) \in Nat
  BY RequestsAssumption, FS_Subset, FS_CardinalityType

\* Asking for a token gives it, or a place at the end of the queue.
LEMMA AcquireSound ==
    ASSUME Types, Limiter, NEW r \in Requests,
           pc[r] \notin {"waiting", "granted", "running"}, Acquire(r)
    PROVE  /\ Limiter'
           /\ tokens' \subseteq Requests
           /\ queue' \in Seq(Requests)
           /\ \E at \in {"granted", "waiting"} : pc' = [pc EXCEPT ![r] = at]
  <1>1. r \notin tokens /\ ~Queued(r, queue)
    BY DEF Limiter
  <1>2. CASE Cardinality(tokens) < WorkerSlots /\ queue = << >>
    <2>1. /\ tokens' = tokens \union {r}
          /\ pc' = [pc EXCEPT ![r] = "granted"]
          /\ UNCHANGED queue
      BY <1>2 DEF Acquire
    <2>2. Cardinality(tokens') <= WorkerSlots
      <3>1. Cardinality(tokens') = Cardinality(tokens) + 1
        BY <1>1, <2>1, TokensAreFinite, FS_AddElement DEF Types
      <3> QED
        BY <1>2, <3>1, TokensAreFinite, SlotsAssumption DEF Types
    <2>3. \A s \in Requests : s \in tokens' <=> pc'[s] \in {"granted", "running"}
      BY <2>1 DEF Limiter, Types
    <2>4. \A s \in Requests : Queued(s, queue) <=> pc'[s] = "waiting"
      BY <1>1, <2>1 DEF Limiter, Types
    <2> QED
      BY <2>1, <2>2, <2>3, <2>4 DEF Limiter, Types
  <1>3. CASE ~(Cardinality(tokens) < WorkerSlots /\ queue = << >>)
    <2>1. /\ queue' = Append(queue, r)
          /\ pc' = [pc EXCEPT ![r] = "waiting"]
          /\ UNCHANGED tokens
      BY <1>3 DEF Acquire
    <2>2. /\ queue' \in Seq(Requests)
          /\ Distinct(queue')
          /\ \A s : Queued(s, queue') <=> Queued(s, queue) \/ s = r
      BY <1>1, <2>1, WaiterJoins DEF Types, Limiter
    <2>3. \A s \in Requests : Queued(s, queue') <=> pc'[s] = "waiting"
      BY <2>1, <2>2 DEF Limiter, Types
    <2>4. \A s \in Requests : s \in tokens <=> pc'[s] \in {"granted", "running"}
      BY <1>1, <2>1 DEF Limiter, Types
    <2> QED
      BY <2>1, <2>2, <2>3, <2>4 DEF Limiter, Types
  <1> QED
    BY <1>2, <1>3

\* A token that is given back goes to the oldest waiter: no third task moves.
LEMMA ReleaseSound ==
    ASSUME Types, Limiter, NEW r \in Requests, pc[r] \in {"granted", "running"},
           NEW next \in {"closing", "leaving"}, Release(r, next)
    PROVE  /\ Limiter'
           /\ tokens' \subseteq Requests
           /\ queue' \in Seq(Requests)
           /\ pc' \in [Requests -> PCs]
           /\ pc'[r] = next
           /\ \A s \in Requests \ {r} :
                \/ pc'[s] = pc[s]
                \/ pc[s] = "waiting" /\ pc'[s] = "granted"
  <1>1. r \in tokens /\ ~Queued(r, queue)
    BY DEF Limiter
  <1>2. /\ IsFiniteSet(tokens)
        /\ Cardinality(tokens) \in Nat
        /\ IsFiniteSet(tokens \ {r})
        /\ Cardinality(tokens \ {r}) = Cardinality(tokens) - 1
    BY <1>1, TokensAreFinite, FS_RemoveElement DEF Types
  <1>3. CASE queue = << >>
    <2>1. /\ tokens' = tokens \ {r}
          /\ pc' = [pc EXCEPT ![r] = next]
          /\ UNCHANGED queue
      BY <1>3 DEF Release
    <2>2. Cardinality(tokens') <= WorkerSlots
      BY <1>2, <2>1, SlotsAssumption DEF Limiter
    <2>3. \A s \in Requests : s \in tokens' <=> pc'[s] \in {"granted", "running"}
      BY <2>1 DEF Limiter, Types
    <2>4. \A s \in Requests : Queued(s, queue) <=> pc'[s] = "waiting"
      BY <1>1, <2>1 DEF Limiter, Types
    <2> QED
      BY <2>1, <2>2, <2>3, <2>4 DEF Limiter, Types, PCs
  <1>4. CASE queue # << >>
    <2> DEFINE h == Head(queue)
    <2>1. /\ h \in Requests
          /\ Queued(h, queue)
          /\ Tail(queue) \in Seq(Requests)
          /\ Distinct(Tail(queue))
          /\ \A s : Queued(s, Tail(queue)) <=> Queued(s, queue) /\ s # h
      BY <1>4, HeadLeaves DEF Types, Limiter
    <2>2. pc[h] = "waiting" /\ h # r /\ h \notin tokens
      BY <2>1 DEF Limiter
    <2>3. /\ tokens' = (tokens \ {r}) \union {h}
          /\ pc' = [pc EXCEPT ![r] = next, ![h] = "granted"]
          /\ queue' = Tail(queue)
      BY <1>4 DEF Release
    <2> HIDE DEF h
    <2>4. /\ pc' \in [Requests -> PCs]
          /\ pc'[r] = next
          /\ pc'[h] = "granted"
          /\ \A s \in Requests : s # r /\ s # h => pc'[s] = pc[s]
      BY <2>1, <2>2, <2>3 DEF Types, PCs
    <2>5. Cardinality(tokens') <= WorkerSlots
      <3>1. Cardinality(tokens') = Cardinality(tokens \ {r}) + 1
        BY <1>2, <2>2, <2>3, FS_AddElement
      <3> QED
        BY <1>2, <3>1, SlotsAssumption DEF Limiter
    <2>6. \A s \in Requests : s \in tokens' <=> pc'[s] \in {"granted", "running"}
      BY <2>1, <2>3, <2>4 DEF Limiter
    <2>7. \A s \in Requests : Queued(s, queue') <=> pc'[s] = "waiting"
      BY <1>1, <2>1, <2>2, <2>3, <2>4 DEF Limiter
    <2>8. tokens' \subseteq Requests
      BY <2>1, <2>3 DEF Types
    <2> QED
      BY <2>1, <2>2, <2>3, <2>4, <2>5, <2>6, <2>7, <2>8 DEF Limiter
  <1> QED
    BY <1>3, <1>4

\* A task that neither takes nor gives back a token moves the limiter not.
LEMMA LimiterStays ==
    ASSUME Limiter, UNCHANGED <<tokens, queue>>,
           \A s \in Requests :
               /\ pc'[s] = "waiting" <=> pc[s] = "waiting"
               /\ pc'[s] \in {"granted", "running"} <=> pc[s] \in {"granted", "running"}
    PROVE  Limiter'
  BY DEF Limiter

\* A request that another one's step leaves alone, or wakes.
Untouched(s) ==
    /\ \/ pc'[s] = pc[s]
       \/ pc[s] = "waiting" /\ pc'[s] = "granted"
    /\ worker'[s] = worker[s]
    /\ s \in admitted' <=> s \in admitted
    /\ s \in workspaces' => s \in workspaces
    /\ s \in tmp' <=> s \in tmp
    /\ s \in rerun' <=> s \in rerun

LEMMA UntouchedHolds ==
    ASSUME NEW s \in Requests, Holds(s), Untouched(s)
    PROVE  Holds(s)'
  BY DEF Holds, Untouched, HasFile, Uploaded

-----------------------------------------------------------------------------
(* The steps.                                                               *)

\* Steps of one task that leave the limiter alone.
LEMMA AloneSound ==
    ASSUME Inv, NEW r \in Requests,
           Types',
           UNCHANGED <<tokens, queue>>,
           Cardinality(admitted') <= AdmissionSlots,
           pc'[r] = "waiting" <=> pc[r] = "waiting",
           pc'[r] \in {"granted", "running"} <=> pc[r] \in {"granted", "running"},
           \A s \in Requests \ {r} : pc'[s] = pc[s] /\ Untouched(s),
           Holds(r)'
    PROVE  Inv'
  <1>1. Limiter'
    BY LimiterStays DEF Inv
  <1>2. \A s \in Requests : Holds(s)'
    BY UntouchedHolds DEF Inv
  <1> QED
    BY <1>1, <1>2 DEF Inv

LEMMA ArriveSound ==
    ASSUME Inv, NEW r \in Requests, Arrive(r)
    PROVE  Inv'
  <1>1. /\ pc[r] = "idle"
        /\ Holds(r)
        /\ UNCHANGED <<tokens, queue, worker, tmp, workspaces, inspected, rerun,
                       cancelled>>
    BY DEF Arrive, Inv
  <1>2. CASE /\ Cardinality(admitted) < AdmissionSlots
             /\ admitted' = admitted \union {r}
             /\ pc' = [pc EXCEPT ![r] = "parsing"]
    <2>1. Cardinality(admitted') <= AdmissionSlots
      <3>1. Cardinality(admitted') = Cardinality(admitted) + 1
        BY <1>1, <1>2, TokensAreFinite, FS_AddElement DEF Inv, Types, Holds
      <3> QED
        BY <1>2, <3>1, TokensAreFinite, SlotsAssumption DEF Inv, Types
    <2>2. Types'
      BY <1>1, <1>2 DEF Inv, Types, PCs
    <2>3. Holds(r)'
      BY <1>1, <1>2 DEF Holds, HasFile, Uploaded, Inv, Types
    <2>4. \A s \in Requests \ {r} : pc'[s] = pc[s] /\ Untouched(s)
      BY <1>1, <1>2 DEF Untouched, Inv, Types
    <2>5. pc'[r] = "parsing"
      BY <1>2 DEF Inv, Types
    <2> QED
      BY <1>1, <2>1, <2>2, <2>3, <2>4, <2>5, AloneSound
  <1>3. CASE pc' = [pc EXCEPT ![r] = "refused"] /\ UNCHANGED admitted
    <2>1. Types'
      BY <1>1, <1>3 DEF Inv, Types, PCs
    <2>2. Holds(r)'
      BY <1>1, <1>3 DEF Holds, HasFile, Uploaded, Inv, Types
    <2>3. \A s \in Requests \ {r} : pc'[s] = pc[s] /\ Untouched(s)
      BY <1>1, <1>3 DEF Untouched, Inv, Types
    <2>4. pc'[r] = "refused"
      BY <1>3 DEF Inv, Types
    <2> QED
      BY <1>1, <1>3, <2>1, <2>2, <2>3, <2>4, AloneSound DEF Inv
  <1> QED
    BY <1>2, <1>3 DEF Arrive

\* RefusalSent, Reject, UploadFails, Converted, WorkerEnds and Cancel.
LEMMA SmallStepSound ==
    ASSUME Inv, NEW r \in Requests,
           \/ RefusalSent(r)
           \/ Reject(r)
           \/ UploadFails(r)
           \/ Converted(r)
           \/ WorkerEnds(r)
           \/ Cancel(r)
    PROVE  Inv'
  <1> USE DEF Inv, Types
  <1>1. UNCHANGED <<tokens, queue, admitted, rerun>> /\ Holds(r)
    BY DEF RefusalSent, Reject, UploadFails, Converted, WorkerEnds, Cancel
  <1>2. Types'
    BY DEF RefusalSent, Reject, UploadFails, Converted, WorkerEnds, Cancel, PCs,
       Busy
  <1>3. Holds(r)'
    <2>1. CASE RefusalSent(r)
      BY <1>1, <2>1 DEF RefusalSent, Holds, HasFile, Uploaded
    <2>2. CASE Reject(r)
      BY <1>1, <2>2 DEF Reject, Holds, HasFile, Uploaded
    <2>3. CASE UploadFails(r)
      BY <1>1, <2>3 DEF UploadFails, Holds, HasFile, Uploaded
    <2>4. CASE Converted(r)
      BY <1>1, <2>4 DEF Converted, Holds, HasFile, Uploaded, Busy
    <2>5. CASE WorkerEnds(r)
      BY <1>1, <2>5 DEF WorkerEnds, Holds, HasFile, Uploaded, Busy
    <2>6. CASE Cancel(r)
      BY <1>1, <2>6 DEF Cancel, Holds, HasFile, Uploaded
    <2> QED
      BY <2>1, <2>2, <2>3, <2>4, <2>5, <2>6
  <1>4. \A s \in Requests \ {r} : pc'[s] = pc[s] /\ Untouched(s)
    BY DEF Untouched, RefusalSent, Reject, UploadFails, Converted, WorkerEnds,
       Cancel
  <1>5. /\ pc'[r] = "waiting" <=> pc[r] = "waiting"
        /\ pc'[r] \in {"granted", "running"} <=> pc[r] \in {"granted", "running"}
    BY DEF RefusalSent, Reject, UploadFails, Converted, WorkerEnds, Cancel
  <1> QED
    BY <1>1, <1>2, <1>3, <1>4, <1>5, AloneSound

LEMMA StartWorkerSound ==
    ASSUME Inv, NEW r \in Requests, StartWorker(r)
    PROVE  Inv'
  <1> USE DEF Inv, Types
  <1>1. /\ pc[r] = "granted"
        /\ pc' = [pc EXCEPT ![r] = "running"]
        /\ UNCHANGED <<admitted, tokens, queue, tmp, inspected, rerun, cancelled>>
        /\ Holds(r)
    BY DEF StartWorker
  <1>2. PICK w \in Busy :
            /\ worker' = [worker EXCEPT ![r] = w]
            /\ workspaces' \in {workspaces, workspaces \union {r}}
    BY DEF StartWorker, Busy
  <1>3. Types'
    BY <1>1, <1>2 DEF PCs
  <1>4. Holds(r)'
    BY <1>1, <1>2 DEF Holds, HasFile, Uploaded, Busy
  <1>5. \A s \in Requests \ {r} : pc'[s] = pc[s] /\ Untouched(s)
    BY <1>1, <1>2 DEF Untouched
  <1>6. pc'[r] = "running"
    BY <1>1
  <1> QED
    BY <1>1, <1>3, <1>4, <1>5, <1>6, AloneSound

\* The slot and all that is left of the request go together.
LEMMA FinishSound ==
    ASSUME Inv, NEW r \in Requests, Finish(r)
    PROVE  Inv'
  <1> USE DEF Inv, Types
  <1>1. Types'
    BY DEF Finish, PCs
  <1>2. Cardinality(admitted') <= AdmissionSlots
    <2>1. admitted' \in SUBSET admitted /\ IsFiniteSet(admitted)
      BY TokensAreFinite DEF Finish
    <2>2. Cardinality(admitted') <= Cardinality(admitted)
      BY <2>1, FS_Subset
    <2> QED
      BY <1>1, <2>2, TokensAreFinite, SlotsAssumption
  <1>3. Holds(r)'
    BY DEF Finish, Holds, HasFile, Uploaded
  <1>4. \A s \in Requests \ {r} : pc'[s] = pc[s] /\ Untouched(s)
    BY DEF Finish, Untouched
  <1>5. UNCHANGED <<tokens, queue>> /\ pc[r] = "leaving" /\ pc'[r] = "idle"
    BY DEF Finish
  <1> QED
    BY <1>1, <1>2, <1>3, <1>4, <1>5, AloneSound

\* A task goes to the limiter: with its upload, without one, or again.
LEMMA GoToLimiterSound ==
    ASSUME Inv, NEW r \in Requests,
           pc[r] \in {"parsing", "saving", "closing"},
           Acquire(r),
           tmp' \subseteq Requests,
           rerun' \subseteq Requests,
           \A s \in Requests \ {r} :
               (s \in tmp' <=> s \in tmp) /\ (s \in rerun' <=> s \in rerun),
           r \in tmp' <=> HasFile(r)',
           UNCHANGED <<admitted, worker, workspaces, inspected, cancelled>>
    PROVE  Inv'
  <1> USE DEF Inv, Types
  <1>1. PICK at \in {"granted", "waiting"} :
            /\ Limiter'
            /\ tokens' \subseteq Requests
            /\ queue' \in Seq(Requests)
            /\ pc' = [pc EXCEPT ![r] = at]
    BY AcquireSound
  <1>2. Types'
    BY <1>1 DEF PCs
  <1>3. Holds(r)'
    BY <1>1 DEF Holds, HasFile, Uploaded
  <1>4. ASSUME NEW s \in Requests \ {r}
        PROVE  Holds(s)'
    BY <1>1, UntouchedHolds DEF Untouched
  <1> QED
    BY <1>1, <1>2, <1>3, <1>4

LEMMA ParseBodySound ==
    ASSUME Inv, NEW r \in Requests, ParseBody(r)
    PROVE  Inv'
  <1>1. pc[r] = "parsing" /\ Holds(r)
    BY DEF ParseBody, Inv
  <1>2. CASE Kind[r] = "choice"
    <2>1. r \notin tmp /\ ~HasFile(r)
      BY <1>1, <1>2 DEF Holds, HasFile, Uploaded
    <2> QED
      BY <1>1, <1>2, <2>1, GoToLimiterSound DEF ParseBody, HasFile, Inv, Types
  <1>3. CASE Kind[r] # "choice"
    <2> USE DEF Inv, Types
    <2>1. /\ tmp' = tmp \union {r}
          /\ pc' = [pc EXCEPT ![r] = "saving"]
          /\ UNCHANGED <<tokens, queue, admitted, worker, workspaces, inspected,
                         rerun, cancelled>>
      BY <1>3 DEF ParseBody
    <2>2. Types'
      BY <2>1 DEF PCs
    <2>3. Holds(r)'
      BY <1>1, <1>3, <2>1 DEF Holds, HasFile, Uploaded
    <2>4. \A s \in Requests \ {r} : pc'[s] = pc[s] /\ Untouched(s)
      BY <2>1 DEF Untouched
    <2>5. pc'[r] = "saving"
      BY <2>1
    <2> QED
      BY <1>1, <2>1, <2>2, <2>3, <2>4, <2>5, AloneSound
  <1> QED
    BY <1>2, <1>3

LEMMA SaveUploadSound ==
    ASSUME Inv, NEW r \in Requests, SaveUpload(r)
    PROVE  Inv'
  <1>1. r \in tmp <=> HasFile(r)
    BY DEF SaveUpload, Inv, Holds, Uploaded
  <1> QED
    BY <1>1, GoToLimiterSound DEF SaveUpload, HasFile, Inv, Types

\* The upload is gone before the second run of /analyze.
LEMMA CloseSound ==
    ASSUME Inv, NEW r \in Requests, Close(r)
    PROVE  Inv'
  <1>1. /\ pc[r] = "closing"
        /\ tmp' = tmp \ {r}
        /\ Holds(r)
        /\ UNCHANGED <<admitted, worker, workspaces, inspected, cancelled>>
    BY DEF Close, Removed, Inv
  <1>2. CASE pc' = [pc EXCEPT ![r] = "leaving"] /\ UNCHANGED <<tokens, queue, rerun>>
    <2> USE DEF Inv, Types
    <2>1. Types'
      BY <1>1, <1>2 DEF PCs
    <2>2. Holds(r)'
      BY <1>1, <1>2 DEF Holds, HasFile, Uploaded
    <2>3. \A s \in Requests \ {r} : pc'[s] = pc[s] /\ Untouched(s)
      BY <1>1, <1>2 DEF Untouched
    <2>4. pc'[r] = "leaving"
      BY <1>2
    <2> QED
      BY <1>1, <1>2, <2>1, <2>2, <2>3, <2>4, AloneSound
  <1>3. CASE rerun' = rerun \union {r} /\ Acquire(r)
    <2>1. ~HasFile(r)' /\ r \notin tmp'
      BY <1>1, <1>3 DEF HasFile
    <2>2. tmp' \subseteq Requests /\ rerun' \subseteq Requests
      BY <1>1, <1>3 DEF Inv, Types
    <2>3. \A s \in Requests \ {r} :
              (s \in tmp' <=> s \in tmp) /\ (s \in rerun' <=> s \in rerun)
      BY <1>1, <1>3
    <2> QED
      BY <1>1, <1>3, <2>1, <2>2, <2>3, GoToLimiterSound
  <1> QED
    BY <1>2, <1>3 DEF Close

\* A task gives its token back, after its run or instead of it.
LEMMA GiveBackSound ==
    ASSUME Inv, NEW r \in Requests,
           pc[r] \in {"granted", "running"},
           worker[r] \notin Busy,
           Release(r, AfterRun(r)),
           worker' = [worker EXCEPT ![r] = "none"],
           UNCHANGED <<admitted, tmp, workspaces, inspected, rerun, cancelled>>
    PROVE  Inv'
  <1> USE DEF Inv, Types
  <1>1. AfterRun(r) \in {"closing", "leaving"}
    BY DEF AfterRun
  <1>2. /\ Limiter'
        /\ tokens' \subseteq Requests
        /\ queue' \in Seq(Requests)
        /\ pc' \in [Requests -> PCs]
        /\ pc'[r] = AfterRun(r)
        /\ \A s \in Requests \ {r} :
             \/ pc'[s] = pc[s]
             \/ pc[s] = "waiting" /\ pc'[s] = "granted"
    BY <1>1, ReleaseSound
  <1>3. Types'
    BY <1>2 DEF Busy
  <1>4. Holds(r)'
    BY <1>1, <1>2 DEF Holds, AfterRun, HasFile, Uploaded
  <1>5. ASSUME NEW s \in Requests \ {r}
        PROVE  Holds(s)'
    BY <1>2, UntouchedHolds DEF Untouched
  <1> QED
    BY <1>2, <1>3, <1>4, <1>5

LEMMA ResumeSound ==
    ASSUME Inv, NEW r \in Requests, Resume(r) \/ CancelGranted(r)
    PROVE  Inv'
  <1>1. CASE Resume(r)
    BY <1>1, GiveBackSound DEF Resume, Busy
  <1>2. CASE CancelGranted(r)
    <2>1. worker[r] = "none" /\ worker' = [worker EXCEPT ![r] = "none"]
      BY <1>2 DEF CancelGranted, Inv, Types, Holds
    <2> QED
      BY <1>2, <2>1, GiveBackSound DEF CancelGranted, Busy
  <1> QED
    BY <1>1, <1>2

LEMMA CancelWaitingSound ==
    ASSUME Inv, NEW r \in Requests, CancelWaiting(r)
    PROVE  Inv'
  <1> USE DEF Inv, Types
  <1>1. /\ pc[r] = "waiting"
        /\ queue' = Unqueued(r)
        /\ pc' = [pc EXCEPT ![r] = AfterRun(r)]
        /\ UNCHANGED <<admitted, tokens, worker, tmp, workspaces, inspected, rerun,
                       cancelled>>
        /\ Holds(r)
    BY DEF CancelWaiting
  <1>2. AfterRun(r) \in {"closing", "leaving"}
    BY DEF AfterRun
  <1>3. /\ queue' \in Seq(Requests)
        /\ Distinct(queue')
        /\ \A s : Queued(s, queue') <=> Queued(s, queue) /\ s # r
    BY <1>1, WaiterLeaves DEF Limiter
  <1>4. Types'
    BY <1>1, <1>2, <1>3 DEF PCs
  <1>5. Limiter'
    <2>1. \A s \in Requests : Queued(s, queue') <=> pc'[s] = "waiting"
      BY <1>1, <1>2, <1>3 DEF Limiter
    <2>2. \A s \in Requests : s \in tokens <=> pc'[s] \in {"granted", "running"}
      BY <1>1, <1>2 DEF Limiter
    <2> QED
      BY <1>1, <1>3, <2>1, <2>2 DEF Limiter
  <1>6. Holds(r)'
    BY <1>1, <1>2 DEF Holds, AfterRun, HasFile, Uploaded
  <1>7. ASSUME NEW s \in Requests \ {r}
        PROVE  Holds(s)'
    BY <1>1, UntouchedHolds DEF Untouched
  <1> QED
    BY <1>1, <1>4, <1>5, <1>6, <1>7

-----------------------------------------------------------------------------
LEMMA InitInv == Init => Inv
  <1> SUFFICES ASSUME Init
               PROVE  Inv
    OBVIOUS
  <1>1. Types
    BY DEF Init, Types, PCs
  <1>2. \A r \in Requests : Holds(r)
    BY DEF Init, Holds, Uploaded
  <1>3. Limiter
    BY FS_EmptySet, SlotsAssumption DEF Init, Limiter, Queued, Distinct
  <1>4. Cardinality(admitted) <= AdmissionSlots
    BY FS_EmptySet, SlotsAssumption DEF Init
  <1> QED
    BY <1>1, <1>2, <1>3, <1>4 DEF Inv

LEMMA NextInv == Inv /\ [Next]_vars => Inv'
  <1> SUFFICES ASSUME Inv, [Next]_vars
               PROVE  Inv'
    OBVIOUS
  <1>1. ASSUME NEW r \in Requests, Arrive(r) \/ ParseBody(r)
        PROVE  Inv'
    BY <1>1, ArriveSound, ParseBodySound
  <1>2. ASSUME NEW r \in Requests,
               \/ RefusalSent(r)
               \/ Reject(r)
               \/ UploadFails(r)
               \/ Work(r)
               \/ Cancel(r)
        PROVE  Inv'
    BY <1>2, SmallStepSound DEF Work
  <1>3. ASSUME NEW r \in Requests,
               SaveUpload(r) \/ StartWorker(r) \/ Resume(r) \/ Close(r) \/ Finish(r)
        PROVE  Inv'
    BY <1>3, SaveUploadSound, StartWorkerSound, ResumeSound, CloseSound, FinishSound
  <1>4. ASSUME NEW r \in Requests, CancelGranted(r) \/ CancelWaiting(r)
        PROVE  Inv'
    BY <1>4, ResumeSound, CancelWaitingSound
  <1>5. CASE UNCHANGED vars
    BY <1>5 DEF vars, Inv, Types, Holds, HasFile, Limiter
  <1> QED
    BY <1>1, <1>2, <1>3, <1>4, <1>5 DEF Next, Handle

LEMMA Invariance == Spec => []Inv
  <1> QED
    BY InitInv, NextInv, PTL DEF Spec

-----------------------------------------------------------------------------
(* The results.                                                             *)

\* Every reachable state is well typed, and only admitted requests hold a
\* worker token.
THEOREM TypeCorrect == Spec => []TypeOK
  <1>1. Inv => TypeOK
    BY DEF Inv, Types, TypeOK, Holds, Limiter
  <1> QED
    BY <1>1, Invariance, PTL

\* A busy thread has a token, so the threads are as few as the tokens.
LEMMA BusyHaveTokens ==
    ASSUME Inv
    PROVE  /\ BusyWorkers \subseteq tokens
           /\ workspaces \subseteq tokens
           /\ IsFiniteSet(tokens)
           /\ Cardinality(tokens) \in Nat
           /\ Cardinality(tokens) <= WorkerSlots
  <1>1. \A r \in Requests : worker[r] \in Busy => r \in tokens
    BY DEF Inv, Holds, Limiter, Busy
  <1>2. tokens \subseteq Requests /\ workspaces \subseteq Requests
    BY DEF Inv, Types
  <1> QED
    BY <1>1, <1>2, TokensAreFinite DEF BusyWorkers, Inv, Holds, Limiter

\* Cancelled or not, requests never have more threads at work than the
\* worker limiter has tokens.
THEOREM WorkIsBounded == Spec => []OneAnalysisAtATime
  <1>1. Inv => OneAnalysisAtATime
    <2> SUFFICES ASSUME Inv
                 PROVE  Cardinality(BusyWorkers) <= WorkerSlots
      BY DEF OneAnalysisAtATime
    <2>1. Cardinality(BusyWorkers) <= Cardinality(tokens)
      BY BusyHaveTokens, FS_Subset
    <2>2. Cardinality(BusyWorkers) \in Nat
      BY TokensAreFinite DEF BusyWorkers
    <2> QED
      BY <2>1, <2>2, BusyHaveTokens, SlotsAssumption
  <1> QED
    BY <1>1, Invariance, PTL

\* However many requests arrive, the uploads on disk are at most the
\* admission slots and the conversion workspaces at most the worker tokens.
THEOREM FilesAreBounded == Spec => []TemporaryFilesBounded
  <1>1. Inv => TemporaryFilesBounded
    <2> SUFFICES ASSUME Inv
                 PROVE  TemporaryFilesBounded
      OBVIOUS
    <2>1. Cardinality(tmp) <= AdmissionSlots
      <3>1. tmp \subseteq admitted /\ admitted \subseteq Requests
        BY DEF Inv, Types, Holds, Uploaded
      <3>2. Cardinality(tmp) <= Cardinality(admitted)
        BY <3>1, TokensAreFinite, FS_Subset
      <3>3. Cardinality(tmp) \in Nat /\ Cardinality(admitted) \in Nat
        BY <3>1, TokensAreFinite
      <3> QED
        BY <3>2, <3>3, SlotsAssumption DEF Inv
    <2>2. Cardinality(workspaces) <= WorkerSlots
      <3>1. Cardinality(workspaces) <= Cardinality(tokens)
        BY BusyHaveTokens, FS_Subset
      <3>2. Cardinality(workspaces) \in Nat
        BY TokensAreFinite DEF Inv, Types
      <3> QED
        BY <3>1, <3>2, BusyHaveTokens, SlotsAssumption
    <2> QED
      BY <2>1, <2>2 DEF TemporaryFilesBounded
  <1> QED
    BY <1>1, Invariance, PTL

\* No cancellation takes an upload from the thread that reads it.
THEOREM WorkersKeepFiles == Spec => []WorkerKeepsItsFile
  <1>1. Inv => WorkerKeepsItsFile
    BY DEF Inv, Holds, WorkerKeepsItsFile, Busy, Uploaded
  <1> QED
    BY <1>1, Invariance, PTL

\* A request that is over holds nothing, whichever await was interrupted.
THEOREM NothingIsLeaked == Spec => []NothingLeaks
  <1>1. Inv => NothingLeaks
    BY DEF Inv, Types, Holds, Limiter, Queued, NothingLeaks, Busy, Uploaded
  <1> QED
    BY <1>1, Invariance, PTL

=============================================================================
