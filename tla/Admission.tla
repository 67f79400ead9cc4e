----------------------------- MODULE Admission -----------------------------
(***************************************************************************)
(* How GeoFlow bounds its heavy work: the admission middleware, the worker *)
(* thread limiter, and the temporary files of one request, from the first  *)
(* byte of its body to the release of its slot                             *)
(* (app/concurrency.py and the upload handlers of app/main.py).            *)
(*                                                                         *)
(* A request is a task of the one event loop.  It may be cancelled at any  *)
(* await except while its function runs in a worker thread, which anyio    *)
(* shields.  The limiter is anyio's: a first-come first-served queue.      *)
(***************************************************************************)
EXTENDS Naturals, Sequences, FiniteSets

CONSTANTS
    Requests,        \* concurrent POST requests on an analysis path
    Kind,            \* what each request asks for, see Kinds
    AdmissionSlots,  \* tokens of admission_limiter (2 in the code)
    WorkerSlots      \* tokens of analysis_limiter (1 in the code)

\* "upload": import, profils/analyse, profils/{id}/tester; one file, one run.
\* "analyze": one file and one run, then a second run when no profile exists.
\* "choice": analyses/{id}/profil; no file, one run.
Kinds == {"upload", "analyze", "choice"}

ASSUME RequestsAssumption == IsFiniteSet(Requests) /\ Kind \in [Requests -> Kinds]
ASSUME SlotsAssumption == AdmissionSlots \in Nat /\ WorkerSlots \in Nat \ {0}

VARIABLES
    pc,          \* where the task of each request is
    admitted,    \* the borrowers of admission_limiter
    tokens,      \* the borrowers of analysis_limiter
    queue,       \* the tasks waiting for analysis_limiter, oldest first
    worker,      \* the worker thread of each request
    tmp,         \* requests whose temporary upload is on disk
    workspaces,  \* requests whose DWG conversion workspace is on disk
    inspected,   \* requests whose first run returned without an exception
    rerun,       \* "analyze" requests in their second run
    cancelled    \* requests whose task has been cancelled

vars == <<pc, admitted, tokens, queue, worker, tmp, workspaces, inspected,
          rerun, cancelled>>

PCs == {"idle", "refused", "parsing", "saving", "waiting", "granted",
        "running", "closing", "leaving"}
Busy == {"converting", "working"}

\* The values of the variables; a worker token is only ever held by a request
\* that holds an admission slot.
TypeOK ==
    /\ pc \in [Requests -> PCs]
    /\ admitted \subseteq Requests
    /\ tokens \subseteq admitted
    /\ queue \in Seq(Requests)
    /\ worker \in [Requests -> Busy \union {"none", "returned"}]
    /\ tmp \subseteq Requests
    /\ workspaces \subseteq Requests
    /\ inspected \subseteq Requests
    /\ rerun \subseteq Requests
    /\ cancelled \subseteq Requests

Init ==
    /\ pc = [r \in Requests |-> "idle"]
    /\ admitted = {}
    /\ tokens = {}
    /\ queue = << >>
    /\ worker = [r \in Requests |-> "none"]
    /\ tmp = {}
    /\ workspaces = {}
    /\ inspected = {}
    /\ rerun = {}
    /\ cancelled = {}

-----------------------------------------------------------------------------
(* The worker limiter.                                                      *)

AcquireAnyway(r) ==  \* mutant: the limiter is not passed to run_sync
    /\ tokens' = tokens \union {r}
    /\ pc' = [pc EXCEPT ![r] = "granted"]
    /\ UNCHANGED queue

\* run_sync asks for a token; a cancelled task raises at its first checkpoint.
Acquire(r) ==
    IF Cardinality(tokens) < WorkerSlots /\ queue = << >>
    THEN /\ tokens' = tokens \union {r}
         /\ pc' = [pc EXCEPT ![r] = "granted"]
         /\ UNCHANGED queue
    ELSE /\ queue' = Append(queue, r)
         /\ pc' = [pc EXCEPT ![r] = "waiting"]
         /\ UNCHANGED tokens

ReleaseSilently(r, next) ==  \* mutant: the next waiter is never woken
    /\ tokens' = tokens \ {r}
    /\ pc' = [pc EXCEPT ![r] = next]
    /\ UNCHANGED queue

\* The token goes to the oldest waiter, if there is one.
Release(r, next) ==
    IF queue = << >>
    THEN /\ tokens' = tokens \ {r}
         /\ pc' = [pc EXCEPT ![r] = next]
         /\ UNCHANGED queue
    ELSE /\ tokens' = (tokens \ {r}) \union {Head(queue)}
         /\ pc' = [pc EXCEPT ![r] = next, ![Head(queue)] = "granted"]
         /\ queue' = Tail(queue)

-----------------------------------------------------------------------------
(* The request.                                                             *)

HasFile(r) == Kind[r] # "choice" /\ r \notin rerun

\* Where the task goes when its run ends or is given up: the handlers that
\* hold an upload close it first.
AfterRun(r) == IF HasFile(r) THEN "closing" ELSE "leaving"

MiddlewareAdmits(r) ==  \* mutant: no admission limit, only a thread limit
    /\ pc[r] = "idle"
    /\ admitted' = admitted \union {r}
    /\ pc' = [pc EXCEPT ![r] = "parsing"]
    /\ UNCHANGED <<tokens, queue, worker, tmp, workspaces, inspected, rerun,
                   cancelled>>

\* acquire_nowait, or a 429 before the body is read.
Arrive(r) ==
    /\ pc[r] = "idle"
    /\ IF Cardinality(admitted) < AdmissionSlots
       THEN /\ admitted' = admitted \union {r}
            /\ pc' = [pc EXCEPT ![r] = "parsing"]
       ELSE /\ pc' = [pc EXCEPT ![r] = "refused"]
            /\ UNCHANGED admitted
    /\ UNCHANGED <<tokens, queue, worker, tmp, workspaces, inspected, rerun,
                   cancelled>>

\* The 429 has been sent.
RefusalSent(r) ==
    /\ pc[r] = "refused"
    /\ pc' = [pc EXCEPT ![r] = "idle"]
    /\ UNCHANGED <<admitted, tokens, queue, worker, tmp, workspaces,
                   inspected, rerun, cancelled>>

\* The body is complete: the handler starts, and creates its temporary file
\* or, for a profile choice, goes straight to the limiter.
ParseBody(r) ==
    /\ pc[r] = "parsing"
    /\ IF Kind[r] = "choice"
       THEN /\ r \notin cancelled
            /\ Acquire(r)
            /\ UNCHANGED tmp
       ELSE /\ tmp' = tmp \union {r}
            /\ pc' = [pc EXCEPT ![r] = "saving"]
            /\ UNCHANGED <<tokens, queue>>
    /\ UNCHANGED <<admitted, worker, workspaces, inspected, rerun, cancelled>>

\* A malformed body, an unknown dossier or analysis, a name that is neither
\* .dxf nor .dwg, a choice that needs a confirmation, a cancellation.
Reject(r) ==
    /\ pc[r] = "parsing"
    /\ pc' = [pc EXCEPT ![r] = IF Kind[r] = "choice" THEN "leaving" ELSE "closing"]
    /\ UNCHANGED <<admitted, tokens, queue, worker, tmp, workspaces,
                   inspected, rerun, cancelled>>

\* The last chunk has been written.
SaveUpload(r) ==
    /\ pc[r] = "saving"
    /\ r \notin cancelled
    /\ Acquire(r)
    /\ UNCHANGED <<admitted, worker, tmp, workspaces, inspected, rerun,
                   cancelled>>

\* More than 50 MiB, a full disk, or a cancellation: the partial file goes.
UploadFails(r) ==
    /\ pc[r] = "saving"
    /\ tmp' = tmp \ {r}
    /\ pc' = [pc EXCEPT ![r] = "closing"]
    /\ UNCHANGED <<admitted, tokens, queue, worker, workspaces, inspected,
                   rerun, cancelled>>

\* The task holds its token: the function starts in a thread.  Only a DWG
\* needs a conversion workspace.
StartWorker(r) ==
    /\ pc[r] = "granted"
    /\ pc' = [pc EXCEPT ![r] = "running"]
    /\ \/ /\ worker' = [worker EXCEPT ![r] = "working"]
          /\ UNCHANGED workspaces
       \/ /\ HasFile(r)
          /\ worker' = [worker EXCEPT ![r] = "converting"]
          /\ workspaces' = workspaces \union {r}
    /\ UNCHANGED <<admitted, tokens, queue, tmp, inspected, rerun, cancelled>>

\* ODA produced a DXF: the inspection reads it inside the workspace.
Converted(r) ==
    /\ worker[r] = "converting"
    /\ worker' = [worker EXCEPT ![r] = "working"]
    /\ UNCHANGED <<pc, admitted, tokens, queue, tmp, workspaces, inspected,
                   rerun, cancelled>>

\* The function returns or raises, in the thread: a conversion that fails or
\* times out, an unreadable DXF, or the end of the analysis.
WorkerEnds(r) ==
    /\ worker[r] \in Busy
    /\ worker' = [worker EXCEPT ![r] = "returned"]
    /\ workspaces' = workspaces \ {r}
    /\ \/ UNCHANGED inspected
       \/ worker[r] = "working" /\ inspected' = inspected \union {r}
    /\ UNCHANGED <<pc, admitted, tokens, queue, tmp, rerun, cancelled>>

\* The event loop resumes the task, which leaves the limiter.
Resume(r) ==
    /\ pc[r] = "running"
    /\ worker[r] = "returned"
    /\ worker' = [worker EXCEPT ![r] = "none"]
    /\ Release(r, AfterRun(r))
    /\ UNCHANGED <<admitted, tmp, workspaces, inspected, rerun, cancelled>>

KeepOnCancel(r) ==  \* mutant: no inner finally around file.close()
    IF r \in cancelled THEN tmp ELSE tmp \ {r}

\* The inner finally: the file goes even when file.close() is cancelled.
Removed(r) == tmp \ {r}

\* file.close(), then the temporary file is removed.  /analyze goes on with
\* a run of its own, without a file, when no drawing profile exists.
Close(r) ==
    /\ pc[r] = "closing"
    /\ tmp' = Removed(r)
    /\ \/ /\ pc' = [pc EXCEPT ![r] = "leaving"]
          /\ UNCHANGED <<tokens, queue, rerun>>
       \/ /\ Kind[r] = "analyze"
          /\ r \in inspected
          /\ r \notin cancelled
          /\ rerun' = rerun \union {r}
          /\ Acquire(r)
    /\ UNCHANGED <<admitted, worker, workspaces, inspected, cancelled>>

\* The response is sent, or its exception raised: the finally of the
\* middleware releases the slot.
Finish(r) ==
    /\ pc[r] = "leaving"
    /\ pc' = [pc EXCEPT ![r] = "idle"]
    /\ admitted' = admitted \ {r}
    /\ inspected' = inspected \ {r}
    /\ rerun' = rerun \ {r}
    /\ cancelled' = cancelled \ {r}
    /\ UNCHANGED <<tokens, queue, worker, tmp, workspaces>>

\* The task is cancelled: delivered at once, later, or never, by the actions
\* whose await it interrupts.
Cancel(r) ==
    /\ pc[r] \notin {"idle", "refused"}
    /\ cancelled' = cancelled \union {r}
    /\ UNCHANGED <<pc, admitted, tokens, queue, worker, tmp, workspaces,
                   inspected, rerun>>

AbandonWorker(r) ==  \* mutant: abandon_on_cancel=True
    /\ r \in cancelled
    /\ pc[r] \in {"granted", "running"}
    /\ Release(r, AfterRun(r))
    /\ UNCHANGED <<admitted, worker, tmp, workspaces, inspected, rerun,
                   cancelled>>

\* A cancelled task that has just been given the token passes it on.  Once
\* its function is in a thread the task is shielded.
CancelGranted(r) ==
    /\ r \in cancelled
    /\ pc[r] = "granted"
    /\ Release(r, AfterRun(r))
    /\ UNCHANGED <<admitted, worker, tmp, workspaces, inspected, rerun,
                   cancelled>>

StayQueued(r) ==  \* mutant: a cancelled waiter keeps its place
    queue

\* The queue without the place of r.
Unqueued(r) ==
    LET place == CHOOSE i \in 1..Len(queue) : queue[i] = r
    IN  SubSeq(queue, 1, place - 1) \o SubSeq(queue, place + 1, Len(queue))

\* A cancelled waiter leaves the queue.
CancelWaiting(r) ==
    /\ r \in cancelled
    /\ pc[r] = "waiting"
    /\ queue' = Unqueued(r)
    /\ pc' = [pc EXCEPT ![r] = AfterRun(r)]
    /\ UNCHANGED <<admitted, tokens, worker, tmp, workspaces, inspected,
                   rerun, cancelled>>

-----------------------------------------------------------------------------

Handle(r) ==
    \/ SaveUpload(r)
    \/ UploadFails(r)
    \/ StartWorker(r)
    \/ Resume(r)
    \/ Close(r)
    \/ Finish(r)

Work(r) ==
    \/ Converted(r)
    \/ WorkerEnds(r)

Next ==
    \E r \in Requests :
        \/ Arrive(r)
        \/ RefusalSent(r)
        \/ ParseBody(r)
        \/ Reject(r)
        \/ Handle(r)
        \/ Work(r)
        \/ Cancel(r)
        \/ CancelGranted(r)
        \/ CancelWaiting(r)

\* The loop runs a ready task and a thread ends: the conversion has a timeout
\* and the inspection is a finite computation.  Nothing is assumed of the
\* client: it may never finish its body, and no task need be cancelled.
Fairness == \A r \in Requests : WF_vars(Handle(r)) /\ WF_vars(Work(r))

Spec == Init /\ [][Next]_vars /\ Fairness

-----------------------------------------------------------------------------
(* Safety.                                                                  *)

BusyWorkers == {r \in Requests : worker[r] \in Busy}

\* One heavy computation at a time, cancelled requests included
\* (README: "un seul traitement lourd simultané").
OneAnalysisAtATime == Cardinality(BusyWorkers) <= WorkerSlots

\* The docstring of the middleware: at most AdmissionSlots uploads and
\* WorkerSlots workspaces are ever on disk, however many requests arrive.
TemporaryFilesBounded ==
    /\ Cardinality(tmp) <= AdmissionSlots
    /\ Cardinality(workspaces) <= WorkerSlots

\* A thread that reads an upload still has it, even when the request it
\* works for has been cancelled ("Do not abandon the worker").
WorkerKeepsItsFile ==
    \A r \in Requests :
        worker[r] \in Busy /\ HasFile(r) => r \in tmp

\* A request that is over, however it ended, holds nothing: no slot, no
\* token, no place in the queue, no thread and no file.
NothingLeaks ==
    \A r \in Requests :
        pc[r] \in {"idle", "refused"} =>
            /\ r \notin admitted \union tokens \union tmp \union workspaces
            /\ \A i \in 1..Len(queue) : queue[i] # r
            /\ worker[r] = "none"

\* Liveness: once its body is read, every admitted request is answered and
\* its slot released, whatever the others do.
AdmittedIsAnswered ==
    \A r \in Requests :
        pc[r] \in {"saving", "waiting", "granted", "running"} ~> pc[r] = "idle"

=============================================================================
