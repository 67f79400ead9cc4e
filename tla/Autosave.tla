------------------------------ MODULE Autosave ------------------------------
(***************************************************************************)
(* The autosave of the dossier pages (app/static/app.js, 9-85): every      *)
(* change of a field, and every submission, posts its form with fetch,     *)
(* without waiting for the answer to the previous post.  The browser may carry two posts on two    *)
(* connections, so the server handles them, and the answers come back, in  *)
(* any order; a request or an answer may also be lost, and fetch rejects.  *)
(* A form is one field here, with the value it shows and the value the     *)
(* dossier holds.  The page asks nobody to wait for the answer to a save   *)
(* before the next change.                                                 *)
(***************************************************************************)
EXTENDS Integers, FiniteSets

CONSTANTS
    Forms,     \* forms with data-autosave on the page
    Values,    \* what a field may hold
    Initial,   \* what the page was served with
    Invalid,   \* values reportValidity() refuses
    MaxEdits   \* bound on the changes and submissions of the page

ASSUME AutosaveAssumption ==
    /\ Initial \in Values \ Invalid
    /\ Invalid \subseteq Values
    /\ MaxEdits \in Nat

VARIABLES
    shown,     \* the value each form shows
    stored,    \* the value the dossier holds
    local,     \* the status next to each form
    global,    \* the status of the page
    pending,   \* pendingSaves
    requests,  \* posts the server has not handled: [n, form, value]
    answers,   \* settled fetches the page has not seen: [n, form, ok]
    edits,     \* number of changes and submissions
    burst,     \* history: the values a form was given since it last was at rest
    page       \* "open", or how it was left: "left", "warned"

vars == <<shown, stored, local, global, pending, requests, answers, edits, burst,
          page>>

InFlight(f) == {m \in requests \union answers : m.form = f}

Init ==
    /\ shown = [f \in Forms |-> Initial]
    /\ stored = [f \in Forms |-> Initial]
    /\ local = [f \in Forms |-> "none"]
    /\ global = "none"
    /\ pending = 0
    /\ requests = {}
    /\ answers = {}
    /\ edits = 0
    /\ burst = [f \in Forms |-> {}]
    /\ page = "open"

SetSaveStatus(f, status) ==
    /\ local' = [local EXCEPT ![f] = status]
    /\ global' = status

-----------------------------------------------------------------------------
\* "change" of a field, or "submit" of the form as it is.  At rest, with no
\* save in flight, a form starts a new burst.
Change(f, v) ==
    /\ page = "open"
    /\ edits < MaxEdits
    /\ edits' = edits + 1
    /\ burst' = [burst EXCEPT ![f] = IF InFlight(f) = {} THEN {v} ELSE @ \union {v}]
    /\ shown' = [shown EXCEPT ![f] = v]

\* autosave(form), up to its first await.
Post(f, v) ==
    /\ Change(f, v)
    /\ v \notin Invalid
    /\ SetSaveStatus(f, "saving")
    /\ pending' = pending + 1
    /\ requests' = requests \union {[n |-> edits, form |-> f, value |-> v]}
    /\ UNCHANGED <<stored, answers, page>>

Refuse(f, v) ==
    /\ Change(f, v)
    /\ v \in Invalid
    /\ SetSaveStatus(f, "error")
    /\ UNCHANGED <<stored, pending, requests, answers, page>>

Settle(r, ok) ==
    /\ requests' = requests \ {r}
    /\ answers' = answers \union {[n |-> r.n, form |-> r.form, ok |-> ok]}
    /\ UNCHANGED <<shown, local, global, pending, edits, burst, page>>

\* The handler of the form: the whole form is stored, or a 4xx refuses it.
Serve(r) ==
    \/ stored' = [stored EXCEPT ![r.form] = r.value] /\ Settle(r, TRUE)
    \/ UNCHANGED stored /\ Settle(r, FALSE)

\* The connection breaks after, or before, the server handled the post.
LoseAnswer(r) == stored' = [stored EXCEPT ![r.form] = r.value] /\ Settle(r, FALSE)
LoseRequest(r) == UNCHANGED stored /\ Settle(r, FALSE)

\* Mutant: the answer is not looked at.
AnyAnswerIsGood(a) == SetSaveStatus(a.form, "saved")

\* Mutant: an error is not caught, nothing is shown.
SilentFailure(a) ==
    IF a.ok THEN SetSaveStatus(a.form, "saved") ELSE UNCHANGED <<local, global>>

\* The rest of the try, or the catch.
ShowAnswer(a) == SetSaveStatus(a.form, IF a.ok THEN "saved" ELSE "error")

\* Mutant: the decrement is the last line of the try.
CountSuccesses(a) == pending' = IF a.ok THEN pending - 1 ELSE pending

\* Mutant: the catch decrements as well.
CountErrorsTwice(a) == pending' = IF a.ok THEN pending - 1 ELSE pending - 2

\* Mutant: a flag instead of a counter.
ClearFlag(a) == pending' = 0

\* The finally clause.
CountAnswer(a) == pending' = pending - 1

Receive(a) ==
    /\ page = "open"
    /\ answers' = answers \ {a}
    /\ ShowAnswer(a)
    /\ CountAnswer(a)
    /\ UNCHANGED <<shown, stored, requests, edits, burst, page>>

\* beforeunload: the browser asks when a save is pending.
Leave ==
    /\ page = "open"
    /\ page' = IF pending > 0 THEN "warned" ELSE "left"
    /\ UNCHANGED <<shown, stored, local, global, pending, requests, answers, edits,
                   burst>>

User == Leave \/ \E f \in Forms, v \in Values : Post(f, v) \/ Refuse(f, v)
Network == \E r \in requests : Serve(r) \/ LoseAnswer(r) \/ LoseRequest(r)
Browser == \E a \in answers : Receive(a)

Next == User \/ Network \/ Browser

\* Every fetch settles one day, and the page handles its settling; users owe
\* nothing.
Spec == Init /\ [][Next]_vars /\ WF_vars(Network) /\ WF_vars(Browser)

-----------------------------------------------------------------------------
Statuses == {"none", "saving", "saved", "error"}

\* Each message is of a known form, and no two carry one number.
TypeOK ==
    /\ shown \in [Forms -> Values]
    /\ stored \in [Forms -> Values \ Invalid]
    /\ local \in [Forms -> Statuses]
    /\ global \in Statuses
    /\ pending \in 0..MaxEdits
    /\ requests \subseteq [n : 0..MaxEdits, form : Forms, value : Values \ Invalid]
    /\ answers \subseteq [n : 0..MaxEdits, form : Forms, ok : BOOLEAN]
    /\ edits \in 0..MaxEdits
    /\ burst \in [Forms -> SUBSET Values]
    /\ page \in {"open", "left", "warned"}
    /\ \A m1, m2 \in requests \union answers : m1.n = m2.n => m1 = m2

\* pendingSaves counts the saves on their way and nothing else: a page is not
\* left without the browser's warning while one of them may be lost, and once
\* every save has been answered, or has failed, nothing holds the user back
\* (app.js:25-27, 36 and 59).
SavesAreCounted ==
    /\ pending = Cardinality(requests) + Cardinality(answers)
    /\ page = "left" => requests = {} /\ answers = {}

Settled(f) == InFlight(f) = {} /\ local[f] = "saved"

\* README.md:31, "enregistrés à chaque changement, avec un retour visible":
\* once the saves of a form are answered and it says saved, whatever was lost,
\* refused or reordered, the value it shows and the one the dossier holds are
\* of one burst: nothing from before is left, and they are one value for a user
\* who waited before the last change, however hurried the changes before it.
\* Within a burst an older value may win (app.js:37).
SavedMeansStored == \A f \in Forms : Settled(f) => {shown[f], stored[f]} \subseteq burst[f]

\* "Enregistrement..." never stays: the form ends saved or in error, unless
\* the page is left.
StatusSettles ==
    \A f \in Forms : local[f] = "saving" ~> local[f] # "saving" \/ page # "open"
=============================================================================
