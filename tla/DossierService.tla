--------------------------- MODULE DossierService --------------------------
(***************************************************************************)
(* What the dossier store promises its users: each dossier changes one     *)
(* whole operation at a time, always from its current value.  An import is *)
(* one such operation, however long its analysis takes.  No two dossiers   *)
(* share a reference, and a deleted dossier never comes back.              *)
(***************************************************************************)
EXTENDS DossierData

VARIABLE store

Live(id) == store[id] \notin {NotCreated, Deleted}

\* No other dossier uses the reference.
Available(reference, id) ==
    \A other \in Ids \ {id} :
        Live(other) => ~SameReference(store[other].content.reference, reference)

Init == store = [id \in Ids |-> NotCreated]

Put(id, dossier) == store' = [store EXCEPT ![id] = dossier]

Create(id) ==
    /\ store[id] = NotCreated
    /\ \E reference \in References :
        /\ Available(reference, id)
        /\ \/ Put(id, NewDossier(reference))
           \/ \E plan \in Plans : Put(id, Promoted(reference, plan))

Rename(id) ==
    /\ Live(id)
    /\ \E reference \in References :
        /\ Available(reference, id)
        /\ Put(id, Renamed(store[id], reference))

Identify(id) ==
    /\ Live(id)
    /\ \E identity \in Identities : Put(id, Identified(store[id], identity))

Review(id) ==
    /\ Live(id)
    /\ \E review \in ReviewsOf(store[id]) : Put(id, Reviewed(store[id], review))

Import(id) ==
    /\ Live(id)
    /\ \E plan \in Plans : Put(id, Imported(store[id], plan))

Validate(id) ==
    /\ Live(id)
    /\ Ready(store[id])
    /\ Put(id, Validated(store[id]))

Generate(id) ==
    /\ Live(id)
    /\ HasCurrentValidation(store[id])
    /\ Put(id, Generated(store[id]))

Delete(id) ==
    /\ Live(id)
    /\ Put(id, Deleted)

Next ==
    \E id \in Ids :
        \/ Create(id)
        \/ Rename(id)
        \/ Identify(id)
        \/ Review(id)
        \/ Import(id)
        \/ Validate(id)
        \/ Generate(id)
        \/ Delete(id)

Spec == Init /\ [][Next]_store

=============================================================================
