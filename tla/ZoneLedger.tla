----------------------------- MODULE ZoneLedger -----------------------------
(***************************************************************************)
(* What the review promises about surfaces, whatever it proposes: a        *)
(* contour of the plan is given to one lot at most, a surface that was     *)
(* given stays where it is, annexes alone may move or come back, and only  *)
(* another plan starts over.                                               *)
(***************************************************************************)
EXTENDS Naturals

CONSTANTS
    Drawn,  \* the contours of each plan that may be attached
    Lots,
    None

VARIABLES
    zones,  \* the zone made of each contour of the plan, None before
    plan    \* how many plans came before this one

vars == <<zones, plan>>

Kinds == {"principale", "secondaire_annexe", "commune", "exclue"}
Zones == [lot : Lots \union {None}, category : Kinds]

Blank(C) == [c \in C |-> None]
Available(c) == zones[c] = None
Mobile(c) == Available(c) \/ zones[c].category = "secondaire_annexe"

Init == plan = 0 /\ \E C \in Drawn : zones = Blank(C)

\* Free contours become zones of one lot, or of none.
Give ==
    \E z \in Zones, C \in SUBSET {c \in DOMAIN zones : Available(c)} :
        /\ zones' = [c \in DOMAIN zones |-> IF c \in C THEN z ELSE zones[c]]
        /\ UNCHANGED plan

\* Annexes are attached, each to its lot, or moved.
Attach ==
    \E C \in SUBSET {c \in DOMAIN zones : Mobile(c)} :
        /\ DOMAIN zones' = DOMAIN zones
        /\ \A c \in DOMAIN zones :
             IF c \in C THEN zones'[c] \in {z \in Zones : z.category = "secondaire_annexe"}
             ELSE zones'[c] = zones[c]
        /\ UNCHANGED plan

Detach ==
    \E c \in DOMAIN zones :
        /\ Mobile(c)
        /\ zones' = [zones EXCEPT ![c] = None]
        /\ UNCHANGED plan

StartOver == plan' = plan + 1 /\ \E C \in Drawn : zones' = Blank(C)

Next == Give \/ Attach \/ Detach \/ StartOver

Spec == Init /\ [][Next]_vars
=============================================================================
