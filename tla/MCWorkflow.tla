----------------------------- MODULE MCWorkflow -----------------------------
(* A contour of a lot, on an undeclared layer, and one of an annex, on one   *)
(* planche.  Identifiers are made by _slug: "R+1" and "R-1" have the same.   *)
EXTENDS Workflow, TLC

CONSTANTS p, x, sheet, annex, metre, millimetre

MCSheet == p :> sheet @@ x :> sheet
MCLayer == p :> None @@ x :> annex

MCBuildingId == "A" :> "batiment-a"
MCLevelId == <<"batiment-a", "RdC">> :> "niveau-a-rdc"
             @@ <<"batiment-a", "R+1">> :> "niveau-a-r-1"
             @@ <<"batiment-a", "R-1">> :> "niveau-a-r-1"
             @@ <<"batiment-a", "A preciser">> :> "niveau-a-a-preciser"
LevelIdOf(levels) == [l \in {"batiment-a"} \X levels |-> MCLevelId[l]]

TwoLevels == {"RdC", "A preciser"}
TwoLevelIds == LevelIdOf(TwoLevels)
AllLevels == {"R+1", "R-1", "A preciser"}
AllLevelIds == LevelIdOf(AllLevels)

MCLotId == "1" :> "lot-1" @@ "2" :> "lot-2"
OneLotId == "1" :> "lot-1"

=============================================================================
