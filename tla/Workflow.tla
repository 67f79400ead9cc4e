------------------------------ MODULE Workflow ------------------------------
(***************************************************************************)
(* The review of one dossier (app/workflow.py) and what stands between it  *)
(* and a document (app/documents/context.py).                              *)
(*                                                                         *)
(* A zone candidate of the plan becomes a zone when a user associates it   *)
(* with a building, a level and, mostly, a lot.  Lots and zones refer to   *)
(* each other and to the structure by identifiers made from what the user  *)
(* typed.  Surfaces, texts and the geometry of the proposals are left out. *)
(* A request that raises ValueError saves nothing and is not a step.       *)
(***************************************************************************)
EXTENDS Integers, FiniteSets, FiniteSetsExt

CONSTANTS
    Candidates,  \* closed contours of the plan
    Annexes,     \* those on a layer of annexes
    Sheets,      \* planches
    Layers,
    Sheet,       \* the planche of each candidate
    Layer,       \* the layer of each candidate, None if the plan does not declare it
    Buildings,   \* building codes, as typed
    Levels,      \* level codes, as typed
    ToBeDefined, \* the level "À préciser"
    Numbers,     \* lot numbers, as typed
    BuildingId, LevelId, LotId,  \* the identifiers made from them by _slug
    Shares,      \* values of millièmes
    Units,       \* units that convert to metres
    None,
    MaxImports   \* bound on the plans imported

ASSUME WorkflowAssumption ==
    /\ Annexes \subseteq Candidates
    /\ Sheet \in [Candidates -> Sheets]
    /\ Layer \in [Candidates -> Layers \union {None}]
    /\ ToBeDefined \in Levels
    /\ DOMAIN BuildingId = Buildings
    /\ DOMAIN LevelId = {BuildingId[b] : b \in Buildings} \X Levels
    /\ DOMAIN LotId = Numbers
    /\ Shares \subseteq Nat
    /\ None \notin Shares /\ None \notin Numbers
    /\ None \notin Units \union Layers
    /\ MaxImports \in Nat \ {0}

VARIABLES
    imports,    \* plans attached so far
    unit,       \* unite_retenue, None as long as it is not confirmed
    review,     \* the status of each planche and layer
    structure,  \* buildings, levels, lots, zones, status of the candidates
    milliemes,  \* by lot identifier
    complete,   \* grille_milliemes_complete
    checks,     \* reconciliation.controles_globaux
    valid,      \* the data is validated
    failed      \* a handler raised what no route catches

vars == <<imports, unit, review, structure, milliemes, complete, checks,
          valid, failed>>

Categories == {"principale", "secondaire_annexe", "commune", "exclue"}
Reviews == {"candidate", "retenue", "exclue"}
BuildingIds == {BuildingId[b] : b \in Buildings}
LevelIds == {LevelId[l] : l \in DOMAIN LevelId}
LotIds == {LotId[n] : n \in Numbers}
Zones == [building : BuildingIds, level : LevelIds, lot : LotIds \union {None},
          category : Categories, unit : Units]
Lots == [buildings : SUBSET BuildingIds, levels : SUBSET LevelIds,
         zones : SUBSET Candidates]

ASSUME MarkerAssumption == None \notin LotIds /\ None \notin Zones /\ None \notin Lots

-----------------------------------------------------------------------------
(* The structure: buildings are their codes, levels pairs of a building     *)
(* identifier and a code, lots go by their number.                          *)

Empty == [buildings |-> {}, levels |-> {}, lots |-> [n \in Numbers |-> None],
          zones |-> [c \in Candidates |-> None],
          status |-> [c \in Candidates |-> "candidate"]]

LotNumbers(s) == {n \in Numbers : s.lots[n] # None}
Zoned(s) == {c \in Candidates : s.zones[c] # None}

\* The lot of that number, or a new one.
LotOf(s, n) == IF s.lots[n] = None
               THEN [buildings |-> {}, levels |-> {}, zones |-> {}]
               ELSE s.lots[n]

BuildingOf(a) == BuildingId[a.building]
LevelOf(a) == LevelId[<<BuildingOf(a), a.level>>]

\* Mutant: the zone keeps the number of its lot instead of the identifier.
ZoneByNumber(a) == [building |-> BuildingOf(a), level |-> LevelOf(a), lot |-> a.lot,
                    category |-> a.category, unit |-> unit]

\* The surfaces of a zone are copied: they stay in the unit of that moment.
ZoneOf(a) == [building |-> BuildingOf(a), level |-> LevelOf(a),
              lot |-> IF a.lot = None THEN None ELSE LotId[a.lot],
              category |-> a.category, unit |-> unit]

\* associate_candidate, for each association of a batch.
Associate(s, batch) ==
    [buildings |-> s.buildings \union {a.building : a \in batch},
     levels |-> s.levels \union {<<BuildingOf(a), a.level>> : a \in batch},
     lots |-> [n \in Numbers |->
         LET new == {a \in batch : a.lot = n}
             lot == LotOf(s, n)
         IN  IF new = {} THEN s.lots[n]
             ELSE [buildings |-> lot.buildings \union {BuildingOf(a) : a \in new},
                   levels |-> lot.levels \union {LevelOf(a) : a \in new},
                   zones |-> lot.zones \union {a.candidate : a \in new}]],
     zones |-> [c \in Candidates |->
         IF \E a \in batch : a.candidate = c
         THEN ZoneOf(CHOOSE a \in batch : a.candidate = c)
         ELSE s.zones[c]],
     status |-> [c \in Candidates |->
         IF \E a \in batch : a.candidate = c
         THEN IF \E a \in batch : a.candidate = c /\ a.category = "exclue"
              THEN "exclue" ELSE "retenue"
         ELSE s.status[c]]]

\* Mutant: the lot forgets the zone and keeps its level.
KeepLevels(s, lot, gone) == [lot EXCEPT !.zones = @ \ gone]

\* Mutant: only the zones are dropped, their lot still lists them.
LotUntouched(s, lot, gone) == lot

\* What is left of a lot: the levels and buildings of its other zones.
Without(s, lot, gone) ==
    LET left == lot.zones \ gone
    IN  IF lot.zones \intersect gone = {} THEN lot
        ELSE [buildings |-> {b \in lot.buildings : \E c \in left : s.zones[c].building = b},
              levels |-> {l \in lot.levels : \E c \in left : s.zones[c].level = l},
              zones |-> left]

\* Mutant: the candidate stays marked as retained.
StatusKept(s, gone) == s.status

StatusWithout(s, gone) ==
    [c \in Candidates |-> IF c \in gone THEN "candidate" ELSE s.status[c]]

LotWithout(s, n, gone) ==
    IF s.lots[n] = None THEN None ELSE Without(s, s.lots[n], gone)

\* _remove_zone, for each zone of a set.  Lots and buildings stay.
RemoveZones(s, gone) ==
    LET used == {s.zones[c].level : c \in Zoned(s) \ gone}
    IN  [buildings |-> s.buildings,
         levels |-> {l \in s.levels : LevelId[l] \in used},
         lots |-> [n \in Numbers |-> LotWithout(s, n, gone)],
         zones |-> [c \in Candidates |-> IF c \in gone THEN None ELSE s.zones[c]],
         status |-> StatusWithout(s, gone)]

-----------------------------------------------------------------------------
(* Reconciliation, as far as the review depends on it.                      *)

\* lots_constitues, zones_retenues_affectees; the other blocking checks are
\* about the proposals, which are rebuilt by every reconciliation.
Checks(s, unresolved) ==
    [empty |-> {n \in LotNumbers(s) : s.lots[n].zones = {}},
     unassigned |-> {c \in Candidates \ Zoned(s) : s.status[c] = "retenue"},
     unresolved |-> unresolved]

\* Mutant: the checks of the last reconciliation are kept.
KeepChecks(s) == UNCHANGED checks

\* reconcile_dossier.
Reconcile(s) == \E unresolved \in BOOLEAN : checks' = Checks(s, unresolved)

\* A planche or a layer that the user excluded excludes its contours.
Excluded(c) == \/ review[Sheet[c]] = "exclue"
               \/ Layer[c] # None /\ review[Layer[c]] = "exclue"

\* A business zone candidate of category "secondaire_annexe".
IsAnnex(c) == c \in Annexes /\ ~Excluded(c)

\* Mutant: the validation outlives the change.
StillValid == UNCHANGED valid

Invalidate == valid' = FALSE

-----------------------------------------------------------------------------
(* Plan, unit, planches and layers.                                         *)

Init ==
    /\ structure = Empty
    /\ milliemes = [id \in LotIds |-> None]
    /\ complete = FALSE
    /\ valid = FALSE
    /\ failed = FALSE
    /\ \/ /\ imports = 0   \* create_dossier
          /\ unit = None
          /\ review = [x \in Sheets \union Layers |-> "candidate"]
          /\ checks = Checks(Empty, FALSE)
       \/ /\ imports = 1   \* promote_quick_analysis
          /\ unit \in Units \union {None}
          /\ review \in {f \in [Sheets \union Layers -> Reviews] :
                           \A x \in Layers \ Sheets : f[x] = "candidate"}
          /\ \E unresolved \in BOOLEAN : checks = Checks(Empty, unresolved)

\* Mutant: the zones of the previous plan are kept.
NewReview == structure

FreshReview == Empty

\* attach_import: the unit may be unknown; millièmes are kept.
AttachImport ==
    /\ imports < MaxImports
    /\ imports' = imports + 1
    /\ unit' \in Units \union {None}
    /\ review' = [x \in Sheets \union Layers |-> "candidate"]
    /\ structure' = FreshReview
    /\ Reconcile(structure')
    /\ Invalidate
    /\ UNCHANGED <<milliemes, complete, failed>>

\* apply_confirmed_unit converts the candidates, not the zones.
ConfirmUnit(retained) ==
    /\ imports > 0
    /\ unit' = retained
    /\ Reconcile(structure)
    /\ Invalidate
    /\ UNCHANGED <<imports, review, structure, milliemes, complete, failed>>

SetStatus(x, status) ==
    /\ imports > 0
    /\ review' = [review EXCEPT ![x] = status]
    /\ Reconcile(structure)
    /\ Invalidate
    /\ UNCHANGED <<imports, unit, structure, milliemes, complete, failed>>

-----------------------------------------------------------------------------
(* Zones and lots.                                                          *)

\* Otherwise the surface of a contour in square metres is unknown.
UnitConfirmed == imports > 0 /\ unit # None

Change(s) ==
    /\ structure' = s
    /\ Reconcile(s)
    /\ Invalidate
    /\ UNCHANGED <<imports, unit, review, milliemes, complete, failed>>

\* validate_zone: associate_candidate and reconcile_dossier.
ValidateZone(c, b, l, n, category) ==
    /\ UnitConfirmed
    /\ structure.zones[c] = None
    /\ Change(Associate(structure, {[candidate |-> c, building |-> b, level |-> l,
                                     lot |-> n, category |-> category]}))

\* A selected contour is free or already belongs to the lot.
Assignable(c, n) == structure.zones[c] # None => structure.zones[c].lot = LotId[n]

\* The contours a proposal may hold: principal ones nobody excluded.
Proposable == {c \in Candidates \ Annexes : ~Excluded(c)}

\* confirm_lot_proposal: the zones that exist already stay as they are.
ConfirmLot(selected, b, l, n, category) ==
    LET new == {c \in selected : structure.zones[c] = None}
    IN  /\ imports > 0
        /\ UnitConfirmed \/ new = {}
        /\ selected # {}
        /\ \A c \in selected : Assignable(c, n)
        /\ Change(Associate(structure,
               {[candidate |-> c, building |-> b, level |-> l, lot |-> n,
                 category |-> category] : c \in new}))

\* The checks of _attach_annex that come before any change.
Attachable(c, n) ==
    /\ IsAnnex(c)
    /\ structure.zones[c] # None => structure.zones[c].category = "secondaire_annexe"
    /\ n # None => n \in LotNumbers(structure) /\ structure.lots[n].buildings # {}

\* The codes of the levels with the identifier of the zone: one, unless labels
\* collide.  The handler looks at the first in the list.
CodesOf(zone) == {level[2] : level \in {m \in structure.levels : LevelId[m] = zone.level}}

\* The zone is already where the request wants it.
Unmoved(c, l, n) ==
    LET zone == structure.zones[c]
    IN  IF zone = None THEN n = None
        ELSE /\ n # None
             /\ zone.lot = LotId[n]
             /\ CodesOf(zone) = {l}

Detached(c) ==
    IF structure.zones[c] = None THEN structure ELSE RemoveZones(structure, {c})

DetachAnnex(c) ==
    /\ Attachable(c, None)
    /\ ~Unmoved(c, ToBeDefined, None)
    /\ Change(Detached(c))

\* The annex is removed from its lot before it is associated again, in a
\* building of the lot it goes to.
AttachAnnex(c, l, n) ==
    LET s == Detached(c)
    IN  /\ Attachable(c, n)
        /\ ~Unmoved(c, l, n)
        /\ UnitConfirmed
        /\ \E b \in s.buildings :
            /\ BuildingId[b] \in s.lots[n].buildings
            /\ Change(Associate(s, {[candidate |-> c, building |-> b, level |-> l,
                                     lot |-> n, category |-> "secondaire_annexe"]}))

\* lot.batiment_ids[0] of a lot that _remove_zone has just emptied: IndexError,
\* answered by a 500.
AttachAnnexFails(c, l, n) ==
    /\ Attachable(c, n)
    /\ ~Unmoved(c, l, n)
    /\ Detached(c).lots[n].buildings = {}
    /\ failed' = TRUE
    /\ UNCHANGED <<imports, unit, review, structure, milliemes, complete,
                   checks, valid>>

\* attach_proposed_annexes: every annex waiting for confirmation goes to the
\* lot proposed for it; one that may not be attached makes the whole fail.
AttachProposedAnnexes(proposal) ==
    LET pending == {c \in DOMAIN proposal : proposal[c] \in LotNumbers(structure)}
        s == RemoveZones(structure, pending \intersect Zoned(structure))
    IN  /\ UnitConfirmed
        /\ pending # {}
        /\ \A c \in pending : Attachable(c, proposal[c])
        /\ \E place \in [pending -> structure.buildings] :
            /\ \A c \in pending :
                BuildingId[place[c]] \in structure.lots[proposal[c]].buildings
            /\ Change(Associate(s,
                 {[candidate |-> c, building |-> place[c], level |-> ToBeDefined,
                   lot |-> proposal[c], category |-> "secondaire_annexe"] : c \in pending}))

\* Only an annex without a lot is proposed one.
ProposedAnnexes ==
    {c \in Candidates : /\ IsAnnex(c)
                        /\ structure.zones[c] # None => structure.zones[c].lot = None}

-----------------------------------------------------------------------------
(* Millièmes and validation.                                                *)

\* Mutant: the lot is not looked up.
UpdateAnyShare(n, share) ==
    /\ milliemes' = [milliemes EXCEPT ![LotId[n]] = share]
    /\ Invalidate
    /\ UNCHANGED <<imports, unit, review, structure, complete, checks, failed>>

\* update_lot_metadata; None empties the field.
UpdateShare(n, share) ==
    /\ n \in LotNumbers(structure)
    /\ milliemes' = [milliemes EXCEPT ![LotId[n]] = share]
    /\ Invalidate
    /\ UNCHANGED <<imports, unit, review, structure, complete, checks, failed>>

SetGridComplete(value) ==
    /\ complete' = value
    /\ Invalidate
    /\ UNCHANGED <<imports, unit, review, structure, milliemes, checks, failed>>

Retained == {c \in Zoned(structure) : structure.zones[c].category # "exclue"}
KnownLots == {LotId[n] : n \in LotNumbers(structure)}
Given == {id \in LotIds : milliemes[id] # None}

IdentifiersUnique ==
    /\ \A b, d \in structure.buildings : BuildingId[b] = BuildingId[d] => b = d
    /\ \A l, m \in structure.levels : LevelId[l] = LevelId[m] => l = m
    /\ \A n, o \in LotNumbers(structure) : LotId[n] = LotId[o] => n = o

KnownBuildings == {BuildingId[b] : b \in structure.buildings}
KnownLevels == {LevelId[l] : l \in structure.levels}

\* Every reference of a level, a lot or a retained zone leads somewhere.
ReferencesResolved ==
    /\ \A l \in structure.levels : l[1] \in KnownBuildings
    /\ \A n \in LotNumbers(structure) :
        LET lot == structure.lots[n]
        IN  /\ lot.buildings \subseteq KnownBuildings
            /\ lot.levels \subseteq KnownLevels
            /\ \A c \in lot.zones :
                c \in Zoned(structure) /\ structure.zones[c].lot = LotId[n]
    /\ \A c \in Retained :
        LET zone == structure.zones[c]
        IN  /\ zone.building \in KnownBuildings
            /\ \E l \in structure.levels : LevelId[l] = zone.level /\ l[1] = zone.building
            /\ zone.lot \in KnownLots \union {None}

Total(share, ids) == MapThenSumSet(LAMBDA id : share[id], ids)
TotalIs1000 == Total(milliemes, Given) = 1000

GridSound == complete => KnownLots \subseteq Given /\ TotalIs1000

\* assess_generation_readiness has no blocker.
Ready ==
    /\ imports > 0 /\ unit # None
    /\ \E x \in Sheets : review[x] = "retenue"
    /\ Retained # {}
    /\ checks.empty = {} /\ checks.unassigned = {} /\ ~checks.unresolved
    /\ IdentifiersUnique
    /\ ReferencesResolved
    /\ \A c \in Retained :
        structure.zones[c].lot # None \/ structure.zones[c].category = "commune"
    /\ Given \subseteq KnownLots
    /\ GridSound

ValidateData ==
    /\ Ready
    /\ valid' = TRUE
    /\ UNCHANGED <<imports, unit, review, structure, milliemes, complete,
                   checks, failed>>

-----------------------------------------------------------------------------

Next ==
    \/ AttachImport
    \/ \E retained \in Units : ConfirmUnit(retained)
    \/ \E x \in Sheets \union Layers, status \in Reviews : SetStatus(x, status)
    \/ \E b \in Buildings, l \in Levels, category \in Categories :
        \/ \E c \in Candidates, n \in Numbers \union {None} :
            ValidateZone(c, b, l, n, category)
        \/ \E selected \in SUBSET Proposable, n \in Numbers :
            ConfirmLot(selected, b, l, n, category)
    \/ \E c \in Candidates : DetachAnnex(c)
    \/ \E c \in Candidates, l \in Levels, n \in Numbers :
        AttachAnnex(c, l, n) \/ AttachAnnexFails(c, l, n)
    \/ \E proposal \in [ProposedAnnexes -> Numbers \union {None}] :
        AttachProposedAnnexes(proposal)
    \/ \E n \in Numbers, share \in Shares \union {None} : UpdateShare(n, share)
    \/ \E value \in BOOLEAN : SetGridComplete(value)
    \/ ValidateData

Spec == Init /\ [][Next]_vars

-----------------------------------------------------------------------------
\* Zones and lots refer to each other by identifiers, lots to a structure.
TypeOK ==
    /\ imports \in 0..MaxImports
    /\ unit \in Units \union {None}
    /\ {complete, valid, failed} \subseteq BOOLEAN
    /\ review \in [Sheets \union Layers -> Reviews]
    /\ structure.buildings \subseteq Buildings
    /\ structure.levels \subseteq BuildingIds \X Levels
    /\ \A n \in LotNumbers(structure) : structure.lots[n] \in Lots
    /\ \A c \in Zoned(structure) : structure.zones[c] \in Zones
    /\ structure.status \in [Candidates -> Reviews]
    /\ milliemes \in [LotIds -> Shares \union {None}]
    /\ checks.empty \subseteq Numbers /\ checks.unassigned \subseteq Candidates

\* Nothing is left behind when annexes are moved and detached: a zone of a lot is
\* listed by one lot and no other, even if two numbers make one identifier, the
\* levels and buildings of a lot are those of its zones, and a zone uses each level
\* ("Drop a zone and the structure entries only it was using", workflow.py:683).
LotsFollowZones ==
    /\ \A n \in LotNumbers(structure) :
        LET lot == structure.lots[n]
        IN  /\ lot.zones \subseteq {c \in Zoned(structure) : structure.zones[c].lot = LotId[n]}
            /\ lot.buildings = {structure.zones[c].building : c \in lot.zones}
            /\ lot.levels = {structure.zones[c].level : c \in lot.zones}
    /\ \A c \in Zoned(structure) :
        structure.zones[c].lot # None => \E n \in LotNumbers(structure) : c \in structure.lots[n].zones
    /\ \A n, o \in LotNumbers(structure) :
        n # o => structure.lots[n].zones \intersect structure.lots[o].zones = {}
    /\ KnownLevels = {structure.zones[c].level : c \in Zoned(structure)}

\* No sequence of associations, moves and detachments meets the blockers about
\* unknown or wrong structure (context.py:92-131).
ReferencesHold == ReferencesResolved

\* A contour is marked as retained or excluded exactly when it is a zone, so
\* none is ever reported as retained without a lot (engine.py:711-733).
StatusFollowsZones ==
    \A c \in Candidates :
        (structure.status[c] = "candidate") <=> (structure.zones[c] = None)

\* Surfaces are only ever measured in a known unit: there is no zone while the
\* unit is not confirmed, not even after another plan (workflow.py:446).
ZonesNeedUnit == Zoned(structure) # {} => imports > 0 /\ unit # None

\* A zone is recorded in zones, in its lot, in the levels and in the status of
\* its candidate: no sequence of associations, confirmations, moves,
\* detachments and imports makes the records disagree (workflow.py:434-803).
StructureHolds == LotsFollowZones /\ ReferencesHold /\ StatusFollowsZones /\ ZonesNeedUnit

\* The stored checks that readiness reads are those of the current structure,
\* although they are only computed by a reconciliation (context.py:81-84).
ChecksAreCurrent ==
    \E unresolved \in BOOLEAN : checks = Checks(structure, unresolved)

\* Data marked as valid can be documented: no change made since the validation
\* has brought a blocker (main.py:1279 against main.py:1259).
ValidIsReady == valid => Ready

\* Millièmes whose lot is gone: they block the validation (context.py:190).
Orphans == Given \ KnownLots

\* Another plan leaves millièmes behind, those of every lot, as attach_import
\* keeps them and clears the lots.  No other change ever makes one lose its lot,
\* and then nothing but a lot of that number, constituted again, takes the
\* blocker away (workflow.py:195 and 323).
MilliemesFollowLots ==
    [][Orphans' = (IF imports' = imports THEN Orphans ELSE Given) \ KnownLots']_vars

\* _attach_annex's docstring: "Attach an annex to a constituted lot, move it,
\* or detach it": a request that passes the checks is not answered by a 500.
MovesSucceed == ~failed

\* The labels a user types never make two entries of the structure collide
\* (lots.html:159 proposes "RdC, R+1, Sous-sol"; context.py:86).
LabelsDoNotCollide == IdentifiersUnique

\* The surfaces of the zones are in the unit the document announces: no surface
\* is invented (README.md:218-219), although the unit may be confirmed again.
SurfacesInTheUnit == \A c \in Zoned(structure) : structure.zones[c].unit = unit
=============================================================================
