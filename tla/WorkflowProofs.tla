--------------------------- MODULE WorkflowProofs ---------------------------
(***************************************************************************)
(* Proofs about the review of one dossier, for every plan, every structure *)
(* a user types and every set of identifiers, colliding ones included: its *)
(* records never disagree, the stored checks are those of the structure,   *)
(* and data marked as valid has no blocker.                                *)
(***************************************************************************)
EXTENDS Workflow, TLAPS

-----------------------------------------------------------------------------
(* What every operation on the structure preserves.                         *)

Typed(s) ==
    /\ s.buildings \subseteq Buildings
    /\ s.levels \subseteq BuildingIds \X Levels
    /\ s.lots \in [Numbers -> Lots \union {None}]
    /\ s.zones \in [Candidates -> Zones \union {None}]
    /\ s.status \in [Candidates -> Reviews]

\* A zone is in a known building and on a known level of it.
Placed(s) ==
    \A c \in Zoned(s) :
        /\ \E b \in s.buildings : BuildingId[b] = s.zones[c].building
        /\ \E l \in s.levels : LevelId[l] = s.zones[c].level /\ l[1] = s.zones[c].building

\* A level is in a known building and some zone is on it.
Used(s) ==
    \A l \in s.levels :
        /\ \E b \in s.buildings : BuildingId[b] = l[1]
        /\ \E c \in Zoned(s) : s.zones[c].level = LevelId[l]

\* The record of a lot is that of the zones it lists.
Holds(s, n) ==
    /\ \A c \in s.lots[n].zones : c \in Zoned(s) /\ s.zones[c].lot = LotId[n]
    /\ s.lots[n].buildings = {s.zones[c].building : c \in s.lots[n].zones}
    /\ s.lots[n].levels = {s.zones[c].level : c \in s.lots[n].zones}

\* A zone of a lot is listed by one lot.
Listed(s) ==
    /\ \A c \in Zoned(s) :
        s.zones[c].lot # None => \E n \in LotNumbers(s) : c \in s.lots[n].zones
    /\ \A n, o \in LotNumbers(s) : n # o => s.lots[n].zones \intersect s.lots[o].zones = {}

Marked(s) == \A c \in Candidates : (s.status[c] = "candidate") <=> (s.zones[c] = None)

Sound(s) ==
    /\ Typed(s)
    /\ Placed(s)
    /\ Used(s)
    /\ \A n \in LotNumbers(s) : Holds(s, n)
    /\ Listed(s)
    /\ Marked(s)

-----------------------------------------------------------------------------
(* The inductive invariant.                                                 *)

Types ==
    /\ imports \in 0..MaxImports
    /\ unit \in Units \union {None}
    /\ complete \in BOOLEAN /\ valid \in BOOLEAN /\ failed \in BOOLEAN
    /\ review \in [Sheets \union Layers -> Reviews]
    /\ milliemes \in [LotIds -> Shares \union {None}]

\* Without a plan there is neither a zone nor a lot.
NothingYet == imports = 0 => LotNumbers(structure) = {}

Inv ==
    /\ Types
    /\ Sound(structure)
    /\ ZonesNeedUnit
    /\ NothingYet
    /\ ChecksAreCurrent
    /\ ValidIsReady

\* What a step does to the millièmes without a lot.
Follow == Orphans' = (IF imports' = imports THEN Orphans ELSE Given) \ KnownLots'

-----------------------------------------------------------------------------
(* The operators of the structure.                                          *)

Associations == [candidate : Candidates, building : Buildings, level : Levels,
                 lot : Numbers \union {None}, category : Categories]

\* A batch makes zones of contours that are none, each once.
Fresh(s, batch) ==
    /\ batch \subseteq Associations
    /\ \A a \in batch : s.zones[a.candidate] = None
    /\ \A a, b \in batch : a.candidate = b.candidate => a = b
    /\ batch # {} => unit \in Units

\* The identifiers of an association are known ones.
LEMMA AssociationIds ==
    ASSUME NEW a \in Associations
    PROVE  /\ BuildingOf(a) \in BuildingIds
           /\ <<BuildingOf(a), a.level>> \in BuildingIds \X Levels
           /\ LevelOf(a) \in LevelIds
           /\ a.lot # None => a.lot \in Numbers /\ LotId[a.lot] \in LotIds
<1>1. BuildingOf(a) \in BuildingIds
    BY DEF Associations, BuildingOf, BuildingIds
<1>2. <<BuildingOf(a), a.level>> \in BuildingIds \X Levels
    BY <1>1 DEF Associations
<1>3. DOMAIN LevelId = BuildingIds \X Levels
    BY WorkflowAssumption DEF BuildingIds
<1>4. LevelOf(a) \in LevelIds
    BY <1>2, <1>3 DEF LevelOf, LevelIds
<1>5. a.lot # None => a.lot \in Numbers /\ LotId[a.lot] \in LotIds
    BY DEF Associations, LotIds
<1> QED
    BY <1>1, <1>2, <1>4, <1>5

\* What an association makes is a zone.
LEMMA ZoneOfIsZone ==
    ASSUME NEW a \in Associations, unit \in Units
    PROVE  /\ ZoneOf(a) \in Zones
           /\ ZoneOf(a) # None
           /\ ZoneOf(a).building = BuildingOf(a)
           /\ ZoneOf(a).level = LevelOf(a)
           /\ ZoneOf(a).lot = IF a.lot = None THEN None ELSE LotId[a.lot]
<1>1. ZoneOf(a) \in Zones
    BY AssociationIds DEF ZoneOf, Zones, Associations
<1>2. ZoneOf(a) # None
    BY <1>1, MarkerAssumption
<1> QED
    BY <1>1, <1>2 DEF ZoneOf

\* The zones after a batch of associations.
LEMMA AssociateZones ==
    ASSUME NEW s, Sound(s), NEW batch, Fresh(s, batch)
    PROVE  /\ \A a \in batch : Associate(s, batch).zones[a.candidate] = ZoneOf(a)
           /\ \A c \in Candidates :
                (\A a \in batch : a.candidate # c) =>
                    Associate(s, batch).zones[c] = s.zones[c]
           /\ \A c \in Zoned(s) :
                c \in Zoned(Associate(s, batch)) /\ Associate(s, batch).zones[c] = s.zones[c]
           /\ Associate(s, batch).zones \in [Candidates -> Zones \union {None}]
           /\ Zoned(Associate(s, batch)) = Zoned(s) \union {a.candidate : a \in batch}
<1> DEFINE t == Associate(s, batch)
<1>1. ASSUME NEW a \in batch
      PROVE  t.zones[a.candidate] = ZoneOf(a)
    <2>1. a.candidate \in Candidates
        BY DEF Fresh, Associations
    <2>2. (CHOOSE b \in batch : b.candidate = a.candidate) = a
        <3>1. \A b \in batch : b.candidate = a.candidate => b = a
            BY DEF Fresh
        <3> QED
            BY <3>1
    <2> QED
        BY <2>1, <2>2 DEF Associate
<1>2. ASSUME NEW c \in Candidates, \A a \in batch : a.candidate # c
      PROVE  t.zones[c] = s.zones[c]
    BY <1>2 DEF Associate
<1>3. ASSUME NEW c \in Zoned(s)
      PROVE  c \in Zoned(t) /\ t.zones[c] = s.zones[c]
    <2>1. c \in Candidates /\ \A a \in batch : a.candidate # c
        BY DEF Zoned, Fresh
    <2> QED
        BY <1>2, <2>1 DEF Zoned
<1>4. ASSUME NEW a \in batch
      PROVE  ZoneOf(a) \in Zones /\ a.candidate \in Zoned(t)
    <2>1. a \in Associations /\ unit \in Units
        BY DEF Fresh
    <2>2. a.candidate \in Candidates
        BY <2>1 DEF Associations
    <2> QED
        BY <1>1, <2>1, <2>2, ZoneOfIsZone DEF Zoned
<1>5. t.zones \in [Candidates -> Zones \union {None}]
    <2>1. t.zones = [c \in Candidates |-> t.zones[c]]
        BY DEF Associate
    <2>2. ASSUME NEW c \in Candidates
          PROVE  t.zones[c] \in Zones \union {None}
        <3>1. CASE \E a \in batch : a.candidate = c
            BY <1>1, <1>4, <3>1
        <3>2. CASE \A a \in batch : a.candidate # c
            BY <1>2, <3>2 DEF Sound, Typed
        <3> QED
            BY <3>1, <3>2
    <2> QED
        BY <2>1, <2>2
<1>6. Zoned(t) = Zoned(s) \union {a.candidate : a \in batch}
    <2>1. ASSUME NEW c \in Zoned(t), \A a \in batch : a.candidate # c
          PROVE  c \in Zoned(s)
        BY <1>2, <2>1 DEF Zoned
    <2> QED
        BY <1>3, <1>4, <2>1
<1> QED
    BY <1>1, <1>2, <1>3, <1>5, <1>6

\* A lot, or the one that is to be made, lists zones that exist.
LEMMA LotOfHolds ==
    ASSUME NEW s, Sound(s), NEW n \in Numbers
    PROVE  /\ LotOf(s, n) \in Lots
           /\ \A c \in LotOf(s, n).zones : c \in Zoned(s) /\ s.zones[c].lot = LotId[n]
           /\ LotOf(s, n).buildings = {s.zones[c].building : c \in LotOf(s, n).zones}
           /\ LotOf(s, n).levels = {s.zones[c].level : c \in LotOf(s, n).zones}
<1>1. CASE s.lots[n] = None
    BY <1>1 DEF LotOf, Lots
<1>2. CASE s.lots[n] # None
    <2>1. n \in LotNumbers(s) /\ LotOf(s, n) = s.lots[n]
        BY <1>2 DEF LotNumbers, LotOf
    <2>2. s.lots[n] \in Lots
        BY <1>2 DEF Sound, Typed
    <2>3. Holds(s, n)
        BY <2>1 DEF Sound
    <2> QED
        BY <2>1, <2>2, <2>3 DEF Holds
<1> QED
    BY <1>1, <1>2

\* The lots after a batch of associations.
LEMMA AssociateLots ==
    ASSUME NEW s, Sound(s), NEW batch, Fresh(s, batch)
    PROVE  /\ Associate(s, batch).lots \in [Numbers -> Lots \union {None}]
           /\ LotNumbers(Associate(s, batch))
                = LotNumbers(s) \union {n \in Numbers : \E a \in batch : a.lot = n}
           /\ \A n \in LotNumbers(Associate(s, batch)) :
                LET lot == Associate(s, batch).lots[n]
                    new == {a \in batch : a.lot = n}
                IN  /\ lot.zones = LotOf(s, n).zones \union {a.candidate : a \in new}
                    /\ lot.buildings = LotOf(s, n).buildings \union {BuildingOf(a) : a \in new}
                    /\ lot.levels = LotOf(s, n).levels \union {LevelOf(a) : a \in new}
<1> DEFINE t == Associate(s, batch)
           New(n) == {a \in batch : a.lot = n}
           Made(n) == [buildings |-> LotOf(s, n).buildings \union {BuildingOf(a) : a \in New(n)},
                       levels |-> LotOf(s, n).levels \union {LevelOf(a) : a \in New(n)},
                       zones |-> LotOf(s, n).zones \union {a.candidate : a \in New(n)}]
<1>1. t.lots = [n \in Numbers |-> IF New(n) = {} THEN s.lots[n] ELSE Made(n)]
    BY DEF Associate
<1>2. ASSUME NEW n \in Numbers
      PROVE  Made(n) \in Lots /\ Made(n) # None
    <2>1. LotOf(s, n) \in Lots
        BY LotOfHolds
    <2>2. \A a \in New(n) : /\ BuildingOf(a) \in BuildingIds
                            /\ LevelOf(a) \in LevelIds
                            /\ a.candidate \in Candidates
        BY AssociationIds DEF Fresh, Associations
    <2>3. Made(n) \in Lots
        BY <2>1, <2>2 DEF Lots
    <2> QED
        BY <2>3, MarkerAssumption
<1>3. t.lots \in [Numbers -> Lots \union {None}]
    <2>1. s.lots \in [Numbers -> Lots \union {None}]
        BY DEF Sound, Typed
    <2> HIDE DEF Made, New
    <2> QED
        BY <1>1, <1>2, <2>1
<1>4. LotNumbers(t) = LotNumbers(s) \union {n \in Numbers : \E a \in batch : a.lot = n}
    <2>1. \A n \in Numbers : New(n) = {} <=> ~ \E a \in batch : a.lot = n
        OBVIOUS
    <2> HIDE DEF Made, New, t
    <2>2. \A n \in Numbers : t.lots[n] = IF New(n) = {} THEN s.lots[n] ELSE Made(n)
        BY <1>1
    <2>3. ASSUME NEW n \in Numbers
          PROVE  n \in LotNumbers(t) <=> n \in LotNumbers(s) \/ \E a \in batch : a.lot = n
        <3>1. CASE New(n) = {}
            BY <2>1, <2>2, <3>1 DEF LotNumbers
        <3>2. CASE New(n) # {}
            BY <1>2, <2>1, <2>2, <3>2 DEF LotNumbers
        <3> QED
            BY <3>1, <3>2
    <2>4. LotNumbers(t) \subseteq Numbers /\ LotNumbers(s) \subseteq Numbers
        BY DEF LotNumbers
    <2> QED
        BY <2>3, <2>4
<1>5. ASSUME NEW n \in LotNumbers(t)
      PROVE  /\ t.lots[n].zones = LotOf(s, n).zones \union {a.candidate : a \in New(n)}
             /\ t.lots[n].buildings = LotOf(s, n).buildings \union {BuildingOf(a) : a \in New(n)}
             /\ t.lots[n].levels = LotOf(s, n).levels \union {LevelOf(a) : a \in New(n)}
    <2>1. n \in Numbers /\ t.lots[n] # None
        BY DEF LotNumbers
    <2>2. CASE New(n) = {}
        <3>1. t.lots[n] = LotOf(s, n)
            BY <1>1, <2>1, <2>2 DEF LotOf
        <3> QED
            BY <2>2, <3>1
    <2>3. CASE New(n) # {}
        <3>1. t.lots[n] = Made(n)
            BY <1>1, <2>1, <2>3
        <3> QED
            BY <3>1
    <2> QED
        BY <2>2, <2>3
<1> QED
    BY <1>3, <1>4, <1>5

\* Associating contours keeps the records of the structure in agreement.
LEMMA AssociateSound ==
    ASSUME NEW s, Sound(s), NEW batch, Fresh(s, batch)
    PROVE  Sound(Associate(s, batch))
<1> DEFINE t == Associate(s, batch)
<1>1. /\ t.buildings = s.buildings \union {a.building : a \in batch}
      /\ t.levels = s.levels \union {<<BuildingOf(a), a.level>> : a \in batch}
    BY DEF Associate
<1>2. ASSUME NEW a \in batch
      PROVE  /\ a \in Associations /\ ZoneOf(a) \in Zones /\ ZoneOf(a) # None
             /\ a.candidate \in Zoned(t)
             /\ t.zones[a.candidate].building = BuildingOf(a)
             /\ t.zones[a.candidate].level = LevelOf(a)
             /\ t.zones[a.candidate].lot = IF a.lot = None THEN None ELSE LotId[a.lot]
             /\ a.building \in t.buildings
             /\ <<BuildingOf(a), a.level>> \in t.levels
    <2>1. a \in Associations /\ unit \in Units
        BY DEF Fresh
    <2>2. t.zones[a.candidate] = ZoneOf(a) /\ a.candidate \in Zoned(t)
        BY AssociateZones
    <2> QED
        BY <1>1, <2>1, <2>2, ZoneOfIsZone
<1>3. \A c \in Zoned(s) : c \in Zoned(t) /\ t.zones[c] = s.zones[c]
    BY AssociateZones
<1>4. Zoned(t) = Zoned(s) \union {a.candidate : a \in batch}
    BY AssociateZones
<1>5. LotNumbers(t) = LotNumbers(s) \union {n \in Numbers : \E a \in batch : a.lot = n}
    BY AssociateLots
<1>6. ASSUME NEW n \in LotNumbers(t)
      PROVE  /\ n \in Numbers /\ n # None
             /\ t.lots[n].zones = LotOf(s, n).zones \union {a.candidate : a \in {b \in batch : b.lot = n}}
             /\ t.lots[n].buildings = LotOf(s, n).buildings \union {BuildingOf(a) : a \in {b \in batch : b.lot = n}}
             /\ t.lots[n].levels = LotOf(s, n).levels \union {LevelOf(a) : a \in {b \in batch : b.lot = n}}
    <2>1. n \in Numbers /\ n # None
        BY WorkflowAssumption DEF LotNumbers
    <2> QED
        BY <2>1, AssociateLots
<1>7. Typed(t)
    <2>1. t.buildings \subseteq Buildings
        BY <1>1 DEF Sound, Typed, Fresh, Associations
    <2>2. t.levels \subseteq BuildingIds \X Levels
        BY <1>1, AssociationIds DEF Sound, Typed, Fresh
    <2>3. t.status \in [Candidates -> Reviews]
        BY DEF Associate, Sound, Typed, Reviews
    <2> QED
        BY <2>1, <2>2, <2>3, AssociateLots, AssociateZones DEF Typed
<1> HIDE DEF t
<1>8. Placed(t)
    <2> SUFFICES ASSUME NEW c \in Zoned(t)
                 PROVE  /\ \E b \in t.buildings : BuildingId[b] = t.zones[c].building
                        /\ \E l \in t.levels : LevelId[l] = t.zones[c].level /\ l[1] = t.zones[c].building
        BY DEF Placed
    <2>1. CASE c \in Zoned(s)
        <3>1. /\ \E b \in s.buildings : BuildingId[b] = s.zones[c].building
              /\ \E l \in s.levels : LevelId[l] = s.zones[c].level /\ l[1] = s.zones[c].building
            BY <2>1 DEF Sound, Placed
        <3> QED
            BY <1>1, <1>3, <2>1, <3>1
    <2>2. CASE \E a \in batch : a.candidate = c
        <3>1. PICK a \in batch : a.candidate = c
            BY <2>2
        <3>2. /\ a.building \in t.buildings /\ BuildingId[a.building] = t.zones[c].building
              /\ <<BuildingOf(a), a.level>> \in t.levels
              /\ LevelId[<<BuildingOf(a), a.level>>] = t.zones[c].level
              /\ <<BuildingOf(a), a.level>>[1] = t.zones[c].building
            BY <1>2, <3>1 DEF BuildingOf, LevelOf
        <3> QED
            BY <3>2
    <2> QED
        BY <1>4, <2>1, <2>2
<1>9. Used(t)
    <2> SUFFICES ASSUME NEW l \in t.levels
                 PROVE  /\ \E b \in t.buildings : BuildingId[b] = l[1]
                        /\ \E c \in Zoned(t) : t.zones[c].level = LevelId[l]
        BY DEF Used
    <2>1. CASE l \in s.levels
        <3>1. /\ \E b \in s.buildings : BuildingId[b] = l[1]
              /\ \E c \in Zoned(s) : s.zones[c].level = LevelId[l]
            BY <2>1 DEF Sound, Used
        <3> QED
            BY <1>1, <1>3, <3>1
    <2>2. CASE \E a \in batch : l = <<BuildingOf(a), a.level>>
        <3>1. PICK a \in batch : l = <<BuildingOf(a), a.level>>
            BY <2>2
        <3>2. /\ a.building \in t.buildings /\ BuildingId[a.building] = l[1]
              /\ a.candidate \in Zoned(t) /\ t.zones[a.candidate].level = LevelId[l]
            BY <1>2, <3>1 DEF BuildingOf, LevelOf
        <3> QED
            BY <3>2
    <2> QED
        BY <1>1, <2>1, <2>2
<1>10. ASSUME NEW n \in LotNumbers(t)
       PROVE  Holds(t, n)
    <2> DEFINE new == {a \in batch : a.lot = n}
    <2>1. /\ \A c \in LotOf(s, n).zones : c \in Zoned(s) /\ s.zones[c].lot = LotId[n]
          /\ LotOf(s, n).buildings = {s.zones[c].building : c \in LotOf(s, n).zones}
          /\ LotOf(s, n).levels = {s.zones[c].level : c \in LotOf(s, n).zones}
        BY <1>6, LotOfHolds
    <2>2. \A c \in LotOf(s, n).zones : c \in Zoned(t) /\ t.zones[c] = s.zones[c]
        BY <1>3, <2>1
    <2>3. \A a \in new : /\ a.candidate \in Zoned(t)
                         /\ t.zones[a.candidate].building = BuildingOf(a)
                         /\ t.zones[a.candidate].level = LevelOf(a)
                         /\ t.zones[a.candidate].lot = LotId[n]
        BY <1>2, <1>6
    <2>4. \A c \in t.lots[n].zones : c \in Zoned(t) /\ t.zones[c].lot = LotId[n]
        BY <1>6, <2>1, <2>2, <2>3
    <2>5. t.lots[n].buildings = {t.zones[c].building : c \in t.lots[n].zones}
        <3>1. t.lots[n].buildings = {t.zones[c].building : c \in LotOf(s, n).zones}
                                      \union {t.zones[a.candidate].building : a \in new}
            BY <1>6, <2>1, <2>2, <2>3
        <3>2. t.lots[n].zones = LotOf(s, n).zones \union {a.candidate : a \in new}
            BY <1>6
        <3> QED
            BY <3>1, <3>2
    <2>6. t.lots[n].levels = {t.zones[c].level : c \in t.lots[n].zones}
        <3>1. t.lots[n].levels = {t.zones[c].level : c \in LotOf(s, n).zones}
                                   \union {t.zones[a.candidate].level : a \in new}
            BY <1>6, <2>1, <2>2, <2>3
        <3>2. t.lots[n].zones = LotOf(s, n).zones \union {a.candidate : a \in new}
            BY <1>6
        <3> QED
            BY <3>1, <3>2
    <2> QED
        BY <2>4, <2>5, <2>6 DEF Holds
<1>11. Listed(t)
    <2>1. ASSUME NEW c \in Zoned(t), t.zones[c].lot # None
          PROVE  \E n \in LotNumbers(t) : c \in t.lots[n].zones
        <3>1. CASE c \in Zoned(s)
            <4>1. PICK n \in LotNumbers(s) : c \in s.lots[n].zones
                BY <1>3, <2>1, <3>1 DEF Sound, Listed
            <4>2. LotOf(s, n) = s.lots[n]
                BY DEF LotOf, LotNumbers
            <4> QED
                BY <1>5, <1>6, <4>1, <4>2
        <3>2. CASE \E a \in batch : a.candidate = c
            <4>1. PICK a \in batch : a.candidate = c
                BY <3>2
            <4>2. a.lot # None
                BY <1>2, <2>1, <4>1
            <4>3. a.lot \in Numbers
                BY <1>2, <4>2 DEF Associations
            <4> QED
                BY <1>5, <1>6, <4>1, <4>3
        <3> QED
            BY <1>4, <3>1, <3>2
    <2>2. ASSUME NEW n \in LotNumbers(t), NEW o \in LotNumbers(t), n # o,
                 NEW c \in t.lots[n].zones, c \in t.lots[o].zones
          PROVE  FALSE
        <3>1. \A m \in LotNumbers(t) : \A d \in LotOf(s, m).zones : d \in Zoned(s)
            BY <1>6, LotOfHolds
        <3>2. \A a \in batch : a.candidate \notin Zoned(s)
            BY DEF Fresh, Zoned
        <3>3. CASE c \in Zoned(s)
            <4>1. c \in LotOf(s, n).zones /\ c \in LotOf(s, o).zones
                BY <1>6, <2>2, <3>2, <3>3
            <4>2. \A m \in LotNumbers(t) : c \in LotOf(s, m).zones => m \in LotNumbers(s) /\ c \in s.lots[m].zones
                BY <1>6 DEF LotOf, LotNumbers
            <4> QED
                BY <2>2, <4>1, <4>2 DEF Sound, Listed
        <3>4. CASE c \notin Zoned(s)
            <4>1. /\ \E a \in batch : a.candidate = c /\ a.lot = n
                  /\ \E a \in batch : a.candidate = c /\ a.lot = o
                BY <1>6, <2>2, <3>1, <3>4
            <4> QED
                BY <2>2, <4>1 DEF Fresh
        <3> QED
            BY <3>3, <3>4
    <2> QED
        BY <2>1, <2>2 DEF Listed
<1>12. Marked(t)
    <2> SUFFICES ASSUME NEW c \in Candidates
                 PROVE  (t.status[c] = "candidate") <=> (t.zones[c] = None)
        BY DEF Marked
    <2>1. CASE \E a \in batch : a.candidate = c
        <3>1. t.status[c] \in {"exclue", "retenue"}
            BY <2>1 DEF t, Associate
        <3>2. t.zones[c] # None
            BY <1>2, <2>1 DEF Zoned
        <3> QED
            BY <3>1, <3>2
    <2>2. CASE \A a \in batch : a.candidate # c
        <3>1. t.status[c] = s.status[c] /\ t.zones[c] = s.zones[c]
            BY <2>2 DEF t, Associate
        <3> QED
            BY <3>1 DEF Sound, Marked
    <2> QED
        BY <2>1, <2>2
<1> QED
    BY <1>7, <1>8, <1>9, <1>10, <1>11, <1>12 DEF t, Sound

\* What is left of a lot of which some zones are removed.
Left(s, n, gone, lot) ==
    /\ lot.zones = s.lots[n].zones \ gone
    /\ lot.buildings = {s.zones[c].building : c \in lot.zones}
    /\ lot.levels = {s.zones[c].level : c \in lot.zones}

\* Removing zones leaves such a lot.
LEMMA LotAfterRemoval ==
    ASSUME NEW s, Sound(s), NEW gone \in SUBSET Zoned(s), NEW n \in LotNumbers(s)
    PROVE  LotWithout(s, n, gone) \in Lots /\ Left(s, n, gone, LotWithout(s, n, gone))
<1> DEFINE old == s.lots[n]
           left == old.zones \ gone
<1>1. n \in Numbers /\ old # None /\ old \in Lots
    BY DEF LotNumbers, Sound, Typed
<1>2. LotWithout(s, n, gone) = Without(s, old, gone)
    BY <1>1 DEF LotWithout
<1>3. /\ old.buildings = {s.zones[c].building : c \in old.zones}
      /\ old.levels = {s.zones[c].level : c \in old.zones}
    BY DEF Sound, Holds
<1>4. CASE old.zones \intersect gone = {}
    <2>1. Without(s, old, gone) = old /\ left = old.zones
        BY <1>4 DEF Without
    <2> QED
        BY <1>1, <1>2, <1>3, <2>1 DEF Left
<1>5. CASE old.zones \intersect gone # {}
    <2> DEFINE new == [buildings |-> {b \in old.buildings : \E c \in left : s.zones[c].building = b},
                       levels |-> {l \in old.levels : \E c \in left : s.zones[c].level = l},
                       zones |-> left]
    <2>1. Without(s, old, gone) = new
        BY <1>5 DEF Without
    <2>2. new \in Lots
        BY <1>1 DEF Lots
    <2>3. new.buildings = {s.zones[c].building : c \in left}
        BY <1>3
    <2>4. new.levels = {s.zones[c].level : c \in left}
        BY <1>3
    <2> QED
        BY <1>2, <2>1, <2>2, <2>3, <2>4 DEF Left
<1> QED
    BY <1>4, <1>5

\* Removing zones keeps every lot and the other zones.
LEMMA RemoveKeeps ==
    ASSUME NEW s, Sound(s), NEW gone \in SUBSET Zoned(s)
    PROVE  /\ RemoveZones(s, gone).buildings = s.buildings
           /\ LotNumbers(RemoveZones(s, gone)) = LotNumbers(s)
           /\ Zoned(RemoveZones(s, gone)) = Zoned(s) \ gone
           /\ \A c \in Zoned(s) \ gone : RemoveZones(s, gone).zones[c] = s.zones[c]
           /\ RemoveZones(s, gone).lots \in [Numbers -> Lots \union {None}]
           /\ \A n \in LotNumbers(s) : RemoveZones(s, gone).lots[n] = LotWithout(s, n, gone)
<1> DEFINE t == RemoveZones(s, gone)
<1>1. t.buildings = s.buildings
    BY DEF RemoveZones
<1>2. t.lots = [n \in Numbers |-> LotWithout(s, n, gone)]
    BY DEF RemoveZones
<1>3. ASSUME NEW n \in Numbers
      PROVE  IF n \in LotNumbers(s) THEN LotWithout(s, n, gone) \in Lots
                                    ELSE LotWithout(s, n, gone) = None
    <2>1. CASE n \in LotNumbers(s)
        BY <2>1, LotAfterRemoval
    <2>2. CASE n \notin LotNumbers(s)
        BY <2>2 DEF LotNumbers, LotWithout
    <2> QED
        BY <2>1, <2>2
<1>4. t.lots \in [Numbers -> Lots \union {None}]
    BY <1>2, <1>3
<1>5. LotNumbers(t) = LotNumbers(s)
    BY <1>2, <1>3, MarkerAssumption DEF LotNumbers
<1>6. t.zones = [c \in Candidates |-> IF c \in gone THEN None ELSE s.zones[c]]
    BY DEF RemoveZones
<1>7. /\ Zoned(t) = Zoned(s) \ gone
      /\ \A c \in Zoned(s) \ gone : t.zones[c] = s.zones[c]
    BY <1>6 DEF Zoned
<1>8. \A n \in LotNumbers(s) : t.lots[n] = LotWithout(s, n, gone)
    BY <1>2 DEF LotNumbers
<1> QED
    BY <1>1, <1>4, <1>5, <1>7, <1>8

\* Removing zones keeps the records of the structure in agreement.
LEMMA RemoveSound ==
    ASSUME NEW s, Sound(s), NEW gone \in SUBSET Zoned(s)
    PROVE  Sound(RemoveZones(s, gone))
<1> DEFINE t == RemoveZones(s, gone)
           used == {s.zones[c].level : c \in Zoned(s) \ gone}
<1>1. t.levels = {l \in s.levels : LevelId[l] \in used}
    BY DEF RemoveZones
<1>2. /\ t.buildings = s.buildings
      /\ LotNumbers(t) = LotNumbers(s)
      /\ Zoned(t) = Zoned(s) \ gone
      /\ \A c \in Zoned(t) : t.zones[c] = s.zones[c]
    BY RemoveKeeps
<1>3. ASSUME NEW n \in LotNumbers(t)
      PROVE  /\ t.lots[n].zones = s.lots[n].zones \ gone
             /\ t.lots[n].buildings = {s.zones[c].building : c \in t.lots[n].zones}
             /\ t.lots[n].levels = {s.zones[c].level : c \in t.lots[n].zones}
    <2>1. n \in LotNumbers(s) /\ t.lots[n] = LotWithout(s, n, gone)
        BY <1>2, RemoveKeeps
    <2>2. Left(s, n, gone, LotWithout(s, n, gone))
        BY <2>1, LotAfterRemoval
    <2> QED
        BY <2>1, <2>2 DEF Left
<1>4. Typed(t)
    <2>1. t.zones \in [Candidates -> Zones \union {None}]
        BY DEF RemoveZones, Sound, Typed
    <2>2. t.status \in [Candidates -> Reviews]
        BY DEF RemoveZones, StatusWithout, Sound, Typed, Reviews
    <2> QED
        BY <1>1, <1>2, <2>1, <2>2, RemoveKeeps DEF Sound, Typed
<1>5. Marked(t)
    <2>1. /\ t.status = [c \in Candidates |-> IF c \in gone THEN "candidate" ELSE s.status[c]]
          /\ t.zones = [c \in Candidates |-> IF c \in gone THEN None ELSE s.zones[c]]
        BY DEF RemoveZones, StatusWithout
    <2> QED
        BY <2>1 DEF Sound, Marked
<1> HIDE DEF t
<1>6. Placed(t)
    <2> SUFFICES ASSUME NEW c \in Zoned(t)
                 PROVE  /\ \E b \in t.buildings : BuildingId[b] = t.zones[c].building
                        /\ \E l \in t.levels : LevelId[l] = t.zones[c].level /\ l[1] = t.zones[c].building
        BY DEF Placed
    <2>1. c \in Zoned(s) /\ t.zones[c] = s.zones[c] /\ s.zones[c].level \in used
        BY <1>2
    <2>2. /\ \E b \in s.buildings : BuildingId[b] = s.zones[c].building
          /\ \E l \in s.levels : LevelId[l] = s.zones[c].level /\ l[1] = s.zones[c].building
        BY <2>1 DEF Sound, Placed
    <2> QED
        BY <1>1, <1>2, <2>1, <2>2
<1>7. Used(t)
    <2> SUFFICES ASSUME NEW l \in t.levels
                 PROVE  /\ \E b \in t.buildings : BuildingId[b] = l[1]
                        /\ \E c \in Zoned(t) : t.zones[c].level = LevelId[l]
        BY DEF Used
    <2>1. l \in s.levels /\ LevelId[l] \in used
        BY <1>1
    <2> QED
        BY <1>2, <2>1 DEF Sound, Used
<1>8. ASSUME NEW n \in LotNumbers(t)
      PROVE  Holds(t, n)
    <2>1. \A c \in s.lots[n].zones : c \in Zoned(s) /\ s.zones[c].lot = LotId[n]
        BY <1>2 DEF Sound, Holds
    <2>2. \A c \in t.lots[n].zones : c \in Zoned(t) /\ t.zones[c] = s.zones[c] /\ s.zones[c].lot = LotId[n]
        BY <1>2, <1>3, <2>1
    <2> QED
        BY <1>3, <2>2 DEF Holds
<1>9. Listed(t)
    <2>1. \A c \in Zoned(s) : s.zones[c].lot # None => \E n \in LotNumbers(s) : c \in s.lots[n].zones
        BY DEF Sound, Listed
    <2>2. \A n, o \in LotNumbers(s) : n # o => s.lots[n].zones \intersect s.lots[o].zones = {}
        BY DEF Sound, Listed
    <2>3. \A c \in Zoned(t) : t.zones[c].lot # None => \E n \in LotNumbers(t) : c \in t.lots[n].zones
        BY <1>2, <1>3, <2>1
    <2>4. \A n, o \in LotNumbers(t) : n # o => t.lots[n].zones \intersect t.lots[o].zones = {}
        BY <1>2, <1>3, <2>2
    <2> QED
        BY <2>3, <2>4 DEF Listed
<1> QED
    BY <1>4, <1>5, <1>6, <1>7, <1>8, <1>9 DEF t, Sound

\* A dossier without zones is sound.
LEMMA EmptySound == Sound(Empty) /\ Zoned(Empty) = {} /\ LotNumbers(Empty) = {}
<1>1. Zoned(Empty) = {} /\ LotNumbers(Empty) = {}
    BY DEF Zoned, LotNumbers, Empty
<1>2. Typed(Empty) /\ Marked(Empty)
    BY DEF Typed, Marked, Empty, Reviews
<1>3. Placed(Empty) /\ Used(Empty) /\ Listed(Empty)
    BY <1>1 DEF Placed, Used, Listed, Empty
<1> QED
    BY <1>1, <1>2, <1>3 DEF Sound

-----------------------------------------------------------------------------
(* The properties of the structure follow.                                  *)

\* A sound structure is well typed, and its references lead somewhere.
LEMMA SoundStructure ==
    ASSUME Sound(structure)
    PROVE  LotsFollowZones /\ ReferencesHold /\ StatusFollowsZones
<1> DEFINE s == structure
<1>1. \A n \in LotNumbers(s) :
        /\ \A c \in s.lots[n].zones : c \in Zoned(s) /\ s.zones[c].lot = LotId[n]
        /\ s.lots[n].buildings = {s.zones[c].building : c \in s.lots[n].zones}
        /\ s.lots[n].levels = {s.zones[c].level : c \in s.lots[n].zones}
    BY DEF Sound, Holds
<1>2. \A c \in Zoned(s) :
        /\ \E b \in s.buildings : BuildingId[b] = s.zones[c].building
        /\ \E l \in s.levels : LevelId[l] = s.zones[c].level /\ l[1] = s.zones[c].building
    BY DEF Sound, Placed
<1>3. \A l \in s.levels :
        /\ \E b \in s.buildings : BuildingId[b] = l[1]
        /\ \E c \in Zoned(s) : s.zones[c].level = LevelId[l]
    BY DEF Sound, Used
<1>4. /\ \A c \in Zoned(s) :
            s.zones[c].lot # None => \E n \in LotNumbers(s) : c \in s.lots[n].zones
      /\ \A n, o \in LotNumbers(s) : n # o => s.lots[n].zones \intersect s.lots[o].zones = {}
    BY DEF Sound, Listed
<1>5. \A c \in Zoned(s) : s.zones[c].building \in KnownBuildings /\ s.zones[c].level \in KnownLevels
    BY <1>2 DEF KnownBuildings, KnownLevels
<1>6. KnownLevels = {s.zones[c].level : c \in Zoned(s)}
    BY <1>2, <1>3 DEF KnownLevels
<1>7. LotsFollowZones
    BY <1>1, <1>4, <1>6 DEF LotsFollowZones
<1>8. ReferencesResolved
    <2>1. \A l \in s.levels : l[1] \in KnownBuildings
        BY <1>3 DEF KnownBuildings
    <2>2. ASSUME NEW n \in LotNumbers(s)
          PROVE  /\ s.lots[n].buildings \subseteq KnownBuildings
                 /\ s.lots[n].levels \subseteq KnownLevels
                 /\ \A c \in s.lots[n].zones : c \in Zoned(s) /\ s.zones[c].lot = LotId[n]
        BY <1>1, <1>5
    <2>3. ASSUME NEW c \in Retained
          PROVE  /\ s.zones[c].building \in KnownBuildings
                 /\ \E l \in s.levels : LevelId[l] = s.zones[c].level /\ l[1] = s.zones[c].building
                 /\ s.zones[c].lot \in KnownLots \union {None}
        <3>1. c \in Zoned(s)
            BY DEF Retained
        <3>2. s.zones[c].lot \in KnownLots \union {None}
            BY <1>1, <1>4, <3>1 DEF KnownLots
        <3> QED
            BY <1>2, <1>5, <3>1, <3>2
    <2> QED
        BY <2>1, <2>2, <2>3 DEF ReferencesResolved
<1>9. StatusFollowsZones
    BY DEF Sound, Marked, StatusFollowsZones
<1> QED
    BY <1>7, <1>8, <1>9 DEF ReferencesHold

\* The invariant implies the properties.
LEMMA InvImplies ==
    ASSUME Inv
    PROVE  TypeOK /\ StructureHolds
<1>1. StructureHolds
    BY SoundStructure DEF Inv, StructureHolds
<1>2. checks.empty \subseteq Numbers /\ checks.unassigned \subseteq Candidates
    BY DEF Inv, ChecksAreCurrent, Checks, LotNumbers
<1>3. /\ structure.buildings \subseteq Buildings
      /\ structure.levels \subseteq BuildingIds \X Levels
      /\ \A n \in LotNumbers(structure) : structure.lots[n] \in Lots
      /\ \A c \in Zoned(structure) : structure.zones[c] \in Zones
      /\ structure.status \in [Candidates -> Reviews]
    BY DEF Inv, Sound, Typed, LotNumbers, Zoned
<1>4. {complete, valid, failed} \subseteq BOOLEAN
    BY DEF Inv, Types
<1> QED
    BY <1>1, <1>2, <1>3, <1>4 DEF Inv, Types, TypeOK

-----------------------------------------------------------------------------
(* The invariant is inductive.                                              *)

\* Readiness is a function of what the review holds.
LEMMA ReadySame ==
    ASSUME UNCHANGED <<imports, unit, review, structure, milliemes, complete, checks>>
    PROVE  Ready' <=> Ready
<1>1. IdentifiersUnique' <=> IdentifiersUnique
    BY DEF IdentifiersUnique, LotNumbers
<1>2. Retained' = Retained /\ KnownLots' = KnownLots /\ Given' = Given
    BY DEF Retained, KnownLots, Given, LotNumbers, Zoned
<1>3. KnownBuildings' = KnownBuildings /\ KnownLevels' = KnownLevels
    BY DEF KnownBuildings, KnownLevels
<1>4. ReferencesResolved' <=> ReferencesResolved
    BY <1>2, <1>3 DEF ReferencesResolved, LotNumbers, Zoned
<1>5. TotalIs1000' <=> TotalIs1000
    BY <1>2 DEF TotalIs1000
<1>6. GridSound' <=> GridSound
    BY <1>2, <1>5 DEF GridSound
<1> QED
    BY <1>1, <1>2, <1>4, <1>6 DEF Ready

LEMMA InitInv ==
    ASSUME Init
    PROVE  Inv
<1>1. Sound(structure) /\ Zoned(structure) = {} /\ LotNumbers(structure) = {}
    BY EmptySound DEF Init
<1>2. Given = {}
    BY DEF Init, Given
<1>3. Types
    <2>1. complete \in BOOLEAN /\ valid \in BOOLEAN /\ failed \in BOOLEAN
        BY DEF Init
    <2>2. milliemes \in [LotIds -> Shares \union {None}]
        BY DEF Init
    <2>3. CASE imports = 0 /\ unit = None /\ review = [x \in Sheets \union Layers |-> "candidate"]
        BY <2>1, <2>2, <2>3, WorkflowAssumption DEF Types, Reviews
    <2>4. CASE /\ imports = 1 /\ unit \in Units \union {None}
               /\ review \in [Sheets \union Layers -> Reviews]
        BY <2>1, <2>2, <2>4, WorkflowAssumption DEF Types
    <2> QED
        BY <2>3, <2>4 DEF Init
<1>4. ChecksAreCurrent
    BY DEF Init, ChecksAreCurrent
<1> QED
    BY <1>1, <1>2, <1>3, <1>4
    DEF Init, Inv, ZonesNeedUnit, NothingYet, ValidIsReady

\* A change of the structure to one that is sound.
LEMMA ChangeInv ==
    ASSUME Inv, NEW s, Change(s), Sound(s),
           Zoned(s) # {} => imports > 0 /\ unit # None,
           LotNumbers(structure) \subseteq LotNumbers(s),
           imports = 0 => LotNumbers(s) = {}
    PROVE  Inv' /\ Follow
<1>1. /\ structure' = s /\ valid' = FALSE
      /\ UNCHANGED <<imports, unit, review, milliemes, complete, failed>>
    BY DEF Change, Invalidate
<1>2. Types'
    BY <1>1 DEF Inv, Types
<1>3. Sound(structure)'
    BY <1>1
<1>4. ChecksAreCurrent'
    BY <1>1 DEF Change, Reconcile, ChecksAreCurrent
<1>5. ZonesNeedUnit' /\ NothingYet' /\ ValidIsReady'
    BY <1>1 DEF ZonesNeedUnit, NothingYet, ValidIsReady
<1>6. Follow
    <2>1. Given' = Given /\ KnownLots \subseteq KnownLots'
        BY <1>1 DEF Given, KnownLots
    <2> QED
        BY <1>1, <2>1 DEF Follow, Orphans
<1> QED
    BY <1>2, <1>3, <1>4, <1>5, <1>6 DEF Inv

\* Associations of contours that are no zone.
LEMMA AssociateInv ==
    ASSUME Inv, NEW s, Sound(s),
           NEW batch, Fresh(s, batch), Change(Associate(s, batch)),
           LotNumbers(s) = LotNumbers(structure),
           Zoned(s) \subseteq Zoned(structure),
           imports > 0, batch # {} => unit # None
    PROVE  Inv' /\ Follow
<1> DEFINE t == Associate(s, batch)
<1>1. Sound(t)
    BY AssociateSound
<1>2. LotNumbers(structure) \subseteq LotNumbers(t)
    BY AssociateLots
<1>3. Zoned(t) # {} => unit # None
    <2>1. Zoned(t) = Zoned(s) \union {a.candidate : a \in batch}
        BY AssociateZones
    <2> QED
        BY <2>1 DEF Inv, ZonesNeedUnit
<1>4. imports # 0
    BY DEF Inv, Types
<1> HIDE DEF t
<1>5. Change(t)
    BY DEF t
<1> QED
    BY <1>1, <1>2, <1>3, <1>4, <1>5, ChangeInv

\* The zone of an annex that is moved or detached is removed first.
LEMMA DetachedSound ==
    ASSUME Inv, NEW c \in Candidates
    PROVE  /\ Sound(Detached(c))
           /\ LotNumbers(Detached(c)) = LotNumbers(structure)
           /\ Zoned(Detached(c)) = Zoned(structure) \ {c}
           /\ Detached(c).buildings = structure.buildings
<1>1. Sound(structure)
    BY DEF Inv
<1>2. CASE structure.zones[c] = None
    BY <1>1, <1>2 DEF Detached, Zoned
<1>3. CASE structure.zones[c] # None
    <2>1. {c} \in SUBSET Zoned(structure)
        BY <1>3 DEF Zoned
    <2>2. Detached(c) = RemoveZones(structure, {c})
        BY <1>3 DEF Detached
    <2> QED
        BY <1>1, <2>1, <2>2, RemoveKeeps, RemoveSound
<1> QED
    BY <1>2, <1>3

\* A step that changes neither the structure nor the plan.
LEMMA SameStructure ==
    ASSUME Inv, UNCHANGED <<imports, unit, structure, checks>>, Types', ValidIsReady'
    PROVE  Inv'
<1>1. Sound(structure)' /\ ZonesNeedUnit' /\ NothingYet' /\ ChecksAreCurrent'
    BY DEF Inv, ZonesNeedUnit, NothingYet, ChecksAreCurrent
<1> QED
    BY <1>1 DEF Inv

-----------------------------------------------------------------------------
(* One lemma for each operation.                                            *)

LEMMA AttachImportInv ==
    ASSUME Inv, AttachImport
    PROVE  Inv' /\ Follow
<1>1. structure' = Empty /\ valid' = FALSE /\ imports' = imports + 1
    BY DEF AttachImport, FreshReview, Invalidate
<1>2. Sound(structure') /\ Zoned(structure') = {} /\ LotNumbers(structure') = {}
    BY <1>1, EmptySound
<1>3. Types'
    <2>1. imports' \in 0..MaxImports
        BY WorkflowAssumption DEF AttachImport, Inv, Types
    <2>2. review' \in [Sheets \union Layers -> Reviews]
        BY DEF AttachImport, Reviews
    <2>3. unit' \in Units \union {None} /\ UNCHANGED <<milliemes, complete, failed>>
        BY DEF AttachImport
    <2> QED
        BY <1>1, <2>1, <2>2, <2>3 DEF Inv, Types
<1>4. ChecksAreCurrent'
    BY DEF AttachImport, Reconcile, ChecksAreCurrent
<1>5. Follow
    <2>1. imports' # imports
        BY <1>1 DEF Inv, Types
    <2>2. Given' = Given
        BY DEF AttachImport, Given
    <2> QED
        BY <2>1, <2>2 DEF Follow, Orphans
<1> QED
    BY <1>1, <1>2, <1>3, <1>4, <1>5 DEF Inv, ZonesNeedUnit, NothingYet, ValidIsReady

\* Confirming the unit or the status of a planche or layer.
LEMMA ReviewInv ==
    ASSUME Inv, imports > 0, Reconcile(structure), Invalidate, Types',
           unit' \in Units \/ unit' = unit,
           UNCHANGED <<imports, structure, milliemes>>
    PROVE  Inv' /\ Follow
<1>1. Sound(structure)' /\ NothingYet' /\ ValidIsReady'
    BY DEF Inv, NothingYet, ValidIsReady, Invalidate
<1>2. ZonesNeedUnit'
    BY WorkflowAssumption DEF Inv, ZonesNeedUnit
<1>3. ChecksAreCurrent'
    BY DEF Reconcile, ChecksAreCurrent
<1>4. Follow
    BY DEF Follow, Orphans, Given, KnownLots, LotNumbers
<1> QED
    BY <1>1, <1>2, <1>3, <1>4 DEF Inv

LEMMA ConfirmUnitInv ==
    ASSUME Inv, NEW retained \in Units, ConfirmUnit(retained)
    PROVE  Inv' /\ Follow
<1>1. Types'
    BY DEF ConfirmUnit, Invalidate, Inv, Types
<1> QED
    BY <1>1, ReviewInv DEF ConfirmUnit

LEMMA SetStatusInv ==
    ASSUME Inv, NEW x \in Sheets \union Layers, NEW status \in Reviews, SetStatus(x, status)
    PROVE  Inv' /\ Follow
<1>1. review' \in [Sheets \union Layers -> Reviews]
    BY DEF SetStatus, Inv, Types
<1>2. Types'
    BY <1>1 DEF SetStatus, Invalidate, Inv, Types
<1> QED
    BY <1>2, ReviewInv DEF SetStatus

LEMMA ValidateZoneInv ==
    ASSUME Inv, NEW b \in Buildings, NEW l \in Levels, NEW category \in Categories,
           NEW c \in Candidates, NEW n \in Numbers \union {None},
           ValidateZone(c, b, l, n, category)
    PROVE  Inv' /\ Follow
<1> DEFINE a == [candidate |-> c, building |-> b, level |-> l, lot |-> n, category |-> category]
<1>1. imports > 0 /\ unit \in Units /\ unit # None /\ structure.zones[c] = None
    BY DEF ValidateZone, UnitConfirmed, Inv, Types
<1>2. a \in Associations /\ a.candidate = c
    BY DEF Associations
<1>3. Change(Associate(structure, {a}))
    BY DEF ValidateZone
<1> HIDE DEF a
<1>4. Fresh(structure, {a})
    BY <1>1, <1>2 DEF Fresh
<1> QED
    BY <1>1, <1>3, <1>4, AssociateInv DEF Inv

LEMMA ConfirmLotInv ==
    ASSUME Inv, NEW b \in Buildings, NEW l \in Levels, NEW category \in Categories,
           NEW selected \in SUBSET Proposable, NEW n \in Numbers,
           ConfirmLot(selected, b, l, n, category)
    PROVE  Inv' /\ Follow
<1> DEFINE new == {c \in selected : structure.zones[c] = None}
           At(c) == [candidate |-> c, building |-> b, level |-> l, lot |-> n,
                     category |-> category]
           batch == {At(c) : c \in new}
<1>1. imports > 0 /\ (new # {} => unit \in Units /\ unit # None)
    BY DEF ConfirmLot, UnitConfirmed, Inv, Types
<1>2. selected \subseteq Candidates
    BY DEF Proposable
<1>3. ASSUME NEW c \in new
      PROVE  At(c) \in Associations /\ At(c).candidate = c
    BY <1>2 DEF Associations
<1>4. Change(Associate(structure, batch))
    BY DEF ConfirmLot
<1>5. Fresh(structure, batch)
    <2> HIDE DEF At
    <2>1. \A e \in batch : \E c \in new : e = At(c)
        OBVIOUS
    <2> QED
        BY <1>1, <1>3, <2>1 DEF Fresh
<1>6. batch # {} => unit # None
    BY <1>1
<1> HIDE DEF batch
<1> QED
    BY <1>1, <1>4, <1>5, <1>6, AssociateInv DEF Inv

LEMMA DetachAnnexInv ==
    ASSUME Inv, NEW c \in Candidates, DetachAnnex(c)
    PROVE  Inv' /\ Follow
<1>1. structure.zones[c] # None
    BY DEF DetachAnnex, Unmoved
<1>2. imports > 0 /\ unit # None
    BY <1>1 DEF Inv, ZonesNeedUnit, Zoned
<1>3. imports # 0
    BY <1>2
<1>4. Change(Detached(c))
    BY DEF DetachAnnex
<1> QED
    BY <1>2, <1>3, <1>4, DetachedSound, ChangeInv

LEMMA AttachAnnexInv ==
    ASSUME Inv, NEW c \in Candidates, NEW l \in Levels, NEW n \in Numbers,
           AttachAnnex(c, l, n)
    PROVE  Inv' /\ Follow
<1> DEFINE s == Detached(c)
           At(b) == [candidate |-> c, building |-> b, level |-> l, lot |-> n,
                     category |-> "secondaire_annexe"]
<1>1. imports > 0 /\ unit \in Units /\ unit # None
    BY DEF AttachAnnex, UnitConfirmed, Inv, Types
<1>2. /\ Sound(s) /\ LotNumbers(s) = LotNumbers(structure)
      /\ Zoned(s) = Zoned(structure) \ {c}
      /\ s.buildings \subseteq Buildings
    BY DetachedSound DEF Sound, Typed
<1>3. s.zones[c] = None
    BY <1>2 DEF Zoned
<1>4. PICK b \in s.buildings : Change(Associate(s, {At(b)}))
    BY DEF AttachAnnex
<1>5. At(b) \in Associations /\ At(b).candidate = c
    BY <1>2 DEF Associations, Categories
<1> HIDE DEF At, s
<1>6. Fresh(s, {At(b)})
    BY <1>1, <1>3, <1>5 DEF Fresh
<1> QED
    BY <1>1, <1>2, <1>4, <1>6, AssociateInv

LEMMA AttachProposedAnnexesInv ==
    ASSUME Inv, NEW proposal \in [ProposedAnnexes -> Numbers \union {None}],
           AttachProposedAnnexes(proposal)
    PROVE  Inv' /\ Follow
<1> DEFINE pending == {c \in DOMAIN proposal : proposal[c] \in LotNumbers(structure)}
           gone == pending \intersect Zoned(structure)
           s == RemoveZones(structure, gone)
<1>1. imports > 0 /\ unit \in Units /\ unit # None
    BY DEF AttachProposedAnnexes, UnitConfirmed, Inv, Types
<1>2. gone \in SUBSET Zoned(structure) /\ Sound(structure)
    BY DEF Inv
<1>3. /\ Sound(s) /\ LotNumbers(s) = LotNumbers(structure)
      /\ Zoned(s) = Zoned(structure) \ gone
      /\ structure.buildings \subseteq Buildings
    BY <1>2, RemoveKeeps, RemoveSound DEF Sound, Typed
<1>4. PICK place \in [pending -> structure.buildings] :
        Change(Associate(s,
          {[candidate |-> c, building |-> place[c], level |-> ToBeDefined,
            lot |-> proposal[c], category |-> "secondaire_annexe"] : c \in pending}))
    BY DEF AttachProposedAnnexes
<1> DEFINE At(c) == [candidate |-> c, building |-> place[c], level |-> ToBeDefined,
                     lot |-> proposal[c], category |-> "secondaire_annexe"]
           batch == {At(c) : c \in pending}
<1>5. ASSUME NEW c \in pending
      PROVE  At(c) \in Associations /\ At(c).candidate = c
    <2>1. c \in Candidates /\ proposal[c] \in Numbers
        BY DEF ProposedAnnexes, LotNumbers
    <2>2. place[c] \in Buildings
        BY <1>3, <1>4
    <2> QED
        BY <2>1, <2>2, WorkflowAssumption DEF Associations, Categories
<1>6. \A c \in pending : s.zones[c] = None
    <2>1. \A c \in pending : c \in Candidates
        BY DEF ProposedAnnexes
    <2>2. \A c \in pending : c \notin Zoned(s)
        BY <1>3
    <2> QED
        BY <2>1, <2>2 DEF Zoned
<1>7. Change(Associate(s, batch))
    BY <1>4
<1> HIDE DEF s, pending
<1>8. Fresh(s, batch)
    <2> HIDE DEF At
    <2>1. \A e \in batch : \E c \in pending : e = At(c)
        OBVIOUS
    <2> QED
        BY <1>1, <1>5, <1>6, <2>1 DEF Fresh
<1> HIDE DEF batch
<1> QED
    BY <1>1, <1>3, <1>7, <1>8, AssociateInv

LEMMA UpdateShareInv ==
    ASSUME Inv, NEW n \in Numbers, NEW share \in Shares \union {None}, UpdateShare(n, share)
    PROVE  Inv' /\ Follow
<1>1. milliemes' = [milliemes EXCEPT ![LotId[n]] = share] /\ n \in LotNumbers(structure)
    BY DEF UpdateShare
<1>2. Types'
    BY <1>1 DEF UpdateShare, Invalidate, Inv, Types
<1>3. Follow
    <2>1. Given' \ {LotId[n]} = Given \ {LotId[n]}
        BY <1>1 DEF Given, Inv, Types
    <2>2. KnownLots' = KnownLots /\ LotId[n] \in KnownLots
        BY <1>1 DEF UpdateShare, KnownLots, LotNumbers
    <2> QED
        BY <2>1, <2>2 DEF UpdateShare, Follow, Orphans
<1> QED
    BY <1>2, <1>3, SameStructure DEF UpdateShare, Invalidate, ValidIsReady

LEMMA SetGridCompleteInv ==
    ASSUME Inv, NEW value \in BOOLEAN, SetGridComplete(value)
    PROVE  Inv' /\ Follow
<1>1. Types'
    BY DEF SetGridComplete, Invalidate, Inv, Types
<1>2. Follow
    BY DEF SetGridComplete, Follow, Orphans, Given, KnownLots, LotNumbers
<1> QED
    BY <1>1, <1>2, SameStructure DEF SetGridComplete, Invalidate, ValidIsReady

\* The validation, a request that fails and a stuttering step change no data.
LEMMA SameDataInv ==
    ASSUME Inv, UNCHANGED <<imports, unit, review, structure, milliemes, complete, checks>>,
           valid' \in BOOLEAN, failed' \in BOOLEAN, valid' => Ready
    PROVE  Inv' /\ Follow
<1>1. Types'
    BY DEF Inv, Types
<1>2. Follow
    BY DEF Follow, Orphans, Given, KnownLots, LotNumbers
<1>3. ValidIsReady'
    BY ReadySame DEF ValidIsReady
<1> QED
    BY <1>1, <1>2, <1>3, SameStructure

-----------------------------------------------------------------------------

LEMMA NextInv ==
    ASSUME Inv, [Next]_vars
    PROVE  Inv' /\ Follow
<1>1. valid \in BOOLEAN /\ failed \in BOOLEAN /\ (valid => Ready)
    BY DEF Inv, Types, ValidIsReady
<1>2. CASE UNCHANGED vars
    BY <1>1, <1>2, SameDataInv DEF vars
<1>3. CASE AttachImport
    BY <1>3, AttachImportInv
<1>4. CASE \E retained \in Units : ConfirmUnit(retained)
    BY <1>4, ConfirmUnitInv
<1>5. CASE \E x \in Sheets \union Layers, status \in Reviews : SetStatus(x, status)
    BY <1>5, SetStatusInv
<1>6. ASSUME NEW b \in Buildings, NEW l \in Levels, NEW category \in Categories,
             NEW c \in Candidates, NEW n \in Numbers \union {None},
             ValidateZone(c, b, l, n, category)
      PROVE  Inv' /\ Follow
    BY <1>6, ValidateZoneInv
<1>7. ASSUME NEW b \in Buildings, NEW l \in Levels, NEW category \in Categories,
             NEW selected \in SUBSET Proposable, NEW n \in Numbers,
             ConfirmLot(selected, b, l, n, category)
      PROVE  Inv' /\ Follow
    BY <1>7, ConfirmLotInv
<1>8. CASE \E c \in Candidates : DetachAnnex(c)
    BY <1>8, DetachAnnexInv
<1>9. ASSUME NEW c \in Candidates, NEW l \in Levels, NEW n \in Numbers, AttachAnnex(c, l, n)
      PROVE  Inv' /\ Follow
    BY <1>9, AttachAnnexInv
<1>10. ASSUME NEW c \in Candidates, NEW l \in Levels, NEW n \in Numbers, AttachAnnexFails(c, l, n)
       PROVE  Inv' /\ Follow
    BY <1>1, <1>10, SameDataInv DEF AttachAnnexFails
<1>11. CASE \E proposal \in [ProposedAnnexes -> Numbers \union {None}] :
              AttachProposedAnnexes(proposal)
    BY <1>11, AttachProposedAnnexesInv
<1>12. CASE \E n \in Numbers, share \in Shares \union {None} : UpdateShare(n, share)
    BY <1>12, UpdateShareInv
<1>13. CASE \E value \in BOOLEAN : SetGridComplete(value)
    BY <1>13, SetGridCompleteInv
<1>14. CASE ValidateData
    BY <1>1, <1>14, SameDataInv DEF ValidateData
<1> QED
    BY <1>2, <1>3, <1>4, <1>5, <1>6, <1>7, <1>8, <1>9, <1>10, <1>11, <1>12, <1>13, <1>14
    DEF Next

LEMMA Invariance == Spec => []Inv
<1>1. Init => Inv
    BY InitInv
<1>2. Inv /\ [Next]_vars => Inv'
    BY NextInv
<1> QED
    BY <1>1, <1>2, PTL DEF Spec

\* Every reachable state of the review is well typed: zones and lots refer to
\* each other by identifiers, lots to a structure (domain/models.py).
THEOREM TypeCorrect == Spec => []TypeOK
<1>1. Inv => TypeOK
    BY InvImplies
<1> QED
    BY <1>1, Invariance, PTL

\* No sequence of associations, confirmations, moves, detachments and imports
\* makes the zones, their lots, the levels and the status of the contours
\* disagree, whatever identifiers the labels make (workflow.py:434-803).
THEOREM StructureIsCoherent == Spec => []StructureHolds
<1>1. Inv => StructureHolds
    BY InvImplies
<1> QED
    BY <1>1, Invariance, PTL

\* The checks that readiness reads are always those of the current structure
\* (context.py:81-84).
THEOREM ChecksFollow == Spec => []ChecksAreCurrent
<1>1. Inv => ChecksAreCurrent
    BY DEF Inv
<1> QED
    BY <1>1, Invariance, PTL

\* Data marked as valid has no blocker: every change since takes the mark away
\* (main.py:1259 and 1279).
THEOREM ValidHasNoBlocker == Spec => []ValidIsReady
<1>1. Inv => ValidIsReady
    BY DEF Inv
<1> QED
    BY <1>1, Invariance, PTL

\* The millièmes without a lot are those a plan has left behind, until a lot of
\* their number is constituted again: no other step makes one or removes one
\* (workflow.py:195 and 323).
THEOREM SharesFollowLots == Spec => MilliemesFollowLots
<1>1. Inv /\ [Next]_vars => [Follow]_vars
    BY NextInv
<1>2. MilliemesFollowLots <=> [][Follow]_vars
    BY DEF MilliemesFollowLots, Follow
<1> QED
    BY <1>1, <1>2, Invariance, PTL DEF Spec

=============================================================================
