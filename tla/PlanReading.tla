---------------------------- MODULE PlanReading ----------------------------
(***************************************************************************)
(* How the two engines read an inspected plan: the automatic one           *)
(* (app/reconciliation/engine.py) and the one that applies a drawing       *)
(* profile (app/profiles/reading.py).                                      *)
(*                                                                         *)
(* A plan is drawn on a line instead of a plane: a closed contour is an    *)
(* interval, a text a point, and every distance, touch, "inside" and       *)
(* translation of the code is the same notion on the line.  Surfaces are   *)
(* lengths.  A hollow contour, as a U, does not hold its own centre.       *)
(* Whether a name or a text matches a pattern is given with the layer or   *)
(* the text.                                                               *)
(***************************************************************************)
EXTENDS Integers, Sequences, FiniteSetsExt, SequencesExt

CONSTANTS
    PrincipalLayers,  \* layers the automatic engine reads as 80
    AnnexLayers,      \* as 81
    TrashLayers,      \* as 82, POUBELLE, 00
    Layouts,          \* the planches that are presentations
    Metres,           \* square metres of one square unit, by unit
    LotRadius, SurfaceRadius, TitleRadius,
    Tolerance,        \* largest gap between two equal surfaces: [absolute, permille]
    MinimumContours,  \* automatic_minimum_contours
    None

ASSUME PlanReadingAssumption ==
    /\ {LotRadius, SurfaceRadius, TitleRadius, MinimumContours} \subseteq Nat
    /\ Tolerance \in [absolute : Nat, permille : Nat]
    /\ \A u \in DOMAIN Metres : Metres[u] \in Nat \ {0}
    /\ None \notin DOMAIN Metres
    /\ "model" \notin Layouts
    /\ PrincipalLayers \intersect AnnexLayers = {}

\* ROLE_PRECEDENCE: a layer that matches several roles has the first.
Precedence == <<"archive", "exclusion", "hors_copropriete", "partie_commune",
                "annexe", "surface_principale">>
SetAsideRoles == {"exclusion", "archive", "hors_copropriete"}
ZoneRoles == {"surface_principale", "annexe", "partie_commune"}

-----------------------------------------------------------------------------
(* Geometry.                                                               *)

Distance(x, y) == IF x < y THEN y - x ELSE x - y
Larger(x, y) == IF x < y THEN y ELSE x

\* candidate.bbox: its centre, whether it holds a point, the gap to another.
Center(c) == (c.lo + c.hi) \div 2
Size(c) == c.hi - c.lo
Inside(c, t) ==
    /\ c.lo <= t.x /\ t.x <= c.hi
    /\ c.shape = "creux" => t.x # Center(c)
Gap(c, d) == Max({0, c.lo - d.hi, d.lo - c.hi})

\* SurfaceTolerance.accepts, of a gap that is absolute or relative to the
\* larger surface; a profile brings its own tolerance.
Accepts(tolerance, geometric, annotated) ==
    \/ Distance(geometric, annotated) <= tolerance.absolute
    \/ 1000 * Distance(geometric, annotated)
         <= tolerance.permille * Larger(geometric, annotated)

\* The texts of T within radius of x, and the nearest one: the smallest
\* handle among equals.  _SpatialIndex and _TextIndex.
Near(p, T, x, radius) == {t \in T : Distance(p.texts[t].x, x) <= radius}

Closest(p, T, x) ==
    IF T = {} THEN None
    ELSE Min({t \in T : \A u \in T : Distance(p.texts[t].x, x) <= Distance(p.texts[u].x, x)})
Nearest(p, T, x, radius) == Closest(p, Near(p, T, x, radius), x)

Texts(p, kind) == {t \in DOMAIN p.texts : p.texts[t].kind = kind}
OnSheet(p, T, sheet) == {t \in T : p.texts[t].sheet = sheet}

\* surface_geometrique_m2: unknown, hence summed as 0, without a unit.
Area(d, c) ==
    IF d.unit = None THEN 0 ELSE Size(d.plan.contours[c]) * Metres[d.unit]
TotalArea(d, C) == MapThenSumSet(LAMBDA c : Area(d, c), C)

-----------------------------------------------------------------------------
(* Classification of the contours.                                         *)

Gone == {"exclue", "abandonnee"}

\* human_exclusion_reason: decided on the planche or on the layer.
HumanExcluded(d, c) ==
    \/ d.sheet[d.plan.contours[c].sheet] \in Gone
    \/ d.layer[d.plan.contours[c].layer] \in Gone

\* _technical_exclusion_reason: a layer the user retained is not excluded.
Excluded(d, c) ==
    \/ HumanExcluded(d, c)
    \/ /\ d.plan.contours[c].layer \in TrashLayers
       /\ d.layer[d.plan.contours[c].layer] # "retenue"

Contours(d) == DOMAIN d.plan.contours
OnLayers(d, layers) ==
    {c \in Contours(d) : ~Excluded(d, c) /\ d.plan.contours[c].layer \in layers}
Principal(d) == OnLayers(d, PrincipalLayers)

-----------------------------------------------------------------------------
(* The automatic engine: occurrences of lot numbers.                       *)

Anchors(d) == Texts(d.plan, "numero")

NearestAnchor(d, sheet, x, radius) ==
    Nearest(d.plan, OnSheet(d.plan, Anchors(d), sheet), x, radius)

\* Mutant: a contour belongs to every anchor in reach.
AssignedToAll(d, t) ==
    {c \in Principal(d) :
       t \in Near(d.plan, OnSheet(d.plan, Anchors(d), d.plan.contours[c].sheet),
                  Center(d.plan.contours[c]), LotRadius)}

\* candidates_by_occurrence.
Assigned(d, t) ==
    {c \in Principal(d) :
       t = NearestAnchor(d, d.plan.contours[c].sheet, Center(d.plan.contours[c]), LotRadius)}

\* surfaces_by_occurrence: the closest annotation of those it received.
Annotation(d, t) ==
    LET received == {s \in Texts(d.plan, "surface") :
                       t = NearestAnchor(d, d.plan.texts[s].sheet, d.plan.texts[s].x, SurfaceRadius)}
        s == Nearest(d.plan, received, d.plan.texts[t].x, SurfaceRadius)
    IN  IF s = None THEN None ELSE d.plan.texts[s].value

Reached(d, t, kinds, radius) ==
    Near(d.plan, {u \in DOMAIN d.plan.texts :
                    /\ d.plan.texts[u].kind \in kinds
                    /\ d.plan.texts[u].sheet = d.plan.texts[t].sheet},
         d.plan.texts[t].x, radius)
Titled(d, t) == Reached(d, t, {"titre", "titre_auto"}, TitleRadius) # {}
AutomaticallyTitled(d, t) == Reached(d, t, {"titre_auto"}, TitleRadius) # {}
Labelled(d, t) == \E l \in Reached(d, t, {"libelle"}, LotRadius) :
                    d.plan.texts[l].value = d.plan.texts[t].value

\* The automatic status of an occurrence.
OccurrenceStatus(d, t, contours, annotated) ==
    IF annotated = None \/ contours = {} THEN "non_resolu"
    ELSE IF ~Accepts(Tolerance, TotalArea(d, contours), annotated) THEN "contradictoire"
    ELSE IF /\ d.sheet[d.plan.texts[t].sheet] = "retenue"
            /\ AutomaticallyTitled(d, t)
            /\ Cardinality(contours) >= MinimumContours
    THEN "auto_verifie" ELSE "a_confirmer"

OccurrenceOf(d, t, contours, annotated) ==
    [anchor |-> t, number |-> d.plan.texts[t].value,
     sheet |-> d.plan.texts[t].sheet, contours |-> contours,
     geometric |-> TotalArea(d, contours), annotated |-> annotated,
     titled |-> Titled(d, t),
     status |-> OccurrenceStatus(d, t, contours, annotated)]

\* A bare number, or one with nothing around it, is no occurrence.
Occurrences(d) ==
    {o \in {OccurrenceOf(d, t, Assigned(d, t), Annotation(d, t)) : t \in Anchors(d)} :
       /\ o.titled \/ Labelled(d, o.anchor)
       /\ o.contours # {} \/ o.annotated # None}

-----------------------------------------------------------------------------
(* The profile: which contours it reads, and as what.                      *)

SpaceOf(sheet) == IF sheet \in Layouts THEN sheet ELSE "model"

\* selected_layouts: every one, when the profile names none.
Selected(f) == IF f.layouts = {} THEN Layouts ELSE f.layouts

SpaceAllowed(f, space) ==
    \/ space = "model" /\ f.source \in {"model", "model_layouts"}
    \/ /\ space \in Selected(f) \ f.excludedLayouts
       /\ f.source \in {"layouts", "model_layouts"}

\* role_of: None when no pattern matches.
Role(f, layer) ==
    LET matched == {i \in DOMAIN Precedence : Precedence[i] \in f.roles[layer]}
    IN  IF matched = {} THEN None ELSE Precedence[Min(matched)]

ContourRole(f, p, c) == Role(f, p.contours[c].layer)
ContourSpace(p, c) == SpaceOf(p.contours[c].sheet)

\* The contours of zones that the profile refuses when they cross themselves.
Crossing(f, p, c) ==
    p.contours[c].crossing /\ f.rejectCrossing /\ ContourRole(f, p, c) \in ZoneRoles

\* reading.rejected: set aside by a geometric rule.
Rejected(f, p, c) == ~SpaceAllowed(f, ContourSpace(p, c)) \/ Crossing(f, p, c)

\* usable_texts, and among them those that match the template.
Usable(f, p, kind) ==
    {t \in Texts(p, kind) : /\ SpaceAllowed(f, SpaceOf(p.texts[t].sheet))
                            /\ Role(f, p.texts[t].layer) # "archive"}
Around(f, p, kind, c) ==
    {t \in Usable(f, p, kind) : SpaceOf(p.texts[t].sheet) = ContourSpace(p, c)}

Written(p, c, T) == {t \in T : Inside(p.contours[c], p.texts[t])}
Values(p, T) == {p.texts[t].value : t \in T}

\* The text of the only value written in a contour: the farthest from its centre.
OnlyValue(p, c, written) ==
    IF Cardinality(Values(p, written)) # 1 THEN None
    ELSE Max({t \in written : \A u \in written :
                Distance(p.texts[u].x, Center(p.contours[c]))
                  <= Distance(p.texts[t].x, Center(p.contours[c]))})

\* What a source answers for a contour, of the texts T of its space.
Answer(radius, p, c, source, T) ==
    IF source = "texte_proche" THEN Nearest(p, T, Center(p.contours[c]), radius)
    ELSE OnlyValue(p, c, Written(p, c, T))

\* The first source that answers; later ones may contradict it, and several
\* values written inside (by one of the sources "several") leave it to the next.
Prioritised(p, answers, several) ==
    LET yields == {i \in DOMAIN answers : answers[i] # None}
        first == IF yields = {} THEN None ELSE answers[Min(yields)]
    IN  [text |-> first,
         value |-> IF first = None THEN None ELSE p.texts[first].value,
         conflict |-> \E i \in yields : p.texts[answers[i]].value # p.texts[first].value,
         ambiguous |-> \E i \in several : yields = {} \/ i < Min(yields)]

\* read_value.
Reading(radius, p, c, sources, T) ==
    Prioritised(p, [i \in DOMAIN sources |-> Answer(radius, p, c, sources[i], T)],
                {i \in DOMAIN sources : /\ sources[i] = "texte_dans_zone"
                                        /\ Cardinality(Values(p, Written(p, c, T))) > 1})

LevelTexts(f, p) == IF f.levels THEN Usable(f, p, "niveau") ELSE {}
Level(f, p, c) ==
    Nearest(p, {t \in LevelTexts(f, p) : SpaceOf(p.texts[t].sheet) = ContourSpace(p, c)},
            Center(p.contours[c]), f.levelRadius)

\* The values of the principal surfaces, of the contours kept with their roles.
Principals(roles) == {c \in DOMAIN roles : roles[c] = "surface_principale"}
ValuesOf(f, p, roles) ==
    [role |-> roles,
     lot |-> [c \in Principals(roles) |->
                Reading(f.lotRadius, p, c, f.lotSources, Around(f, p, f.lotKind, c))],
     surface |-> [c \in Principals(roles) |->
                    Reading(f.surfaceRadius, p, c, f.surfaceSources, Around(f, p, "surface", c))],
     level |-> [c \in Principals(roles) |-> Level(f, p, c)]]

\* read_plan, of the contours nobody excluded.
ReadPlan(f, p, skipped) ==
    ValuesOf(f, p, [c \in {q \in DOMAIN p.contours \ skipped : ~Rejected(f, p, q)} |->
                      ContourRole(f, p, c)])
ByRole(reading, roles) == {c \in DOMAIN reading.role : reading.role[c] \in roles}

\* annex_lot_inside.
LotInside(f, p, c) ==
    LET values == Values(p, Written(p, c, Around(f, p, f.lotKind, c)))
    IN  IF Cardinality(values) = 1 THEN CHOOSE v \in values : TRUE ELSE None
=============================================================================
