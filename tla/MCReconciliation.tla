-------------------------- MODULE MCReconciliation --------------------------
(* Drawings and profiles small enough for TLC, each with one of the cases   *)
(* that make reconciliation hard.                                           *)
EXTENDS Reconciliation

Contour(sheet, layer, lo, hi) ==
    [sheet |-> sheet, layer |-> layer, lo |-> lo, hi |-> hi, shape |-> "plain", crossing |-> FALSE]
Text(sheet, kind, x, value) ==
    [sheet |-> sheet, layer |-> "05", x |-> x, kind |-> kind, value |-> value]

\* Lot 1 in the model and pasted in a layout; lot 2 without an annotation;
\* an annex that touches both; a contour of the layout that nothing numbers.
Pasted ==
    [unit |-> "m", abandoned |-> {},
     contours |-> << Contour("model", "80", 0, 2), Contour("model", "80", 2, 4),
                     Contour("layout", "80", 20, 22), Contour("layout", "80", 22, 24),
                     Contour("model", "80", 6, 10), Contour("model", "81", 4, 6),
                     Contour("layout", "80", 30, 32) >>,
     texts |-> << Text("model", "numero", 2, "1"), Text("model", "surface", 2, 4),
                  Text("model", "titre_auto", 3, "t"),
                  Text("layout", "numero", 22, "1"), Text("layout", "surface", 22, 4),
                  Text("layout", "titre", 22, "t"),
                  Text("model", "numero", 8, "2"), Text("model", "numero", 7, "2") >>]

\* A draft of lot 1 on an older version of the drawing, left without
\* annotation; a contour on a layer of waste and one on a layer unknown to
\* the automatic engine; an annex near lot 1 alone.
Draft ==
    [unit |-> None, abandoned |-> {"old"},
     contours |-> << Contour("model", "80", 0, 2), Contour("model", "80", 2, 4),
                     Contour("old", "80", 20, 24), Contour("model", "82", 4, 6),
                     Contour("model", "81", 0, 4) >>,
     texts |-> << Text("model", "numero", 1, "1"), Text("model", "surface", 2, 4),
                  Text("model", "titre_auto", 3, "t"), Text("old", "numero", 22, "1"),
                  Text("old", "libelle", 22, "1"), Text("model", "numero", 5, "2") >>]

\* For the profile that reads marks: two marks in one contour, a hollow one
\* that its own mark and the nearest one disagree about, a contour that
\* crosses itself; an annex that touches lot 1 and keeps clear of lot 2.
Crowded ==
    [unit |-> "m", abandoned |-> {},
     contours |-> << Contour("model", "80", 0, 4),
                     [Contour("model", "80", 7, 9) EXCEPT !.shape = "creux"],
                     Contour("model", "81", 4, 6),
                     [Contour("model", "80", 9, 11) EXCEPT !.crossing = TRUE],
                     Contour("model", "81", 11, 13) >>,
     texts |-> << Text("model", "numero", 3, "1"), Text("model", "surface", 2, 4),
                  Text("model", "numero", 8, "2"), Text("model", "titre", 5, "t"),
                  Text("model", "repere", 1, "1"), Text("model", "repere", 3, "2"),
                  Text("model", "repere", 7, "2"), Text("model", "repere", 8, "1"),
                  Text("model", "surface", 9, 4), Text("model", "repere", 10, "2"),
                  Text("model", "repere", 5, "1"), Text("model", "repere", 12, "1"),
                  Text("model", "numero", 1, "2") >>]

\* Nothing to say about it, for the profile that reads marks.
Clean ==
    [unit |-> None, abandoned |-> {},
     contours |-> << Contour("model", "80", 0, 2), Contour("model", "80", 2, 4),
                     Contour("model", "80", 6, 10) >>,
     texts |-> << Text("model", "repere", 1, "1"), Text("model", "repere", 3, "1"),
                  Text("model", "surface", 2, 4), Text("model", "niveau", 2, "RDC"),
                  Text("model", "repere", 8, "2"), Text("model", "surface", 8, 4),
                  Text("model", "niveau", 8, "RDC"), Text("model", "numero", 2, "1"),
                  Text("model", "titre_auto", 3, "t"), Text("model", "numero", 8, "2") >>]

\* Two levels of lot 1 in the model, one of them pasted in a layout.
Levels ==
    [unit |-> "m", abandoned |-> {},
     contours |-> << Contour("model", "80", 0, 4), Contour("model", "80", 20, 24),
                     Contour("layout", "80", 0, 4) >>,
     texts |-> << Text("model", "numero", 2, "1"), Text("model", "surface", 2, 4),
                  Text("model", "titre", 4, "t"), Text("model", "numero", 22, "1"),
                  Text("model", "surface", 22, 4), Text("model", "titre", 22, "t"),
                  Text("layout", "numero", 2, "1"), Text("layout", "surface", 2, 4),
                  Text("layout", "titre", 2, "t") >>]

MCPlans == {Pasted, Draft, Crowded, Clean}
MCLevels == {Levels}
MCDrafts == {Draft}

RolesOf(eighty, annex, waste) ==
    [l \in {"80", "81", "82", "05"} |->
        CASE l = "80" -> eighty [] l = "81" -> annex [] l = "82" -> waste [] OTHER -> {}]

\* The relative part of the default tolerance.
Thousandth == [absolute |-> 0, permille |-> 1]

Strict ==
    [roles |-> RolesOf({"surface_principale"}, {"annexe"}, {"exclusion"}),
     source |-> "model", excludedLayouts |-> {}, rejectCrossing |-> TRUE,
     lotSources |-> <<"texte_dans_zone", "texte_proche">>,
     surfaceSources |-> <<"texte_proche">>, lotKind |-> "numero", lotRadius |-> 3, surfaceRadius |-> 3,
     levelRadius |-> 3, layouts |-> {}, tolerance |-> Thousandth, conflict |-> "signaler", annexInside |-> FALSE,
     annexFallback |-> "proximite", unit |-> "m", levels |-> FALSE, markers |-> FALSE]

\* Another office, more tolerant: 82 holds the surfaces, 80 has no role.
Other ==
    [Strict EXCEPT !.roles = RolesOf({}, {"annexe", "partie_commune"}, {"surface_principale"}),
                   !.source = "model_layouts", !.lotSources = <<"texte_proche">>,
                   !.conflict = "geometrie", !.annexInside = TRUE, !.unit = "dm",
                   !.tolerance = [absolute |-> 1, permille |-> 250]]

\* Reads marks, inside first, and the levels; leaves annexes without a mark.
Marks ==
    [Strict EXCEPT !.rejectCrossing = FALSE, !.lotKind = "repere", !.annexInside = TRUE,
                   !.annexFallback = "rien", !.levels = TRUE,
                   !.surfaceRadius = 2, !.levelRadius = 5]

\* Reads one layout only.
Presented == [Strict EXCEPT !.source = "layouts", !.layouts = {"layout"}]

MCProfiles == {Strict, Other, Marks, Presented}
MCMetres == [m |-> 1, dm |-> 3]
=============================================================================
