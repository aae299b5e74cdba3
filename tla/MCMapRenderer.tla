--------------------------- MODULE MCMapRenderer ---------------------------
(* Small instances of MapRenderer for TLC. *)
EXTENDS MapRenderer, TLC

\* Cuts on and beside the corners of a square, of a triangle and of circles;
\* each pair is a begin and an end.
MCCuts ==
  {<<0, 100000>>, <<0, 25000>>, <<0, 25001>>, <<0, 25020>>, <<0, 25030>>, <<0, 33333>>,
   <<0, 99500>>, <<0, 500>>, <<12500, 62500>>, <<20000, 70000>>, <<24997, 100000>>,
   <<24999, 100000>>, <<24999, 75000>>, <<25000, 87500>>, <<25001, 50000>>,
   <<33333, 100000>>, <<33334, 66666>>, <<33334, 66700>>, <<66667, 100000>>, <<75000, 100000>>}

MCPaths ==
  LET Line == [path |-> "line", pathBegin |-> 0, pathEnd |-> 100000, twist |-> 0,
               revolutions |-> 100, bent |-> FALSE, tapered |-> FALSE, rounded |-> 0]
  IN  {Line,
       [Line EXCEPT !.tapered = TRUE],
       [Line EXCEPT !.twist = 200, !.pathEnd = 50000],
       [Line EXCEPT !.path = "circle"],
       [Line EXCEPT !.path = "circle", !.pathBegin = 12500, !.twist = 60, !.revolutions = 400,
                    !.rounded = 2],
       [Line EXCEPT !.path = "circle2", !.bent = TRUE, !.rounded = 1],
       [Line EXCEPT !.path = "flexible"]}

\* Of a solid it only matters whether the curve type has bits of a hole.
MCHoles(hollow) == IF hollow THEN {"same", "circle", "square", "triangle"} ELSE {"same", "square"}

MCShapes ==
  UNION {{[curve |-> c, hole |-> h, hollow |-> b, begin |-> cut[1], end |-> cut[2]] @@ p :
            c \in {"square", "tri", "circle", "half"}, h \in MCHoles(b), cut \in MCCuts,
            p \in MCPaths} : b \in BOOLEAN}

MCDetails == {2, 3, 5, 8}
=============================================================================
