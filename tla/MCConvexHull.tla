---------------------------- MODULE MCConvexHull ----------------------------
(* Small instances of ConvexHull for TLC. *)
EXTENDS ConvexHull

Norm(t) == t[1]*t[1] + t[2]*t[2] + t[3]*t[3] + t[4]*t[4]

\* A quaternion and its negative are one rotation.
Turns == {t \in (-1..1) \X (-1..1) \X (-1..1) \X (0..1) : Norm(t) # 0}

Quat(t, n) == [x |-> t[1], y |-> t[2], z |-> t[3], w |-> t[4], unit |-> n]

\* Of a prim without one of its edges, and of one with all; and, as the method
\* asks for no quaternion of length one, some of half the square, for which a
\* prim casts a line; and a prim without any edge.
MCPrims ==
  [scale : {<<2, 1, 3>>, <<1, 2, 3>>, <<2, 2, 0>>}, pos : {<<7, -3, 0>>}, quat : {Quat(t, Norm(t)) : t \in Turns}]
  \union [scale : {<<1, 2, 0>>, <<0, 1, 3>>}, pos : {<<7, -3, 0>>},
          quat : {Quat(t, 2 * Norm(t)) : t \in Turns}]
  \union [scale : {<<0, 0, 0>>}, pos : {<<7, -3, 0>>}, quat : {Quat(<<0, 0, 0, 1>>, 1)}]
  \union {TestedPrim}

NoError == [s \in Signs |-> <<0, 0>>]

\* No error, and one that moves a corner of the box by one.
MCErrors == {NoError, [NoError EXCEPT ![<<1, -1, 1>>] = <<1, 0>>],
             [NoError EXCEPT ![<<-1, -1, -1>>] = <<-1, 1>>]}

\* Exact comparisons; those of points in line go wrong; and of points nearly so.
MCSlacks == {0, 1, 9}
=============================================================================
