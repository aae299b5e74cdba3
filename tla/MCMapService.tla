---------------------------- MODULE MCMapService ----------------------------
(* Small instances of MapService for TLC. *)
EXTENDS MapService

Section(state, n) == [section |-> state, name |-> n]

\* The configuration that goes with Resources/Capability.xml.
GoodConfig == [Object |-> Section("good", "prim"), Terrain |-> Section("good", "terrain"),
               Agent |-> Section("good", "avatar")]

\* Beside it: one section missing, or broken, or good, but without a name or
\* with another layer's.
SomeConfigs ==
  {GoodConfig}
  \union {[GoodConfig EXCEPT ![l] = Section("missing", NULL)] : l \in Layers}
  \union {[GoodConfig EXCEPT ![l] = Section(s, n)] :
            l \in Layers, s \in {"broken", "good"}, n \in {"terrain", NULL}}

Map(layers, s) == [kind |-> "GetMap", layers |-> layers, malformed |-> FALSE, size |-> s]

Plain(k) == [kind |-> k, layers |-> <<>>, malformed |-> FALSE, size |-> "fair"]

Bad == [kind |-> "GetMap", layers |-> <<"prim">>, malformed |-> TRUE, size |-> "fair"]

\* Two layers, one layer twice, a layer nobody knows; a size of no bitmap, and one
\* that may be too large.
MapQueries == {Map(<<"terrain", "prim">>, "fair"), Map(<<"prim", "prim">>, "fair"),
               Map(<<"avatar", "roads">>, "fair"),
               Map(<<"terrain">>, "none"), Map(<<"avatar">>, "huge")}

AllQueries == MapQueries \union {Bad, Plain("GetCapabilities"), Plain("GetFeature"), Plain("other")}
=============================================================================
