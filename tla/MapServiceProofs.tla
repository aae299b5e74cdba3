-------------------------- MODULE MapServiceProofs --------------------------
(***************************************************************************)
(* The safety properties of MapService hold for any number of HTTP         *)
(* requests, any queries and any configuration files.                      *)
(*                                                                         *)
(* RegisteredWhole is a matter of Initialise alone: what its steps have    *)
(* done so far (StartInv).  MapIsWhole is one of each request alone, once  *)
(* layerDict does not change any more: what it has drawn so far (HttpInv). *)
(* ErrorHasCause relates the requests to the calls they have made of the   *)
(* layers: a call that is under way belongs to the request that waits for  *)
(* it, and until some request has run with a picture missing or renewed    *)
(* every such call is sure of its picture, so none may fail; and until a   *)
(* map has been asked for that memory may be too short for, nothing else   *)
(* fails either (CallInv).                                                 *)
(***************************************************************************)
EXTENDS MapService, FiniteSetTheorems, TLAPS

\* The first n layers are filed, each under its own name.
FiledTo(n) ==
  /\ DOMAIN layerDict = {name[Order[i]] : i \in 1..n}
  /\ \A i \in 1..n : layerDict[name[Order[i]]] = Order[i]

StartInv ==
  /\ start \in [does : {"read", "create", "add", "register", "serve", "threw"}, layer : 1..3]
  /\ DOMAIN name = Layers
  /\ \/ /\ start.does = "read"
        /\ threads = {} /\ FiledTo(0)
     \/ /\ start.does = "create"
        /\ threads = {Order[i] : i \in 1 .. start.layer - 1} /\ FiledTo(0)
     \/ /\ start.does = "add"
        /\ threads = Layers /\ FiledTo(start.layer - 1)
     \/ /\ start.does \in {"register", "serve"}
        /\ threads = Layers /\ FiledTo(3)
     \/ start.does = "threw"

\* For a request w: the layer that the i-th part of LAYERS names, if any.
LayerAt(w, i) == layerDict[w.query.layers[i]]

Known(w, i) == w.query.layers[i] \in DOMAIN layerDict

\* The layers before layer n are drawn.
DrawnTo(w, n) ==
  /\ Len(w.drawn) = n
  /\ \A i \in 1..n : w.drawn[i] = LayerAt(w, i) /\ Known(w, i)

WellFormed(w) ==
  /\ w.query \in Queries
  /\ w.query.kind = "GetMap" /\ ~w.query.malformed

Pcs == {"idle", "reply", "compose", "ask", "take", "done"}

Answers == {"none", "error", "unsupported", "GetCapabilities", "GetFeature", "other", "image/png"}

HttpType == [pc : Pcs, query : Queries \union {NULL}, layer : Nat,
             drawn : Seq(Layers), bitmaps : Nat, out : Answers]

\* How far the request w has come.
HttpInv(w) ==
  \/ /\ w.pc = "idle" /\ w.out = "none" /\ w.drawn = <<>>
  \/ /\ w.pc = "reply" /\ w.out = "none" /\ Registered
     /\ w.query \in Queries /\ w.query.kind # "GetMap"
  \/ /\ w.pc = "compose" /\ w.out = "none" /\ w.drawn = <<>> /\ Registered
     /\ WellFormed(w)
  \/ /\ w.pc \in {"ask", "take"} /\ w.out = "none" /\ Registered
     /\ WellFormed(w)
     /\ w.layer \in 1 .. Len(w.query.layers) + 1
     /\ DrawnTo(w, w.layer - 1)
     /\ w.bitmaps = IF w.pc = "take" THEN 2 ELSE 1
     /\ w.pc = "take" => w.layer <= Len(w.query.layers) /\ Known(w, w.layer)
  \/ /\ w.pc = "done" /\ Registered
     /\ w.out = SavedAs => /\ WellFormed(w)
                           /\ w.bitmaps = 0
                           /\ DrawnTo(w, Len(w.query.layers))

\* A map of known layers, of a positive size, that has failed.
Failed(w) ==
  /\ w.out = "error" /\ w.query.kind = "GetMap" /\ ~w.query.malformed
  /\ w.query.size # "none"
  /\ \A i \in 1..Len(w.query.layers) : Known(w, i)

\* A call of the layer l that is under way is the one its request waits for.
Owned(l, k) ==
  \A h \in Http, i \in 1..MostLayers : k[<<h, i>>] = "running" =>
    http[h].pc = "take" /\ http[h].layer = i /\ LayerAt(http[h], i) = l

\* No call has failed, and none may.
Sound(k, u) ==
  \A c \in Calls : k[c] # "failed" /\ (k[c] = "running" => c \in u)

CallStates == [Calls -> {"idle", "running", "answered", "failed"}]

CallInv ==
  /\ objectCall \in CallStates /\ terrainCall \in CallStates /\ agentCall \in CallStates
  /\ Owned("Object", objectCall) /\ Owned("Terrain", terrainCall) /\ Owned("Agent", agentCall)
  /\ unsettled = {} => /\ Sound(objectCall, objectSure)
                       /\ Sound(terrainCall, terrainSure)
                       /\ Sound(agentCall, agentSure)
  /\ unsettled = {} /\ ~Strained => \A h \in Http : ~Failed(http[h])

IInv ==
  /\ StartInv
  /\ http \in [Http -> HttpType]
  /\ \A h \in Http : HttpInv(http[h])
  /\ CallInv

(***************************************************************************)
(* Initialise.                                                             *)
(***************************************************************************)

LEMMA Orders ==
  /\ Len(Order) = 3 /\ \A i \in 1..3 : Order[i] \in Layers
  /\ \A l \in Layers : \E i \in 1..3 : Order[i] = l
  /\ \A i, j \in 1..3 : Order[i] = Order[j] => i = j
BY DEF Order, Layers

LEMMA StartStep ==
  ASSUME StartInv, Initialise
  PROVE  StartInv' /\ ~Registered
<1>1. /\ start \in [does : {"read", "create", "add", "register", "serve", "threw"}, layer : 1..3]
      /\ DOMAIN name = Layers
  BY DEF StartInv
<1>2. ~Registered
  BY DEF Initialise, ReadSection, CreateLayer, AddLayer, Register, At, Registered
<1>3. ASSUME NEW next \in {"create", "add", "register"}, Continue(next)
      PROVE  /\ start' \in [does : {"read", "create", "add", "register", "serve", "threw"},
                            layer : 1..3]
             /\ \/ /\ start.layer \in {1, 2}
                   /\ start'.does = start.does /\ start'.layer = start.layer + 1
                \/ /\ start.layer = 3
                   /\ start'.does = next /\ start'.layer = 1
  <2>1. CASE start.layer < 3
    <3>1. start' = [start EXCEPT !.layer = @ + 1]
      BY <1>3, <2>1, Orders DEF Continue
    <3> QED
      BY <1>1, <2>1, <3>1
  <2>2. CASE ~(start.layer < 3)
    <3>1. start' = [does |-> next, layer |-> 1]
      BY <1>3, <2>2, Orders DEF Continue
    <3> QED
      BY <1>1, <1>3, <2>2, <3>1
  <2> QED
    BY <2>1, <2>2
<1>4. CASE ReadSection
  <2>1. start.does = "read" /\ threads = {} /\ DOMAIN layerDict = {}
    BY <1>4 DEF ReadSection, At, StartInv, FiledTo
  <2>2. UNCHANGED <<threads, layerDict>> /\ DOMAIN name' = Layers
    BY <1>1, <1>4 DEF ReadSection
  <2>3. /\ start' \in [does : {"read", "create", "add", "register", "serve", "threw"}, layer : 1..3]
        /\ start'.does = "read" \/ (start'.does = "create" /\ start'.layer = 1)
    BY <1>3, <1>4, <2>1 DEF ReadSection
  <2>4. FiledTo(0)'
    BY <2>1, <2>2 DEF FiledTo
  <2>5. threads' = {} /\ {Order[i] : i \in 1 .. 1 - 1} = {}
    BY <2>1, <2>2
  <2> QED
    BY <1>2, <2>2, <2>3, <2>4, <2>5 DEF StartInv
<1>5. CASE CreateLayer
  <2>1. /\ start.does = "create" /\ DOMAIN layerDict = {}
        /\ threads = {Order[i] : i \in 1 .. start.layer - 1}
    <3>1. /\ start.does = "create" /\ FiledTo(0)
          /\ threads = {Order[i] : i \in 1 .. start.layer - 1}
      BY <1>5 DEF CreateLayer, At, StartInv
    <3> QED
      BY <3>1 DEF FiledTo
  <2>2. UNCHANGED <<name, layerDict>> /\ threads' = threads \union {Order[start.layer]}
    BY <1>5 DEF CreateLayer
  <2>3. /\ start' \in [does : {"read", "create", "add", "register", "serve", "threw"}, layer : 1..3]
        /\ \/ /\ start.layer \in {1, 2}
              /\ start'.does = "create" /\ start'.layer = start.layer + 1
           \/ /\ start.layer = 3
              /\ start'.does = "add" /\ start'.layer = 1
    BY <1>3, <1>5, <2>1 DEF CreateLayer
  <2>4. FiledTo(0)'
    BY <2>1, <2>2 DEF FiledTo
  <2>5. threads' = {Order[i] : i \in 1 .. start.layer}
    BY <1>1, <2>1, <2>2
  <2>6. {Order[i] : i \in 1..3} = Layers
    BY Orders
  <2> QED
    BY <1>1, <1>2, <2>2, <2>3, <2>4, <2>5, <2>6 DEF StartInv
<1>6. CASE AddLayer
  <2>1. start.does = "add" /\ threads = Layers /\ FiledTo(start.layer - 1)
    BY <1>6 DEF AddLayer, At, StartInv
  <2>2. UNCHANGED <<name, threads>>
    BY <1>6 DEF AddLayer
  <2> DEFINE l == Order[start.layer]
  <2>3. CASE name[l] = NULL \/ name[l] \in DOMAIN layerDict
    <3>1. start' = [does |-> "threw", layer |-> start.layer]
      BY <1>6, <2>3 DEF AddLayer
    <3> QED
      BY <1>1, <1>2, <2>2, <3>1 DEF StartInv
  <2>4. CASE ~(name[l] = NULL \/ name[l] \in DOMAIN layerDict)
    <3>1. /\ layerDict' = [n \in DOMAIN layerDict \union {name[l]} |->
                             IF n = name[l] THEN l ELSE layerDict[n]]
          /\ Continue("register")
      BY <1>6, <2>4 DEF AddLayer
    <3>2. /\ start' \in [does : {"read", "create", "add", "register", "serve", "threw"}, layer : 1..3]
          /\ \/ /\ start.layer \in {1, 2}
                /\ start'.does = "add" /\ start'.layer = start.layer + 1
             \/ /\ start.layer = 3
                /\ start'.does = "register" /\ start'.layer = 1
      BY <1>3, <2>1, <3>1
    <3>3. DOMAIN layerDict' = {name[Order[i]] : i \in 1 .. start.layer}
      BY <1>1, <2>1, <3>1 DEF FiledTo
    <3>4. \A i \in 1 .. start.layer : layerDict'[name[Order[i]]] = Order[i]
      <4> SUFFICES ASSUME NEW i \in 1 .. start.layer
                   PROVE  layerDict'[name[Order[i]]] = Order[i]
        OBVIOUS
      <4>1. CASE i = start.layer
        BY <3>1, <4>1
      <4>2. CASE i # start.layer
        <5>1. i \in 1 .. start.layer - 1
          BY <1>1, <4>2
        <5>2. name[Order[i]] \in DOMAIN layerDict /\ layerDict[name[Order[i]]] = Order[i]
          BY <2>1, <5>1 DEF FiledTo
        <5> QED
          BY <2>4, <3>1, <5>2
      <4> QED
        BY <4>1, <4>2
    <3>5. \A n : n = start.layer => FiledTo(n)'
      BY <2>2, <3>3, <3>4 DEF FiledTo
    <3> QED
      BY <1>1, <1>2, <2>1, <2>2, <3>2, <3>5 DEF StartInv
  <2> QED
    BY <2>3, <2>4
<1>7. CASE Register
  <2>1. start.does = "register" /\ threads = Layers /\ FiledTo(3)
    BY <1>7 DEF Register, At, StartInv
  <2>2. UNCHANGED <<name, threads, layerDict>> /\ start' = [does |-> "serve", layer |-> 1]
    BY <1>7 DEF Register
  <2>3. FiledTo(3)'
    BY <2>1, <2>2 DEF FiledTo
  <2> QED
    BY <1>1, <1>2, <2>1, <2>2, <2>3 DEF StartInv
<1> QED
  BY <1>4, <1>5, <1>6, <1>7 DEF Initialise

(***************************************************************************)
(* Requests.                                                               *)
(***************************************************************************)

LEMMA StartFixed ==
  ASSUME UNCHANGED startVars, NEW w
  PROVE  /\ HttpInv(w)' <=> HttpInv(w)
         /\ Failed(w)' <=> Failed(w)
         /\ \A i : LayerAt(w, i)' = LayerAt(w, i)
         /\ StartInv' <=> StartInv
<1>1. UNCHANGED <<config, start, name, threads, layerDict>>
  BY DEF startVars
<1>2. Registered' <=> Registered
  BY <1>1 DEF Registered, At
<1>3. \A i : LayerAt(w, i)' = LayerAt(w, i) /\ (Known(w, i)' <=> Known(w, i))
  BY <1>1 DEF LayerAt, Known
<1>4. \A n : DrawnTo(w, n)' <=> DrawnTo(w, n)
  BY <1>3 DEF DrawnTo
<1>5. HttpInv(w)' <=> HttpInv(w)
  BY <1>2, <1>3, <1>4 DEF HttpInv
<1>6. Failed(w)' <=> Failed(w)
  BY <1>3 DEF Failed
<1>7. StartInv' <=> StartInv
  BY <1>1 DEF StartInv, FiledTo
<1> QED
  BY <1>3, <1>5, <1>6, <1>7

LEMMA StartIInv ==
  ASSUME IInv, Initialise
  PROVE  IInv'
<1>1. StartInv' /\ ~Registered
  BY StartStep DEF IInv
<1>2. UNCHANGED <<http, unsettled, layerVars>>
  BY DEF Initialise, ReadSection, CreateLayer, AddLayer, Register
<1>3. \A h \in Http : http[h].pc = "idle" /\ http[h].out = "none" /\ http[h].drawn = <<>>
  BY <1>1 DEF IInv, HttpInv
<1>4. \A h \in Http : HttpInv(http[h])'
  BY <1>2, <1>3 DEF HttpInv
<1>5. \A h \in Http : ~Failed(http[h])'
  BY <1>2, <1>3 DEF Failed
<1>6. /\ UNCHANGED <<objectCall, terrainCall, agentCall>>
      /\ UNCHANGED <<objectSure, terrainSure, agentSure>>
  BY <1>2 DEF layerVars, objectVars, terrainVars, agentVars
<1>7. Owned("Object", objectCall)' /\ Owned("Terrain", terrainCall)' /\ Owned("Agent", agentCall)'
  BY <1>2, <1>3, <1>6 DEF IInv, CallInv, Owned
<1> QED
  BY <1>1, <1>2, <1>4, <1>5, <1>6, <1>7 DEF IInv, CallInv, Sound

\* What a step of h may do to the calls k of the layer l.
Moves(h, w, l, k, next) ==
  /\ next \in CallStates
  /\ \A g \in Http, i \in 1..MostLayers :
       g # h /\ next[<<g, i>>] = "running" => k[<<g, i>>] = "running"
  /\ \A i \in 1..MostLayers : next[<<h, i>>] = "running" =>
       w.pc = "take" /\ w.layer = i /\ LayerAt(w, i) = l

LEMMA OwnedMoves ==
  ASSUME NEW h \in Http, NEW w, NEW l, NEW k, NEW next, Moves(h, w, l, k, next), Owned(l, k),
         \A g \in Http : http'[g] = IF g = h THEN w ELSE http[g],
         UNCHANGED startVars
  PROVE  \A g \in Http, i \in 1..MostLayers : next[<<g, i>>] = "running" =>
           http'[g].pc = "take" /\ http'[g].layer = i /\ LayerAt(http[g], i)' = l
<1> SUFFICES ASSUME NEW g \in Http, NEW i \in 1..MostLayers, next[<<g, i>>] = "running"
             PROVE  http'[g].pc = "take" /\ http'[g].layer = i /\ LayerAt(http[g], i)' = l
  OBVIOUS
<1>1. layerDict' = layerDict
  BY DEF startVars
<1>2. CASE g = h
  BY <1>1, <1>2 DEF Moves, LayerAt
<1>3. CASE g # h
  <2>1. k[<<g, i>>] = "running"
    BY <1>3 DEF Moves
  <2> QED
    BY <1>1, <1>3, <2>1 DEF Owned, LayerAt
<1> QED
  BY <1>2, <1>3

\* A request that has come keeps its query.
Keeps(v, w) == v.pc # "idle" => w.pc # "idle" /\ w.query = v.query

LEMMA RequestStep ==
  ASSUME IInv, UNCHANGED startVars, NEW h \in Http, NEW w \in HttpType,
         http' = [http EXCEPT ![h] = w], HttpInv(w), Keeps(http[h], w),
         Moves(h, w, "Object", objectCall, objectCall'),
         Moves(h, w, "Terrain", terrainCall, terrainCall'),
         Moves(h, w, "Agent", agentCall, agentCall'),
         unsettled = {} /\ ~Strained => ~Failed(w),
         unsettled' = {} => /\ unsettled = {}
                            /\ Sound(objectCall', objectSure')
                            /\ Sound(terrainCall', terrainSure')
                            /\ Sound(agentCall', agentSure')
  PROVE  IInv'
<1>1. /\ StartInv /\ http \in [Http -> HttpType] /\ \A g \in Http : HttpInv(http[g])
      /\ CallInv
  BY DEF IInv
<1>2. StartInv'
  BY <1>1, StartFixed
<1>3. /\ http' \in [Http -> HttpType]
      /\ \A g \in Http : http'[g] = IF g = h THEN w ELSE http[g]
  BY <1>1
<1>4. \A g \in Http : HttpInv(http'[g])
  BY <1>1, <1>3
<1>5. ASSUME NEW g \in Http PROVE HttpInv(http[g])'
  <2>1. PICK v : v = http'[g]
    OBVIOUS
  <2>2. HttpInv(v)'
    BY <1>4, <2>1, StartFixed
  <2> QED
    BY <2>1, <2>2
<1>6. Owned("Object", objectCall)'
  BY <1>1, <1>3, OwnedMoves DEF Owned, CallInv
<1>7. Owned("Terrain", terrainCall)'
  BY <1>1, <1>3, OwnedMoves DEF Owned, CallInv
<1>8. Owned("Agent", agentCall)'
  BY <1>1, <1>3, OwnedMoves DEF Owned, CallInv
<1>11. Strained => Strained'
  BY <1>3 DEF Strained, Keeps
<1>9. ASSUME unsettled' = {}, ~Strained', NEW g \in Http PROVE ~Failed(http[g])'
  <2>1. PICK v : v = http'[g]
    OBVIOUS
  <2>2. ~Failed(v)
    BY <1>1, <1>3, <1>9, <1>11, <2>1 DEF CallInv
  <2>3. ~Failed(v)'
    BY <2>2, StartFixed
  <2> QED
    BY <2>1, <2>3
<1>10. CallInv'
  BY <1>6, <1>7, <1>8, <1>9 DEF CallInv, Sound, Moves
<1> QED
  BY <1>2, <1>3, <1>5, <1>10 DEF IInv

\* The request h has made no call that is under way.
Waiting(h) ==
  \E i \in 1..MostLayers : \/ objectCall[<<h, i>>] = "running"
                           \/ terrainCall[<<h, i>>] = "running"
                           \/ agentCall[<<h, i>>] = "running"

\* A step of h that makes no call.
LEMMA NoCall ==
  ASSUME IInv, UNCHANGED <<startVars, unsettled, layerVars>>, NEW h \in Http, ~Waiting(h),
         NEW w \in HttpType, http' = [http EXCEPT ![h] = w], HttpInv(w), Keeps(http[h], w),
         unsettled = {} /\ ~Strained => ~Failed(w)
  PROVE  IInv'
<1>1. /\ UNCHANGED <<objectCall, terrainCall, agentCall>>
      /\ UNCHANGED <<objectSure, terrainSure, agentSure>>
  BY DEF layerVars, objectVars, terrainVars, agentVars
<1>2. CallInv
  BY DEF IInv
<1>3. Moves(h, w, "Object", objectCall, objectCall')
  BY <1>1, <1>2 DEF Moves, CallInv, Waiting
<1>4. Moves(h, w, "Terrain", terrainCall, terrainCall')
  BY <1>1, <1>2 DEF Moves, CallInv, Waiting
<1>5. Moves(h, w, "Agent", agentCall, agentCall')
  BY <1>1, <1>2 DEF Moves, CallInv, Waiting
<1>6. unsettled' = {} => /\ unsettled = {}
                         /\ Sound(objectCall', objectSure')
                         /\ Sound(terrainCall', terrainSure')
                         /\ Sound(agentCall', agentSure')
  BY <1>1, <1>2 DEF CallInv
<1> QED
  BY <1>3, <1>4, <1>5, <1>6, RequestStep

LEMMA OnlyTakeWaits ==
  ASSUME IInv, NEW h \in Http, Waiting(h)
  PROVE  http[h].pc = "take"
BY DEF IInv, CallInv, Owned, Waiting

\* What Respond makes of a request.
LEMMA Responds ==
  ASSUME http \in [Http -> HttpType], NEW h \in Http, NEW answer \in Answers, Respond(h, answer)
  PROVE  \E w \in HttpType :
           /\ http' = [http EXCEPT ![h] = w]
           /\ w.pc = "done" /\ w.out = answer /\ w.query = http[h].query
           /\ w.drawn = http[h].drawn /\ w.bitmaps = http[h].bitmaps
<1> DEFINE w == [http[h] EXCEPT !.pc = "done", !.out = answer]
<1>1. http[h] \in HttpType
  OBVIOUS
<1>2. /\ w \in HttpType /\ w.pc = "done" /\ w.out = answer /\ w.query = http[h].query
      /\ w.drawn = http[h].drawn /\ w.bitmaps = http[h].bitmaps
  BY <1>1 DEF HttpType, Pcs
<1>3. http' = [http EXCEPT ![h] = w]
  BY DEF Respond
<1> HIDE DEF w
<1> QED
  BY <1>2, <1>3

\* A request that fails or is answered without a map.
LEMMA AnswerStep ==
  ASSUME IInv, UNCHANGED <<startVars, unsettled, layerVars>>, NEW h \in Http, ~Waiting(h),
         http[h].pc # "idle",
         NEW answer \in Answers, Respond(h, answer), answer # SavedAs,
         unsettled = {} /\ ~Strained /\ answer = "error" =>
           ~(/\ http[h].query.kind = "GetMap" /\ ~http[h].query.malformed
             /\ http[h].query.size # "none"
             /\ \A i \in 1..Len(http[h].query.layers) : Known(http[h], i))
  PROVE  IInv'
<1>1. /\ http \in [Http -> HttpType] /\ HttpInv(http[h])
  BY DEF IInv
<1>2. PICK w \in HttpType :
        /\ http' = [http EXCEPT ![h] = w]
        /\ w.pc = "done" /\ w.out = answer /\ w.query = http[h].query
  BY <1>1, Responds
<1>3. HttpInv(w)
  BY <1>1, <1>2 DEF HttpInv
<1>4. unsettled = {} /\ ~Strained => ~Failed(w)
  BY <1>2 DEF Failed, Known
<1> QED
  BY <1>2, <1>3, <1>4, NoCall DEF Keeps

LEMMA ReceiveStep ==
  ASSUME IInv, NEW h \in Http, Receive(h)
  PROVE  IInv'
<1>1. /\ http \in [Http -> HttpType] /\ HttpInv(http[h]) /\ http[h] \in HttpType
      /\ http[h].pc = "idle" /\ Registered
      /\ UNCHANGED <<startVars, unsettled, layerVars>>
  BY DEF IInv, Receive
<1>2. PICK q \in Queries :
       http' = [http EXCEPT ![h] =
         [@ EXCEPT !.query = q,
            !.pc = IF q.malformed \/ q.kind = "other" THEN "done"
                   ELSE IF q.kind = "GetMap" THEN "compose" ELSE "reply",
            !.out = IF q.malformed THEN "error"
                    ELSE IF q.kind = "other" THEN "unsupported" ELSE "none"]]
  BY DEF Receive
<1> DEFINE pc == IF q.malformed \/ q.kind = "other" THEN "done"
                 ELSE IF q.kind = "GetMap" THEN "compose" ELSE "reply"
           out == IF q.malformed THEN "error"
                  ELSE IF q.kind = "other" THEN "unsupported" ELSE "none"
           w == [http[h] EXCEPT !.query = q, !.pc = pc, !.out = out]
<1>3. http' = [http EXCEPT ![h] = w]
  BY <1>2
<1>4. pc \in Pcs /\ out \in Answers
  BY DEF Pcs, Answers
<1> HIDE DEF pc, out
<1>5. /\ w \in HttpType /\ w.query = q /\ w.pc = pc /\ w.out = out
      /\ w.drawn = http[h].drawn
  BY <1>1, <1>4 DEF HttpType
<1> HIDE DEF w
<1>6. HttpInv(w) /\ ~Failed(w)
  <2>1. w.drawn = <<>>
    BY <1>1, <1>5 DEF HttpInv
  <2>3. CASE q.kind = "GetMap" /\ ~q.malformed
    <3>1. pc = "compose" /\ out = "none"
      BY <2>3 DEF pc, out
    <3>3. WellFormed(w)
      BY <1>5, <2>3 DEF WellFormed
    <3>4. HttpInv(w)
      BY <1>1, <1>5, <2>1, <3>1, <3>3 DEF HttpInv
    <3> QED
      BY <1>5, <3>1, <3>4 DEF Failed
  <2>4. CASE q.malformed
    <3>1. pc = "done" /\ out = "error"
      BY <2>4 DEF pc, out
    <3> QED
      BY <1>1, <1>5, <2>4, <3>1 DEF HttpInv, Failed, SavedAs
  <2>5. CASE ~q.malformed /\ q.kind = "other"
    <3>1. pc = "done" /\ out = "unsupported"
      BY <2>5 DEF pc, out
    <3> QED
      BY <1>1, <1>5, <3>1 DEF HttpInv, Failed, SavedAs
  <2>6. CASE ~q.malformed /\ q.kind # "other" /\ q.kind # "GetMap"
    <3>1. pc = "reply" /\ out = "none"
      BY <2>6 DEF pc, out
    <3> QED
      BY <1>1, <1>5, <2>6, <3>1 DEF HttpInv, Failed
  <2> QED
    BY <2>3, <2>4, <2>5, <2>6
<1>7. ~Waiting(h)
  BY <1>1, OnlyTakeWaits
<1> QED
  BY <1>1, <1>3, <1>5, <1>6, <1>7, NoCall DEF Keeps

\* What Compose makes of a request.
LEMMA Composes ==
  ASSUME NEW h \in Http, http[h] \in HttpType,
         http' = [http EXCEPT ![h].pc = "ask", ![h].layer = 1, ![h].bitmaps = 1]
  PROVE  \E w \in HttpType :
           /\ http' = [http EXCEPT ![h] = w]
           /\ w.pc = "ask" /\ w.bitmaps = 1 /\ w.layer = 1
           /\ w.query = http[h].query /\ w.out = http[h].out /\ w.drawn = http[h].drawn
<1> DEFINE w == [http[h] EXCEPT !.pc = "ask", !.layer = 1, !.bitmaps = 1]
<1>1. http' = [http EXCEPT ![h] = w]
  OBVIOUS
<1>2. /\ w \in HttpType /\ w.pc = "ask" /\ w.bitmaps = 1 /\ w.layer = 1
      /\ w.query = http[h].query /\ w.out = http[h].out /\ w.drawn = http[h].drawn
  BY DEF HttpType, Pcs
<1> HIDE DEF w
<1> QED
  BY <1>1, <1>2

LEMMA ComposeStep ==
  ASSUME IInv, NEW h \in Http, Compose(h)
  PROVE  IInv'
<1>1. /\ HttpInv(http[h]) /\ http[h] \in HttpType /\ http[h].pc = "compose"
      /\ UNCHANGED <<startVars, unsettled, layerVars>>
  BY DEF IInv, Compose
<1>2. /\ http[h].out = "none" /\ http[h].drawn = <<>> /\ Registered /\ WellFormed(http[h])
  BY <1>1 DEF HttpInv
<1>3. ~Waiting(h)
  BY <1>1, OnlyTakeWaits
<1>4. CASE (http[h].query.size = "none" \/ Strained) /\ Respond(h, "error")
  <2>1. PICK answer \in Answers : answer = "error"
    BY DEF Answers
  <2>2. answer # SavedAs
    BY <2>1 DEF SavedAs
  <2> QED
    BY <1>1, <1>3, <1>4, <2>1, <2>2, AnswerStep
<1>5. CASE http' = [http EXCEPT ![h].pc = "ask", ![h].layer = 1, ![h].bitmaps = 1]
  <2>1. PICK w \in HttpType :
          /\ http' = [http EXCEPT ![h] = w]
          /\ w.pc = "ask" /\ w.bitmaps = 1 /\ w.layer = 1
          /\ w.query = http[h].query /\ w.out = http[h].out /\ w.drawn = http[h].drawn
    BY <1>1, <1>5, Composes
  <2>2. WellFormed(w) /\ DrawnTo(w, 0)
    BY <1>2, <2>1 DEF WellFormed, DrawnTo
  <2>3. Len(w.query.layers) \in Nat
    BY <2>2, MapServiceAssumption DEF WellFormed
  <2>4. HttpInv(w) /\ ~Failed(w)
    BY <1>2, <2>1, <2>2, <2>3 DEF HttpInv, Failed
  <2> QED
    BY <1>1, <1>3, <2>1, <2>4, NoCall DEF Keeps
<1> QED
  BY <1>4, <1>5 DEF Compose

LEMMA ReplyStep ==
  ASSUME IInv, NEW h \in Http, Reply(h)
  PROVE  IInv'
<1>1. /\ HttpInv(http[h]) /\ http[h].pc = "reply"
      /\ UNCHANGED <<startVars, unsettled, layerVars>>
  BY DEF IInv, Reply
<1>2. http[h].query \in Queries /\ http[h].query.kind # "GetMap"
  BY <1>1 DEF HttpInv
<1>3. http[h].query.kind \in {"GetCapabilities", "GetFeature", "other"}
  BY <1>2, MapServiceAssumption
<1>4. ~Waiting(h)
  BY <1>1, OnlyTakeWaits
<1>5. CASE Respond(h, http[h].query.kind)
  <2>1. PICK answer \in Answers : answer = http[h].query.kind
    BY <1>3 DEF Answers
  <2>2. answer # SavedAs
    BY <1>3, <2>1 DEF SavedAs
  <2> QED
    BY <1>1, <1>2, <1>4, <1>5, <2>1, <2>2, AnswerStep
<1>6. CASE Respond(h, "error")
  <2>1. PICK answer \in Answers : answer = "error"
    BY DEF Answers
  <2>2. answer # SavedAs
    BY <2>1 DEF SavedAs
  <2> QED
    BY <1>1, <1>2, <1>4, <1>6, <2>1, <2>2, AnswerStep
<1> QED
  BY <1>5, <1>6 DEF Reply

LEMMA Filed ==
  ASSUME StartInv, Registered, NEW n \in DOMAIN layerDict
  PROVE  layerDict[n] \in Layers
<1>1. FiledTo(3)
  BY DEF StartInv, Registered, At
<1>2. PICK i \in 1..3 : n = name[Order[i]]
  BY <1>1 DEF FiledTo
<1>3. layerDict[n] = Order[i]
  BY <1>1, <1>2 DEF FiledTo
<1> QED
  BY <1>3, Orders

\* With its n-th call h asks the layer l, whose calls were k.
Begun(h, n, w, l, k, next, outcome) ==
  /\ n \in 1..MostLayers /\ k \in CallStates /\ outcome \in {"failed", "running"}
  /\ w.pc = "take" /\ w.layer = n /\ LayerAt(w, n) = l
  /\ \A i \in 1..MostLayers : k[<<h, i>>] # "running"
  /\ next = [k EXCEPT ![<<h, n>>] = outcome]

LEMMA Begins ==
  ASSUME NEW h \in Http, NEW n, NEW w, NEW l, NEW k, NEW next, NEW outcome,
         Begun(h, n, w, l, k, next, outcome)
  PROVE  /\ Moves(h, w, l, k, next)
         /\ \A s : outcome = "running" /\ Sound(k, s) => Sound(next, s \union {<<h, n>>})
<1> USE DEF Begun
<1>1. <<h, n>> \in Calls /\ k \in [Calls -> {"idle", "running", "answered", "failed"}]
  BY DEF Calls, CallStates
<1>2. next \in CallStates
  BY <1>1 DEF CallStates
<1>3. \A c \in Calls : next[c] = IF c = <<h, n>> THEN outcome ELSE k[c]
  BY <1>1
<1>4. ASSUME NEW g \in Http, NEW i \in 1..MostLayers, g # h, next[<<g, i>>] = "running"
      PROVE  k[<<g, i>>] = "running"
  <2>1. <<g, i>> \in Calls /\ <<g, i>> # <<h, n>>
    BY <1>4 DEF Calls
  <2> QED
    BY <1>3, <1>4, <2>1
<1>5. ASSUME NEW i \in 1..MostLayers, next[<<h, i>>] = "running"
      PROVE  w.pc = "take" /\ w.layer = i /\ LayerAt(w, i) = l
  <2>1. <<h, i>> \in Calls
    BY DEF Calls
  <2>2. <<h, i>> = <<h, n>>
    BY <1>3, <1>5, <2>1
  <2> QED
    BY <2>2
<1>6. Moves(h, w, l, k, next)
  BY <1>2, <1>4, <1>5 DEF Moves
<1>7. ASSUME NEW s, outcome = "running", Sound(k, s) PROVE Sound(next, s \union {<<h, n>>})
  BY <1>3, <1>7 DEF Sound
<1> QED
  BY <1>6, <1>7

LEMMA Stays ==
  ASSUME NEW h \in Http, NEW w, NEW l, NEW k \in CallStates,
         \A i \in 1..MostLayers : k[<<h, i>>] # "running"
  PROVE  Moves(h, w, l, k, k)
BY DEF Moves

\* What AskLayer makes of a request when the layer is known.
LEMMA Asks ==
  ASSUME NEW h \in Http, http[h] \in HttpType,
         http' = [http EXCEPT ![h].pc = "take", ![h].bitmaps = @ + 1]
  PROVE  \E w \in HttpType :
           /\ http' = [http EXCEPT ![h] = w]
           /\ w.pc = "take" /\ w.bitmaps = http[h].bitmaps + 1 /\ w.layer = http[h].layer
           /\ w.query = http[h].query /\ w.out = http[h].out /\ w.drawn = http[h].drawn
<1>3. http[h].bitmaps + 1 \in Nat
  BY DEF HttpType
<1> DEFINE b == http[h].bitmaps + 1
           w == [http[h] EXCEPT !.pc = "take", !.bitmaps = b]
<1>2. http' = [http EXCEPT ![h] = w]
  OBVIOUS
<1>4. b \in Nat
  BY <1>3
<1> HIDE DEF b
<1>1. /\ w \in HttpType /\ w.pc = "take" /\ w.bitmaps = b
      /\ w.layer = http[h].layer /\ w.query = http[h].query /\ w.out = http[h].out
      /\ w.drawn = http[h].drawn
  BY <1>4 DEF HttpType, Pcs
<1> HIDE DEF w
<1> QED
  BY <1>1, <1>2 DEF b

\* The layer is asked.
LEMMA AskStep ==
  ASSUME IInv, NEW h \in Http, NEW l, UNCHANGED startVars,
         http[h].pc = "ask", http[h].layer <= Len(http[h].query.layers),
         LayerName(h) \in DOMAIN layerDict, l = layerDict[LayerName(h)],
         BeginCall(l, <<h, http[h].layer>>),
         unsettled' = IF picture[l] = "ready" THEN unsettled ELSE unsettled \union {h},
         NEW w \in HttpType, http' = [http EXCEPT ![h] = w],
         w.pc = "take", w.bitmaps = http[h].bitmaps + 1, w.layer = http[h].layer,
         w.query = http[h].query, w.out = http[h].out, w.drawn = http[h].drawn
  PROVE  IInv'
<1>1. HttpInv(http[h]) /\ StartInv /\ CallInv
  BY DEF IInv
<1>2. /\ http[h].out = "none" /\ Registered /\ WellFormed(http[h])
      /\ http[h].layer \in 1 .. Len(http[h].query.layers) + 1
      /\ DrawnTo(http[h], http[h].layer - 1) /\ http[h].bitmaps = 1
  BY <1>1 DEF HttpInv
<1> DEFINE n == http[h].layer
           c == <<h, n>>
<1>3. n \in 1..MostLayers /\ c \in Calls
  <2>1. Len(http[h].query.layers) \in Nat /\ Len(http[h].query.layers) <= MostLayers /\ MostLayers \in Nat
    BY <1>2, MapServiceAssumption DEF WellFormed
  <2>2. n \in 1..MostLayers
    BY <1>2, <2>1
  <2> QED
    BY <2>2 DEF Calls
<1>4. w.bitmaps = 2 /\ w.out = "none"
  BY <1>2
<1>5. Keeps(http[h], w)
  BY DEF Keeps
<1>6. LayerAt(w, n) = l /\ Known(w, n)
  BY <1>4 DEF LayerAt, Known, LayerName
<1>7. HttpInv(w) /\ ~Failed(w)
  <2>1. WellFormed(w)
    BY <1>2, <1>4 DEF WellFormed
  <2>2. DrawnTo(w, n - 1)
    BY <1>2, <1>4 DEF DrawnTo, LayerAt, Known
  <2>3. HttpInv(w)
    BY <1>2, <1>4, <1>6, <2>1, <2>2 DEF HttpInv
  <2> QED
    BY <1>4, <2>3 DEF Failed
<1>8. /\ \A i \in 1..MostLayers : objectCall[<<h, i>>] # "running"
      /\ \A i \in 1..MostLayers : terrainCall[<<h, i>>] # "running"
      /\ \A i \in 1..MostLayers : agentCall[<<h, i>>] # "running"
  BY OnlyTakeWaits DEF Waiting
<1>9. objectCall \in CallStates /\ terrainCall \in CallStates /\ agentCall \in CallStates
  BY <1>1 DEF CallInv
<1>10. unsettled' = {} => unsettled = {} /\ picture[l] = "ready"
  OBVIOUS
<1>11. CASE l = "Object"
  <2>1. Object!Begin(c) /\ UNCHANGED <<terrainVars, agentVars>>
    BY <1>11 DEF BeginCall
  <2>2. UNCHANGED <<terrainCall, terrainSure, agentCall, agentSure>>
    BY <2>1 DEF terrainVars, agentVars
  <2>3. PICK outcome \in {"failed", "running"} :
          outcome = IF objectPicture = "none" THEN "failed" ELSE "running"
    OBVIOUS
  <2>4. /\ objectCall' = [objectCall EXCEPT ![c] = outcome]
        /\ objectPicture = "ready" => outcome = "running" /\ objectSure' = objectSure \union {c}
    BY <2>1, <2>3 DEF Object!Begin
  <2>5. Begun(h, n, w, "Object", objectCall, objectCall', outcome)
    BY <1>3, <1>4, <1>6, <1>8, <1>9, <1>11, <2>4 DEF Begun
  <2>10. /\ Moves(h, w, "Object", objectCall, objectCall')
         /\ outcome = "running" /\ Sound(objectCall, objectSure) => Sound(objectCall', objectSure \union {c})
    BY <2>5, Begins
  <2>6. Moves(h, w, "Terrain", terrainCall, terrainCall')
    BY <1>8, <1>9, <2>2, Stays
  <2>7. Moves(h, w, "Agent", agentCall, agentCall')
    BY <1>8, <1>9, <2>2, Stays
  <2>8. unsettled' = {} => objectPicture = "ready"
    BY <1>10, <1>11 DEF picture
  <2>9. unsettled' = {} => /\ unsettled = {}
                           /\ Sound(objectCall', objectSure')
                           /\ Sound(terrainCall', terrainSure')
                           /\ Sound(agentCall', agentSure')
    <3> SUFFICES ASSUME unsettled' = {}
                 PROVE  /\ unsettled = {}
                        /\ Sound(objectCall', objectSure')
                        /\ Sound(terrainCall', terrainSure')
                        /\ Sound(agentCall', agentSure')
      OBVIOUS
    <3>1. /\ unsettled = {} /\ Sound(objectCall, objectSure) /\ Sound(terrainCall, terrainSure)
          /\ Sound(agentCall, agentSure)
      BY <1>1, <1>10 DEF CallInv
    <3> HIDE DEF c
    <3> QED
      BY <2>2, <2>4, <2>8, <2>10, <3>1
  <2> QED
    BY <1>5, <1>7, <2>10, <2>6, <2>7, <2>9, RequestStep
<1>12. CASE l = "Terrain"
  <2>1. Terrain!Begin(c) /\ UNCHANGED <<objectVars, agentVars>>
    BY <1>12 DEF BeginCall
  <2>2. UNCHANGED <<objectCall, objectSure, agentCall, agentSure>>
    BY <2>1 DEF objectVars, agentVars
  <2>3. PICK outcome \in {"failed", "running"} :
          outcome = IF terrainPicture = "none" THEN "failed" ELSE "running"
    OBVIOUS
  <2>4. /\ terrainCall' = [terrainCall EXCEPT ![c] = outcome]
        /\ terrainPicture = "ready" => outcome = "running" /\ terrainSure' = terrainSure \union {c}
    BY <2>1, <2>3 DEF Terrain!Begin
  <2>5. Begun(h, n, w, "Terrain", terrainCall, terrainCall', outcome)
    BY <1>3, <1>4, <1>6, <1>8, <1>9, <1>12, <2>4 DEF Begun
  <2>10. /\ Moves(h, w, "Terrain", terrainCall, terrainCall')
         /\ outcome = "running" /\ Sound(terrainCall, terrainSure) => Sound(terrainCall', terrainSure \union {c})
    BY <2>5, Begins
  <2>6. Moves(h, w, "Object", objectCall, objectCall')
    BY <1>8, <1>9, <2>2, Stays
  <2>7. Moves(h, w, "Agent", agentCall, agentCall')
    BY <1>8, <1>9, <2>2, Stays
  <2>8. unsettled' = {} => terrainPicture = "ready"
    BY <1>10, <1>12 DEF picture
  <2>9. unsettled' = {} => /\ unsettled = {}
                           /\ Sound(objectCall', objectSure')
                           /\ Sound(terrainCall', terrainSure')
                           /\ Sound(agentCall', agentSure')
    <3> SUFFICES ASSUME unsettled' = {}
                 PROVE  /\ unsettled = {}
                        /\ Sound(objectCall', objectSure')
                        /\ Sound(terrainCall', terrainSure')
                        /\ Sound(agentCall', agentSure')
      OBVIOUS
    <3>1. /\ unsettled = {} /\ Sound(objectCall, objectSure) /\ Sound(terrainCall, terrainSure)
          /\ Sound(agentCall, agentSure)
      BY <1>1, <1>10 DEF CallInv
    <3> HIDE DEF c
    <3> QED
      BY <2>2, <2>4, <2>8, <2>10, <3>1
  <2> QED
    BY <1>5, <1>7, <2>10, <2>6, <2>7, <2>9, RequestStep
<1>13. CASE l = "Agent"
  <2>1. Agent!Begin(c) /\ UNCHANGED <<objectVars, terrainVars>>
    BY <1>13 DEF BeginCall
  <2>2. UNCHANGED <<objectCall, objectSure, terrainCall, terrainSure>>
    BY <2>1 DEF objectVars, terrainVars
  <2>3. PICK outcome \in {"failed", "running"} :
          outcome = IF agentPicture = "none" THEN "failed" ELSE "running"
    OBVIOUS
  <2>4. /\ agentCall' = [agentCall EXCEPT ![c] = outcome]
        /\ agentPicture = "ready" => outcome = "running" /\ agentSure' = agentSure \union {c}
    BY <2>1, <2>3 DEF Agent!Begin
  <2>5. Begun(h, n, w, "Agent", agentCall, agentCall', outcome)
    BY <1>3, <1>4, <1>6, <1>8, <1>9, <1>13, <2>4 DEF Begun
  <2>10. /\ Moves(h, w, "Agent", agentCall, agentCall')
         /\ outcome = "running" /\ Sound(agentCall, agentSure) => Sound(agentCall', agentSure \union {c})
    BY <2>5, Begins
  <2>6. Moves(h, w, "Object", objectCall, objectCall')
    BY <1>8, <1>9, <2>2, Stays
  <2>7. Moves(h, w, "Terrain", terrainCall, terrainCall')
    BY <1>8, <1>9, <2>2, Stays
  <2>8. unsettled' = {} => agentPicture = "ready"
    BY <1>10, <1>13 DEF picture
  <2>9. unsettled' = {} => /\ unsettled = {}
                           /\ Sound(objectCall', objectSure')
                           /\ Sound(terrainCall', terrainSure')
                           /\ Sound(agentCall', agentSure')
    <3> SUFFICES ASSUME unsettled' = {}
                 PROVE  /\ unsettled = {}
                        /\ Sound(objectCall', objectSure')
                        /\ Sound(terrainCall', terrainSure')
                        /\ Sound(agentCall', agentSure')
      OBVIOUS
    <3>1. /\ unsettled = {} /\ Sound(objectCall, objectSure) /\ Sound(terrainCall, terrainSure)
          /\ Sound(agentCall, agentSure)
      BY <1>1, <1>10 DEF CallInv
    <3> HIDE DEF c
    <3> QED
      BY <2>2, <2>4, <2>8, <2>10, <3>1
  <2> QED
    BY <1>5, <1>7, <2>10, <2>6, <2>7, <2>9, RequestStep
<1> QED
  BY <1>11, <1>12, <1>13 DEF BeginCall

LEMMA AskLayerStep ==
  ASSUME IInv, NEW h \in Http, AskLayer(h)
  PROVE  IInv'
<1>1. http[h].pc = "ask" /\ http[h].layer <= Len(http[h].query.layers) /\ UNCHANGED startVars
  BY DEF AskLayer
<1>2. CASE /\ LayerName(h) \notin DOMAIN layerDict \/ Strained
           /\ Respond(h, "error") /\ UNCHANGED <<unsettled, layerVars>>
  <2>2. PICK answer \in Answers : answer = "error"
    BY DEF Answers
  <2>3. answer # SavedAs /\ ~Waiting(h)
    BY <1>1, <2>2, OnlyTakeWaits DEF SavedAs
  <2>4. http[h].layer \in 1 .. Len(http[h].query.layers) + 1 /\ Len(http[h].query.layers) \in Nat
    BY <1>1, MapServiceAssumption DEF IInv, HttpInv, WellFormed
  <2>5. Strained \/ ~ \A i \in 1..Len(http[h].query.layers) : Known(http[h], i)
    BY <1>1, <1>2, <2>4 DEF Known, LayerName
  <2> QED
    BY <1>1, <1>2, <2>2, <2>3, <2>5, AnswerStep
<1>3. CASE /\ LayerName(h) \in DOMAIN layerDict
           /\ LET m == layerDict[LayerName(h)] IN
                /\ BeginCall(m, <<h, http[h].layer>>)
                /\ unsettled' = IF picture[m] = "ready" THEN unsettled ELSE unsettled \union {h}
           /\ http' = [http EXCEPT ![h].pc = "take", ![h].bitmaps = @ + 1]
  <2>1. http[h] \in HttpType
    BY DEF IInv
  <2>2. PICK w \in HttpType :
          /\ http' = [http EXCEPT ![h] = w]
          /\ w.pc = "take" /\ w.bitmaps = http[h].bitmaps + 1 /\ w.layer = http[h].layer
          /\ w.query = http[h].query /\ w.out = http[h].out /\ w.drawn = http[h].drawn
    BY <1>3, <2>1, Asks
  <2>3. PICK l : l = layerDict[LayerName(h)]
    OBVIOUS
  <2>4. /\ BeginCall(l, <<h, http[h].layer>>)
        /\ unsettled' = IF picture[l] = "ready" THEN unsettled ELSE unsettled \union {h}
    BY <1>3, <2>3
  <2> QED
    BY <1>1, <1>3, <2>2, <2>3, <2>4, AskStep
<1> QED
  BY <1>2, <1>3 DEF AskLayer

\* A call that is over is not waited for.
LEMMA TakeQuiet ==
  ASSUME IInv, NEW h \in Http, http[h].pc = "take", NEW l, l = LayerAt(http[h], http[h].layer),
         call[l][<<h, http[h].layer>>] # "running"
  PROVE  ~Waiting(h) /\ l \in Layers
<1>1. StartInv /\ HttpInv(http[h]) /\ CallInv
  BY DEF IInv
<1>2. Registered /\ Known(http[h], http[h].layer)
  BY <1>1 DEF HttpInv
<1>3. l \in Layers
  BY <1>1, <1>2, Filed DEF LayerAt, Known
<1>4. l \in {"Object", "Terrain", "Agent"}
  BY <1>3 DEF Layers
<1> SUFFICES ASSUME Waiting(h) PROVE FALSE
  BY <1>3
<1>5. PICK i \in 1..MostLayers : \/ objectCall[<<h, i>>] = "running"
                                 \/ terrainCall[<<h, i>>] = "running"
                                 \/ agentCall[<<h, i>>] = "running"
  BY DEF Waiting
<1>6. CASE objectCall[<<h, i>>] = "running"
  <2>1. http[h].layer = i /\ l = "Object"
    BY <1>1, <1>6 DEF CallInv, Owned
  <2> QED
    BY <1>6, <2>1 DEF call
<1>7. CASE terrainCall[<<h, i>>] = "running"
  <2>1. http[h].layer = i /\ l = "Terrain"
    BY <1>1, <1>7 DEF CallInv, Owned
  <2> QED
    BY <1>7, <2>1 DEF call
<1>8. CASE agentCall[<<h, i>>] = "running"
  <2>1. http[h].layer = i /\ l = "Agent"
    BY <1>1, <1>8 DEF CallInv, Owned
  <2> QED
    BY <1>8, <2>1 DEF call
<1> QED
  BY <1>5, <1>6, <1>7, <1>8

\* What TakeLayer makes of a request whose layer has answered.
LEMMA Takes ==
  ASSUME NEW h \in Http, http[h] \in HttpType, http[h].bitmaps = 2, NEW l \in Layers,
         http' = [http EXCEPT ![h].pc = "ask", ![h].layer = @ + 1,
                              ![h].bitmaps = @ - 1, ![h].drawn = Append(@, l)]
  PROVE  \E w \in HttpType :
           /\ http' = [http EXCEPT ![h] = w]
           /\ w.pc = "ask" /\ w.bitmaps = 1 /\ w.layer = http[h].layer + 1
           /\ w.query = http[h].query /\ w.out = http[h].out
           /\ w.drawn = Append(http[h].drawn, l)
<1> DEFINE n == http[h].layer + 1
           b == http[h].bitmaps - 1
           d == Append(http[h].drawn, l)
           w == [http[h] EXCEPT !.pc = "ask", !.layer = n, !.bitmaps = b, !.drawn = d]
<1>1. http' = [http EXCEPT ![h] = w]
  OBVIOUS
<1>2. n \in Nat /\ b = 1
  BY DEF HttpType
<1>3. d \in Seq(Layers)
  BY DEF HttpType
<1> HIDE DEF n, b, d
<1>4. /\ w \in HttpType /\ w.pc = "ask" /\ w.bitmaps = 1 /\ w.layer = n
      /\ w.query = http[h].query /\ w.out = http[h].out /\ w.drawn = d
  BY <1>2, <1>3 DEF HttpType, Pcs
<1> HIDE DEF w
<1> QED
  BY <1>1, <1>4 DEF n, d

LEMMA TakeLayerStep ==
  ASSUME IInv, NEW h \in Http, TakeLayer(h)
  PROVE  IInv'
<1>1. /\ HttpInv(http[h]) /\ http[h] \in HttpType /\ CallInv
      /\ http[h].pc = "take" /\ UNCHANGED <<startVars, unsettled, layerVars>>
  BY DEF IInv, TakeLayer
<1>2. /\ http[h].out = "none" /\ Registered /\ WellFormed(http[h])
      /\ http[h].layer \in 1 .. Len(http[h].query.layers) + 1
      /\ http[h].layer <= Len(http[h].query.layers) /\ Known(http[h], http[h].layer)
      /\ DrawnTo(http[h], http[h].layer - 1) /\ http[h].bitmaps = 2
  BY <1>1 DEF HttpInv
<1>3. Len(http[h].query.layers) \in Nat /\ Len(http[h].query.layers) <= MostLayers /\ MostLayers \in Nat
  BY <1>2, MapServiceAssumption DEF WellFormed
<1>4. <<h, http[h].layer>> \in Calls
  BY <1>2, <1>3 DEF Calls
<1>5. PICK l : l = LayerAt(http[h], http[h].layer)
  OBVIOUS
<1>6. l = layerDict[LayerName(h)]
  BY <1>5 DEF LayerAt, LayerName
<1>7. CASE /\ \/ call[l][<<h, http[h].layer>>] = "failed"
              \/ call[l][<<h, http[h].layer>>] = "answered" /\ Strained
           /\ Respond(h, "error")
  <2>1. ~Waiting(h) /\ l \in Layers
    BY <1>1, <1>5, <1>7, TakeQuiet
  <2>2. Strained \/ unsettled # {}
    <3>1. CASE l = "Object"
      BY <1>1, <1>4, <1>7, <3>1 DEF call, CallInv, Sound
    <3>2. CASE l = "Terrain"
      BY <1>1, <1>4, <1>7, <3>2 DEF call, CallInv, Sound
    <3>3. CASE l = "Agent"
      BY <1>1, <1>4, <1>7, <3>3 DEF call, CallInv, Sound
    <3> QED
      BY <2>1, <3>1, <3>2, <3>3 DEF Layers
  <2>3. PICK answer \in Answers : answer = "error"
    BY DEF Answers
  <2>4. answer # SavedAs
    BY <2>3 DEF SavedAs
  <2> QED
    BY <1>1, <1>7, <2>1, <2>2, <2>3, <2>4, AnswerStep
<1>8. CASE /\ call[l][<<h, http[h].layer>>] = "answered"
           /\ http' = [http EXCEPT ![h].pc = "ask", ![h].layer = @ + 1,
                                   ![h].bitmaps = @ - 1, ![h].drawn = Append(@, l)]
  <2>1. ~Waiting(h) /\ l \in Layers
    BY <1>1, <1>5, <1>8, TakeQuiet
  <2>2. PICK w \in HttpType :
          /\ http' = [http EXCEPT ![h] = w]
          /\ w.pc = "ask" /\ w.bitmaps = 1 /\ w.layer = http[h].layer + 1
          /\ w.query = http[h].query /\ w.out = http[h].out
          /\ w.drawn = Append(http[h].drawn, l)
    BY <1>1, <1>2, <1>8, <2>1, Takes
  <2>3. DrawnTo(w, http[h].layer)
    <3>1. http[h].drawn \in Seq(Layers) /\ Len(http[h].drawn) = http[h].layer - 1
      BY <1>1, <1>2 DEF HttpType, DrawnTo
    <3>2. Len(w.drawn) = http[h].layer /\ w.drawn[http[h].layer] = l
      BY <1>2, <2>1, <2>2, <3>1
    <3>3. \A i \in 1 .. http[h].layer - 1 : w.drawn[i] = http[h].drawn[i]
      BY <1>2, <2>1, <2>2, <3>1
    <3>4. \A i : LayerAt(w, i) = LayerAt(http[h], i) /\ (Known(w, i) <=> Known(http[h], i))
      BY <2>2 DEF LayerAt, Known
    <3>5. ASSUME NEW i \in 1..http[h].layer PROVE w.drawn[i] = LayerAt(w, i) /\ Known(w, i)
      <4>1. CASE i = http[h].layer
        BY <1>2, <1>5, <3>2, <3>4, <4>1
      <4>2. CASE i # http[h].layer
        <5>1. i \in 1 .. http[h].layer - 1
          BY <1>2, <4>2
        <5>2. http[h].drawn[i] = LayerAt(http[h], i) /\ Known(http[h], i)
          BY <1>2, <5>1 DEF DrawnTo
        <5> QED
          BY <3>3, <3>4, <5>1, <5>2
      <4> QED
        BY <4>1, <4>2
    <3> QED
      BY <3>2, <3>5 DEF DrawnTo
  <2>4. WellFormed(w)
    BY <1>2, <2>2 DEF WellFormed
  <2>5. w.layer - 1 = http[h].layer /\ w.layer \in 1 .. Len(w.query.layers) + 1
    <3>1. w.layer = http[h].layer + 1 /\ w.query = http[h].query
      BY <2>2
    <3>2. http[h].layer \in 1 .. Len(http[h].query.layers)
      BY <1>2, <1>3
    <3>3. Len(http[h].query.layers) \in Nat
      BY <1>3
    <3> QED
      BY <3>1, <3>2, <3>3
  <2>6. HttpInv(w)
    BY <1>2, <2>2, <2>3, <2>4, <2>5 DEF HttpInv
  <2>7. ~Failed(w)
    BY <1>2, <2>2 DEF Failed
  <2> QED
    BY <1>1, <2>1, <2>2, <2>6, <2>7, NoCall DEF Keeps
<1> QED
  BY <1>6, <1>7, <1>8 DEF TakeLayer

\* What Encode makes of a request.
LEMMA Encodes ==
  ASSUME NEW h \in Http, http[h] \in HttpType, http[h].bitmaps = 1,
         http' = [http EXCEPT ![h].pc = "done", ![h].out = SavedAs, ![h].bitmaps = @ - 1]
  PROVE  \E w \in HttpType :
           /\ http' = [http EXCEPT ![h] = w]
           /\ w.pc = "done" /\ w.bitmaps = 0 /\ w.out = SavedAs
           /\ w.query = http[h].query /\ w.drawn = http[h].drawn
<1> DEFINE b == http[h].bitmaps - 1
           w == [http[h] EXCEPT !.pc = "done", !.out = SavedAs, !.bitmaps = b]
<1>1. http' = [http EXCEPT ![h] = w]
  OBVIOUS
<1>2. b = 0
  OBVIOUS
<1> HIDE DEF b
<1>3. /\ w \in HttpType /\ w.pc = "done" /\ w.bitmaps = 0 /\ w.out = SavedAs
      /\ w.query = http[h].query /\ w.drawn = http[h].drawn
  BY <1>2 DEF HttpType, Pcs, Answers, SavedAs
<1> HIDE DEF w
<1> QED
  BY <1>1, <1>3

LEMMA EncodeStep ==
  ASSUME IInv, NEW h \in Http, Encode(h)
  PROVE  IInv'
<1>1. /\ HttpInv(http[h]) /\ http[h] \in HttpType
      /\ http[h].pc = "ask" /\ http[h].layer > Len(http[h].query.layers)
      /\ UNCHANGED <<startVars, unsettled, layerVars>>
  BY DEF IInv, Encode
<1>2. /\ http[h].out = "none" /\ Registered /\ WellFormed(http[h])
      /\ http[h].layer \in 1 .. Len(http[h].query.layers) + 1
      /\ DrawnTo(http[h], http[h].layer - 1) /\ http[h].bitmaps = 1
  BY <1>1 DEF HttpInv
<1>3. Len(http[h].query.layers) \in Nat
  BY <1>2, MapServiceAssumption DEF WellFormed
<1>4. http[h].layer - 1 = Len(http[h].query.layers)
  BY <1>1, <1>2, <1>3
<1>5. ~Waiting(h)
  BY <1>1, OnlyTakeWaits
<1>6. CASE Strained /\ Respond(h, "error")
  <2>1. PICK answer \in Answers : answer = "error"
    BY DEF Answers
  <2>2. answer # SavedAs
    BY <2>1 DEF SavedAs
  <2> QED
    BY <1>1, <1>5, <1>6, <2>1, <2>2, AnswerStep
<1>7. CASE http' = [http EXCEPT ![h].pc = "done", ![h].out = SavedAs, ![h].bitmaps = @ - 1]
  <2>1. PICK w \in HttpType :
          /\ http' = [http EXCEPT ![h] = w]
          /\ w.pc = "done" /\ w.bitmaps = 0 /\ w.out = SavedAs
          /\ w.query = http[h].query /\ w.drawn = http[h].drawn
    BY <1>1, <1>2, <1>7, Encodes
  <2>2. DrawnTo(w, Len(w.query.layers)) /\ WellFormed(w)
    BY <1>2, <1>4, <2>1 DEF DrawnTo, WellFormed, LayerAt, Known
  <2>3. HttpInv(w)
    BY <1>2, <2>1, <2>2 DEF HttpInv
  <2>4. ~Failed(w)
    BY <2>1 DEF Failed, SavedAs
  <2> QED
    BY <1>1, <1>5, <2>1, <2>3, <2>4, NoCall DEF Keeps
<1> QED
  BY <1>6, <1>7 DEF Encode

(***************************************************************************)
(* Layers.                                                                 *)
(***************************************************************************)

\* A layer ends calls, or renews its picture, and disturbs only calls that a
\* failure would be blamed on.
Serves(k, next, s, nextSure) ==
  /\ next \in CallStates
  /\ \A c \in Calls : next[c] = "running" => k[c] = "running"
  /\ unsettled' = {} /\ Sound(k, s) => Sound(next, nextSure)

LEMMA ServesOwned ==
  ASSUME NEW l, NEW k, NEW next, NEW s, NEW nextSure, Serves(k, next, s, nextSure), Owned(l, k),
         NEW h \in Http, NEW i \in 1..MostLayers, next[<<h, i>>] = "running"
  PROVE  http[h].pc = "take" /\ http[h].layer = i /\ LayerAt(http[h], i) = l
<1>1. <<h, i>> \in Calls
  BY DEF Calls
<1>2. k[<<h, i>>] = "running"
  BY <1>1 DEF Serves
<1> QED
  BY <1>2 DEF Owned

LEMMA LayerStep ==
  ASSUME IInv, UNCHANGED <<startVars, http>>, unsettled' = {} => unsettled = {},
         Serves(objectCall, objectCall', objectSure, objectSure'),
         Serves(terrainCall, terrainCall', terrainSure, terrainSure'),
         Serves(agentCall, agentCall', agentSure, agentSure')
  PROVE  IInv'
<1>1. StartInv /\ http \in [Http -> HttpType] /\ (\A h \in Http : HttpInv(http[h])) /\ CallInv
  BY DEF IInv
<1>2. StartInv' /\ http' \in [Http -> HttpType]
  BY <1>1, StartFixed
<1>3. ASSUME NEW h \in Http
      PROVE  HttpInv(http[h])' /\ (Failed(http[h])' <=> Failed(http[h]))
  <2>1. PICK w : w = http[h]
    OBVIOUS
  <2>2. (HttpInv(w)' <=> HttpInv(w)) /\ (Failed(w)' <=> Failed(w))
    BY StartFixed
  <2> QED
    BY <1>1, <2>1, <2>2
<1>9. http' = http /\ layerDict' = layerDict
  BY DEF startVars
<1>4. Owned("Object", objectCall)'
  <2>1. ASSUME NEW h \in Http, NEW i \in 1..MostLayers, objectCall'[<<h, i>>] = "running"
        PROVE  http[h].pc = "take" /\ http[h].layer = i /\ LayerAt(http[h], i) = "Object"
    BY <1>1, <2>1, ServesOwned DEF CallInv
  <2> QED
    BY <2>1, <1>9 DEF Owned, LayerAt
<1>5. Owned("Terrain", terrainCall)'
  <2>1. ASSUME NEW h \in Http, NEW i \in 1..MostLayers, terrainCall'[<<h, i>>] = "running"
        PROVE  http[h].pc = "take" /\ http[h].layer = i /\ LayerAt(http[h], i) = "Terrain"
    BY <1>1, <2>1, ServesOwned DEF CallInv
  <2> QED
    BY <2>1, <1>9 DEF Owned, LayerAt
<1>6. Owned("Agent", agentCall)'
  <2>1. ASSUME NEW h \in Http, NEW i \in 1..MostLayers, agentCall'[<<h, i>>] = "running"
        PROVE  http[h].pc = "take" /\ http[h].layer = i /\ LayerAt(http[h], i) = "Agent"
    BY <1>1, <2>1, ServesOwned DEF CallInv
  <2> QED
    BY <2>1, <1>9 DEF Owned, LayerAt
<1>7. unsettled' = {} => /\ Sound(objectCall', objectSure')
                         /\ Sound(terrainCall', terrainSure')
                         /\ Sound(agentCall', agentSure')
  BY <1>1 DEF CallInv, Serves
<1>10. Strained' <=> Strained
  BY <1>9 DEF Strained
<1>8. CallInv'
  BY <1>1, <1>3, <1>4, <1>5, <1>6, <1>7, <1>10 DEF CallInv, Serves, Sound
<1> QED
  BY <1>2, <1>3, <1>8 DEF IInv

LEMMA Idles ==
  ASSUME NEW k \in CallStates, NEW s
  PROVE  Serves(k, k, s, s)
BY DEF Serves

\* A call of a layer whose calls were k is answered, or fails.
Ended(c, k, next, s, outcome) ==
  /\ c \in Calls /\ k \in CallStates
  /\ next = [k EXCEPT ![c] = outcome]
  /\ \/ outcome = "answered"
     \/ outcome = "failed" /\ \E q \in Calls : k[q] = "running" /\ q \notin s

LEMMA EndsServe ==
  ASSUME NEW c, NEW k, NEW next, NEW s, NEW outcome, Ended(c, k, next, s, outcome)
  PROVE  Serves(k, next, s, s \ {c})
<1>1. k \in [Calls -> {"idle", "running", "answered", "failed"}] /\ c \in Calls
  BY DEF Ended, CallStates
<1>2. outcome \in {"answered", "failed"} /\ next = [k EXCEPT ![c] = outcome]
  BY DEF Ended
<1>3. next \in CallStates
  BY <1>1, <1>2 DEF CallStates
<1>4. \A d \in Calls : next[d] = IF d = c THEN outcome ELSE k[d]
  BY <1>1, <1>2
<1>5. \A d \in Calls : next[d] = "running" => k[d] = "running"
  BY <1>2, <1>4
<1>6. Sound(k, s) => outcome = "answered"
  BY DEF Ended, Sound
<1>7. Sound(k, s) => Sound(next, s \ {c})
  BY <1>2, <1>4, <1>6 DEF Sound
<1> QED
  BY <1>3, <1>5, <1>7 DEF Serves

LEMMA EndCallStep ==
  ASSUME IInv, NEW c \in Calls, EndCall(c)
  PROVE  IInv'
<1>1. /\ UNCHANGED <<startVars, http, unsettled>>
      /\ objectCall \in CallStates /\ terrainCall \in CallStates /\ agentCall \in CallStates
  BY DEF EndCall, IInv, CallInv
<1>2. CASE (Object!Answer(c) \/ Object!Fail(c)) /\ UNCHANGED <<terrainVars, agentVars>>
  <2>1. UNCHANGED <<terrainCall, terrainSure, agentCall, agentSure>>
    BY <1>2 DEF terrainVars, agentVars
  <2>2. PICK outcome : Ended(c, objectCall, objectCall', objectSure, outcome)
    BY <1>1, <1>2 DEF Object!Answer, Object!Fail, Ended
  <2>3. objectSure' = objectSure \ {c}
    BY <1>2 DEF Object!Answer, Object!Fail
  <2>4. Serves(objectCall, objectCall', objectSure, objectSure')
    BY <2>2, <2>3, EndsServe
  <2> QED
    BY <1>1, <2>1, <2>4, Idles, LayerStep
<1>3. CASE (Terrain!Answer(c) \/ Terrain!Fail(c)) /\ UNCHANGED <<objectVars, agentVars>>
  <2>1. UNCHANGED <<objectCall, objectSure, agentCall, agentSure>>
    BY <1>3 DEF objectVars, agentVars
  <2>2. PICK outcome : Ended(c, terrainCall, terrainCall', terrainSure, outcome)
    BY <1>1, <1>3 DEF Terrain!Answer, Terrain!Fail, Ended
  <2>3. terrainSure' = terrainSure \ {c}
    BY <1>3 DEF Terrain!Answer, Terrain!Fail
  <2>4. Serves(terrainCall, terrainCall', terrainSure, terrainSure')
    BY <2>2, <2>3, EndsServe
  <2> QED
    BY <1>1, <2>1, <2>4, Idles, LayerStep
<1>4. CASE (Agent!Answer(c) \/ Agent!Fail(c)) /\ UNCHANGED <<objectVars, terrainVars>>
  <2>1. UNCHANGED <<objectCall, objectSure, terrainCall, terrainSure>>
    BY <1>4 DEF objectVars, terrainVars
  <2>2. PICK outcome : Ended(c, agentCall, agentCall', agentSure, outcome)
    BY <1>1, <1>4 DEF Agent!Answer, Agent!Fail, Ended
  <2>3. agentSure' = agentSure \ {c}
    BY <1>4 DEF Agent!Answer, Agent!Fail
  <2>4. Serves(agentCall, agentCall', agentSure, agentSure')
    BY <2>2, <2>3, EndsServe
  <2> QED
    BY <1>1, <2>1, <2>4, Idles, LayerStep
<1> QED
  BY <1>2, <1>3, <1>4 DEF EndCall

\* When no request runs, no call does.
LEMMA Quiet ==
  ASSUME IInv, \A h \in Http : ~Running(h), NEW c \in Calls
  PROVE  objectCall[c] # "running" /\ terrainCall[c] # "running" /\ agentCall[c] # "running"
<1>1. PICK h \in Http, i \in 1..MostLayers : c = <<h, i>>
  BY DEF Calls
<1>2. http[h].pc # "take"
  BY DEF Running
<1> QED
  BY <1>1, <1>2 DEF IInv, CallInv, Owned

LEMMA RefreshStep ==
  ASSUME IInv, NEW l, RefreshLayer(l)
  PROVE  IInv'
<1>1. /\ UNCHANGED <<startVars, http>> /\ CallInv
      /\ objectCall \in CallStates /\ terrainCall \in CallStates /\ agentCall \in CallStates
      /\ unsettled' = unsettled \union {h \in Http : Running(h)}
  BY DEF RefreshLayer, IInv, CallInv
<1>2. UNCHANGED <<objectCall, terrainCall, agentCall>>
  <2>1. Object!Refresh => objectCall' = objectCall
    BY DEF Object!Refresh, Object!Disturb, Object!Renew, Object!Publish, Object!PublishBlank, Object!Lose
  <2>2. Terrain!Refresh => terrainCall' = terrainCall
    BY DEF Terrain!Refresh, Terrain!Disturb, Terrain!Renew, Terrain!Publish, Terrain!PublishBlank,
           Terrain!Lose
  <2>3. Agent!Refresh => agentCall' = agentCall
    BY DEF Agent!Refresh, Agent!Disturb, Agent!Renew, Agent!Publish, Agent!PublishBlank, Agent!Lose
  <2> QED
    BY <2>1, <2>2, <2>3 DEF RefreshLayer, objectVars, terrainVars, agentVars
<1>3. unsettled' = {} => \A h \in Http : ~Running(h)
  BY <1>1
<1>4. unsettled' = {} => \A c \in Calls : /\ objectCall[c] # "running"
                                          /\ terrainCall[c] # "running"
                                          /\ agentCall[c] # "running"
  BY <1>3, Quiet
<1>5. Serves(objectCall, objectCall', objectSure, objectSure')
  BY <1>1, <1>2, <1>4 DEF Serves, Sound
<1>6. Serves(terrainCall, terrainCall', terrainSure, terrainSure')
  BY <1>1, <1>2, <1>4 DEF Serves, Sound
<1>7. Serves(agentCall, agentCall', agentSure, agentSure')
  BY <1>1, <1>2, <1>4 DEF Serves, Sound
<1> QED
  BY <1>1, <1>5, <1>6, <1>7, LayerStep

LEMMA InitIInv == Init => IInv
<1> SUFFICES ASSUME Init PROVE IInv
  OBVIOUS
<1>1. FiledTo(0)
  BY DEF Init, FiledTo
<1>2. StartInv
  BY <1>1 DEF Init, StartInv
<1>3. \A h \in Http : http[h] = NewHttp
  BY DEF Init
<1>4. NewHttp \in HttpType
  <2>1. <<>> \in Seq(Layers)
    OBVIOUS
  <2> QED
    BY <2>1 DEF NewHttp, HttpType, Pcs, Answers
<1>5. http \in [Http -> HttpType]
  BY <1>4 DEF Init
<1>6. \A h \in Http : HttpInv(http[h]) /\ ~Failed(http[h])
  BY <1>3 DEF NewHttp, HttpInv, Failed
<1>7. /\ objectCall = [c \in Calls |-> "idle"] /\ terrainCall = [c \in Calls |-> "idle"]
      /\ agentCall = [c \in Calls |-> "idle"]
  BY DEF Init, Object!Init, Terrain!Init, Agent!Init
<1>8. \A h \in Http, i \in 1..MostLayers : <<h, i>> \in Calls
  BY DEF Calls
<1>9. CallInv
  BY <1>6, <1>7, <1>8 DEF CallInv, CallStates, Owned, Sound
<1> QED
  BY <1>2, <1>5, <1>6, <1>9 DEF IInv

LEMMA NextIInv == IInv /\ [Next]_vars => IInv'
<1> SUFFICES ASSUME IInv, [Next]_vars PROVE IInv'
  OBVIOUS
<1>1. CASE Initialise
  BY <1>1, StartIInv
<1>2. ASSUME NEW c \in Calls, EndCall(c) PROVE IInv'
  BY <1>2, EndCallStep
<1>3. ASSUME NEW l \in Layers, RefreshLayer(l) PROVE IInv'
  BY <1>3, RefreshStep
<1>4. ASSUME NEW h \in Http, Receive(h) PROVE IInv'
  BY <1>4, ReceiveStep
<1>5. ASSUME NEW h \in Http, Handle(h) PROVE IInv'
  BY <1>5, ReplyStep, ComposeStep, AskLayerStep, TakeLayerStep, EncodeStep DEF Handle
<1>6. CASE UNCHANGED vars
  <2>1. /\ UNCHANGED <<startVars, http, unsettled>>
        /\ UNCHANGED <<objectCall, objectSure, terrainCall, terrainSure, agentCall, agentSure>>
    BY <1>6 DEF vars, layerVars, objectVars, terrainVars, agentVars
  <2>2. objectCall \in CallStates /\ terrainCall \in CallStates /\ agentCall \in CallStates
    BY DEF IInv, CallInv
  <2> QED
    BY <2>1, <2>2, Idles, LayerStep
<1> QED
  BY <1>1, <1>2, <1>3, <1>4, <1>5, <1>6 DEF Next

(***************************************************************************)
(* Theorems.                                                               *)
(***************************************************************************)

\* The inductive invariant holds.
THEOREM Invariance == Spec => []IInv
BY InitIInv, NextIInv, PTL DEF Spec

LEMMA WholeFollows == IInv => RegisteredWhole
<1> SUFFICES ASSUME IInv, Registered PROVE
        /\ threads = Layers
        /\ {layerDict[n] : n \in DOMAIN layerDict} = Layers
        /\ Cardinality(DOMAIN layerDict) = Cardinality(Layers)
  BY DEF RegisteredWhole
<1>1. threads = Layers /\ FiledTo(3)
  BY DEF IInv, StartInv, Registered, At
<1>2. \A n \in DOMAIN layerDict : \E i \in 1..3 : n = name[Order[i]] /\ layerDict[n] = Order[i]
  BY <1>1 DEF FiledTo
<1>3. \A i \in 1..3 : name[Order[i]] \in DOMAIN layerDict /\ layerDict[name[Order[i]]] = Order[i]
  BY <1>1 DEF FiledTo
<1>4. {layerDict[n] : n \in DOMAIN layerDict} = Layers
  BY <1>2, <1>3, Orders
<1>5. Cardinality(DOMAIN layerDict) = Cardinality(Layers)
  <2> DEFINE f == [l \in Layers |-> name[l]]
  <2>1. \A l \in Layers : f[l] \in DOMAIN layerDict /\ layerDict[f[l]] = l
    BY <1>3, Orders
  <2>2. \A n \in DOMAIN layerDict : \E l \in Layers : f[l] = n
    BY <1>2, Orders
  <2>5. f \in [Layers -> DOMAIN layerDict]
    BY <2>1
  <2> HIDE DEF f
  <2>3. f \in Bijection(Layers, DOMAIN layerDict)
    <3>1. \A l, m \in Layers : f[l] = f[m] => l = m
      BY <2>1
    <3>2. DOMAIN f = Layers
      BY <2>5
    <3>3. f \in Injection(Layers, DOMAIN layerDict)
      BY <2>5, <3>1, <3>2 DEF Injection, IsInjective
    <3>4. f \in Surjection(Layers, DOMAIN layerDict)
      BY <2>2, <2>5 DEF Surjection
    <3> QED
      BY <3>3, <3>4 DEF Bijection
  <2>4. IsFiniteSet(Layers)
    <3>1. IsFiniteSet({"Object"})
      BY FS_Singleton
    <3>2. IsFiniteSet({"Object"} \union {"Terrain"})
      BY <3>1, FS_AddElement
    <3>3. IsFiniteSet(({"Object"} \union {"Terrain"}) \union {"Agent"})
      BY <3>2, FS_AddElement
    <3>4. Layers = ({"Object"} \union {"Terrain"}) \union {"Agent"}
      BY DEF Layers
    <3> QED
      BY <3>3, <3>4
  <2> QED
    BY <2>3, <2>4, FS_Bijection DEF ExistsBijection
<1> QED
  BY <1>1, <1>4, <1>5

\* When the handler is registered each layer is filed under a name of its own
\* and its monitor runs, whatever the configuration file holds (Initialise).
THEOREM AlwaysRegisteredWhole == Spec => []RegisteredWhole
BY Invariance, WholeFollows, PTL

LEMMA MapFollows == IInv => MapIsWhole
<1> SUFFICES ASSUME IInv, NEW h \in Http, IsMap(h)
             PROVE  /\ http[h].bitmaps = 0
                    /\ http[h].drawn = [i \in 1..Len(http[h].query.layers) |->
                                          layerDict[http[h].query.layers[i]]]
  BY DEF MapIsWhole
<1>1. /\ http[h].bitmaps = 0
      /\ DrawnTo(http[h], Len(http[h].query.layers)) /\ WellFormed(http[h])
  BY DEF IInv, HttpInv, IsMap, SavedAs
<1> DEFINE d == http[h].drawn
           n == Len(http[h].query.layers)
<1>2. d \in Seq(Layers) /\ n \in Nat
  BY <1>1, MapServiceAssumption DEF IInv, HttpType, WellFormed
<1>3. DOMAIN d = 1..n /\ d = [i \in 1..n |-> d[i]]
  BY <1>1, <1>2 DEF DrawnTo
<1>4. \A i \in 1..n : d[i] = layerDict[http[h].query.layers[i]]
  BY <1>1 DEF DrawnTo, LayerAt
<1> QED
  BY <1>1, <1>3, <1>4

\* A map that is returned shows every layer that was asked for, in the order of
\* LAYERS, and leaves no bitmap undisposed (GetMap).
THEOREM MapsAlwaysWhole == Spec => []MapIsWhole
BY Invariance, MapFollows, PTL

\* A GetMap of known layers whose query parses and whose size is positive fails
\* only when some request has run while a picture was missing or renewed, or when a
\* map was asked for that memory may be too short for (GetMap and the layers it
\* calls).
THEOREM ErrorsAlwaysCaused == Spec => []ErrorHasCause
<1>1. IInv => ErrorHasCause
  BY DEF IInv, CallInv, Failed, Known, ErrorHasCause
<1> QED
  BY Invariance, <1>1, PTL
=============================================================================
