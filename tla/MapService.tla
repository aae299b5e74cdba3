----------------------------- MODULE MapService -----------------------------
(***************************************************************************)
(* MapService.cs: the plugin.  Initialise reads the configuration, makes   *)
(* the three layers (each starts its monitor thread), files them by name   *)
(* and registers owsHandler last.  The HTTP server then calls owsHandler,  *)
(* each request on a thread of its own; GetMap asks the named layers one   *)
(* after the other and draws what they return over each other.             *)
(*                                                                         *)
(* A layer is the PictureService that ObjectLayer, TerrainLayer and        *)
(* AgentLayer are shown to implement.                                      *)
(***************************************************************************)
EXTENDS Naturals, Sequences, FiniteSets

CONSTANTS
  Http,        \* the HTTP requests
  Queries,     \* the queries they may carry
  Configs,     \* the contents OpenSim.MapService.ini may have
  MostLayers,  \* bound on the parts of LAYERS
  NULL

Order == <<"Object", "Terrain", "Agent">>
Layers == {"Object", "Terrain", "Agent"}

\* A section is missing, lacks a valid size or interval (broken) or is good; a
\* section without the key "name" has the name NULL.  A query's layers are the
\* parts of LAYERS, at least one; malformed stands for a BBOX, HEIGHT or WIDTH
\* that does not parse, and a LAYERS that is not there.  Of those that do parse,
\* HEIGHT and WIDTH are the size of no bitmap (one is not positive), of a huge one,
\* for which there may be no memory, or of a fair one.
ASSUME MapServiceAssumption ==
  /\ \A c \in Configs, l \in Layers : c[l].section \in {"missing", "broken", "good"}
  /\ \A q \in Queries : /\ q.kind \in {"GetMap", "GetCapabilities", "GetFeature", "other"}
                        /\ q.layers \in Seq(STRING) /\ Len(q.layers) <= MostLayers
                        /\ q.kind = "GetMap" => q.layers # <<>>
                        /\ q.size \in {"none", "huge", "fair"}
  /\ MostLayers \in Nat

Calls == Http \X (1..MostLayers)

VARIABLES
  config,      \* the configuration file
  start,       \* what Initialise does next, and for which layer
  name,        \* the names the parameters give the layers
  threads,     \* the layers whose monitor thread is running
  layerDict,   \* the layers filed by name
  http,        \* the requests
  unsettled,   \* history: requests that ran while a picture was not ready
  objectPicture, objectCall, objectSure,
  terrainPicture, terrainCall, terrainSure,
  agentPicture, agentCall, agentSure

startVars == <<config, start, name, threads, layerDict>>
objectVars == <<objectPicture, objectCall, objectSure>>
terrainVars == <<terrainPicture, terrainCall, terrainSure>>
agentVars == <<agentPicture, agentCall, agentSure>>
layerVars == <<objectVars, terrainVars, agentVars>>
vars == <<startVars, http, unsettled, layerVars>>

Object == INSTANCE PictureService WITH Requests <- Calls,
  picture <- objectPicture, call <- objectCall, sure <- objectSure
Terrain == INSTANCE PictureService WITH Requests <- Calls,
  picture <- terrainPicture, call <- terrainCall, sure <- terrainSure
Agent == INSTANCE PictureService WITH Requests <- Calls,
  picture <- agentPicture, call <- agentCall, sure <- agentSure

picture == [Object |-> objectPicture, Terrain |-> terrainPicture, Agent |-> agentPicture]
call == [Object |-> objectCall, Terrain |-> terrainCall, Agent |-> agentCall]

NewHttp == [pc |-> "idle", query |-> NULL, layer |-> 0, drawn |-> <<>>,
            bitmaps |-> 0, out |-> "none"]

Init ==
  /\ config \in Configs
  /\ start = [does |-> "read", layer |-> 1]
  /\ name = [l \in Layers |-> "default"]
  /\ threads = {}
  /\ layerDict = <<>>
  /\ http = [h \in Http |-> NewHttp]
  /\ unsettled = {}
  /\ Object!Init /\ Terrain!Init /\ Agent!Init

(***************************************************************************)
(* Initialise(openSim), on the thread that loads the plugins.              *)
(***************************************************************************)

At(does) == start.does = does

\* On to the next layer, or with the first one to what follows.
Continue(next) ==
  start' = IF start.layer < Len(Order) THEN [start EXCEPT !.layer = @ + 1]
           ELSE [does |-> next, layer |-> 1]

\* getLayerParams assigns the name first; what is missing throws, and the
\* exception is caught around all three sections.
ReadSection ==
  LET l == Order[start.layer]
      s == config[l].section
  IN
  /\ At("read")
  /\ name' = IF s = "missing" THEN name ELSE [name EXCEPT ![l] = config[l].name]
  /\ IF s = "good" THEN Continue("create") ELSE start' = [does |-> "create", layer |-> 1]
  /\ UNCHANGED <<config, threads, layerDict, http, unsettled, layerVars>>

\* The base constructor starts the monitor thread.
CreateLayer ==
  /\ At("create")
  /\ threads' = threads \union {Order[start.layer]}
  /\ Continue("add")
  /\ UNCHANGED <<config, name, layerDict, http, unsettled, layerVars>>

\* Mutant of AddLayer: layerDict[name] = layer.
Overwrite ==
  LET l == Order[start.layer] IN
  /\ At("add")
  /\ layerDict' = [n \in DOMAIN layerDict \union {name[l]} |->
                     IF n = name[l] THEN l ELSE layerDict[n]]
  /\ Continue("register")
  /\ UNCHANGED <<config, name, threads, http, unsettled, layerVars>>

\* layerDict.Add throws for a null name and for one that is taken; nothing
\* stops the threads that are running by then.
AddLayer ==
  LET l == Order[start.layer] IN
  /\ At("add")
  /\ IF name[l] = NULL \/ name[l] \in DOMAIN layerDict
     THEN start' = [does |-> "threw", layer |-> start.layer] /\ UNCHANGED layerDict
     ELSE /\ layerDict' = [n \in DOMAIN layerDict \union {name[l]} |->
                             IF n = name[l] THEN l ELSE layerDict[n]]
          /\ Continue("register")
  /\ UNCHANGED <<config, name, threads, http, unsettled, layerVars>>

Registered == At("serve")

Register ==
  /\ At("register")
  /\ start' = [does |-> "serve", layer |-> 1]
  /\ UNCHANGED <<config, name, threads, layerDict, http, unsettled, layerVars>>

Initialise == ReadSection \/ CreateLayer \/ AddLayer \/ Register

(***************************************************************************)
(* The layers.                                                             *)
(***************************************************************************)

Running(h) == http[h].pc \notin {"idle", "done"}

BeginCall(l, c) ==
  \/ l = "Object" /\ Object!Begin(c) /\ UNCHANGED <<terrainVars, agentVars>>
  \/ l = "Terrain" /\ Terrain!Begin(c) /\ UNCHANGED <<objectVars, agentVars>>
  \/ l = "Agent" /\ Agent!Begin(c) /\ UNCHANGED <<objectVars, terrainVars>>

EndCall(c) ==
  /\ \/ (Object!Answer(c) \/ Object!Fail(c)) /\ UNCHANGED <<terrainVars, agentVars>>
     \/ (Terrain!Answer(c) \/ Terrain!Fail(c)) /\ UNCHANGED <<objectVars, agentVars>>
     \/ (Agent!Answer(c) \/ Agent!Fail(c)) /\ UNCHANGED <<objectVars, terrainVars>>
  /\ UNCHANGED <<startVars, http, unsettled>>

\* A monitor thread renews its layer's picture.
RefreshLayer(l) ==
  /\ l \in threads
  /\ \/ l = "Object" /\ Object!Refresh /\ UNCHANGED <<terrainVars, agentVars>>
     \/ l = "Terrain" /\ Terrain!Refresh /\ UNCHANGED <<objectVars, agentVars>>
     \/ l = "Agent" /\ Agent!Refresh /\ UNCHANGED <<objectVars, terrainVars>>
  /\ unsettled' = unsettled \union {h \in Http : Running(h)}
  /\ UNCHANGED <<startVars, http>>

(***************************************************************************)
(* owsHandler, on an HTTP thread.                                          *)
(***************************************************************************)

Respond(h, answer) ==
  http' = [http EXCEPT ![h].pc = "done", ![h].out = answer]

\* A map has been asked for that there may be no memory for, and none for others.
Strained == \E h \in Http : http[h].pc # "idle" /\ http[h].query.size = "huge"

\* The query is taken apart.
Receive(h) ==
  /\ http[h].pc = "idle"
  /\ Registered
  /\ \E q \in Queries :
       http' = [http EXCEPT ![h] =
         [@ EXCEPT !.query = q,
            !.pc = IF q.malformed \/ q.kind = "other" THEN "done"
                   ELSE IF q.kind = "GetMap" THEN "compose" ELSE "reply",
            !.out = IF q.malformed THEN "error"
                    ELSE IF q.kind = "other" THEN "unsupported" ELSE "none"]]
  /\ UNCHANGED <<startVars, unsettled, layerVars>>

\* WMSGetMap makes the bitmap it will return; a size that is not positive, or is
\* more than there is memory for, throws.
Compose(h) ==
  /\ http[h].pc = "compose"
  /\ \/ (http[h].query.size = "none" \/ Strained) /\ Respond(h, "error")
     \/ /\ http[h].query.size # "none"
        /\ http' = [http EXCEPT ![h].pc = "ask", ![h].layer = 1, ![h].bitmaps = 1]
  /\ UNCHANGED <<startVars, unsettled, layerVars>>

\* GetCapabilities reads a file; GetFeature walks the avatar list.
Reply(h) ==
  /\ http[h].pc = "reply"
  /\ \/ Respond(h, http[h].query.kind)
     \/ Respond(h, "error")
  /\ UNCHANGED <<startVars, unsettled, layerVars>>

LayerName(h) == http[h].query.layers[http[h].layer]

\* layerDict[layers[i]] throws for a name nobody knows; GetRegionByBitmap makes
\* a bitmap of its own, if it can, before it looks at the layer's.
AskLayer(h) ==
  /\ http[h].pc = "ask" /\ http[h].layer <= Len(http[h].query.layers)
  /\ \/ /\ LayerName(h) \notin DOMAIN layerDict \/ Strained
        /\ Respond(h, "error")
        /\ UNCHANGED <<unsettled, layerVars>>
     \/ /\ LayerName(h) \in DOMAIN layerDict
        /\ LET l == layerDict[LayerName(h)] IN
             /\ BeginCall(l, <<h, http[h].layer>>)
             /\ unsettled' = IF picture[l] = "ready" THEN unsettled ELSE unsettled \union {h}
        /\ http' = [http EXCEPT ![h].pc = "take", ![h].bitmaps = @ + 1]
  /\ UNCHANGED startVars

\* Mutants of TakeLayer: a layer that fails is left out; it is waited for; its
\* bitmap is not disposed.
LeaveOut(h) ==
  /\ http[h].pc = "take"
  /\ call[layerDict[LayerName(h)]][<<h, http[h].layer>>] \in {"failed", "answered"}
  /\ http' = [http EXCEPT ![h].pc = "ask", ![h].layer = @ + 1, ![h].bitmaps = @ - 1]
  /\ UNCHANGED <<startVars, unsettled, layerVars>>

AwaitPicture(h) ==
  /\ http[h].pc = "take"
  /\ call[layerDict[LayerName(h)]][<<h, http[h].layer>>] = "answered"
  /\ http' = [http EXCEPT ![h].pc = "ask", ![h].layer = @ + 1, ![h].bitmaps = @ - 1,
                          ![h].drawn = Append(@, layerDict[LayerName(h)])]
  /\ UNCHANGED <<startVars, unsettled, layerVars>>

\* What the layer returns is drawn and disposed; what it throws, or the drawing
\* when memory is short, leaves the handler, and both bitmaps to the collector.
TakeLayer(h) ==
  LET l == layerDict[LayerName(h)] IN
  /\ http[h].pc = "take"
  /\ \/ /\ \/ call[l][<<h, http[h].layer>>] = "failed"
           \/ call[l][<<h, http[h].layer>>] = "answered" /\ Strained
        /\ Respond(h, "error")
     \/ /\ call[l][<<h, http[h].layer>>] = "answered"
        /\ http' = [http EXCEPT ![h].pc = "ask", ![h].layer = @ + 1,
                                ![h].bitmaps = @ - 1, ![h].drawn = Append(@, l)]
  /\ UNCHANGED <<startVars, unsettled, layerVars>>

\* The picture is saved as PNG, whatever FORMAT asks for, and disposed; the bytes
\* and their base64 string take memory too.
SavedAs == "image/png"

Encode(h) ==
  /\ http[h].pc = "ask" /\ http[h].layer > Len(http[h].query.layers)
  /\ \/ Strained /\ Respond(h, "error")
     \/ http' = [http EXCEPT ![h].pc = "done", ![h].out = SavedAs, ![h].bitmaps = @ - 1]
  /\ UNCHANGED <<startVars, unsettled, layerVars>>

Handle(h) == Reply(h) \/ Compose(h) \/ AskLayer(h) \/ TakeLayer(h) \/ Encode(h)

Next ==
  \/ Initialise
  \/ \E c \in Calls : EndCall(c)
  \/ \E l \in Layers : RefreshLayer(l)
  \/ \E h \in Http : Receive(h) \/ Handle(h)

Spec == Init /\ [][Next]_vars

\* Initialise runs, a request that was received is worked on, and a layer
\* answers or fails each call (RequestsEnd of the layers).  Pictures need not
\* be renewed and requests need not come.
FairSpec ==
  /\ Spec
  /\ WF_vars(Initialise)
  /\ \A h \in Http : WF_vars(Handle(h))
  /\ \A c \in Calls : WF_vars(EndCall(c))

(***************************************************************************)
(* Properties.                                                             *)
(***************************************************************************)

\* When the handler is registered each layer is filed under a name of its own
\* and its monitor runs, whatever the configuration file holds: a missing or
\* broken section leaves two layers with the name "default", and Initialise
\* throws before the handler can be reached.
RegisteredWhole ==
  Registered =>
    /\ threads = Layers
    /\ {layerDict[n] : n \in DOMAIN layerDict} = Layers
    /\ Cardinality(DOMAIN layerDict) = Cardinality(Layers)

IsMap(h) == http[h].out = SavedAs

\* A map that is returned shows every layer that was asked for, once, in the
\* order of LAYERS: a layer that fails or is unknown is never left out.  And it
\* leaves no bitmap undisposed (a request that fails leaves one or two to the
\* collector).
MapIsWhole ==
  \A h \in Http : IsMap(h) =>
    /\ http[h].bitmaps = 0
    /\ http[h].drawn = [i \in 1..Len(http[h].query.layers) |-> layerDict[http[h].query.layers[i]]]

\* A GetMap of known layers whose query parses and whose size is positive fails
\* only when some request has run while a picture was missing or renewed, or when a
\* map has been asked for that there may be no memory for: otherwise the layers,
\* asked one after the other, do not disturb each other.
ErrorHasCause ==
  \A h \in Http :
    /\ http[h].out = "error"
    /\ http[h].query.kind = "GetMap" /\ ~http[h].query.malformed
    /\ http[h].query.size # "none"
    /\ \A i \in 1..Len(http[h].query.layers) : http[h].query.layers[i] \in DOMAIN layerDict
    => unsettled # {} \/ Strained

\* Every request is answered or fails, however often pictures are renewed.
RequestsEnd == \A h \in Http : Running(h) ~> http[h].pc = "done"
=============================================================================
