----------------------------- MODULE MapDownload -----------------------------
(***************************************************************************)
(* How a client gets the map of a server (engine/client/client.cpp,        *)
(* engine/server/server.cpp, protocol 0.6): from its disk, else with an    *)
(* HTTP request, and when that fails chunk by chunk from the game server,  *)
(* while the server may go on to its next map at any moment.  Connections  *)
(* deliver what is sent, in order (ReliableStream); the HTTP request is    *)
(* HttpRequests.                                                           *)
(*                                                                         *)
(* MAP_DETAILS and MAP_CHANGE are sent and used together: they are one     *)
(* message.  The content of a map is the sequence of its chunks.           *)
(***************************************************************************)
EXTENDS Integers, FiniteSets, SequencesExt

CONSTANTS
    Maps, None,
    Chunks,     \* how many chunks each map has
    Exact,      \* the maps whose size is a multiple of the size of a chunk
    Window,     \* sv_map_window
    OnDisk,     \* what the client may have on its disk
    MaxChanges  \* bound: how often the server changes the map

DownloadConstants ==
    /\ None \notin Maps /\ None \notin Seq([type : {"data"}, map : Maps, chunk : Nat])
    /\ Chunks \in [Maps -> Nat \ {0}] /\ Window \in Nat
    /\ OnDisk \subseteq SUBSET Maps

VARIABLES
    fast,     \* sv_fast_download
    current,  \* the map of the server
    next,     \* m_NextMapChunk
    num,      \* m_NumMapChunks
    state,    \* CServer::CClient::m_State, with "started" for all that comes after the start info
    changes,  \* the number of map changes
    toClient, \* messages on their way
    toServer,
    up,       \* is the client connected?
    wanted,   \* the map of m_aMapdownloadName, m_MapdownloadCrc
    task,     \* the state of m_pMapdownloadTask
    file,     \* what m_MapdownloadFileTemp holds, None when it is closed
    chunk,    \* m_MapdownloadChunk
    refused,  \* history: OpenFile failed for the wanted map
    loaded,   \* the map that is loaded
    disk      \* the maps on the client's disk

serverVars == <<fast, current, next, num, state, changes>>
download == <<wanted, task, file, chunk, refused>>
clientVars == <<up, download, loaded, disk>>
vars == <<serverVars, clientVars, toClient, toServer>>

Change(m) == [type |-> "change", map |-> m]
Data(m, k) == [type |-> "data", map |-> m, chunk |-> k]
ConReady == [type |-> "conready"]
Request(k) == [type |-> "request", chunk |-> k]
Ready == [type |-> "ready"]
Start == [type |-> "start"]

Content(m) == [i \in 1 .. Chunks[m] |-> Data(m, i - 1)]

Init ==
    /\ fast \in BOOLEAN
    /\ current \in Maps
    /\ next = 0 /\ num = 0 /\ state = "connecting" /\ changes = 0
    /\ toClient = <<Change(current)>> /\ toServer = << >>
    /\ up = TRUE
    /\ wanted = None /\ task = "none" /\ file = None /\ chunk = 0 /\ refused = FALSE
    /\ loaded = None /\ disk \in OnDisk

-----------------------------------------------------------------------------
(* The server. *)

\* A map change, or the reload of a map: SendMap for a client that is there.
ChangeMap(m) ==
    /\ changes < MaxChanges
    /\ changes' = changes + 1
    /\ current' = m
    /\ toClient' = Append(toClient, Change(m))
    /\ next' = 0 /\ num' = 0
    /\ state' = "connecting"
    /\ UNCHANGED <<fast, toServer, clientVars>>

\* SendMapData for each of ks: chunks beyond the end are dropped (a chunk
\* that starts at the end is not), and what exceeds twice the map as well.
\* The chunks in ks ascend: those that are sent are the first ones.
Limit == 2 * Chunks[current]
Exists(k) == k < Chunks[current] \/ (k = Chunks[current] /\ current \in Exact)
Answered(ks) ==
    LET exist == Cardinality({i \in DOMAIN ks : Exists(ks[i])})
    IN SubSeq(ks, 1, IF exist < Limit - num THEN exist ELSE Limit - num)

\* Fault: after the first window only faulty requests are answered.
Asked_FirstWindow(k, at) ==
    IF fast /\ k = at
    THEN (IF k = 0 THEN [i \in 1 .. Window |-> i - 1] ELSE << >>)
    ELSE <<k>>

\* What is sent for the request of chunk k when `at' is next: the first
\* request fills a window, and each request moves it by one.
Asked(k, at) ==
    IF fast /\ k = at
    THEN (IF k = 0 THEN [i \in 1 .. Window |-> i - 1] ELSE << >>) \o <<Window + at>>
    ELSE <<k>>

OnRequest ==
    /\ toServer # << >> /\ Head(toServer).type = "request"
    /\ LET k == Head(toServer).chunk
           at == IF k = 0 THEN 0 ELSE next
           sent == Answered(Asked(k, at))
       IN /\ next' = IF fast /\ k = at THEN at + 1 ELSE at
          /\ num' = num + Len(sent)
          /\ toClient' = toClient \o [i \in DOMAIN sent |-> Data(current, sent[i])]
    /\ toServer' = Tail(toServer)
    /\ UNCHANGED <<fast, current, state, changes, clientVars>>

\* OnNetMsgReady.
OnReady ==
    /\ toServer # << >> /\ Head(toServer).type = "ready"
    /\ state' = IF state = "connecting" THEN "ready" ELSE state
    /\ toClient' = IF state = "connecting" THEN Append(toClient, ConReady) ELSE toClient
    /\ toServer' = Tail(toServer)
    /\ UNCHANGED <<fast, current, next, num, changes, clientVars>>

\* The start info, and what follows it, for a client that is ready.
OnStart ==
    /\ toServer # << >> /\ Head(toServer).type = "start"
    /\ state' = IF state = "ready" THEN "started" ELSE state
    /\ toServer' = Tail(toServer)
    /\ UNCHANGED <<fast, current, next, num, changes, toClient, clientVars>>

-----------------------------------------------------------------------------
(* The client. *)

Send(msg) == toServer' = Append(toServer, msg)

\* ResetMapDownload(true): the request is aborted, the file closed and removed.
Reset == wanted' = None /\ task' = "none" /\ file' = None /\ chunk' = 0 /\ refused' = FALSE

\* DisconnectWithReason.
Disconnect ==
    /\ Reset
    /\ up' = FALSE
    /\ loaded' = None
    /\ UNCHANGED <<disk, toServer>>

\* ResetMapDownload(false) and SendMapRequest, which sends the request whether
\* or not it could open the file.
Fallback ==
    /\ task' = "none"
    /\ \E opens \in BOOLEAN :
           /\ file' = IF opens THEN << >> ELSE None
           /\ refused' = ~opens
    /\ loaded' = None
    /\ Send(Request(chunk))
    /\ UNCHANGED <<up, wanted, chunk, disk>>

\* FinishMapDownload of a file that holds `content': the file may not be
\* renamed, or not be loaded; LoadMap checks its hash.
Finish(content, saved, loads) ==
    IF ~saved THEN Disconnect
    ELSE IF loads /\ content = Content(wanted)
    THEN /\ Reset
         /\ loaded' = wanted
         /\ disk' = disk \cup {wanted}
         /\ Send(Ready)
         /\ UNCHANGED up
    ELSE IF task = "none" THEN Disconnect ELSE Fallback

Receive(type) ==
    /\ up
    /\ toClient # << >> /\ Head(toClient).type = type
    /\ toClient' = Tail(toClient)

\* Fault: a download that is under way is not taken back to its start.
OnMapChange_KeepsFile ==
    /\ Receive("change")
    /\ LET m == Head(toClient).map
       IN IF m \in disk
          THEN /\ Reset
               /\ loaded' = m
               /\ Send(Ready)
          ELSE /\ wanted' = m
               /\ task' = "running"
               /\ loaded' = None
               /\ UNCHANGED <<file, chunk, refused, toServer>>
    /\ UNCHANGED <<up, disk, serverVars>>

\* MAP_CHANGE: LoadMapSearch unloads the map and looks for the new one.
OnMapChange ==
    /\ Receive("change")
    /\ LET m == Head(toClient).map
       IN IF m \in disk
          THEN /\ Reset
               /\ loaded' = m
               /\ Send(Ready)
          ELSE /\ wanted' = m
               /\ task' = "running"
               /\ file' = None /\ refused' = FALSE
               /\ chunk' = 0
               /\ loaded' = None
               /\ UNCHANGED toServer
    /\ UNCHANGED <<up, disk, serverVars>>

\* The HTTP request comes to its end.
TaskEnds ==
    /\ task = "running"
    /\ task' \in {"done", "error"}
    /\ UNCHANGED <<serverVars, up, wanted, file, chunk, refused, loaded, disk, toClient, toServer>>

\* CClient::Update looks at it.  Its content has been checked against the hash.
Update(saved, loads) ==
    /\ \/ task = "done" /\ Finish(Content(wanted), saved, loads)
       \/ task = "error" /\ Fallback
    /\ UNCHANGED <<serverVars, toClient>>

Expected(msg) == file # None /\ msg.map = wanted /\ msg.chunk = chunk /\ chunk < Chunks[wanted]

\* Fault: the last chunk is not told from the others.
OnMapData_NeverLast(saved, loads) ==
    /\ Receive("data")
    /\ IF Expected(Head(toClient))
       THEN /\ file' = Append(file, Head(toClient))
            /\ chunk' = chunk + 1
            /\ Send(Request(chunk + 1))
            /\ UNCHANGED <<up, wanted, task, refused, loaded, disk>>
       ELSE UNCHANGED <<clientVars, toServer>>
    /\ UNCHANGED serverVars

\* MAP_DATA: the chunk that is waited for is written, and the next one is
\* asked for.
OnMapData(saved, loads) ==
    /\ Receive("data")
    /\ IF ~Expected(Head(toClient)) THEN UNCHANGED <<clientVars, toServer>>
       ELSE IF chunk = Chunks[wanted] - 1 THEN Finish(Append(file, Head(toClient)), saved, loads)
       ELSE /\ file' = Append(file, Head(toClient))
            /\ chunk' = chunk + 1
            /\ Send(Request(chunk + 1))
            /\ UNCHANGED <<up, wanted, task, refused, loaded, disk>>
    /\ UNCHANGED serverVars

\* CON_READY: OnConnected sends the start info, if a map is loaded.
OnConReady ==
    /\ Receive("conready")
    /\ IF loaded # None THEN Send(Start) ELSE UNCHANGED toServer
    /\ UNCHANGED <<serverVars, clientVars>>

-----------------------------------------------------------------------------
Server == OnRequest \/ OnReady \/ OnStart
Deliver == OnMapChange \/ OnConReady \/ \E saved, loads \in BOOLEAN : OnMapData(saved, loads)
Loop == \E saved, loads \in BOOLEAN : Update(saved, loads)

Next ==
    \/ \E m \in Maps : ChangeMap(m)
    \/ Server
    \/ Deliver \/ TaskEnds \/ Loop

Spec == Init /\ [][Next]_vars

\* What is sent arrives and is handled, the request has a timeout, and both
\* programs loop.  Nobody has to change the map.
Fairness == WF_vars(Server) /\ WF_vars(Deliver) /\ WF_vars(TaskEnds) /\ WF_vars(Loop)
FairSpec == Spec /\ Fairness

-----------------------------------------------------------------------------
\* Every variable has its type.
TypeOK ==
    /\ current \in Maps /\ state \in {"connecting", "ready", "started"}
    /\ next \in Nat /\ num \in 0 .. Limit
    /\ wanted \in Maps \cup {None} /\ loaded \in Maps \cup {None} /\ disk \subseteq Maps
    /\ task \in {"none", "running", "done", "error"} /\ refused \in BOOLEAN

\* The file that is downloaded holds the chunks of the wanted map, from the
\* first, each once and in order, whatever answers to requests of earlier
\* maps are still on their way, and it is never open while an HTTP request
\* writes to the same path: this is what the assertion of SendMapRequest asks.
\* A map that is wanted without a request has its file open, unless OpenFile
\* failed.
FileIsPrefix ==
    /\ TypeOK
    /\ file # None =>
           /\ task = "none" /\ wanted # None /\ loaded = None
           /\ chunk = Len(file)
           /\ IsPrefix(file, Content(wanted))
    /\ refused <=> wanted # None /\ task = "none" /\ file = None

\* A download comes to its end: the map is loaded, or the client leaves.  A map
\* that is wanted for ever is one whose file could not be opened (the client
\* asks for chunks and drops them all, SendMapRequest does not look), or one for
\* which the server's limit of twice its chunks was used up by requests for
\* earlier maps.  Either lasts until the map changes, and spoils no later one.
Downloading == wanted # None
DownloadEnds == []<>(~Downloading \/ refused \/ num >= Limit)

\* "Client -> READY -> Server: The client has loaded the map and is ready to
\* go [...] modc_connected is called on the client and mods_connected is
\* called on the server" (protocol.h): a client that the server takes to be
\* ready gets as far as the start info, unless it leaves, the map changes or
\* its file cannot be opened.
ReadyStarts == (state = "ready") ~> (state # "ready" \/ ~up \/ refused)
=============================================================================
