# A verification development for Entity-Client-DDNet

This directory holds TLA+ models of the parts of the program that keep state
across messages, threads and failures, the TLC configurations that check them,
and TLAPS proofs about them. The program is a fork of DDNet: a game client, a
game server, a master server and tools, in C++ (and some Rust). Paths in this
text are relative to `src/src/` of the repository.

Contents: [inventory](#inventory), [interactions](#how-the-components-interact),
[modules](#the-modules-and-the-code), [runs](#the-runs),
[proofs](#what-is-proved), [observations](#observations-about-the-code),
[limits](#what-is-not-modelled), [plan](#the-plan).

## Inventory

| Component | State it keeps | Operations | What is hard | What makes it correct |
| --- | --- | --- | --- | --- |
| Network connection `engine/shared/network_conn.cpp`, `network.cpp`, `ringbuffer.cpp` | `m_State`, `m_Sequence`, `m_Ack`, `m_PeerAck`, resend buffer, packet under construction, timeout flags | QueueChunk, Flush, Feed, UnpackNextChunk, Resend, Update, Disconnect, ResumeConnection; Allocate, PopFirst | loss, duplication, reordering; numbers modulo 1024; a full buffer; a connection that is moved | vital chunks in order, once, none left out; old and new numbers told apart exactly; each item in memory of its own |
| Network server `engine/shared/network_server.cpp` | a connection per slot, protection flags, limits, half-read packet | Recv, TryAcceptClient, Drop, Update, ResumeOldConnection | reconnection while in the game, close and timeout in any order, limits | slot, client and player agree; no slot is held for ever |
| Server `engine/server/server.cpp` | state of each client, snapshots and acknowledgements, kept data, tick, map and the chunk each client is at | callbacks of the slots, messages, DoSnapshot, SendMap, map change | messages of an earlier state; a map change in the middle of everything | the game hears of each player once, in order; a map arrives whole |
| Snapshots `engine/shared/snapshot.cpp`, `engine/client/client.cpp` | storage on both sides, parts, acknowledged ticks | Add, PurgeUntil, delta, NETMSG_SNAP*, NETMSG_INPUT | both sides drop bases on their own; messages overtake each other | what is shown is what was built; a base is at hand |
| Snapshot ids `engine/server/snap_id_pool.cpp` | two linked lists in one array | NewId, FreeId, TimeoutIds | a rest of five seconds, lists that share links | one owner per id, never too early |
| Map download `engine/client/client.cpp`, `engine/server/server.cpp` | wanted map, HTTP task, open file, next chunk | MAP_CHANGE, MAP_DATA, REQUEST_MAP_DATA, READY, end of the HTTP request | the map changes while chunks and a READY for the old one are under way | a file of one map only; the download ends |
| Job pool `engine/shared/jobs.cpp` | queue, running jobs, semaphore, shutdown flag | Add, RunLoop, Abort, Shutdown | lost wakeup, shutdown against fetch, abort against start | each job run once, aborted for good, none lost |
| Database pool `engine/server/databases/connection_pool.cpp` | ring of 512 queries, two semaphores, three tables | Execute, ExecuteWrite, two threads, OnShutdown | two readers of one ring, databases that fail half way | every query answered, no row lost |
| Asynchronous file `base/aio.cpp` | ring buffer that grows, semaphore, reference count | write, close, wait, free, thread | wakeups, wrapping and growth, who frees | bytes in order and in the file, freed once |
| HTTP client `engine/shared/http_curl.cpp` | three lists of requests, shutdown time, wakeup | Run, RunLoop, Abort, Shutdown | hand-over, abort, failure and shutdown in any order | every request is completed, once |
| Registration `engine/server/register.cpp`, `mastersrv/src/main.rs` | challenges, indices of requests, status per protocol; two maps of the master server | SendRegister, OnToken, answers, deletion; add, remove, prune | answers out of order, deletion against registration, crashes of both | listed while running, gone afterwards |
| Bans `engine/shared/netban.cpp` | pool, hash buckets, list by expiry | Ban, Unban, Update, IsBanned | one entry in several lists | the lists agree, bans end in time, the banned are out |
| Teams, saving `game/server/teams.cpp`, `save.cpp`, `score*.cpp` | team states, members, characters, pending saves; rows of saves | save, load, ProcessSaveTeam, join, die, leave, reset | the answer of the database meets a team that has changed; several servers share the table | a race is in one place, and not lost |
| Game context `game/server/gamecontext.cpp` | players, votes, mutes, mapping | handlers of messages and commands | players that vanish during a handler | no use of a player that is gone |

The components that are left aside (rendering, sound, physics, editor,
configuration, coding, server browser, updaters, vendored libraries ...) are
listed in `PROJECT.json` with the reason. In short: sequential computation
without interaction, numeric simulation on floating point, or adapters to
libraries. The hazards of the code, each at its line, and the properties that
are meant for them are listed there as well.

## How the components interact

* A **game server** is one main thread. `CServer::Run` alternates between
  ticks, the map change and `PumpNetwork`, which calls `CNetServer::Update` and
  then drains the socket: a control packet may accept, restart or close the
  connection of a slot; the chunks of other packets are handed, one by one, to
  `ProcessClientPacket`, which moves the state of the client and calls the game
  (`OnClientConnected`, `OnMessage`, `OnClientDrop`). A chat command of the
  game calls back into the slots (`SetTimedOut`), a ban drops clients.
* **Server and client** share two `CNetConnection` ends. Vital chunks carry
  the login, the map, chat; snapshots and inputs are not vital and carry each
  other's acknowledgements. Map data may come over HTTP instead.
* The main thread hands work to **job pool** and **database pool** through a
  locked queue and a ring with semaphores, log and teehistorian to
  **aio threads**, web requests to the **HTTP thread**. It polls for results.
* The **registration** lives on the main thread, its requests on the job pool,
  which waits for the HTTP client; its challenges come back as packets.
* **Teams** are saved and loaded by requests to the database pool; each tick the
  game looks whether the answer is there.

## The modules and the code

| Module | Part | Notes |
| --- | --- | --- |
| `NetSeq` | comparisons of sequence numbers (`IsSeqInBackroom`, the window check of `Feed`) | pure operators, `MaxSeq` is 1024 in the program |
| `NetConnection` | two connections from the moment both are ONLINE | actions named after the methods |
| `Resumption` | `ResumeConnection`, on top of `NetConnection` | the new connection moves into a slot that timed out |
| `ReliableStream` | abstract: what one direction promises | refined by `NetConnection` in both directions |
| `RingBuffer`, `ItemQueue` | the memory behind the resend buffer; abstract: a queue of items with memory of their own | `RingBuffer` refines `ItemQueue` |
| `ClientSlots`, `GameSessions` | slots, client states, players; abstract: what the game is told | `ClientSlots` refines `GameSessions` |
| `SnapshotSync`, `SnapshotFeed` | one slot of the server and the client behind it; abstract: snapshots shown in order as built | `SnapshotSync` refines `SnapshotFeed` |
| `SnapIdPool`, `SnapIds` | the pool with its links; abstract: ids with owners and rests | `SnapIdPool` refines `SnapIds` |
| `MapDownload` | the client's download and the server's side of it | over a stream in order and an HTTP request |
| `JobPool` | jobs, workers, main thread | one action per critical section or atomic access |
| `DbPool` | main thread, backup thread, worker, tables | one action per step between locks or database calls |
| `AsyncIo` | ring buffer, thread, writers, owner | one action per critical section |
| `HttpClient`, `HttpRequests` | the client's thread and its users; abstract: the life of a request | `HttpClient` refines `HttpRequests` |
| `MasterServer`, `Register` | the master server's lists; a game server that registers at it | `Register` refines `MasterServer` |
| `BanPool`, `BanList` | both pools with lists and buckets; abstract: bans that run out | `BanPool` refines `BanList`, once per pool |
| `TeamSave` | races of teams on several servers, their saves and loads | the steps of the pool as in `DbPool` |
| `NetConnectionProofs`, `SnapshotProofs`, `ClientSlotsProofs`, `SnapIdPoolProofs`, `ThreadsProofs`, `ServicesProofs`, `RecordsProofs`, `BanProofs` | theorems | see below |
| `MCThreads`, `MCRecords`, `MCServices` | several components, as instances, in one run | their constants are given values by the `.cfg`; see [the runs](#the-runs) |
| other `MC...` | constants of the small instances | no definitions of the system |

`PROJECT.json` maps each definition to the lines it stands for. Definitions
named `Something_Word`, each under a comment that says "fault", are deliberately wrong variants
of the definition `Something`; no specification uses them. They show that the
property they are meant for is able to fail.

### NetConnection and Resumption

Per endpoint the variables are those of `CNetConnection` (`state`, `seq`, `ack`,
`peerAck`, `buffer`, `construct`, `requested`, `closed`, `timedOut`), the rest
of the packet being unpacked (`rx`) and the network (`net`). A vital chunk is
counted twice: by its number modulo `MaxSeq`, which the program sees, and by
`n`, a history field that no guard reads; `sent`, `log` and `heard` are history
too. Time is abstracted: a timer of `Update` may have elapsed or not.

Assumptions on the environment are explicit constants: an application that
keeps fewer than `MaxUnacked` vital chunks unacknowledged and a network that
never delivers a packet overtaken by more than `MaxAge` vital chunks, with
`2 * MaxUnacked < MaxSeq`, `MaxUnacked + MaxAge < MaxSeq` and
`MaxAge + PacketCap < MaxSeq`. The code does not enforce them; with 1024
numbers, a resend buffer of 32 KiB and a timeout of 100 s they hold on any
ordinary network, and without them no protocol with wrapping numbers works.

`Resumption` adds the one step in which the server executes the timeout code:
the numbers and the resend buffer of the new connection move into the slot,
while `m_PeerAck`, `m_Construct` and `m_ResendRequested` remain those of the
connection that timed out there (`Leftovers`).

### RingBuffer

Sizes and places are counted in headers. The blocks are a function from offsets
to headers with their links; each call of the code is an operator from buffer
to buffer, so that `Allocate` on a buffer that recycles can pop items until
one fits. The refinement to `ItemQueue` reads the items off the links from
`m_pConsume` to `m_pProduce`.

### ClientSlots

`conn` is what `CNetServer` keeps of a slot (state, address, kind of token,
`m_TimeoutProtected`, `m_TimeoutSituation`), `client` what `CServer` keeps
(`m_State`, `m_IngameBeforeRejoin` as `ibr`, `m_HasPersistentData`), `player`
what `CGameContext` keeps (`m_IsReady`, `m_aTimeoutCode`). `pump` separates the
two halves of `CServer::Run`: packets are handled only between an `Update` and
the end of its pump, the map change only outside. The handshake with a token
(0.6 with extension, and 0.7) is one action, the vanilla handshake two (CONNECT
makes the token unknown, an input completes it) and, with antispoof off, one.
`Update(surely)` ages all connections and drops those in error; `surely` names
slots whose protection is over and is only used to state fairness.
The refinement maps a slot to "none", "joined" or "playing".

### SnapshotSync

Contents of a snapshot are members of a small set; a difference remembers its
base and target and yields garbage on any other base, unless it is empty (which
has no checksum, `NETMSG_SNAPEMPTY`). Messages are sets in flight: lost,
repeated, overtaken. Snapshots may be too large, fail to unpack, have a wrong
checksum or be invalid. `IsDummy` chooses the connection whose `EnterGame` may
come after its first snapshots; `Resume` is the effect of `SetTimedOut`.

### SnapIdPool

The pool is a record of the array (`next`, `state`, `timeout`) and the heads;
`NewId`, `FreeId` and `TimeoutIds` walk it as the loops of the code do.

### MapDownload

The content of a map is the sequence of its chunks; `Exact` names the maps whose
size is a multiple of the chunk size, which the server answers differently at
the end. The connection is two queues of messages (what `ReliableStream`
promises), the HTTP request a task that is running, done or failed. The server
keeps `m_NextMapChunk`, the number of requests it has answered (at most twice the
chunks of the map) and the state of the client; the client what it wants,
its task, the open file and the chunk it waits for. A change of the map is
possible at any moment. The request, the rename and the load of the file may fail, and so may
`OpenFile` (`refused`): `SendMapRequest` asks for the map all the same.

### JobPool

`Workers` run `RunLoop` in the places its locks cut it into (wait, fetch, look,
start, enlist, run, finish, exit); the main thread adds jobs, aborts them and
shuts down. The assertions of the source are the invariant `AssertionsHold`.

### DbPool

Queries pass a ring of `Size` slots. A write keeps one row in each of three
tables: the remote one, the backup table (`tmp`) and the final table of the file
(`kept`). Every database call may fail, after its effect or before, as the code
allows. `Backlog` bounds how many queries wait; the program has no such bound,
and the run `db_overrun` shows what happens without it.

### AsyncIo

Bytes are numbered, so that order and loss are visible. The buffer never fills
completely, wraps, and grows to the next size while data are in two pieces.
The owner does what the users of the interface do: close or not, wait or not,
free; freeing without having closed or waited is done by no user.

### HttpClient

`pending` is `m_PendingRequests`, `fresh` the list `RunLoop` swaps it with,
`running` is `m_RunningRequests`. The thread's steps are its critical sections
and its calls of libcurl, each of which may fail and end the client. A transfer
ends in success, in error, aborted by its progress callback, or never. The
wakeup of `curl_multi_poll` is a flag that the next poll consumes; a poll may
fail at any time (`PollFails`).

### MasterServer and Register

`addresses` and `servers` are the two maps of `Servers` in the master server; each
of its methods is an operator, and what the code unwraps or asserts is the
invariant `MapsAgree`. `Register` adds a game server: one sequence of jobs under
way per protocol, requests that outlive their process (`wire`), challenge packets,
the settings, and crashes of both programs. The indices of requests are used by
the code only to learn whether a later request was answered, so each job
carries that fact. The information is its serial. Time is absent: the next
registration may be due whenever the code looks, an entry may be old whenever
it was not renewed (`Kept`).

### BanPool

Entries are linked as in the code: the list of used ones in the order in which
they run out, the free list, and a list per bucket. Addresses are short sequences
of bytes; a range is looked for in one bucket for each number of bytes its ends
may share. `Plans` says what gets banned in a behaviour.

### TeamSave

One race is followed through all its saves and loads on several servers. Its
progress is the number of the last save that was tried, so that loss and copies
are visible. `worker` is the step the database pool is at with a team's query
(the row into the backup table, into the remote one, the settling; or SELECT
and DELETE on the remote table, then on the file), and between any two of them
players come, go, join and die, and the game is reset. `doubt` records that a
database has done what it reported as failed; `givenUp` that the players lost
or left the race.

## The runs

Several parts that do not touch each other share a run: in `threads`, `records`
and `services` a behaviour starts by choosing its `part`, and the other parts
stand still. The state space is then the sum of the parts', not their product, and each
property still speaks of its own part. Temporal properties are written
`Fairness => ...` there, each part under its own fairness; `AllEnd` is of the form
`[]<>Settled`, which holds of a part that stands still in its initial state.

| Run | Module | Bounds | What it shows |
| --- | --- | --- | --- |
| `net_one_way` | `NetConnection` | 6 numbers, packets and resend buffer of one chunk, 2 vital chunks of the server after 4 earlier ones and any number of its other chunks, 2 packets in flight | `InOrderOnce`, `AckWindowExact`, `ReleasedIsDelivered` and the refinement `StreamSpec`, with loss, repetition, reordering, overflow, timeout and disconnect |
| `net_resume` | `Resumption` | 6 numbers, buffer of two chunks, no duplicates, one chunk of the server and the client's timeout code; with the move and without | `AllDelivered`: every vital chunk arrives |
| `resume_leftover` | `Resumption` | the same with any left-over `m_PeerAck` | violated: packets that were not overtaken are refused |
| `threads` | `JobPool`, `AsyncIo`, `DbPool`, `HttpClient` | 4 jobs (2 abortable), 2 workers; 5 bytes through a ring of 4 and a local buffer of 2; a ring of 3, 4 queries, 2 waiting; 2 requests | the assertions, orders and promises of each, and `ThreadsEnd` |
| `jobs_abort_all` | `JobPool` | 2 jobs, 1 worker | violated: Shutdown does not abort every abortable job |
| `db_overrun` | `DbPool` | ring of 2, 3 queries, 3 waiting | violated: a query is overwritten and never answered |
| `snap_sync` | `SnapshotSync` | 3 ticks, storage of 2, 2 parts, 2 messages in flight, a dummy | what is shown is what was built (`FeedSpec`, `StoredAsBuilt`), only what is stored is acknowledged, nothing shown is freed (`StorageServes`) |
| `snap_bases` | same | 6 ticks, storage of 4 | `BaseAtHand`: a base that is referred to is at hand |
| `client_slots` | `ClientSlots` | 2 slots, 3 addresses of 2 machines, one code, one client per address | `SlotsAgree`, `PerIpLimit`, the refinement, no slot in error for ever |
| `records` | `SnapIdPool`, `RingBuffer`, `BanPool`, `TeamSave` | 3 ids, rest of 2, clock of 6; memory of 8 headers; 3 ban entries, 2 buckets, 4 addresses or 3 ranges, clock of 2; 2 servers, 2 saves | exact lists and the refinement of each container; a saved race is in one place, is not lost, and comes back to its own players |
| `services` | `Register`, `MapDownload` | plans of two events, at most two protocols, one loss, one job at a time and one more for a token; maps of 2 and 3 chunks, a window of 2, 3 changes | what the server believes is true and comes true; a file of one map; a download ends, unless its file cannot be opened or the server's limit is used up |
| `map_ready` | `MapDownload` | the same maps, 1 change | violated: a READY for the earlier map is taken for the new one |

Why the bounds suffice. `net_one_way`: the numbers wrap (start at 4 of 6), every
branch of the two window checks is taken, the buffer overflows with a single
unacknowledged chunk, and two packets in flight are the least that can overtake
each other. `threads`: two workers and four jobs give every race of fetch,
abort, shutdown and removal from the middle of the queue; five bytes through four slots wrap, grow
and are taken in pieces; the fourth query takes the slot of the first; of two
requests one may be pending, fresh or running while the other is completed.
`snap_sync` and `snap_bases`: storage is shorter than the run, so both sides
purge. `client_slots`: resumption needs two slots, the limit two addresses of
one machine, resumption from elsewhere a third; with two slots the limit is one
client per machine. A second slot that could be resumed as well (three slots) is
beyond the time of a run. `records`: three ids, and three entries, are the least
with a head, a middle and a tail; eight headers hold three items with gaps, so
that a block merges with its neighbour on either side and across the wrap; two
servers are needed for a race that is loaded twice, a second save for a code
that is used again, a team of two for one that is left by some; the second
server has a file, the first has none. `services`: two events are the least of
which one can overtake the other's request; with three map changes an answer
for the map before last meets the same map again, and the maps' lengths lie on
both sides of the window.

Deadlock is checked where the system never stops (`client_slots`, `net_resume`). The other
models end: counters run out, pools are shut down, connections close; there
`CHECK_DEADLOCK` is off.

### Fairness

* `NetConnection`, `Resumption`: packets are received and unpacked, timers of
  `Update` fire again and again, and a packet that brings news and is sent again
  and again is received in the end. The last is an assumption about the network,
  the rest is the main loop. Nobody has to resume.
* `JobPool`, `DbPool`, `AsyncIo`: threads are scheduled, jobs and database calls
  return, an owner that began to close or wait goes on. Nobody has to add, abort,
  close or shut down.
* `HttpClient`: its thread is scheduled and the deadline of a shutdown passes.
  No poll has to fail (`PollFails` is no part of `RunLoop`).
  Transfers need not end: this is why the property asks only that requests are
  completed after a shutdown, a failure or the end of their transfer.
* `ClientSlots`: the pump ends (`sv_max_packets_per_recv` bounds it), `Update`
  comes again, and the protection of a slot in error runs out: its time of last
  reception stands still while the clock goes on.
* `Register`: the main thread and the jobs go on, what is not lost arrives and is
  answered (requests have timeouts), and the master server prunes each second.
  The losses of a behaviour are bounded by its plan.
* `MapDownload`: the stream delivers, both programs loop, the HTTP request has a
  timeout. Nobody has to change the map, and nothing makes `OpenFile` fail or succeed.

## What is proved

For every value of the constants, under the assumptions the modules name:

* `NetConnectionProofs`: the meaning of the two modular comparisons, for every
  (respectively every even) `MaxSeq`; type correctness, `InOrderOnce`, that a chunk skipped as
  old was delivered before, `AckWindowExact`, `ReleasedIsDelivered` and the
  refinement `StreamSpec`.
  None of them is inductive. The invariant `IndInv` states for each place where a
  modular number is kept (connection, buffer, chunk, packet) which chunk it
  stands for, how far apart these may be, and that every chunk from the first
  unacknowledged one is in the buffer in order or was too much for it. From the
  distances and the meaning of the comparisons follows that each comparison the code makes on
  numbers is the comparison of the chunks; from there, each action is a short
  argument on natural numbers. The proof has one step per action and one part
  per conjunct below it.
* `SnapshotProofs`: type correctness, `StoredAsBuilt`, `StorageServes` and the
  refinement `FeedSpec`, for any contents, ticks, period, storage, number of
  parts and errors, and `BaseAtHand` for a main connection (not for a dummy, which
  may enter the game after the first snapshots and does lack bases). `StoredAsBuilt`
  and `StorageServes` are not inductive: a message under way is stored later, so
  `Inv` says of each message, too, that it is what was built for its tick on
  what was built for its base (`Contents`), that nothing is known of ticks to
  come (`Times`), and in which order what is shown, acknowledged and awaited
  follow each other (`Order`). With that purging, which looks at ticks alone, frees nothing in
  use. `BaseAtHand` needs `Bases` besides: whatever acknowledgement the server may still hear, its
  snapshot is at the client as long as it is at the server; the bases of messages in
  flight grow with their ticks.
* `ClientSlotsProofs`: `SlotsAgree`, `PerIpLimit` and the refinement
  `SessionSpec`, for any number of slots, addresses, machines, codes and limit.
  `SlotsAgree` needs to know for each slot which players, flags and states go
  together (`SlotOK`); only the address relates two slots. `PerIpLimit` is then
  an argument on cardinalities: each step leaves the slots that count for a
  machine a subset of what they were, but for an accept, which comes after the
  check, and a resumption, where one slot leaves the set for the one that
  enters. From `SlotOK` follows, action by action, what the game is told.
* `SnapIdPoolProofs`: `ListsExact`, `RefusedIsExhausted` and the refinement
  `PromiseSpec`, for any number of ids and any rest. `PoolInv` names what the
  links mean: there is a bijection from `1 .. n` to the free ids that the links
  follow, and one to the resting ids whose last id is `lastTimed` and whose
  timeouts never fall. The order of the timeouts is why a loop that stops at the first
  id that still rests misses none. The loops are recursive functions; what they
  compute is shown for `MaxIds` turns by the least turn at which it would fail
  (well-foundedness of the natural numbers, so that no induction theorem is
  needed), and a set of resting ids that shrinks with each turn shows that this many are
  enough.
* `ThreadsProofs`, job pool: type correctness, `AssertionsHold`, `NoLostWakeup`,
  `ResultsHold` (a DONE job was run and is run no more; after `Shutdown` every job
  that could not be aborted is done) and `AbortHolds`, for any jobs and any
  finite set of workers. The invariant says where each job is (queue, one
  worker, or nowhere), what its state may be there, and that until the shutdown
  the tokens of the semaphore and the workers on their way to the queue are
  together as many as the queued jobs. The last part is the heart: without it
  a worker could find an empty queue and leave.
* `ThreadsProofs`, database pool: that no row is lost follows from the order of the worker's steps
  alone (`NoRowIsLost`, even when the ring overruns). The other theorems need
  `RoomInRing`, a backlog below the size of the ring. Then `OrderInv` is
  inductive: the tokens of each semaphore count what its thread has not taken
  (`Counts`), the backup thread is never behind the worker (`Pace`), and a slot holds the query of its
  number exactly as long as the worker has not taken it (`Slotted`), which
  takes a little arithmetic on `%`. From it follow `InOrder`, `OkIsStored` and that a
  worker that leaves has answered everything: for such a backlog `AllHandled` holds,
  which `db_overrun` refutes without it.
* `ThreadsProofs`, asynchronous file and HTTP client: `NothingLost` and `OwnerServed` of
  `AsyncIo`, for any writers, any
  sizes of the buffers and any writes. `NothingLost` speaks of sequences that are cut
  and joined; the proof first says of each position what lies there (`At`, `Holds`), shows
  of each operation of the buffer, filling around the end, moving to a larger one and taking
  from the front, how it moves positions, and reads the sequences off in the end. The invariant
  `Placed` says that byte by byte each place holds one more than the one
  before. `Stages` counts the references by who has left and keeps what was
  promised when `finish` was set. Of `HttpClient`: an open request is in exactly one of
  `pending`, `fresh` and `running`, once, and its state says in which. Hence the refinement
  `RequestSpec` for any set of requests.
* `ServicesProofs`, registration: the two maps of the master server agree (`MasterAgrees`), every step
  of `Register` is one of the master server's or leaves it alone
  (`RegisterRefinesMaster`), and so they agree in the composition too
  (`RegisterAgrees`), for any finite set of addresses, any secrets and plans. The proof needs the
  types of the jobs and requests under way, to know that each request names an
  address and a secret. `SuccessKept` and `DeletionSent` rest on
  `RegisterInv`: a request under way is of this life and has the serial of its
  job, an answer of success that is still to be read is true of the master
  server's list (`JobsSound`), and after the success of the last job of a protocol
  the answers of all others are stale (`AcceptedOK`). The bound on requests nobody waits for
  (`WireBounded`) is part of it because `SuccessKept` includes the types.
* `ServicesProofs`, map download: `FileIsPrefix` for any maps, sizes, window and number
  of changes. A file is of one map because what is under way belongs to a change: the
  answers for a map are behind the message that announces it, and a request of an earlier
  change is answered before the next is announced. The invariant also says who holds the
  path of the file, the HTTP request or the open file; only where `OpenFile` failed
  does a map that is wanted have neither (`OpenIs`: a closed file is no sequence of chunks).
* `RecordsProofs`, teams: `OneCopy`, `NotLost` and `OwnTee` for any servers, tees, slots,
  names and numbers of saves. `SaveInv` says of each race, by the step at which
  the database pool is with the query of its team, where its last
  progress may be: with the team, with the worker, as a row, or given up. `StillAlone` and
  `StillSomewhere` carry the count of places over a step that touches one server only;
  the proof that a load moves the race uses that a row that was deleted was one row.
* `RecordsProofs`, ring buffer: `RingInductive` for any size of the memory. The blocks follow
  each other without a gap, each knows its neighbours, two free blocks never meet, and what is occupied lies
  from `m_pConsume` to `m_pProduce` (`Straight`, or `Wrapped` around the end). Hence
  `EmptyTakesAll`. The loops are recursive functions as in
  `SnapIdPool`; `Iterates` says of any of them that what holds at the start and is kept
  by a turn holds in the end.
* `RecordsProofs`, the refinement `QueueSpec` (`RingIsQueue`): `Items`, a walk along the links, is the
  only list of the occupied blocks in which each comes once and the distance to
  `m_pProduce` falls (`ItemsAre`, `OneList`). So the proof of a step speaks of the set of occupied blocks and
  of their distances, never of the walk: merging free blocks changes neither (`MovedKeeps`), `PopFirst`
  takes out the farthest (`PopItems`), and when `m_pProduce` moves behind a new block that block is the
  nearest and the others stay in order (`LastIs`). The loop of `Allocate` takes one
  item a turn and so ends within `Size` turns with room for the new one (`RoomItems`). That a
  walk never leaves the blocks needs the second part of `RingOrder`: where no
  block starts, no link is left (`Tidy`).
* `BanProofs`: `BanInductive` for both pools and any number of entries, buckets and
  bytes. The list of used entries is a chain from its head to its tail with links in both
  directions (`Links`, `Ends`), sorted by the time at which a ban runs out (`Sorted`), and
  each bucket holds exactly the used entries of its hash (`Contents`). Sorting is why
  `Update`, which stops at the first ban that is still valid, lifts all that have run
  out. `BannedStayOut` follows for any sets of addresses and ranges, and so does
  the refinement `BanSpec` of each pool.

The modules `MCThreads`, `MCServices` and `MCRecords` take their parts in as instances, and
have the constants of the parts as their own. The theorems are about these
instances, for any values of the constants that satisfy the assumptions; a run gives
them small ones in its `.cfg`.

Assumptions on constants, besides the sizes being numbers: the window of
`NetConnection` and `RoomInRing` of `DbPool` are explained above; `ClientSlots`
assumes that `None` is no address, no code and no player, `Register` that the set
of addresses is finite and the bound `MaxWire` a number. `MCThreads`, `MCServices` and
`MCRecords` state those of their parts. `FileAssumption`: the buffer starts with room for a byte, the other
sizes are numbers. `DbAssumption`: `RoomInRing`. `DownloadAssumption`: each map has at
least one chunk, the window is a number, what is on disk is a set of maps, and
`None` is no map and no sequence of chunks. `SaveAssumption`: the first server and those with a
backup are servers, the code of the user is no generated one, and `None` is no character. `BanAssumption`: there is at least one
entry, one bucket and one byte in an address, clients have addresses, and what is
planned are ranges. `RingAssumption`: the memory is not empty. `Register` further assumes of each plan
that there are secrets for the lives it has (`PlansAssumption`). All of them only say
what the constants stand for, except the window of `NetConnection` and `RoomInRing`.

Only model-checked is what is liveness: `AllDelivered`, `ThreadsEnd`, `ErrorEnds`,
`RegistrationFollows` and `DownloadEnds`. Temporal reasoning with fairness and ENABLED is out of the
reach of the installed provers. So are the induction theorems of the library,
whose argument is an operator: what a recursive function computes is proved here by a
least counterexample (`LeastExists`, `UpTo`).

## Observations about the code

Shown by runs that are expected to fail:

* `resume_leftover`: `ResumeConnection` leaves `m_PeerAck` of the connection that
  timed out. The window check then compares acknowledgements of the new peer with
  a number that means nothing to it: packets that were overtaken are taken, and
  current ones are refused until the acknowledgements come to lie in the old window.
* `jobs_abort_all`: the documentation of `CJobPool::Shutdown` says that all
  abortable jobs are aborted. A job that a worker holds between its two locks
  is missed; it runs in full and the shutdown waits for it.
* `db_overrun`: the ring of the database pool is written without a look at the
  reader. A query too many destroys the oldest, and the empty slot that results
  later ends the threads while queries are pending.
* `map_ready`: READY does not say which map it is for. One for the last map makes the
  server believe the client is ready for the new one; the client, which has no
  map loaded, ignores CON_READY, and its own READY is ignored later.

Met while modelling:

* A chunk queued while the resend buffer is full is sent once and not kept
  (`network_conn.cpp:189` says so). The stream then stops at that chunk when it
  is lost; the models show that nothing is delivered in its place.
* A packet under construction that held a vital chunk when its connection timed
  out (`m_Construct`) would be sent by the connection that is moved there, under
  a number of the old one. `net_resume` starts with an empty one.
* `ResumeConnection` leaves `m_TimeoutSituation` set until the next `Update`.
  A client that resumes and closes within one drain of the socket leaves its
  slot under protection as though it had timed out; `ErrorEnds` shows that the
  slot still comes free.
* When the local backup of a write fails and the remote database fails as well,
  the fallback moves no row and reports success. `OkIsStored` is therefore
  about writes whose backup succeeded.
* On the main connection the client never lacks a base it is referred to: the
  server drops only what is older than the last acknowledgement it heard, the
  client only what is older than a base it was sent. The branch for a missing
  base serves the dummy and resumed connections.
* The server answers at most twice as many requests for chunks as the map has.
  Requests for an earlier map that arrive late count, and the client repeats none,
  so that a download may stop for ever: after one change when the size of the
  map is a multiple of a chunk, else after two. `DownloadEnds` excepts
  this (`num >= Limit`).
* `SendMapRequest` does not look at the result of `OpenFile` (`client.cpp:313`). When the
  file cannot be opened the request is sent all the same, every NETMSG_MAP_DATA is
  dropped because there is no file (`client.cpp:1886`), and the client waits until the
  map changes or it is told to leave. By contrast `FinishMapDownload`
  disconnects with a message when the file cannot be renamed. `DownloadEnds`
  excepts this too (`refused`); with the limit these are the only two
  ways in which the model's download stops. No other property excepts it but `ReadyStarts`, so
  that the trace of `map_ready` has its file open.
* With two quick changes of the map the server may accept the start info of a client
  that has not got the new map, as READY does not name its map.
* The temporary file of a download has the name of its destination only. Two HTTP
  requests for one destination would write to the same file.
* `CRegister::OnToken` registers a protocol that `sv_register` does not offer,
  against `engine/shared/config_variables.h:474`.
* `CRingBufferBase::Last` and `Prev` miss an item when no block is free. The resend
  buffer is only walked forwards.
* `ProcessSaveTeam` does not look at `m_Success`. A save that fell back to the file and could not
  be moved to the final table is reported as stored; it lies in the
  backup table, which no load reads.
* A remote database that stores a save and reports failure doubles the race (it
  is in the table, and the team gets it back); one that deletes and reports
  failure loses it. `OneCopy` and `NotLost` except these (`doubt`): no
  transaction spans database and game.
* `KillTeam` after "invalid tee state" runs while the team still counts as saving,
  so that these deaths are ignored by `OnCharacterDeath` and the team stays STARTED.

## What is not modelled

* Small narrowings of modelled parts. `NetConnection` has the
  connections whose first number is known: `m_UnknownSeq`, which a vanilla client's
  connection has until its first vital chunk (`network.cpp:98`, `network_server.cpp:292`),
  is false. The addresses of `BanPool` are not the machine itself, which
  `BanExt` refuses to ban (`netban.cpp:214`). `SnapshotSync` is one connection of a client;
  `m_SnapCrcErrors` counts for both (`client.cpp:2322`), so with a dummy the code may start
  over sooner or later than here. The theorems hold for any limit, and the run has the
  least one with which an error may be counted and may start over. A write to a map file that fails shows as a file
  that does not load. The `Update` of `Register` reads the serials once for all protocols it
  sends for, where `SendRegister` takes the lock for each (`register.cpp:285`): a job that
  raises the last accepted serial between two of them is covered when the second
  protocol need not register at once, as the model may then send for it in a later
  `Update`, and is left out otherwise; `OnNewInfo` and `OnConfigChange` are read the same way.
* Handshakes as packets, and the sequence numbers after an accept is repeated:
  `NetConnection` starts with two ONLINE ends and
  `ClientSlots` has no sequence numbers.
* Progress of snapshots: ticks are bounded in `SnapshotSync`, so that recovery
  from a missing base is only shown to be safe.
* The map download of 0.7, whose client asks for several chunks at once; connecting, dummies and
  demo playback of the client.
* Contents: items of a snapshot and their delta, compression, packing of
  integers, text, what a save holds of a character.
* Console commands around bans, teams, votes and mutes (among them `set_team`,
  which bypasses `CanJoinTeam`), the econ commands that go with registration,
  backward iteration of the ring buffer.
* Votes, chat, mutes and the mapping of players to 64 slots: handlers of one
  thread that change a few fields each. Teams beyond saving: practice, swapping, finishing.
* Graphics, sound, text, input, video, the editor and the interface, physics, the server browser,
  updaters, configuration, coding, vendored libraries: for the reasons given in
  `PROJECT.json`. They are by far the greater part of the lines of this repository;
  most of it is computation without interaction, for which a state machine
  would repeat the code.

## The plan

The order is that of importance: first what every player depends on. Done:
`NetConnection`, `Resumption` and `RingBuffer`; `JobPool`, `DbPool`, `AsyncIo`,
`HttpClient`; `SnapIdPool`, `SnapshotSync`; `ClientSlots`; `Register`; `MapDownload`;
`BanPool`; `TeamSave`; proofs about all of them. Left:

1. Recovery of snapshots as a liveness property, with ticks that wrap round
   instead of ending.
2. The map download of 0.7, composed with the window of its requests.
3. The handover of command buffers to the graphics thread
   (`backend_threaded.cpp`); the state machine of votes.
4. The composition of `NetConnection` with `ClientSlots` for an accept that is
   repeated.
