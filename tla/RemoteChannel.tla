---------------------------- MODULE RemoteChannel ----------------------------
(***************************************************************************)
(* One mux connection after its hello, for one session of the devbox:       *)
(* viewers of the materialized session (sockets of the ingest daemon),      *)
(* attach and detach frames, the uplink's reader thread of the session's    *)
(* socket, and spawn requests that go to the devbox over the same           *)
(* connection (ingest.rs, uplink.rs, spawn_auth.rs).                        *)
(*                                                                         *)
(* Frames are decoded messages; a signed one is of this connection's secret *)
(* and carries a nonce of its own, so that the replay guard only turns down *)
(* what is older than the freshness window.                                 *)
(***************************************************************************)
EXTENDS Naturals, FiniteSets, Sequences

CONSTANTS
    Viewers,      \* connections of local viewers, each used once
    Requests,     \* ids of spawn requests
    Readers,      \* reader threads of the uplink, each used once
    None,
    Secrets,      \* whether remote.spawnSecret may be set, the same on both sides
    SpawnEnabled, \* feature remoteSpawn of the devbox
    Quick,        \* viewers come and go faster than detaches and readers do
    MaxWire       \* bound: frames under way to the uplink

ASSUME RemoteChannelAssumption ==
    /\ None \notin Readers /\ Secrets \subseteq BOOLEAN
    /\ {SpawnEnabled, Quick} \subseteq BOOLEAN /\ MaxWire \in Nat

VARIABLES
    secret,   \* remote.spawnSecret is set
    sock,     \* sock[v]: the viewer's socket at the ingest daemon
    wire,     \* frames under way to the uplink
    loop,     \* the uplink's loop: what it is in the middle of
    entry,    \* the attached map's entry of the session
    reader,   \* reader[r]: the reader thread
    host,     \* the session's own daemon runs
    request,  \* request[q]: handle_spawn_control_request
    replies,  \* spawn results under way to the ingest daemon
    spawned   \* requests the devbox has started a session for

channelVars == <<secret, sock, wire, loop, entry, reader, host, request, replies, spawned>>
spawnVars == <<request, replies, spawned>>
upVars == <<loop, entry, reader, host>>

Frame(kind, id, signed) == [kind |-> kind, id |-> id, signed |-> signed]
Idle == [at |-> "idle", id |-> None]
InMap == {v \in Viewers : sock[v] \in {"inserted", "open"}}
Threads == {r \in Readers : reader[r] \in {"running", "detached", "ending"}}

ChannelTypeOK ==
    /\ secret \in BOOLEAN /\ host \in BOOLEAN
    /\ sock \in [Viewers -> {"idle", "inserted", "open", "leaving", "last", "gone"}]
    /\ \A i \in 1 .. Len(wire) :
         wire[i] \in [kind : {"attach", "detach", "spawn"}, id : Requests \cup {None}, signed : BOOLEAN]
    /\ loop \in [at : {"idle", "attaching", "spawning", "closed"}, id : Readers \cup Requests \cup {None}]
    /\ entry \in Readers \cup {None}
    /\ reader \in [Readers -> {"unused", "running", "detached", "ending", "gone"}]
    /\ request \in [Requests -> {"new", "pending", "refused", "timeout", "done", "failed"}]
    /\ \A i \in 1 .. Len(replies) : replies[i] \in [id : Requests, ok : BOOLEAN]
    /\ spawned \subseteq Requests

ChannelInit ==
    /\ secret \in Secrets
    /\ sock = [v \in Viewers |-> "idle"]
    /\ wire = <<>> /\ loop = Idle /\ entry = None
    /\ reader = [r \in Readers |-> "unused"]
    /\ host = TRUE
    /\ request = [q \in Requests |-> "new"]
    /\ replies = <<>> /\ spawned = {}

Open == loop.at # "closed"
Spawning(q) == loop.at = "spawning" /\ loop.id = q

----------------------------------------------------------------------------
(* Viewers, at the ingest daemon *)

\* The accept task puts the socket into the map and then sends Attach.
ViewerAccepted(v) ==
    /\ Open /\ sock[v] = "idle"
    /\ ~Quick => \A w \in Viewers : sock[w] \notin {"inserted", "leaving", "last"}
    /\ sock' = [sock EXCEPT ![v] = "inserted"]
    /\ UNCHANGED <<secret, wire, upVars, spawnVars>>
SendAttach(v) ==
    /\ Open /\ sock[v] = "inserted" /\ Len(wire) < MaxWire
    /\ sock' = [sock EXCEPT ![v] = "open"]
    /\ wire' = Append(wire, Frame("attach", None, FALSE))
    /\ UNCHANGED <<secret, upVars, spawnVars>>

\* Mutant of ViewerLeaves: the detach is sent whoever is left.
ViewerLeavesAlone(v) ==
    /\ Open /\ sock[v] = "open"
    /\ sock' = [sock EXCEPT ![v] = "last"]
    /\ UNCHANGED <<secret, wire, upVars, spawnVars>>

\* The socket's reader task ends: it leaves the map, and sees whether it was
\* the last one there.
ViewerLeaves(v) ==
    /\ Open /\ sock[v] = "open"
    /\ sock' = [sock EXCEPT ![v] = IF InMap = {v} THEN "last" ELSE "leaving"]
    /\ UNCHANGED <<secret, wire, upVars, spawnVars>>

\* Having let go of the map it sends Detach if it was the last.
SendDetach(v) ==
    /\ Open /\ sock[v] \in {"leaving", "last"}
    /\ sock[v] = "last" => Len(wire) < MaxWire
    /\ sock' = [sock EXCEPT ![v] = "gone"]
    /\ wire' = IF sock[v] = "last" THEN Append(wire, Frame("detach", None, FALSE)) ELSE wire
    /\ UNCHANGED <<secret, upVars, spawnVars>>

----------------------------------------------------------------------------
(* The uplink's loop *)

\* unwrap_inbound: with a secret every control frame has to be signed by it.
Accepted(f) == secret => f.signed

Reads(kind) == loop = Idle /\ wire # <<>> /\ Head(wire).kind = kind

Ignore ==
    /\ loop = Idle /\ wire # <<>>
    /\ \/ ~Accepted(Head(wire))
       \/ Head(wire).kind = "attach" /\ (entry # None \/ ~host)
       \/ Head(wire).kind = "detach" /\ entry = None
       \/ Head(wire).kind = "spawn" /\ ~SpawnEnabled
       \/ Head(wire).signed  \* older than the freshness window
    /\ wire' = Tail(wire)
    /\ UNCHANGED <<secret, sock, upVars, spawnVars>>

\* attach: connects to the session's socket and starts the reader thread.
Attach(r) ==
    /\ Reads("attach") /\ Accepted(Head(wire))
    /\ entry = None /\ host
    /\ reader[r] = "unused"
    /\ ~Quick => Threads = {}
    /\ reader' = [reader EXCEPT ![r] = "running"]
    /\ loop' = [at |-> "attaching", id |-> r]
    /\ wire' = Tail(wire)
    /\ UNCHANGED <<secret, sock, entry, host, spawnVars>>
\* Only then does the map get its entry.
AttachInserts ==
    /\ loop.at = "attaching"
    /\ entry' = loop.id
    /\ loop' = Idle
    /\ UNCHANGED <<secret, sock, wire, reader, host, spawnVars>>

\* detach: takes the entry out and tells its thread.
Detach ==
    /\ Reads("detach") /\ Accepted(Head(wire)) /\ entry # None
    /\ entry' = None
    /\ reader' = [reader EXCEPT ![entry] = IF @ = "running" THEN "detached" ELSE @]
    /\ wire' = Tail(wire)
    /\ UNCHANGED <<secret, sock, loop, host, spawnVars>>

\* The thread sees that it is detached, or the end of the session's output.
ReaderEnds(r) ==
    /\ \/ reader[r] = "detached"
       \/ reader[r] = "running" /\ ~host
    /\ ~Quick => loop.at # "attaching"
    /\ reader' = [reader EXCEPT ![r] = "ending"]
    /\ UNCHANGED <<secret, sock, wire, loop, entry, host, spawnVars>>
\* Then it takes the session's entry out of the map, unless the map is in use.
ReaderCleans(r) ==
    /\ reader[r] = "ending"
    /\ entry' \in (IF loop.at = "closed" THEN {None} ELSE {None, entry})
    /\ reader' = [reader EXCEPT ![r] = "gone"]
    /\ UNCHANGED <<secret, sock, wire, loop, host, spawnVars>>

\* The session's daemon ends.
HostEnds ==
    /\ host
    /\ host' = FALSE
    /\ UNCHANGED <<secret, sock, wire, loop, entry, reader, spawnVars>>

\* The connection ends on both sides: the map is drained, the sockets close.  A
\* spawn that is under way runs to its end, and its result goes nowhere.
Close ==
    /\ Open /\ loop.at # "attaching"
    /\ loop' = [at |-> "closed", id |-> None]
    /\ entry' = None
    /\ reader' = [r \in Readers |-> IF r = entry /\ reader[r] = "running" THEN "detached" ELSE reader[r]]
    /\ sock' = [v \in Viewers |-> IF sock[v] = "idle" THEN "idle" ELSE "gone"]
    /\ wire' = <<>> /\ replies' = <<>>
    /\ spawned' \in {spawned, spawned \cup {q \in Requests : Spawning(q)}}
    /\ UNCHANGED <<secret, host, request>>

----------------------------------------------------------------------------
(* Spawn requests *)

\* A request is refused when its token is not the beacon's, and without a secret
\* or a connection; else it is signed, registered and forwarded.
Request(q, authorized) ==
    /\ request[q] = "new" /\ Len(wire) < MaxWire
    /\ IF authorized /\ secret /\ Open
       THEN /\ request' = [request EXCEPT ![q] = "pending"]
            /\ wire' = Append(wire, Frame("spawn", q, TRUE))
       ELSE /\ request' = [request EXCEPT ![q] = "refused"]
            /\ wire' = wire
    /\ UNCHANGED <<secret, sock, upVars, replies, spawned>>

\* run_spawn runs the new session's command line to its end; the loop does
\* nothing else meanwhile.
Spawn ==
    /\ Reads("spawn") /\ Accepted(Head(wire)) /\ secret /\ SpawnEnabled
    /\ loop' = [at |-> "spawning", id |-> Head(wire).id]
    /\ wire' = Tail(wire)
    /\ UNCHANGED <<secret, sock, entry, reader, host, spawnVars>>

\* Mutant of SpawnEnds: a failure is reported as a success.
SpawnEndsWell ==
    /\ loop.at = "spawning"
    /\ \E ok \in BOOLEAN : spawned' = IF ok THEN spawned \cup {loop.id} ELSE spawned
    /\ replies' = Append(replies, [id |-> loop.id, ok |-> TRUE])
    /\ loop' = Idle
    /\ UNCHANGED <<secret, sock, wire, entry, reader, host, request>>

SpawnEnds ==
    /\ loop.at = "spawning"
    /\ \E ok \in BOOLEAN :
         /\ spawned' = IF ok THEN spawned \cup {loop.id} ELSE spawned
         /\ replies' = Append(replies, [id |-> loop.id, ok |-> ok])
    /\ loop' = Idle
    /\ UNCHANGED <<secret, sock, wire, entry, reader, host, request>>

\* resolve_pending_spawn: a late result finds nobody; one older than the
\* freshness window is dropped.
Resolve ==
    /\ replies # <<>>
    /\ LET m == Head(replies) IN
         request' \in {request,
                       [request EXCEPT ![m.id] = IF @ # "pending" THEN @
                                                 ELSE IF m.ok THEN "done" ELSE "failed"]}
    /\ replies' = Tail(replies)
    /\ UNCHANGED <<secret, sock, wire, upVars, spawned>>

\* Mutant of TimeOut: counts on the connection.
TimeOutWhileOpen(q) ==
    /\ request[q] = "pending" /\ Open
    /\ request' = [request EXCEPT ![q] = "timeout"]
    /\ UNCHANGED <<secret, sock, wire, upVars, replies, spawned>>

\* DEFAULT_SPAWN_TIMEOUT_MS
TimeOut(q) ==
    /\ request[q] = "pending"
    /\ request' = [request EXCEPT ![q] = "timeout"]
    /\ UNCHANGED <<secret, sock, wire, upVars, replies, spawned>>

----------------------------------------------------------------------------
LoopStep ==
    \/ Ignore \/ AttachInserts \/ Detach \/ Spawn \/ SpawnEnds
    \/ \E r \in Readers : Attach(r)
ThreadStep(r) == ReaderEnds(r) \/ ReaderCleans(r)
ViewerStep(v) == SendAttach(v) \/ SendDetach(v)

ChannelNext ==
    \/ LoopStep \/ HostEnds \/ Close \/ Resolve
    \/ \E v \in Viewers : ViewerAccepted(v) \/ ViewerLeaves(v) \/ ViewerStep(v)
    \/ \E r \in Readers : ThreadStep(r)
    \/ \E q \in Requests : (\E authorized \in BOOLEAN : Request(q, authorized)) \/ TimeOut(q)

ChannelFairness ==
    /\ WF_channelVars(LoopStep) /\ WF_channelVars(Resolve)
    /\ \A v \in Viewers : WF_channelVars(ViewerStep(v))
    /\ \A r \in Readers : WF_channelVars(ThreadStep(r))
    /\ \A q \in Requests : WF_channelVars(TimeOut(q))

ChannelSpec == ChannelInit /\ [][ChannelNext]_channelVars
ChannelFairSpec == ChannelSpec /\ ChannelFairness

----------------------------------------------------------------------------
(* Properties *)

\* The session's output reaches the ingest daemon.
Streams == entry # None /\ reader[entry] = "running"

\* A frame is under way, or somebody is in the middle of something.
Busy ==
    \/ wire # <<>> \/ loop # Idle
    \/ \E v \in Viewers : sock[v] \in {"inserted", "leaving", "last"}
    \/ \E r \in Readers : reader[r] \in {"detached", "ending"}

\* When all is quiet, a live session with viewers streams to them, and one
\* without viewers costs no thread: attach and detach are neither lost nor
\* applied in the wrong order.
BridgedAtRest ==
    ~secret /\ host /\ ~Busy =>
        /\ InMap # {} /\ (\E r \in Readers : reader[r] = "unused") => Streams
        /\ InMap = {} => Threads = {}

\* What a request is told of its spawn is what happened on the devbox.
AnswerTrue ==
    \A q \in Requests :
        /\ request[q] = "done" => q \in spawned
        /\ request[q] \in {"refused", "failed"} => q \notin spawned

\* Viewers and threads match when all is quiet, and an answered spawn request was
\* told the truth, whatever came late (the parts above; ingest.rs, uplink.rs).
ChannelInv ==
    /\ ChannelTypeOK
    /\ BridgedAtRest
    /\ AnswerTrue

\* A viewer that stays gets the output of a session that lives.
ViewersServed ==
    \A v \in Viewers : sock[v] = "open" ~> (Streams \/ sock[v] # "open" \/ ~host)

\* A request that was forwarded is answered, if only by the timeout: also when
\* the connection it went over is gone.
RequestAnswered ==
    \A q \in Requests : request[q] = "pending" ~> request[q] # "pending"
=============================================================================
