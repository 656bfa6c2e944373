----------------------------- MODULE RemoteLink -----------------------------
(***************************************************************************)
(* Remote sessions: a devbox advertises its sessions over mux connections   *)
(* (uplink.rs) and the ingest daemon materializes them as local metadata    *)
(* files (ingest.rs).  All connections are of one client id; each is used   *)
(* once, a reconnect is another connection.                                 *)
(*                                                                         *)
(* The frames one reconcile sends (session-added per session, then          *)
(* session-removed, then the session-list) are one entry of the channel     *)
(* that the ingest side consumes frame by frame.  Metadata patches are      *)
(* atomic (MetaStore), session ids are never reused, and keepalives are     *)
(* left out but for the timeout they guard.                                 *)
(***************************************************************************)
EXTENDS Naturals, FiniteSets, Sequences

CONSTANTS
    Conns,        \* connections
    Sessions,     \* session ids of the devbox
    None,
    MaxTargets,   \* uplink targets that lead to this ingest at one time
    MaxSessions,  \* max_sessions of a connection
    MaxQueue,     \* bound: entries a channel holds
    MaxStops,     \* bound: times the ingest daemon ends and is started again
    UplinkSecret, \* remote.spawnSecret is set on the devbox
    IngestSecret, \* and on the ingest side, to the same value
    BridgeOff,    \* feature wslBridge is off on the ingest side
    Overlap,      \* two hellos of the client may be on their way at one time
    Gap,          \* sessions change before the watcher's first signature
    PromptPoll    \* the poll sees a removal before the session is added again

ASSUME RemoteLinkAssumption ==
    /\ None \notin Conns
    /\ MaxTargets \in Nat /\ MaxSessions \in Nat
    /\ MaxQueue \in Nat \ {0} /\ MaxStops \in Nat
    /\ {UplinkSecret, IngestSecret, BridgeOff, Overlap, Gap, PromptPoll} \subseteq BOOLEAN

VARIABLES
    local,     \* local[s]: the session on the devbox
    up,        \* up[c]: the uplink's bridge of c
    chan,      \* chan[c]: what the uplink sent and the ingest has not read
    ing,       \* ing[c]: run_ingest_connection of c
    registry,  \* IngestConnectionRegistry, the status file's session count
    file,      \* file[s]: status in the materialized session's metadata
    poll,      \* the dismiss watcher: its last scan, and what it found gone
    daemon,    \* the ingest daemon: running, and how often it has ended
    removed    \* history: removed by the user since the daemon started

vars == <<local, up, chan, ing, registry, file, poll, daemon, removed>>
devVars == <<local, up>>
ingVars == <<ing, registry, file, poll, daemon, removed>>

Live == {"running"}
Locals == {"fresh", "running", "dead", "completed", "disconnected", "deleted"}
Statuses == {"running", "completed", "disconnected"}
NewConn == [phase |-> "none", label |-> FALSE, waits |-> None, sessions |-> {},
            shutdown |-> FALSE, done |-> FALSE]

\* Statuses as they are advertised: a live status whose daemon is dead is
\* reported, and patched, as disconnected.
Shown(st) == IF st = "dead" THEN "disconnected" ELSE st
OnDevbox == {s \in Sessions : local[s] \notin {"fresh", "deleted"}}
Files == {s \in Sessions : file[s] # "none"}

Hello == [kind |-> "hello", added |-> {}, removed |-> {}, list |-> {}]
Advert(S, gone) ==
    [kind |-> "advert", added |-> {[id |-> s, status |-> Shown(local[s])] : s \in S},
     removed |-> gone, list |-> S]
AdvertType == [kind : {"hello", "advert"}, added : SUBSET [id : Sessions, status : Statuses],
               removed : SUBSET Sessions, list : SUBSET Sessions]

TypeOK ==
    /\ local \in [Sessions -> Locals]
    /\ up \in [Conns -> [phase : {"idle", "greeted", "open", "closed"},
                         advertised : SUBSET Sessions, dirty : BOOLEAN]]
    /\ \A c \in Conns : /\ Len(chan[c]) =< MaxQueue + 1
                        /\ \A i \in 1 .. Len(chan[c]) : chan[c][i] \in AdvertType
    /\ ing \in [Conns -> [phase : {"none", "reading", "hello", "tearing", "closed"},
                          label : BOOLEAN, waits : Conns \cup {None},
                          sessions : SUBSET Sessions, shutdown : BOOLEAN, done : BOOLEAN]]
    /\ registry \in [active : Conns \cup {None}, count : 0 .. MaxSessions,
                     dismissed : SUBSET Sessions]
    /\ file \in [Sessions -> Statuses \cup {"none"}]
    /\ poll \in [prev : SUBSET Sessions, gone : SUBSET Sessions]
    /\ daemon \in [running : BOOLEAN, stops : 0 .. MaxStops]
    /\ removed \in SUBSET Sessions

Init ==
    /\ local \in [Sessions -> {"fresh", "running"}]
    /\ up = [c \in Conns |-> [phase |-> "idle", advertised |-> {}, dirty |-> FALSE]]
    /\ chan = [c \in Conns |-> <<>>]
    /\ ing = [c \in Conns |-> NewConn]
    /\ registry = [active |-> None, count |-> 0, dismissed |-> {}]
    /\ file = [s \in Sessions |-> "none"]
    /\ poll = [prev |-> {}, gone |-> {}]
    /\ daemon = [running |-> TRUE, stops |-> 0]
    /\ removed = {}

----------------------------------------------------------------------------
(* The devbox *)

\* The signature of the sessions directory changes for every watcher.
Touched(u) == [c \in Conns |-> IF u[c].phase = "open" THEN [u[c] EXCEPT !.dirty = TRUE] ELSE u[c]]

\* Sessions start, end, lose their daemon and are deleted.
Change(s, from, to) ==
    /\ local[s] \in from
    /\ Gap \/ \A c \in Conns : up[c].phase # "greeted"
    /\ local' = [local EXCEPT ![s] = to]
    /\ up' = Touched(up)
    /\ UNCHANGED <<chan, ingVars>>

NewSession(s) == Change(s, {"fresh"}, "running")
Finish(s) == Change(s, {"running"}, "completed")
\* The daemon of a live session dies; no file changes.
DaemonDies(s) ==
    /\ local[s] = "running"
    /\ local' = [local EXCEPT ![s] = "dead"]
    /\ UNCHANGED <<up, chan, ingVars>>
Delete(s) == Change(s, {"running", "dead", "completed", "disconnected"}, "deleted")

\* reconcile: advertise what list_sessions finds, retract what it no longer
\* finds, then the snapshot.  Dead sessions are patched to disconnected.
Reconcile(c, phase, before) ==
    LET current == OnDevbox
        dead == {s \in current : local[s] = "dead"}
        mine == [up EXCEPT ![c] = [phase |-> phase, advertised |-> current, dirty |-> FALSE]]
    IN  /\ dead # {} => Gap \/ \A d \in Conns \ {c} : up[d].phase # "greeted"
        /\ local' = [s \in Sessions |-> Shown(local[s])]
        /\ chan' = [chan EXCEPT ![c] =
                      @ \o before \o <<Advert(current, up[c].advertised \ current)>>]
        /\ up' = IF dead # {} THEN Touched(mine) ELSE mine

\* run_target_bridge reaches the ingest and run_uplink_bridge sends hello and
\* the first advertisement.
Connect(c) ==
    /\ daemon.running
    /\ up[c].phase = "idle"
    /\ Cardinality({d \in Conns : up[d].phase \in {"greeted", "open"}}) < MaxTargets
    /\ ~Overlap => \A d \in Conns :
                     \/ up[d].phase = "idle" \/ ing[d].phase = "closed"
                     \/ ing[d].phase # "hello" /\ ing[d].label
    /\ PromptPoll => poll.prev \subseteq Files /\ poll.gone = {}
    /\ Reconcile(c, "greeted", <<Hello>>)
    /\ UNCHANGED ingVars

\* The watcher of the sessions directory takes its first signature.
StartWatch(c) ==
    /\ up[c].phase = "greeted"
    /\ up' = [up EXCEPT ![c].phase = "open"]
    /\ UNCHANGED <<local, chan, ingVars>>

\* The signature has changed: reconcile again.
Readvertise(c) ==
    /\ up[c].phase = "open" /\ up[c].dirty
    /\ Len(chan[c]) < MaxQueue /\ ing[c].phase # "closed"
    /\ Reconcile(c, "open", <<>>)
    /\ UNCHANGED ingVars

\* The bridge ends: the channel broke, was idle too long or was cancelled, or
\* the other side closed it.
Hangup(c) ==
    /\ up[c].phase \in {"greeted", "open"}
    /\ up' = [up EXCEPT ![c] = [phase |-> "closed", advertised |-> {}, dirty |-> FALSE]]
    /\ UNCHANGED <<local, chan, ingVars>>

----------------------------------------------------------------------------
(* Accepting and registering a connection *)

\* The accept loop: a connection beyond MAX_INGEST_CONNECTIONS, those of other
\* clients included, is dropped.
Accept(c) ==
    /\ daemon.running
    /\ up[c].phase # "idle" /\ ing[c].phase = "none"
    /\ \/ ing' = [ing EXCEPT ![c].phase = "reading"] /\ chan' = chan
       \/ ing' = [ing EXCEPT ![c].phase = "closed"] /\ chan' = [chan EXCEPT ![c] = <<>>]
    /\ UNCHANGED <<devVars, registry, file, poll, daemon, removed>>

Reads(c, kind) ==
    /\ daemon.running
    /\ ing[c].phase = "reading" /\ chan[c] # <<>>
    /\ Head(chan[c]).kind = kind

\* A same-machine peer's hello while the bridge is off: the connection ends,
\* and as it has no label nothing it sent along has an effect.
HelloRefused(c) ==
    /\ Reads(c, "hello") /\ BridgeOff
    /\ ing' = [ing EXCEPT ![c].phase = "closed"]
    /\ chan' = [chan EXCEPT ![c] = <<>>]
    /\ UNCHANGED <<devVars, registry, file, poll, daemon, removed>>

\* evict_and_register up to its await: the registered connection is told to
\* shut down.
HelloEvicts(c) ==
    /\ Reads(c, "hello")
    /\ ing' = [d \in Conns |->
                 IF d = c THEN [ing[c] EXCEPT !.phase = "hello", !.label = TRUE,
                                              !.waits = registry.active]
                 ELSE IF d = registry.active THEN [ing[d] EXCEPT !.shutdown = TRUE]
                 ELSE ing[d]]
    /\ chan' = [chan EXCEPT ![c] = Tail(@)]
    /\ UNCHANGED <<devVars, registry, file, poll, daemon, removed>>

\* Mutant of HelloRegisters: does not wait for the teardown.
RegisterAtOnce(c) ==
    /\ ing[c].phase = "hello"
    /\ ing' = [ing EXCEPT ![c].phase = "reading", ![c].waits = None]
    /\ registry' = [registry EXCEPT !.active = c, !.count = 0]
    /\ UNCHANGED <<devVars, chan, file, poll, daemon, removed>>

\* teardown_done.notified() returns, to one waiter only, and the connection is
\* registered in whatever place there is.
HelloRegisters(c) ==
    /\ ing[c].phase = "hello"
    /\ ing[c].waits # None => ing[ing[c].waits].done
    /\ ing' = [d \in Conns |->
                 IF d = c THEN [ing[c] EXCEPT !.phase = "reading", !.waits = None]
                 ELSE IF d = ing[c].waits THEN [ing[d] EXCEPT !.done = FALSE]
                 ELSE ing[d]]
    /\ registry' = [registry EXCEPT !.active = c, !.count = 0]
    /\ UNCHANGED <<devVars, chan, file, poll, daemon, removed>>

----------------------------------------------------------------------------
(* Control frames *)

\* The set_session_count of update_session_count goes by client id.
Counted(n) == IF registry.active = None THEN registry ELSE [registry EXCEPT !.count = n]

Deleted(S) == [s \in Sessions |-> IF s \in S THEN "none" ELSE file[s]]
StatusPatched(S, st) ==
    [s \in Sessions |-> IF s \in S \cap Files THEN st ELSE file[s]]

\* add_session: a dismissed session is not bridged, a known one is patched,
\* and another one is materialized while there is room.
Holds(c, m) ==
    IF m.id \in registry.dismissed THEN ing[c].sessions \ {m.id}
    ELSE IF Cardinality(ing[c].sessions) >= MaxSessions THEN ing[c].sessions
    ELSE ing[c].sessions \cup {m.id}

\* Mutant of AddSession: writes the file without asking what was dismissed.
AddSessionAnyway(c, m) ==
    IF m.id \in ing[c].sessions THEN StatusPatched({m.id}, m.status)
    ELSE [file EXCEPT ![m.id] = m.status]

AddSession(c, m) ==
    IF m.id \in registry.dismissed THEN file
    ELSE IF m.id \in ing[c].sessions THEN StatusPatched({m.id}, m.status)
    ELSE IF m.id \in Holds(c, m) THEN [file EXCEPT ![m.id] = m.status]
    ELSE file

\* What is left to read of an entry after the session-added of m, or the
\* session-removed of s.
Added(e, m) == [e EXCEPT !.added = @ \ {m}]
Retracted(e, s) == [e EXCEPT !.removed = @ \ {s}]

\* session-added; without a hello nothing is added.
HandleAdded(c) ==
    /\ Reads(c, "advert")
    /\ \E m \in Head(chan[c]).added :
         /\ chan' = [chan EXCEPT ![c] = <<Added(Head(@), m)>> \o Tail(@)]
         /\ IF ing[c].label
            THEN /\ ing' = [ing EXCEPT ![c].sessions = Holds(c, m)]
                 /\ file' = AddSession(c, m)
                 /\ registry' = Counted(Cardinality(Holds(c, m)))
            ELSE UNCHANGED <<ing, file, registry>>
    /\ UNCHANGED <<devVars, poll, daemon, removed>>

\* session-removed: the entry and the file of a session of this connection go.
HandleRemoved(c) ==
    /\ Reads(c, "advert") /\ Head(chan[c]).added = {}
    /\ \E s \in Head(chan[c]).removed :
         /\ chan' = [chan EXCEPT ![c] = <<Retracted(Head(@), s)>> \o Tail(@)]
         /\ ing' = [ing EXCEPT ![c].sessions = @ \ {s}]
         /\ file' = Deleted({s} \cap ing[c].sessions)
         /\ registry' = IF ing[c].label THEN Counted(Cardinality(ing[c].sessions \ {s}))
                        ELSE registry
    /\ UNCHANGED <<devVars, poll, daemon, removed>>

\* The snapshot is honoured after a hello, signed when a secret is set and
\* unsigned when none is.
Honoured(c) == ing[c].label /\ UplinkSecret = IngestSecret

\* Mutant of HandleList: only what this connection holds is cleaned up.
HandleListInMemory(c) ==
    /\ Reads(c, "advert") /\ Head(chan[c]).added = {} /\ Head(chan[c]).removed = {}
    /\ chan' = [chan EXCEPT ![c] = Tail(@)]
    /\ ing' = [ing EXCEPT ![c].sessions = @ \cap Head(chan[c]).list]
    /\ file' = Deleted(ing[c].sessions \ Head(chan[c]).list)
    /\ registry' = Counted(Cardinality(ing[c].sessions \cap Head(chan[c]).list))
    /\ UNCHANGED <<devVars, poll, daemon, removed>>

\* apply_session_list: what the snapshot lacks goes from memory and, whatever
\* connection wrote it, from the disk, and so does what was dismissed.
HandleList(c) ==
    /\ Reads(c, "advert") /\ Head(chan[c]).added = {} /\ Head(chan[c]).removed = {}
    /\ chan' = [chan EXCEPT ![c] = Tail(@)]
    /\ IF Honoured(c)
       THEN LET kept == ing[c].sessions \cap Head(chan[c]).list IN
            /\ ing' = [ing EXCEPT ![c].sessions = kept]
            /\ file' = Deleted((Sessions \ Head(chan[c]).list) \cup registry.dismissed)
            /\ registry' = Counted(Cardinality(kept))
       ELSE UNCHANGED <<ing, file, registry>>
    /\ UNCHANGED <<devVars, poll, daemon, removed>>

----------------------------------------------------------------------------
(* The end of a connection *)

\* Mutant of Teardown: the files are left as they are.
TeardownSilently(c) ==
    /\ daemon.running
    /\ ing[c].phase = "reading"
    /\ ing[c].shutdown \/ up[c].phase = "closed"
    /\ ing' = [ing EXCEPT ![c].phase = "tearing", ![c].sessions = {}]
    /\ UNCHANGED <<devVars, chan, registry, file, poll, daemon, removed>>

\* The read loop ends on the shutdown permit (an eviction, a refused hello) or
\* when the other side closed, with frames unread or not; the sessions stay on
\* disk as disconnected.
Teardown(c) ==
    /\ daemon.running
    /\ ing[c].phase = "reading"
    /\ ing[c].shutdown \/ up[c].phase = "closed"
    /\ ing' = [ing EXCEPT ![c].phase = "tearing", ![c].sessions = {}]
    /\ file' = StatusPatched(ing[c].sessions, "disconnected")
    /\ UNCHANGED <<devVars, chan, registry, poll, daemon, removed>>

\* mark_torn_down, for the registered connection only, stores the permit.
MarkTornDown(c) ==
    /\ daemon.running
    /\ ing[c].phase = "tearing"
    /\ IF registry.active = c
       THEN /\ registry' = [registry EXCEPT !.active = None, !.count = 0]
            /\ ing' = [ing EXCEPT ![c].phase = "closed", ![c].done = TRUE]
       ELSE /\ registry' = registry
            /\ ing' = [ing EXCEPT ![c].phase = "closed"]
    /\ chan' = [chan EXCEPT ![c] = <<>>]
    /\ UNCHANGED <<devVars, file, poll, daemon, removed>>

----------------------------------------------------------------------------
(* Removals by the user, and the daemon itself *)

\* The dashboard removes the session's metadata.  With PromptPoll, not while a
\* connection is about to add it again.
UserRemove(s) ==
    /\ file[s] # "none"
    /\ PromptPoll => /\ s \in poll.prev
                      /\ \A c \in Conns : up[c].phase # "idle" /\ ing[c].phase # "closed" =>
                                          s \in ing[c].sessions
    /\ file' = Deleted({s})
    /\ removed' = removed \cup {s}
    /\ UNCHANGED <<devVars, chan, ing, registry, poll, daemon>>

\* The dismiss watcher: one scan a second; then what has gone is dismissed.
Scan ==
    /\ daemon.running
    /\ poll.gone = {} /\ poll.prev # Files
    /\ poll' = [prev |-> Files, gone |-> poll.prev \ Files]
    /\ UNCHANGED <<devVars, chan, ing, registry, file, daemon, removed>>
Dismiss ==
    /\ daemon.running /\ poll.gone # {}
    /\ registry' = [registry EXCEPT !.dismissed = @ \cup poll.gone]
    /\ poll' = [poll EXCEPT !.gone = {}]
    /\ UNCHANGED <<devVars, chan, ing, file, daemon, removed>>

\* The daemon ends (a demotion, a shutdown, a crash): no connection is torn
\* down, the files stay as they are.
IngestStop ==
    /\ daemon.running /\ daemon.stops < MaxStops
    /\ daemon' = [running |-> FALSE, stops |-> daemon.stops + 1]
    /\ ing' = [c \in Conns |-> IF up[c].phase = "idle" THEN ing[c]
                               ELSE [NewConn EXCEPT !.phase = "closed"]]
    /\ chan' = [c \in Conns |-> <<>>]
    /\ registry' = [active |-> None, count |-> 0, dismissed |-> {}]
    /\ UNCHANGED <<devVars, file, poll, removed>>

\* reconcile_stale_remote_sessions before anything is accepted: what was live is
\* disconnected, what was disconnected already is deleted.
ReconcileStale ==
    [s \in Sessions |-> CASE file[s] = "running" -> "disconnected"
                          [] file[s] = "disconnected" -> "none"
                          [] OTHER -> file[s]]

\* Mutant of IngestStart: the watcher's first scan is older than the sweep.
IngestStartScanFirst ==
    /\ ~daemon.running
    /\ daemon' = [daemon EXCEPT !.running = TRUE]
    /\ file' = ReconcileStale
    /\ poll' = [prev |-> Files, gone |-> {}]
    /\ removed' = {}
    /\ UNCHANGED <<devVars, chan, ing, registry>>

IngestStart ==
    /\ ~daemon.running
    /\ daemon' = [daemon EXCEPT !.running = TRUE]
    /\ file' = ReconcileStale
    /\ poll' = [prev |-> {s \in Sessions : ReconcileStale[s] # "none"}, gone |-> {}]
    /\ removed' = {}
    /\ UNCHANGED <<devVars, chan, ing, registry>>

----------------------------------------------------------------------------
IngestStep(c) ==
    \/ Accept(c) \/ HelloRefused(c) \/ HelloEvicts(c) \/ HelloRegisters(c)
    \/ HandleAdded(c) \/ HandleRemoved(c) \/ HandleList(c)
    \/ Teardown(c) \/ MarkTornDown(c)

Next ==
    \/ \E s \in Sessions : NewSession(s) \/ Finish(s) \/ DaemonDies(s) \/ Delete(s) \/ UserRemove(s)
    \/ \E c \in Conns : Connect(c) \/ StartWatch(c) \/ Readvertise(c) \/ Hangup(c) \/ IngestStep(c)
    \/ Scan \/ Dismiss \/ IngestStop \/ IngestStart

Spec == Init /\ [][Next]_vars

----------------------------------------------------------------------------
(* Properties *)

\* At most one connection of the client bridges any one session: a hello
\* evicts and waits before it registers (evict_and_register).
OneBridge ==
    \A c, d \in Conns : c # d => ing[c].sessions \cap ing[d].sessions = {}

\* A materialized session that claims to be live is bridged by a connection,
\* unless its daemon has just ended or the user removes it (the end of
\* run_ingest_connection, reconcile_stale_remote_sessions).
NoDeadRunning ==
    daemon.running => \A s \in Files \ removed :
        file[s] \in Live => \E c \in Conns : s \in ing[c].sessions

\* A session the user removed stays removed, however often it is advertised
\* (the dismiss watcher of run_ingest_daemon, should_reject in add_session).
RemovalSticks == \A s \in removed : file[s] = "none"

\* Only what the user removed or the devbox deleted is kept out: the files a
\* restart sweeps away are not taken for removals (scan, dismiss).
DismissedRightly ==
    \A s \in registry.dismissed : s \in removed \/ local[s] = "deleted"

\* The link is at rest: c is registered, and has read all there is to read.
AtRest(c) ==
    /\ daemon.running
    /\ registry.active = c /\ ing[c].phase = "reading" /\ ~ing[c].shutdown
    /\ up[c].phase = "open" /\ ~up[c].dirty
    /\ chan[c] = <<>>

\* There is room for all.  A session that add_session refuses for lack of room is
\* not asked for again when another one goes.
Room == IsFiniteSet(Sessions) /\ Cardinality(Sessions) =< MaxSessions

\* At rest the materialized sessions are the devbox's, with their statuses, and
\* the count in the status file is theirs: no ghosts, nothing missed
\* (reconcile on one side, apply_session_list on the other).
SyncedAtRest ==
    \A c \in Conns : AtRest(c) =>
        /\ UplinkSecret = IngestSecret => Files \subseteq OnDevbox
        /\ registry.count = Cardinality(ing[c].sessions)
        /\ \A s \in OnDevbox \ (registry.dismissed \cup removed) :
             \/ ~Room /\ s \notin ing[c].sessions
             \/ s \in ing[c].sessions /\ (local[s] # "dead" => file[s] = local[s])

\* The dashboard's view of the devbox is right, whatever connections replace each
\* other and however often the ingest dies: one bridge per session, nothing dead
\* shown as live, what the user removed and nothing else kept out, and at rest the
\* devbox's own list (the parts above; ingest.rs, uplink.rs).
RemoteInv ==
    /\ TypeOK
    /\ OneBridge
    /\ NoDeadRunning
    /\ RemovalSticks
    /\ DismissedRightly
    /\ SyncedAtRest
=============================================================================
