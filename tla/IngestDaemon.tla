---------------------------- MODULE IngestDaemon ----------------------------
(***************************************************************************)
(* The life of the ingest daemon of one home (run_ingest_daemon): singleton *)
(* lock and pidfile, the beacons it publishes, the `devtunnel host` child   *)
(* it supervises, demotion on a shutdown request of the peer, and `climon   *)
(* cleanup` (teardown.rs), which stops it from outside and removes what it  *)
(* has left. The dashboard server is here as the owner of server.json.      *)
(*                                                                         *)
(* A file is what it names: ingest.pid and ingest.json a daemon, the        *)
(* shutdown request the daemon that held the lock when it was written. The  *)
(* uplink daemon goes through the same lock and the same stop_daemon.       *)
(***************************************************************************)
EXTENDS Naturals, FiniteSets

CONSTANTS
    Daemons,       \* ingest processes, each started once
    Nobody,
    MaxRequests,   \* bound: requests the peer writes
    MaxServers     \* bound: starts of the dashboard server

ASSUME DaemonAssumption ==
    /\ Nobody \notin Daemons
    /\ MaxRequests \in Nat /\ MaxServers \in Nat

VARIABLES
    dmStage,       \* dmStage[d]: how far the process is
    dmLock,        \* holder of the OS lock on ingest.pid.lock
    dmFiles,       \* ingest.pid, ingest.json, shutdown-request.json, server.json
    dmStop,        \* daemons that were sent a SIGTERM
    dmDemote,      \* dmDemote[d]: whom the request was for that d has consumed
    dmHosts,       \* daemons whose `devtunnel host` child runs
    dmLost,        \* daemons that died, or failed, without stopping their child
    dmWanted,      \* remote-host.json asks for a tunnel
    dmUplink,      \* a demotion has started the uplink
    dmRequests,    \* requests written so far
    dmServer,      \* the dashboard server that runs, 0 for none
    dmServers,     \* servers started so far
    clean          \* the `climon cleanup` process

daemonVars == <<dmStage, dmLock, dmFiles, dmStop, dmDemote, dmHosts, dmLost, dmWanted, dmUplink,
                dmRequests, dmServer, dmServers, clean>>
dmPeer == <<dmWanted, dmRequests, dmServer, dmServers>>

Absent == "absent"
Malformed == "malformed"
Holders == Daemons \cup {Nobody}
CleanStages == {"idle", "server", "read", "kill", "wait", "state", "pid", "request", "done"}

DaemonTypeOK ==
    /\ dmStage \in [Daemons -> {"new", "locked", "bound", "watching", "serving",
                                "state", "pid", "request", "server", "release", "gone"}]
    /\ dmLock \in Holders
    /\ dmFiles \in [pid : Holders, state : Holders, request : Holders \cup {Absent, Malformed},
                    server : 0 .. MaxServers]
    /\ {dmStop, dmHosts, dmLost} \subseteq SUBSET Daemons
    /\ dmDemote \in [Daemons -> Holders \cup {Absent}]
    /\ dmWanted \in BOOLEAN /\ dmUplink \in BOOLEAN
    /\ dmRequests \in 0 .. MaxRequests /\ {dmServer, dmServers} \subseteq 0 .. MaxServers
    /\ clean.stage \in CleanStages
    /\ clean.pid \in Holders /\ clean.dead \in BOOLEAN
    /\ clean.server \in 0 .. MaxServers /\ clean.spared \in BOOLEAN
    /\ clean.raced \subseteq Daemons

DaemonInit ==
    /\ dmStage = [d \in Daemons |-> "new"] /\ dmLock = Nobody
    /\ dmFiles = [pid |-> Nobody, state |-> Nobody, request |-> Absent, server |-> 0]
    /\ dmStop = {} /\ dmHosts = {} /\ dmLost = {} /\ dmUplink = FALSE
    /\ dmDemote = [d \in Daemons |-> Absent]
    /\ dmWanted \in BOOLEAN /\ dmRequests = 0 /\ dmServer = 0 /\ dmServers = 0
    /\ clean = [stage |-> "idle", pid |-> Nobody, dead |-> TRUE, server |-> 0, spared |-> FALSE, raced |-> {}]

Alive(d) == dmStage[d] \notin {"new", "gone"}
Goes(d, stage) == dmStage' = [dmStage EXCEPT ![d] = stage]

----------------------------------------------------------------------------
(* run_ingest_daemon *)

\* acquire_singleton_detailed; the loser returns AlreadyRunning.
AcquireSingleton(d) ==
    /\ dmStage[d] = "new"
    /\ IF dmLock = Nobody
       THEN /\ Goes(d, "locked") /\ dmLock' = d
            /\ dmFiles' = [dmFiles EXCEPT !.pid = d]
            /\ clean' = [clean EXCEPT !.raced =
                           IF clean.stage \in {"idle", "server", "read"} THEN @ ELSE @ \cup {d}]
       ELSE Goes(d, "gone") /\ UNCHANGED <<dmLock, dmFiles, clean>>
    /\ UNCHANGED <<dmStop, dmDemote, dmHosts, dmLost, dmUplink, dmPeer>>

\* The guard is dropped: the pidfile while it still names this process, the lock last.
DropGuard(d) ==
    /\ Goes(d, "gone") /\ dmLock' = Nobody
    /\ dmFiles' = [dmFiles EXCEPT !.pid = IF @ = d THEN Nobody ELSE @]

\* The listeners are bound and the tunnel host is started where one is wanted.
Bind(d) ==
    /\ dmStage[d] = "locked"
    /\ Goes(d, "bound")
    /\ dmHosts' = IF dmWanted THEN dmHosts \cup {d} ELSE dmHosts
    /\ UNCHANGED <<dmLock, dmFiles, dmStop, dmDemote, dmLost, dmUplink, dmPeer, clean>>

\* No port within the retries, or the beacon cannot be written: the daemon returns
\* the error; a child it has started by then is not stopped.
StartFails(d) ==
    /\ dmStage[d] \in {"locked", "watching"}
    /\ DropGuard(d)
    /\ dmLost' = IF d \in dmHosts THEN dmLost \cup {d} ELSE dmLost
    /\ UNCHANGED <<dmStop, dmDemote, dmHosts, dmUplink, dmPeer, clean>>

\* Mutant of WatchRequests: takes what is there at the start for its own.
WatchRequestsAsFound(d) ==
    /\ dmStage[d] = "bound"
    /\ Goes(d, "watching")
    /\ UNCHANGED <<dmLock, dmFiles, dmStop, dmDemote, dmHosts, dmLost, dmUplink, dmPeer, clean>>

\* The watcher clears a request that is there before it starts.
WatchRequests(d) ==
    /\ dmStage[d] = "bound"
    /\ Goes(d, "watching")
    /\ dmFiles' = [dmFiles EXCEPT !.request = Absent]
    /\ UNCHANGED <<dmLock, dmStop, dmDemote, dmHosts, dmLost, dmUplink, dmPeer, clean>>

WriteIngestState(d) == dmFiles' = [dmFiles EXCEPT !.state = d]

Publish(d) ==
    /\ dmStage[d] = "watching"
    /\ Goes(d, "serving")
    /\ WriteIngestState(d)
    /\ UNCHANGED <<dmLock, dmStop, dmDemote, dmHosts, dmLost, dmUplink, dmPeer, clean>>

\* TunnelHostSupervisor::reconcile, every 5 s.
ReconcileHost(d) ==
    /\ dmStage[d] = "serving" /\ (d \in dmHosts) # dmWanted
    /\ dmHosts' = IF dmWanted THEN dmHosts \cup {d} ELSE dmHosts \ {d}
    /\ UNCHANGED <<dmStage, dmLock, dmFiles, dmStop, dmDemote, dmLost, dmUplink, dmPeer, clean>>

\* The watcher's poll: a request is removed; a well-formed one then demotes, once.
WatchTick(d) ==
    /\ dmStage[d] \in {"watching", "serving"} /\ dmDemote[d] = Absent
    /\ dmFiles.request # Absent
    /\ dmFiles' = [dmFiles EXCEPT !.request = Absent]
    /\ dmDemote' = IF dmFiles.request = Malformed THEN dmDemote
                   ELSE [dmDemote EXCEPT ![d] = dmFiles.request]
    /\ UNCHANGED <<dmStage, dmLock, dmStop, dmHosts, dmLost, dmUplink, dmPeer, clean>>

\* run_ingest_entry: a signal ends the loop, also one that came before it began.
SignalStops(d) == d \in dmStop /\ UNCHANGED dmUplink

\* demote: the uplink is started once the listener is closed. The step that stops
\* the dashboard server is passed in empty.
Demote(d) == dmDemote[d] # Absent /\ dmUplink' = TRUE

\* Mutant of LeaveLoop: waits for a signal, also when demoted.
LeaveLoopOnStop(d) ==
    /\ dmStage[d] = "serving" /\ d \in dmStop
    /\ dmUplink' = (dmUplink \/ dmDemote[d] # Absent)
    /\ dmHosts' = dmHosts \ {d}
    /\ Goes(d, "state")
    /\ UNCHANGED <<dmLock, dmFiles, dmStop, dmDemote, dmLost, dmPeer, clean>>

\* Mutant of LeaveLoop: only a stop ends the tunnel host.
LeaveLoopHosting(d) ==
    /\ dmStage[d] = "serving"
    /\ \/ SignalStops(d) /\ dmHosts' = dmHosts \ {d}
       \/ Demote(d) /\ UNCHANGED dmHosts
    /\ Goes(d, "state")
    /\ UNCHANGED <<dmLock, dmFiles, dmStop, dmDemote, dmLost, dmPeer, clean>>

\* The loop ends on a signal or a demotion: the host is stopped and the listeners
\* are closed.
LeaveLoop(d) ==
    /\ dmStage[d] = "serving"
    /\ SignalStops(d) \/ Demote(d)
    /\ dmHosts' = dmHosts \ {d}
    /\ Goes(d, "state")
    /\ UNCHANGED <<dmLock, dmFiles, dmStop, dmDemote, dmLost, dmPeer, clean>>

AfterBeacon(stage) ==
    CASE stage = "state" -> "pid" [] stage = "pid" -> "request"
      [] stage = "request" -> "server" [] stage = "server" -> "release"

Erased(file) == CASE file = "request" -> Absent [] file = "server" -> 0 [] OTHER -> Nobody

\* Mutant of RemoveBeacon: the lock is given up with the pidfile.
RemoveBeaconUnlocked(d) ==
    /\ dmStage[d] \in {"state", "pid", "request", "server"}
    /\ dmFiles' = [dmFiles EXCEPT ![dmStage[d]] = Erased(dmStage[d])]
    /\ dmLock' = Nobody
    /\ Goes(d, AfterBeacon(dmStage[d]))
    /\ UNCHANGED <<dmStop, dmDemote, dmHosts, dmLost, dmUplink, dmPeer, clean>>

\* remove_beacons, file by file, under the lock; server.json whoever wrote it.
RemoveBeacon(d) ==
    /\ dmStage[d] \in {"state", "pid", "request", "server"}
    /\ dmFiles' = [dmFiles EXCEPT ![dmStage[d]] = Erased(dmStage[d])]
    /\ Goes(d, AfterBeacon(dmStage[d]))
    /\ UNCHANGED <<dmLock, dmStop, dmDemote, dmHosts, dmLost, dmUplink, dmPeer, clean>>

Release(d) ==
    /\ dmStage[d] = "release"
    /\ DropGuard(d)
    /\ UNCHANGED <<dmStop, dmDemote, dmHosts, dmLost, dmUplink, dmPeer, clean>>

\* The process dies: the lock is free, files and child stay.
Dies(d) ==
    /\ Goes(d, "gone")
    /\ dmLock' = IF dmLock = d THEN Nobody ELSE dmLock
    /\ dmLost' = IF d \in dmHosts THEN dmLost \cup {d} ELSE dmLost

CrashDaemon(d) ==
    /\ Alive(d)
    /\ Dies(d)
    /\ UNCHANGED <<dmFiles, dmStop, dmDemote, dmHosts, dmUplink, dmPeer, clean>>

----------------------------------------------------------------------------
(* `climon cleanup`: teardown_local_server_stack *)

StartCleanup ==
    /\ clean.stage = "idle"
    /\ clean' = [clean EXCEPT !.stage = "server", !.server = dmFiles.server]
    /\ UNCHANGED <<dmStage, dmLock, dmFiles, dmStop, dmDemote, dmHosts, dmLost, dmUplink, dmPeer>>

\* The server is asked to stop, then signalled; it may also survive, and then the
\* beacon is spared. Otherwise it is removed at the end, whoever has written it by then.
StopServer ==
    /\ clean.stage = "server"
    /\ IF clean.server # 0 /\ dmServer = clean.server
       THEN \/ dmServer' = 0 /\ clean' = [clean EXCEPT !.stage = "read"]
            \/ UNCHANGED dmServer /\ clean' = [clean EXCEPT !.stage = "read", !.spared = TRUE]
       ELSE UNCHANGED dmServer /\ clean' = [clean EXCEPT !.stage = "read"]
    /\ UNCHANGED <<dmStage, dmLock, dmFiles, dmStop, dmDemote, dmHosts, dmLost, dmUplink, dmWanted,
                   dmRequests, dmServers>>

\* read_pid and is_process_alive: nothing to stop, or stop_daemon.
ReadPid ==
    /\ clean.stage = "read"
    /\ clean' = [clean EXCEPT !.pid = dmFiles.pid,
                   !.stage = IF dmFiles.pid # Nobody /\ Alive(dmFiles.pid) THEN "kill" ELSE "state"]
    /\ UNCHANGED <<dmStage, dmLock, dmFiles, dmStop, dmDemote, dmHosts, dmLost, dmUplink, dmPeer>>

\* stop_daemon: the SIGTERM is sent, or it cannot be.
KillDaemon ==
    /\ clean.stage = "kill"
    /\ \/ dmStop' = dmStop \cup {clean.pid} /\ clean' = [clean EXCEPT !.stage = "wait"]
       \/ UNCHANGED dmStop /\ clean' = [clean EXCEPT !.stage = "state", !.dead = FALSE]
    /\ UNCHANGED <<dmStage, dmLock, dmFiles, dmDemote, dmHosts, dmLost, dmUplink, dmPeer>>

\* wait_for_death
SeeDeath ==
    /\ clean.stage = "wait" /\ ~Alive(clean.pid)
    /\ clean' = [clean EXCEPT !.stage = "state"]
    /\ UNCHANGED <<dmStage, dmLock, dmFiles, dmStop, dmDemote, dmHosts, dmLost, dmUplink, dmPeer>>

\* Still alive after 3 s: SIGKILL.
ForceKill ==
    /\ clean.stage = "wait" /\ Alive(clean.pid)
    /\ Dies(clean.pid)
    /\ clean' = [clean EXCEPT !.stage = "state"]
    /\ UNCHANGED <<dmFiles, dmStop, dmDemote, dmHosts, dmUplink, dmPeer>>

CleanAfter(stage) == CASE stage = "state" -> "pid" [] stage = "pid" -> "request" [] OTHER -> "done"

\* The beacons, file by file: kept while the pid that was read is not dead; removed
\* without looking at what they name now. server.json goes first.
CleanBeacon ==
    /\ clean.stage \in {"state", "pid", "request"}
    /\ LET spared == ~clean.dead /\ clean.pid # Nobody /\ clean.stage # "request"
       IN  dmFiles' = [[dmFiles EXCEPT ![clean.stage] = IF spared THEN @ ELSE Erased(clean.stage)]
                         EXCEPT !.server = IF clean.stage = "state" /\ ~clean.spared THEN 0 ELSE @]
    /\ clean' = [clean EXCEPT !.stage = CleanAfter(@)]
    /\ UNCHANGED <<dmStage, dmLock, dmStop, dmDemote, dmHosts, dmLost, dmUplink, dmPeer>>

----------------------------------------------------------------------------
(* Around them *)

\* The peer's promotion writes a request into this home.
WriteRequest ==
    /\ dmRequests < MaxRequests /\ dmRequests' = dmRequests + 1
    /\ \E r \in {dmLock, Malformed} : dmFiles' = [dmFiles EXCEPT !.request = r]
    /\ UNCHANGED <<dmStage, dmLock, dmStop, dmDemote, dmHosts, dmLost, dmUplink, dmWanted, dmServer,
                   dmServers, clean>>

ServerStarts ==
    /\ dmServer = 0 /\ dmServers < MaxServers
    /\ dmServers' = dmServers + 1 /\ dmServer' = dmServers + 1
    /\ dmFiles' = [dmFiles EXCEPT !.server = dmServers + 1]
    /\ UNCHANGED <<dmStage, dmLock, dmStop, dmDemote, dmHosts, dmLost, dmUplink, dmWanted, dmRequests, clean>>

\* A tunnel is recorded, or deleted, in remote-host.json.
WantTunnel ==
    /\ dmRequests < MaxRequests /\ dmRequests' = dmRequests + 1
    /\ dmWanted' = ~dmWanted
    /\ UNCHANGED <<dmStage, dmLock, dmFiles, dmStop, dmDemote, dmHosts, dmLost, dmUplink, dmServer,
                   dmServers, clean>>

DaemonStep(d) ==
    \/ AcquireSingleton(d) \/ Bind(d) \/ StartFails(d) \/ WatchRequests(d) \/ Publish(d)
    \/ ReconcileHost(d) \/ WatchTick(d) \/ LeaveLoop(d) \/ RemoveBeacon(d) \/ Release(d) \/ CrashDaemon(d)

CleanupStep == StartCleanup \/ StopServer \/ ReadPid \/ KillDaemon \/ SeeDeath \/ ForceKill \/ CleanBeacon

DaemonNext ==
    \/ \E d \in Daemons : DaemonStep(d)
    \/ CleanupStep
    \/ WriteRequest \/ ServerStarts \/ WantTunnel

\* The daemon's threads and the cleanup process run on; nobody has to start them.
DaemonFairness ==
    /\ \A d \in Daemons : /\ WF_daemonVars(WatchTick(d)) /\ WF_daemonVars(LeaveLoop(d))
                          /\ WF_daemonVars(RemoveBeacon(d)) /\ WF_daemonVars(Release(d))
                          /\ WF_daemonVars(Publish(d) \/ StartFails(d))
    /\ WF_daemonVars(StopServer \/ ReadPid \/ KillDaemon \/ SeeDeath \/ ForceKill \/ CleanBeacon)

DaemonSpec == DaemonInit /\ [][DaemonNext]_daemonVars /\ DaemonFairness

----------------------------------------------------------------------------
(* Properties *)

\* A daemon that serves can be found: ingest.json and ingest.pid name it, whatever
\* daemons stop, die or fail before. Only one that started while a cleanup was
\* already past reading the pidfile may lose them to it (teardown.rs:278-325).
ServingFound ==
    \A d \in Daemons :
        dmStage[d] = "serving" /\ d \notin clean.raced => dmFiles.state = d /\ dmFiles.pid = d

\* A shutdown request demotes the daemon it was written for and no later one,
\* although it names none: cleared at the start, consumed before acting
\* (shutdown_watch.rs:62-87).
NoReplay == \A d \in Daemons : dmDemote[d] \in {Absent, d}

\* A `devtunnel host` child runs only with its daemon, unless that was killed or
\* failed to start (ingest.rs:1776-1797, 1927).
HostsOwned == \A d \in dmHosts : Alive(d) \/ d \in dmLost

\* Daemons that start, stop, die, are demoted or cleaned up in any order keep what
\* they own apart: the beacons of the one that serves, a request for the one it was
\* meant for, a child of a daemon that runs (the parts above).
DaemonInv ==
    /\ DaemonTypeOK
    /\ ServingFound
    /\ NoReplay
    /\ HostsOwned

\* A daemon that has consumed a request is gone some time later, and has left the
\* lock to the next one (ingest.rs:1916-1937).
RequestEnds ==
    \A d \in Daemons : dmDemote[d] # Absent ~> dmStage[d] = "gone" /\ dmLock # d
=============================================================================
