-------------------------- MODULE UplinkSupervisor --------------------------
(***************************************************************************)
(* The devbox's uplink supervisor (run_uplink in uplink.rs): every poll it  *)
(* works out the targets it wants, starts a bridge task for each new one    *)
(* and cancels the tasks of the ones that are gone. A task reaches its      *)
(* target, through a `devtunnel connect` child where the target is a        *)
(* tunnel, keeps one bridge up and retries. All tasks, and the heartbeat of *)
(* every bridge, write the one uplink-status.json.                          *)
(*                                                                         *)
(* Delays (the back-off that doubles up to 30 s, the 15 s wait for a port)  *)
(* are steps that take place at some time. A cancelled task is gone before  *)
(* the next poll, 30 s later.                                               *)
(***************************************************************************)
EXTENDS Naturals, FiniteSets

CONSTANTS
    Tunnels,       \* tunnels of the account
    OwnTunnel,     \* the one that this machine's own ingest daemon hosts
    DirectHost,    \* remote.host and remote.port, or the peer's ingest daemon
    NoTarget,
    MaxChanges     \* bound: changes of the configuration and of the account, and crashes

ASSUME UplinkAssumption ==
    /\ OwnTunnel \in Tunnels /\ DirectHost \notin Tunnels
    /\ NoTarget \notin Tunnels \cup {DirectHost}
    /\ MaxChanges \in Nat

Targets == Tunnels \cup {DirectHost}

VARIABLES
    upConfig,      \* remote.enabled, remote.discover, the explicit host and tunnel
    upListed,      \* tunnels `devtunnel list` shows as hosted
    upChanges,     \* changes made so far
    upSup,         \* the supervisor: "down", "gathering" or "asleep"
    upRead,        \* the configuration as this poll has read it
    upActive,      \* keys of supervisor.active
    upTask,        \* upTask[t]: the stage of the bridge task
    upCancelled,   \* targets whose task was cancelled and has not ended yet
    upChildren,    \* upChildren[t]: `devtunnel connect` processes of t that run
    upAbandoned,   \* upAbandoned[t]: of these, the ones whose task was dropped
    upRejected,    \* targets whose child has printed that it is not authorized
    upGhosts,      \* targets with a status heartbeat that has lost its bridge
    upStatus       \* uplink-status.json; mine: written by the process that runs

uplinkVars == <<upConfig, upListed, upChanges, upSup, upRead, upActive, upTask, upCancelled,
                upChildren, upAbandoned, upRejected, upGhosts, upStatus>>
upWorld == <<upConfig, upListed, upChanges>>
upSupervisor == <<upSup, upRead, upActive>>

Configs == [enabled : BOOLEAN, discover : BOOLEAN, direct : BOOLEAN, tunnel : Tunnels \cup {NoTarget}]
Status(state, t) == [state |-> state, target |-> t, mine |-> TRUE]
Disconnected == Status("disconnected", NoTarget)

UplinkTypeOK ==
    /\ upConfig \in Configs /\ upRead \in Configs /\ upListed \subseteq Tunnels
    /\ upChanges \in 0 .. MaxChanges
    /\ upSup \in {"down", "gathering", "asleep"}
    /\ upActive \subseteq Targets
    /\ upTask \in [Targets -> {"none", "port", "wait", "linked", "backoff", "ended"}]
    /\ {upCancelled, upRejected, upGhosts} \subseteq SUBSET Targets
    /\ upChildren \in [Targets -> Nat] /\ upAbandoned \in [Targets -> Nat]
    /\ upStatus \in [state : {"connecting", "connected", "reconnecting", "disconnected"},
                     target : Targets \cup {NoTarget}, mine : BOOLEAN]

UplinkInit ==
    /\ upConfig \in [enabled : BOOLEAN, discover : {TRUE}, direct : BOOLEAN, tunnel : {NoTarget, OwnTunnel}]
    /\ upListed = {} /\ upChanges = 0
    /\ upSup = "down" /\ upRead = upConfig /\ upActive = {}
    /\ upTask = [t \in Targets |-> "none"] /\ upCancelled = {}
    /\ upChildren = [t \in Targets |-> 0] /\ upAbandoned = [t \in Targets |-> 0]
    /\ upRejected = {} /\ upGhosts = {} /\ upStatus = Disconnected

----------------------------------------------------------------------------
(* The supervisor *)

\* A devbox process starts the uplink; the singleton lock lets one run.
StartUplink ==
    /\ upSup = "down" /\ upConfig.enabled
    /\ upSup' = "gathering" /\ upRead' = upConfig
    /\ UNCHANGED <<upWorld, upActive, upTask, upCancelled, upChildren, upAbandoned, upRejected,
                   upGhosts, upStatus>>

\* The next round of the loop reads the configuration again.
PollTargets ==
    /\ upSup = "asleep" /\ upCancelled = {}
    /\ upSup' = "gathering" /\ upRead' = upConfig
    /\ UNCHANGED <<upWorld, upActive, upTask, upCancelled, upChildren, upAbandoned, upRejected,
                   upGhosts, upStatus>>

\* Explicit targets and the discovered ones, without this machine's own tunnel.
ComputeTargets(config, listed) ==
    (IF config.direct THEN {DirectHost} ELSE {})
        \cup ({config.tunnel} \ {NoTarget})
        \cup (IF config.discover THEN listed \ {OwnTunnel} ELSE {})

\* The end of the process: tasks and heartbeats are gone, children are not.
Vanish(status) ==
    /\ upSup' = "down" /\ upActive' = {} /\ upCancelled' = {}
    /\ upTask' = [t \in Targets |-> "none"]
    /\ upAbandoned' = upChildren
    /\ upRejected' = {} /\ upGhosts' = {}
    /\ upStatus' = [status EXCEPT !.mine = FALSE]

\* Disabled: every target is cancelled and the supervisor returns.
StopUplink ==
    /\ upSup = "gathering" /\ ~upRead.enabled
    /\ Vanish(Disconnected)
    /\ UNCHANGED <<upWorld, upRead, upChildren>>

\* Mutant of ReconcileTargets: a target that is back in the list is taken for the one it was.
ReconcileTargetsKeeping ==
    /\ upSup = "gathering" /\ upRead.enabled
    /\ LET desired == ComputeTargets(upRead, upListed)
       IN  /\ upActive' = upActive \cup desired
           /\ upCancelled' = (upActive \ desired) \cap {t \in Targets : upTask[t] # "none"}
           /\ upTask' = [t \in Targets |-> IF t \in desired \ upActive THEN "port" ELSE upTask[t]]
           /\ upStatus' = IF upActive' = {} THEN Disconnected ELSE upStatus
    /\ upSup' = "asleep"
    /\ UNCHANGED <<upWorld, upRead, upChildren, upAbandoned, upRejected, upGhosts>>

\* Mutant of ReconcileTargets: says that nothing is connected when nothing is new.
ReconcileTargetsGloomy ==
    /\ upSup = "gathering" /\ upRead.enabled
    /\ LET desired == ComputeTargets(upRead, upListed)
       IN  /\ upActive' = desired
           /\ upCancelled' = (upActive \ desired) \cap {t \in Targets : upTask[t] # "none"}
           /\ upTask' = [t \in Targets |->
                  IF t \in desired \ upActive THEN "port"
                  ELSE IF t \in upActive \ desired /\ upTask[t] = "ended" THEN "none" ELSE upTask[t]]
           /\ upStatus' = IF desired \subseteq upActive THEN Disconnected ELSE upStatus
    /\ upSup' = "asleep"
    /\ UNCHANGED <<upWorld, upRead, upChildren, upAbandoned, upRejected, upGhosts>>

\* The tunnels are listed, stale tasks are cancelled, new
\* ones spawned. A task that has ended stays in the map while it is desired.
ReconcileTargets ==
    /\ upSup = "gathering" /\ upRead.enabled
    /\ LET desired == ComputeTargets(upRead, upListed)
           stale == upActive \ desired
       IN  /\ upActive' = desired
           /\ upCancelled' = {t \in stale : upTask[t] # "ended"}
           /\ upTask' = [t \in Targets |->
                  IF t \in desired \ upActive THEN "port"
                  ELSE IF t \in stale /\ upTask[t] = "ended" THEN "none" ELSE upTask[t]]
           /\ upStatus' = IF desired = {} THEN Disconnected ELSE upStatus
    /\ upSup' = "asleep"
    /\ UNCHANGED <<upWorld, upRead, upChildren, upAbandoned, upRejected, upGhosts>>

----------------------------------------------------------------------------
(* One bridge task: run_target_bridge *)

Runs(t, stage) == upTask[t] = stage /\ t \notin upCancelled

\* The port of the tunnel is not known, or `devtunnel connect` does not start.
NoPort(t) ==
    /\ Runs(t, "port") /\ t \in Tunnels
    /\ upTask' = [upTask EXCEPT ![t] = "backoff"]
    /\ upStatus' = Status("reconnecting", NoTarget)
    /\ UNCHANGED <<upWorld, upSupervisor, upCancelled, upChildren, upAbandoned, upRejected, upGhosts>>

\* The address of the target is known; a tunnel has its own child by now.
Connecting(t) ==
    /\ Runs(t, "port")
    /\ upTask' = [upTask EXCEPT ![t] = "wait"]
    /\ upChildren' = IF t \in Tunnels THEN [upChildren EXCEPT ![t] = @ + 1] ELSE upChildren
    /\ upRejected' = upRejected \ {t}
    /\ upStatus' = Status("connecting", t)
    /\ UNCHANGED <<upWorld, upSupervisor, upCancelled, upAbandoned, upGhosts>>

\* The child prints a line that one of AUTH_REJECT_PATTERNS is found in.
AuthRejected(t) ==
    /\ t \in Tunnels /\ upTask[t] \in {"wait", "linked"}
    /\ upRejected' = upRejected \cup {t}
    /\ UNCHANGED <<upWorld, upSupervisor, upTask, upCancelled, upChildren, upAbandoned, upGhosts, upStatus>>

KillConnect(t) == IF t \in Tunnels THEN [upChildren EXCEPT ![t] = @ - 1] ELSE upChildren

\* Mutant of Unreachable: the next attempt starts another child.
UnreachableChildKept(t) ==
    /\ Runs(t, "wait")
    /\ upTask' = [upTask EXCEPT ![t] = IF t \in upRejected THEN "ended" ELSE "backoff"]
    /\ upStatus' = IF t \in upRejected THEN Disconnected ELSE Status("reconnecting", t)
    /\ UNCHANGED <<upWorld, upSupervisor, upCancelled, upChildren, upAbandoned, upRejected, upGhosts>>

\* Nothing answers within 15 s: retry, or stop where the child was not authorized.
Unreachable(t) ==
    /\ Runs(t, "wait")
    /\ upChildren' = KillConnect(t)
    /\ upTask' = [upTask EXCEPT ![t] = IF t \in upRejected THEN "ended" ELSE "backoff"]
    /\ upStatus' = IF t \in upRejected THEN Disconnected ELSE Status("reconnecting", t)
    /\ UNCHANGED <<upWorld, upSupervisor, upCancelled, upAbandoned, upRejected, upGhosts>>

\* The port answers: the bridge runs, with its heartbeat.
BridgeUp(t) ==
    /\ Runs(t, "wait")
    /\ upTask' = [upTask EXCEPT ![t] = "linked"]
    /\ upStatus' = Status("connected", t)
    /\ UNCHANGED <<upWorld, upSupervisor, upCancelled, upChildren, upAbandoned, upRejected, upGhosts>>

\* Mutant of BridgeEnds: the beacon is left as it is until the next attempt.
BridgeEndsQuietly(t) ==
    /\ Runs(t, "linked")
    /\ upChildren' = KillConnect(t)
    /\ upTask' = [upTask EXCEPT ![t] = IF t \in upRejected THEN "ended" ELSE "backoff"]
    /\ UNCHANGED <<upWorld, upSupervisor, upCancelled, upAbandoned, upRejected, upGhosts, upStatus>>

\* The channel closes or has been silent for too long: the heartbeat is stopped.
BridgeEnds(t) ==
    /\ Runs(t, "linked")
    /\ upChildren' = KillConnect(t)
    /\ upTask' = [upTask EXCEPT ![t] = IF t \in upRejected THEN "ended" ELSE "backoff"]
    /\ upStatus' = IF t \in upRejected THEN Disconnected ELSE Status("reconnecting", t)
    /\ UNCHANGED <<upWorld, upSupervisor, upCancelled, upAbandoned, upRejected, upGhosts>>

Retry(t) ==
    /\ Runs(t, "backoff")
    /\ upTask' = [upTask EXCEPT ![t] = "port"]
    /\ UNCHANGED <<upWorld, upSupervisor, upCancelled, upChildren, upAbandoned, upRejected, upGhosts, upStatus>>

\* The heartbeat of a bridge, a task of its own.
Heartbeat(t) ==
    /\ upTask[t] = "linked" \/ t \in upGhosts
    /\ upStatus' = Status("connected", t)
    /\ UNCHANGED <<upWorld, upSupervisor, upTask, upCancelled, upChildren, upAbandoned, upRejected, upGhosts>>

\* What a bridge that is dropped leaves behind: its heartbeat, which only the end
\* of run_uplink_bridge stops.
LeftBehind(t) == IF upTask[t] = "linked" THEN upGhosts \cup {t} ELSE upGhosts

\* TargetHandle::cancel aborts the task as well: it is dropped where it waits, and
\* its child keeps running.
Dropped(t) ==
    /\ t \in upCancelled
    /\ upTask' = [upTask EXCEPT ![t] = "none"]
    /\ upCancelled' = upCancelled \ {t}
    /\ upAbandoned' = [upAbandoned EXCEPT ![t] = upChildren[t]]
    /\ upGhosts' = LeftBehind(t)
    /\ UNCHANGED <<upWorld, upSupervisor, upChildren, upRejected, upStatus>>

\* The task sees the cancelled token before it is aborted and kills its child; the
\* bridge it was waiting for is dropped here too.
Honoured(t) ==
    /\ t \in upCancelled /\ upTask[t] \in {"wait", "linked"}
    /\ upTask' = [upTask EXCEPT ![t] = "none"]
    /\ upCancelled' = upCancelled \ {t}
    /\ upChildren' = KillConnect(t)
    /\ upGhosts' = LeftBehind(t)
    /\ upStatus' = IF upTask[t] # "linked" THEN upStatus
                   ELSE IF t \in upRejected THEN Disconnected ELSE Status("reconnecting", t)
    /\ UNCHANGED <<upWorld, upSupervisor, upAbandoned, upRejected>>

----------------------------------------------------------------------------
(* What goes on around it *)

Change ==
    /\ upChanges < MaxChanges /\ upChanges' = upChanges + 1

SetConfig ==
    /\ Change
    /\ \E enabled, direct \in BOOLEAN : upConfig' = [upConfig EXCEPT !.enabled = enabled, !.direct = direct]
    /\ UNCHANGED <<upListed, upSupervisor, upTask, upCancelled, upChildren, upAbandoned, upRejected,
                   upGhosts, upStatus>>

\* Tunnels come and go; `devtunnel list` may also fail, which lists none.
HostTunnels ==
    /\ Change
    /\ upListed' \in SUBSET Tunnels
    /\ UNCHANGED <<upConfig, upSupervisor, upTask, upCancelled, upChildren, upAbandoned, upRejected,
                   upGhosts, upStatus>>

CrashUplink ==
    /\ upSup # "down" /\ Change
    /\ Vanish(upStatus)
    /\ UNCHANGED <<upConfig, upListed, upRead, upChildren>>

TaskStep(t) ==
    \/ NoPort(t) \/ Connecting(t) \/ AuthRejected(t) \/ Unreachable(t) \/ BridgeUp(t)
    \/ BridgeEnds(t) \/ Retry(t) \/ Heartbeat(t) \/ Dropped(t) \/ Honoured(t)

UplinkNext ==
    \/ StartUplink \/ PollTargets \/ StopUplink \/ ReconcileTargets
    \/ \E t \in Targets : TaskStep(t)
    \/ SetConfig \/ HostTunnels \/ CrashUplink

\* The runtime polls its tasks; timers fire; the launcher starts the uplink again
\* with the next session. Whether a target answers is not up to the uplink.
UplinkFairness ==
    /\ WF_uplinkVars(StartUplink) /\ WF_uplinkVars(PollTargets)
    /\ WF_uplinkVars(StopUplink) /\ WF_uplinkVars(ReconcileTargets)
    /\ \A t \in Targets : /\ WF_uplinkVars(Retry(t))
                          /\ WF_uplinkVars(Dropped(t) \/ Honoured(t))
                          /\ WF_uplinkVars(Unreachable(t) \/ BridgeUp(t))
                          /\ WF_uplinkVars(NoPort(t) \/ Connecting(t))

UplinkSpec == UplinkInit /\ [][UplinkNext]_uplinkVars /\ UplinkFairness

----------------------------------------------------------------------------
(* Properties *)

\* The `devtunnel connect` processes that run are the one of each task that needs
\* it and those of tasks that were aborted, or died with the supervisor: retries
\* and rejections leave none behind (ConnectChild::kill on every other way out).
ChildrenAccounted ==
    \A t \in Tunnels :
        upChildren[t] = upAbandoned[t] + (IF upTask[t] \in {"wait", "linked"} THEN 1 ELSE 0)

\* uplink-status.json names a target as connected only while its bridge runs, while
\* the task it was cancelled with is being dropped, or once a bridge of it was cut
\* off: the end of every other bridge is written to the beacon. A beacon of a dead
\* process is told by its pid.
ConnectedTrue ==
    upStatus.mine /\ upStatus.state = "connected"
        => upTask[upStatus.target] = "linked" \/ upStatus.target \in upGhosts

\* The beacon says "disconnected" only when nothing is connected or being tried,
\* unless the tunnel service has turned a target down.
DisconnectedTrue ==
    upStatus = Disconnected /\ upRejected = {}
        => \A t \in upActive : upTask[t] \in {"none", "port"}

\* What the supervisor has running and what it says in its beacon agree: no
\* `devtunnel connect` child is lost, and uplink-status.json is true, although every
\* task writes it (the parts above; uplink.rs).
UplinkInv ==
    /\ UplinkTypeOK
    /\ ChildrenAccounted
    /\ ConnectedTrue
    /\ DisconnectedTrue

\* A target that stays wanted is tried again and again, whatever happens to the
\* others, until the tunnel service turns it down.
TargetsTried ==
    \A t \in Targets :
        <>[](upConfig.enabled /\ t \in ComputeTargets(upConfig, upListed))
            => []<>(upTask[t] \in {"port", "wait", "linked", "ended"})
=============================================================================
