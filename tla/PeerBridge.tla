----------------------------- MODULE PeerBridge -----------------------------
(***************************************************************************)
(* WSL and Windows on one machine: linking the two, and the decision of a  *)
(* client that starts a session whether to start the uplink as well.       *)
(*                                                                         *)
(* `climon link`, and auto-link on the first run inside WSL, write where   *)
(* the other side's home is into both configurations, one setting at a     *)
(* time, and each write can fail.  A client that starts a session reads    *)
(* the configuration, looks for a dashboard, and starts `climon __uplink`  *)
(* if a target is usable.  The uplink holds a singleton lock until its     *)
(* process ends and looks at the configuration again at every poll.        *)
(***************************************************************************)
EXTENDS Naturals, FiniteSets

CONSTANT MaxEdits   \* how often the user and the machine change something

ASSUME MaxEditsAssumption == MaxEdits \in Nat

VARIABLES
    settings,  \* this side's configuration
    other,     \* what the peer's configuration says of this side
    world,     \* what the machine offers
    job,       \* the climon process at work: a link or a launch
    starter,   \* an uplink process that has not taken the lock yet
    uplink,    \* the uplink process that holds the lock
    missed,    \* the uplink of this launch gave way to one that will not stay
    chosen,    \* the sides on which somebody has asked for the bridge
    edits

bridgeVars ==
    <<settings, other, world, job, starter, uplink, missed, chosen, edits>>

\* Which of remote.enabled, host, port and tunnelId are set.  What is left
\* behind while remote access is off, and a port without a host, change nothing.
Remotes ==
    {r \in [enabled : BOOLEAN, host : BOOLEAN, port : BOOLEAN, tunnel : BOOLEAN] :
        /\ ~r.enabled => ~r.host /\ ~r.tunnel
        /\ r.port => r.host}
NoJob == [kind |-> "none", at |-> "idle", bridge |-> FALSE, fresh |-> FALSE,
          reverse |-> FALSE, linked |-> FALSE, spawn |-> FALSE]
NoUplink == [at |-> "off", pointer |-> FALSE]

BridgeInit ==
    /\ settings \in [remote : Remotes, pointer : BOOLEAN, bridge : BOOLEAN,
                     autoLink : BOOLEAN]
    /\ ~settings.pointer => ~settings.bridge
    /\ other = [pointer |-> FALSE, bridge |-> FALSE]
    /\ world \in [wsl : BOOLEAN, winHome : BOOLEAN, uncPath : BOOLEAN,
                  devtunnel : BOOLEAN, dashboard : BOOLEAN, peerIngest : BOOLEAN]
    /\ ~world.wsl => ~world.winHome /\ ~world.uncPath
    /\ job = NoJob
    /\ starter = FALSE
    /\ uplink = NoUplink
    /\ missed = FALSE
    /\ chosen = IF settings.bridge THEN {"here"} ELSE {}
    /\ edits = 0

----------------------------------------------------------------------------
(* Linking.                                                                *)

\* run_link_command: a peer home given or detected, and the answer to the
\* question about the bridge, or its flag, or none (no) without a terminal
RunLink(given, bridge) ==
    /\ job.at = "idle"
    /\ IF given \/ (world.wsl /\ world.winHome)
       THEN job' = [NoJob EXCEPT !.kind = "link", !.at = "pointer", !.bridge = bridge,
                                 !.fresh = TRUE]
       ELSE job' = [NoJob EXCEPT !.kind = "link", !.at = "failed"]
    /\ chosen' = IF bridge THEN {"here", "there"} ELSE chosen
    /\ UNCHANGED <<settings, other, world, starter, uplink, missed, edits>>

\* start_monitored_command, after the session is recorded
LaunchSession ==
    /\ job.at = "idle"
    /\ job' = [NoJob EXCEPT !.kind = "launch", !.at = "autoLink", !.fresh = TRUE]
    /\ missed' = FALSE
    /\ UNCHANGED <<settings, other, world, starter, uplink, chosen, edits>>

\* maybe_auto_link: once, on WSL, beside a Windows climon; never the bridge
\* Mutant of AutoLink: asking for the bridge as well.
AutoLinkEnablingBridge ==
    /\ job.at = "autoLink"
    /\ job' = IF settings.autoLink /\ ~settings.pointer /\ world.wsl /\ world.winHome
              THEN [job EXCEPT !.at = "pointer", !.bridge = TRUE]
              ELSE [job EXCEPT !.at = "read"]
    /\ UNCHANGED <<settings, other, world, starter, uplink, missed, chosen, edits>>
AutoLink ==
    /\ job.at = "autoLink"
    /\ job' = IF settings.autoLink /\ ~settings.pointer /\ world.wsl /\ world.winHome
              THEN [job EXCEPT !.at = "pointer"]
              ELSE [job EXCEPT !.at = "read"]
    /\ UNCHANGED <<settings, other, world, starter, uplink, missed, chosen, edits>>

\* A launch goes on to its uplink whatever linking came to
AfterLink == IF job.kind = "launch" THEN "read" ELSE "done"

\* link_peer: the four settings in their order
WritePointer ==
    /\ job.at = "pointer"
    /\ settings' = [settings EXCEPT !.pointer = TRUE]
    /\ job' = [job EXCEPT !.at = IF job.bridge THEN "bridge" ELSE "reverse"]
    /\ UNCHANGED <<other, world, starter, uplink, missed, chosen, edits>>

WriteBridge ==
    /\ job.at = "bridge"
    /\ settings' = [settings EXCEPT !.bridge = TRUE]
    /\ job' = [job EXCEPT !.at = "reverse"]
    /\ UNCHANGED <<other, world, starter, uplink, missed, chosen, edits>>

\* Off WSL, or without a distribution's name, there is no reverse pointer
NoReverse ==
    /\ job.at = "reverse"
    /\ ~(world.wsl /\ world.uncPath)
    /\ job' = [job EXCEPT !.at = AfterLink, !.linked = TRUE]
    /\ UNCHANGED <<settings, other, world, starter, uplink, missed, chosen, edits>>

WriteReverse ==
    /\ job.at = "reverse"
    /\ world.wsl /\ world.uncPath
    /\ other' = [other EXCEPT !.pointer = TRUE]
    /\ job' = IF job.bridge THEN [job EXCEPT !.at = "peerBridge", !.reverse = TRUE]
              ELSE [job EXCEPT !.at = AfterLink, !.reverse = TRUE, !.linked = TRUE]
    /\ UNCHANGED <<settings, world, starter, uplink, missed, chosen, edits>>

WritePeerBridge ==
    /\ job.at = "peerBridge"
    /\ other' = [other EXCEPT !.bridge = TRUE]
    /\ job' = [job EXCEPT !.at = AfterLink, !.linked = TRUE]
    /\ UNCHANGED <<settings, world, starter, uplink, missed, chosen, edits>>

\* Any of the writes fails: what was written stays
\* Mutant of WriteFails: with the link reported as made.
WriteFailsUnreported ==
    /\ job.at \in {"pointer", "bridge", "reverse", "peerBridge"}
    /\ job.at = "reverse" => world.wsl /\ world.uncPath
    /\ job' = [job EXCEPT !.at = AfterLink, !.linked = TRUE, !.reverse = TRUE]
    /\ UNCHANGED <<settings, other, world, starter, uplink, missed, chosen, edits>>
WriteFails ==
    /\ job.at \in {"pointer", "bridge", "reverse", "peerBridge"}
    /\ job.at = "reverse" => world.wsl /\ world.uncPath
    /\ job' = [job EXCEPT !.at = IF job.kind = "launch" THEN "read" ELSE "failed"]
    /\ UNCHANGED <<settings, other, world, starter, uplink, missed, chosen, edits>>

----------------------------------------------------------------------------
(* Whether to start the uplink.                                            *)

\* discover_dashboard: a live dashboard of this side hides the peer's
PeerFound == settings.pointer /\ ~world.dashboard /\ world.peerIngest

\* should_spawn_peer_uplink
PeerWanted == settings.pointer /\ settings.bridge /\ PeerFound

\* detect_devtunnel_sync runs only where a tunnel is the one target
Detected(r) == r.enabled /\ ~r.host /\ r.tunnel /\ world.devtunnel

\* plan_uplink_start
PlanUplinkStart(r) ==
    r.enabled /\ ((r.host /\ r.port) \/ (r.tunnel /\ Detected(r)))

\* ensure_uplink
EnsureUplink ==
    /\ job.at = "read"
    /\ job' = [job EXCEPT !.at = "done",
                          !.spawn = PeerWanted \/ PlanUplinkStart(settings.remote)]
    /\ starter' = (starter \/ job'.spawn)
    /\ UNCHANGED <<settings, other, world, uplink, missed, chosen, edits>>

Finish ==
    /\ job.at \in {"done", "failed"}
    /\ job' = NoJob
    /\ UNCHANGED <<settings, other, world, starter, uplink, missed, chosen, edits>>

\* An uplink that ends at its next poll, if it is not ending already
Doomed == \/ uplink.at = "leaving"
          \/ uplink.at = "running" /\ ~settings.remote.enabled /\ ~uplink.pointer

\* run_uplink: nothing to do, or another holds the lock, or the loop begins
\* Mutant of RunUplink: for explicit targets alone.
RunUplinkTargeted ==
    /\ starter
    /\ starter' = FALSE
    /\ uplink' = IF uplink.at = "off" /\ settings.remote.enabled
                 THEN [at |-> "running", pointer |-> settings.pointer] ELSE uplink
    /\ missed' = (missed \/ Doomed)
    /\ UNCHANGED <<settings, other, world, job, chosen, edits>>
RunUplink ==
    /\ starter
    /\ starter' = FALSE
    /\ uplink' = IF uplink.at = "off" /\ (settings.pointer \/ settings.remote.enabled)
                 THEN [at |-> "running", pointer |-> settings.pointer] ELSE uplink
    /\ missed' = (missed \/ Doomed)
    /\ UNCHANGED <<settings, other, world, job, chosen, edits>>

\* A poll that finds remote access switched off; the peer's home is the one
\* read at the start
PollLeaves ==
    /\ uplink.at = "running"
    /\ ~settings.remote.enabled /\ ~uplink.pointer
    /\ uplink' = [uplink EXCEPT !.at = "leaving"]
    /\ UNCHANGED <<settings, other, world, job, starter, missed, chosen, edits>>

UplinkEnds ==
    /\ uplink.at = "leaving"
    /\ uplink' = NoUplink
    /\ UNCHANGED <<settings, other, world, job, starter, missed, chosen, edits>>

----------------------------------------------------------------------------
(* The user, and the machine.                                              *)

Edit == /\ edits < MaxEdits
        /\ edits' = edits + 1
        /\ job' = [job EXCEPT !.fresh = FALSE]
        /\ UNCHANGED <<starter, uplink>>

SetRemote ==
    /\ Edit
    /\ \E r \in Remotes : settings' = [settings EXCEPT !.remote = r]
    /\ UNCHANGED <<other, world, missed, chosen>>

SetBridge ==
    /\ Edit
    /\ settings' = [settings EXCEPT !.bridge = ~@]
    /\ chosen' = chosen \cup {"here"}
    /\ UNCHANGED <<other, world, missed>>

ForgetPeer ==
    /\ Edit
    /\ settings' = [settings EXCEPT !.pointer = FALSE]
    /\ UNCHANGED <<other, world, missed, chosen>>

DashboardChanges ==
    /\ Edit
    /\ \E field \in {"dashboard", "peerIngest", "devtunnel"} :
          world' = [world EXCEPT ![field] = ~@]
    /\ UNCHANGED <<settings, other, missed, chosen>>

BridgeNext ==
    \/ \E given, bridge \in BOOLEAN : RunLink(given, bridge)
    \/ LaunchSession \/ AutoLink \/ WritePointer \/ WriteBridge \/ NoReverse
    \/ WriteReverse \/ WritePeerBridge \/ WriteFails
    \/ EnsureUplink \/ Finish \/ RunUplink \/ PollLeaves \/ UplinkEnds
    \/ SetRemote \/ SetBridge \/ ForgetPeer \/ DashboardChanges

BridgeSpec == BridgeInit /\ [][BridgeNext]_bridgeVars

----------------------------------------------------------------------------
\* The kinds of the state; an uplink that is not there remembers no peer.
BridgeTypeOK ==
    /\ settings \in [remote : Remotes, pointer : BOOLEAN, bridge : BOOLEAN,
                     autoLink : BOOLEAN]
    /\ other \in [pointer : BOOLEAN, bridge : BOOLEAN]
    /\ job.at \in {"idle", "autoLink", "pointer", "bridge", "reverse", "peerBridge",
                   "read", "done", "failed"}
    /\ starter \in BOOLEAN /\ missed \in BOOLEAN
    /\ uplink.at \in {"off", "running", "leaving"}
    /\ uplink.pointer => uplink.at = "running"
    /\ chosen \subseteq {"here", "there"}
    /\ edits \in 0 .. MaxEdits

\* A link that is reported as made is made: both settings of this side are
\* written, and from WSL those of the peer too, the bridge's among them when it
\* was asked for (link.rs link_peer, whose four writes can each fail).
LinkTrue ==
    job.linked /\ job.fresh =>
        /\ settings.pointer
        /\ job.bridge => settings.bridge
        /\ job.reverse <=> world.wsl /\ world.uncPath
        /\ job.reverse => other.pointer /\ (job.bridge => other.bridge)

\* The bridge is on, on either side, only where somebody asked for it: neither
\* auto-link nor a link without --wsl-bridge turns it on (link.rs
\* maybe_auto_link; docs/security.md, "only by explicit user action").
BridgeByChoice ==
    /\ settings.bridge => "here" \in chosen
    /\ other.bridge => "there" \in chosen

\* A host without a port hides a tunnel: devtunnel is then not looked for
\* (launcher.rs ensure_uplink).
Shadowed(r) == r.host /\ ~r.port /\ r.tunnel

UsableTarget(r) == r.enabled /\ ((r.host /\ r.port) \/ (r.tunnel /\ world.devtunnel))

\* A session started while a target is usable, or while the peer's dashboard is
\* up behind an enabled bridge, has an uplink: the launcher's decision
\* (plan_uplink_start, should_spawn_peer_uplink) and the uplink's own
\* (run_uplink, uplink.rs) agree, as long as nothing is changed in between.
\* Two cases are outside it: a shadowed tunnel, and an uplink that gave way to
\* one which ends.
UplinkStarted ==
    /\ job.kind = "launch" /\ job.at = "done" /\ job.fresh /\ ~missed
    /\ PeerWanted \/ (UsableTarget(settings.remote) /\ ~Shadowed(settings.remote))
    => starter \/ uplink.at = "running"

\* Links are as reported, the bridge is on by choice only, and a session that can
\* be bridged has an uplink (the parts above; link.rs, launcher.rs, uplink.rs).
BridgeInv ==
    /\ BridgeTypeOK
    /\ LinkTrue
    /\ BridgeByChoice
    /\ UplinkStarted
=============================================================================
