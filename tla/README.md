# climon: TLA+ models, checks and proofs

climon runs a command in a pseudo terminal owned by a *session daemon* and lets
several surfaces look at it and type into it: the terminal it was started from, other
terminals (`climon attach`), browser tabs and PWAs served by a *dashboard server*.
Everything the processes share lives in small JSON files under `~/.climon`, patched
under a lock made of directories. A *devbox* advertises its sessions to the *ingest
daemon* of another machine through an *uplink*, over TCP or a dev tunnel. This directory
holds models of the parts in which several processes, threads or users act at the same
time, or in which one process has to understand what another wrote; the TLC runs that
check them on small instances; and machine-checked proofs of what matters most, for every
instance.

| file | what it is |
|---|---|
| `PatchLock.tla` | the metadata patch lock: acquisition, release, recovery of stale locks, crashes |
| `MetaStore.tla` | what a metadata patch promises; `PatchLock` implements it |
| `PatchLockProofs.tla` | type correctness, safety and refinement of `PatchLock`, for every instance |
| `MCPatchLock.tla` | pid scopes and symmetries for the lock's runs |
| `SessionHost.tla` | control handoff in the session daemon: controller, PTY size, local pause and restore |
| `SessionHostProofs.tla` | the pause of the local terminal, the stickiness of control, whose size the grid has, what clients are told |
| `MCSessionHost.tla` | viewer ids, kinds and hash map orders for its runs |
| `Attention.tla` | idle detection, attention episodes, acknowledgement, pause and resume |
| `SessionStreamProofs.tla` | `Attention`: type correctness, episodes, pauses, outcomes, acknowledgements; `CodecInv`: the framings |
| `SessionLifecycle.tla` | one session from its launch to its end: threads of the daemon, record, scrollback, kill |
| `AttachClient.tla` | `climon attach`: reader thread and input loop against the daemon's stream |
| `Launching.tla` | from a request to the session that runs it: argument vectors, windows, fallbacks |
| `Configuration.tla` | the cascade of settings files: set, unset, load, migration, purge |
| `TerminalOutput.tla` | title, progress and mode capture, scrollback and replay over every cut of the output |
| `FrameCodec.tla` | the two binary framings over every cut of the stream |
| `RemoteLink.tla` | sessions of a devbox as the ingest daemon shows them |
| `RemoteChannel.tla` | viewers of one bridged session, and spawn requests |
| `UplinkSupervisor.tla` | targets, bridge tasks, tunnel children and the status beacon of the uplink |
| `IngestDaemon.tla` | singleton, beacons, demotion and cleanup of the ingest daemon |
| `TunnelPort.tla` | the port of the ingest's dev tunnel, and operations on it that overlap |
| `PeerBridge.tla` | WSL and Windows on one machine: linking, and who starts an uplink |
| `Installation.tla` | version check, self update and installer over one install directory |
| `SessionLifecycleProofs.tla` | `LifeInv`: what is left of an ended session; `AttachInv`: the attach client |
| `CommandProofs.tla` | `ConfigInv` and `LegacyKept`: the settings files; `InstallInv`: overlapping updates and installers |
| `NetworkProofs.tla` | `TunnelInv`, `UplinkInv`, `DaemonInv`, `BridgeInv`, `ChannelInv`: five of the models above |
| `SequenceFolds.tla` | what folds, flattened sequences and parts of sequences are, as theorems to instantiate |
| `RemoteLinkProofs.tla` | `RemoteInv`: what the ingest shows of the devbox; one bridge per session |
| `MCRemoteLink.tla` | symmetries for the remote link's run |
| `MCNetwork.tla`, `MCLocal.tla`, `MCCommands.tla` | several independent models in one run each (section 3) |
| `*.cfg` | TLC configurations: the twelve runs of section 3 and the further ones of section 4 |
| `PROJECT.json` | components, runs, mutants, source map, findings, hazards, theorems |

`tlc -config X.cfg M` runs a configuration, `tlapm PatchLockProofs.tla` (and the other
`*Proofs.tla`) checks the proofs.


## 1. Inventory

Paths are relative to the repository root (`src/` here).

### Session metadata and its patch lock: modelled
`rust/climon-store/src/{lock,patch,meta,atomic}.rs`, TypeScript twin `src/store.ts`.

* **State.** `sessions/<id>.json`; the lock directory `<id>.json.lock/` with
  `owner.json` (pid, host, pid namespace, start time, token) and, during a reclaim,
  `.reclaiming.json`; the recovery lock directory `<id>.json.lock.reclaim/`.
* **Operations.** `acquire_patch_lock`, `release_patch_lock`,
  `recover_stale_if_recovery_owner`, `quarantine_stale_lock`, `claim_for_reclaim`,
  `release_reclaim_claim`; `patch_session_meta*` (read, merge, write under the lock);
  `read`, `list`, `remove_session_meta` (no lock).
* **Interaction.** Every daemon, the server, the CLI, the ingest daemon and the uplink
  patch the same files, from two implementations in two languages and possibly from
  several pid namespaces (containers, WSL).
* **Hard.** A holder dies at any system call; several processes recover one stale lock;
  a path names another directory than a moment ago; inode numbers are reused; liveness
  of a pid cannot be judged from another pid scope.
* **Correct if** at most one process merges at a time; an acknowledged patch is not
  lost; at most one process recovers; a dead holder's lock is reclaimed.

### Control handoff in the session daemon: modelled
`rust/climon-session/src/{host,control}.rs`.

* **State.** `HostState` behind one mutex: the client map, the controller id, sizes by
  surface, the applied PTY size, the pause state of the local terminal (suppressed,
  restore pending, notice), the pending jiggle, the exit flag.
* **Operations.** Frames `Resize`, `TakeControl`, `Replay`; accept, 10 ms join timer,
  disconnect; local resize and Space key; restore thread; output broadcast; exit.
* **Interaction.** One reader and one writer thread per client, an accept thread, a PTY
  reader, a signal thread, a restore thread, an idle thread and a title thread share
  the mutex; the server bridges browser WebSockets to the socket.
* **Hard.** Joins, resizes, take-overs, disconnects and the exit in any order; a writer
  that died before its reader; work done after the mutex was dropped; two connections
  of one viewer during a reconnect.
* **Correct if** control is sticky; the grid has the controller's size; a local terminal
  that does not control is not painted on, and is restored later; every client was told
  the current grid and controller last; everybody learns of the exit.

### Attention and idle detection: modelled
`rust/climon-session/src/{idle,attention}.rs`, `apply_attention` in `host.rs`, the pause
of `src/server/server.ts`, the overlay of `meta.rs`, `src/web/viewedSession.ts`.

* **State.** The detector (last fingerprint, time of the last change, flagged,
  acknowledged, settle window); the daemon's episode (state, token, screen); the
  metadata (status, userPaused, attentionMatchedAt).
* **Hard.** One episode is recorded three times by two processes; acknowledgements
  arrive late or not at all; a resize changes the screen without the program having
  done anything; pauses interleave with flags.
* **Correct if** the three records agree whenever the session shows as needing
  attention; a pause survives whatever else writes; the outcome of the command is final;
  an acknowledgement holds until the program writes; an idle session gets flagged.

### Session lifecycle: modelled
`rust/climon-session/src/host.rs` (`run_session_host` and its threads),
`rust/climon-store/src/meta.rs`, kill and cleanup in `rust/climon-cli/src/launcher.rs`.

* **State.** The record, the scrollback file, the mutex of `HostState`, the shutdown flag,
  the PTY master, and where the main, reader, title, idle and local relay threads are.
* **Hard.** Every thread patches the record by reading it first; removal takes no lock;
  joins wait for threads that wait for descriptors; `climon kill` runs meanwhile.
* **Correct if** the recorded outcome is final, the scrollback is what clients saw, the
  last title is kept, and the daemon ends.

### Attach client: modelled
`rust/climon-cli/src/client.rs`. Two threads that share an exit code and two flags; frames
and keys are cut arbitrarily by reads. **Correct if** screen, size, keys and exit code
follow the session, and the client returns when the session has ended.

### Command line, launching and spawning: modelled
`rust/climon-cli/src/{args,spawn,spawn_command,terminal_launch,detect_shell,launcher}.rs`. Requests are typed or built
by the dashboard or the uplink, travel as argument vectors through one or two processes,
and fall back to headless sessions. **Correct if** the session that runs is the one that
was asked for, there is one, and what is reported is so.

### Configuration: partly modelled
`rust/climon-config/src/{config,config_settings}.rs`, `climon-cli/src/config_cmd.rs`. Unlocked files in a cascade of
directories, truncated and rewritten in place, migrated from an older name. **Correct if**
what is set is in effect, other settings stay, and the old file is never lost. Left out:
comments in the files, value schemas (three settings stand for the registry), the
TypeScript twin.

### Remote sessions: modelled
`rust/climon-remote/src/{ingest,uplink,mux,spawn_auth}.rs`.

* **State.** Per connection the announced sessions, the ingest's registry of connections,
  the materialized records, the dismissed set; per session the viewers and the uplink's
  reader threads; pending spawn requests.
* **Hard.** A reconnect overlaps the connection it replaces; the ingest dies and restarts;
  removals by the user cross announcements; attach and detach cross; answers come late.
* **Correct if** at rest the dashboard shows the devbox's sessions and no others, nothing
  dead is shown as live, removals stick, viewers are served, requests are answered truly.

### Uplink, ingest daemon, tunnel, peer: modelled
`rust/climon-remote/src/{uplink,target_set,discovery,uplink_status,singleton,shutdown_watch,shutdown_request,teardown,tunnel,link,peer}.rs`,
the uplink decision of `climon-cli/src/launcher.rs`. Supervisors of child processes with
beacon files that anyone may read, and settings written on two sides. **Correct if** no
child and no beacon outlasts what it stands for (but for the named exceptions), a request
ends the daemon it is meant for, wanted targets are tried, a port that was mapped and
recorded stays mapped, and the launcher and the uplink agree on whether an uplink is needed.

### Installation: self update modelled, installer partly
`rust/climon-update/src/*.rs`, `rust/climon-install/src/{orchestrate,files,installer}.rs`.
Three kinds of processes replace the same files without a lock. **Correct if** there is
always an executable unless one was interrupted, and the launcher catches up. PATH,
registry and shell profile edits are left out.

### Streams: modelled
`rust/climon-proto/src/frame.rs`, `climon-remote/src/mux.rs`,
`climon-session/src/{title_capture,replay}.rs`, `climon-pty/src/scrollback.rs`. **Correct if**
how the stream is cut into reads does not show.

### Not modelled

| component | why |
|---|---|
| dashboard server, web dashboard (`src/server`, `src/web`) | TypeScript beside the Rust program: HTTP, WebSockets, rendering. The status patch, the acknowledgement, the spawn and the removal they cause are actions of `Attention`, `Launching`, `RemoteLink` |
| server promotion between WSL and Windows (`promote*.ts`, `tie-break.ts`) | TypeScript of the dashboard server; the demotion it asks the ingest for is in `IngestDaemon` |
| dashboard tunnel, web push, presence | TypeScript: supervision of one process; TTLs |
| TypeScript twin of the store and the configuration | same algorithms; the Rust ones are modelled |
| snippets and fingerprints | text taken from a rendered screen, data no property tells apart; `Attention` has fingerprints as values |
| PTY spawning, socket naming, detection of addresses, cryptography of signed frames | operating system or library calls; their outcomes are choices in the models |
| logging, telemetry, i18n, help texts, scripts | no state the properties depend on |


## 2. The models and the code

### PatchLock
One process performs one patch. Every system call on a shared path is a step, `pc` names
the next one. Three functions of the code run `quarantine_stale_lock`: `recovery_active`
(`call = "active"`), `acquire_recovery_lock` (`"recover"`), both on the recovery lock, and
`recover_stale_if_recovery_owner` (`"main"`) on the lock. `"held"`, `"declined"` and
`"error"` say why `release_patch_lock` runs.

| model | code |
|---|---|
| `dir["lock"]`, `dir["reclaim"]` | the two directories: identity, owner file, claim file, whether older than `stale_ms` |
| `CreateLock` .. `GetIdentity` | `acquire_patch_lock` |
| `CreateRecovery` .. `GetRecoveryIdentity` | `acquire_recovery_lock`, `recover_stale_if_recovery_owner` |
| `SnapIdentity` .. `UnclaimRemove`, `Resume`, `Return` | `quarantine_stale_lock` with `get_snapshot`, `claim_for_reclaim`, `release_reclaim_claim` |
| `ReadMeta`, `WriteMeta`, `Decline` | `patch_queued` |
| `CheckRelease`, `Release`, `Released` | `release_patch_lock` |
| `OwnerStale` | `owner_stale`: the pid in one's own scope, the age otherwise |
| `Crash`, `AgeDir`, `Expire` | a process dies anywhere; time passes |

The metadata is the set of patches it contains; a patch writes back what it read plus its
own. `Init` is every state that processes that died earlier can leave on disk.

Abstractions, each an assumption about the environment:
* `stale_ms` (60 s) does not pass between a running process's `mkdir` and its write of
  `owner.json` (`Naming`), and a running process of another pid scope does not hold the
  lock for a minute (`Expire` is of dead processes only);
* removing a directory tree, and renaming it and then removing it, are one step;
* a pid that was reused is told apart by its start time, so "dead" is a property of the
  process;
* reading a directory's identity and its owner are two steps where the code decides
  something between or after them. `CheckRelease` and `Validate` read both in one step: a
  torn read cannot match there, because a token is never in two directories of one path.

### MetaStore
Two actions, `Apply` and `Return`: a patch is applied at once to what is there, and
acknowledged after that. The refinement mapping takes `applied` from the metadata file
and `returned` from the processes at `"done"`.

### SessionHost
The mutex makes each critical section one action; the methods of `HostState` are
operators from record to record with the names of the code (`SetPtySize`, `ApplyResize`,
`TakeControlBy`, `RecomputeController`, `WriteInitialFrames`, ...), so an action is the
composition of calls that the handler makes. The restore thread resizes the PTY after it
has dropped the mutex; `JiggleResize` is that call, `inflight` the size it carries.

* A size is one number (`cols` and `rows` always move together here); 0 is "not reported".
* The frames a client was sent are reduced to the last grid size and the last
  `Control` frame it got, and whether it got `Exit`.
* `SizedFirst`: the first `Resize` of a client arrives before its 10 ms join timer.
* An acknowledgement frame that joins the client early has the effect of `JoinTimer`.
* `host.order` is the iteration order of the hash map, fixed for a behaviour.

### Attention
The metadata is patched in one step (that is what `PatchLock` is about). The idle thread
samples once per second, and the time stamps of the detector are the number of samples
since. `Update` is `ScreenIdleDetector::update`; `Tick`, `InputFrame` and `DeliverAck` run
`apply_attention`. `Pause` and `Resume` are the status patches of the server; every read
goes through `Overlay`. `genuine` and `typed` are history variables for the properties.

* A program that gets a SIGWINCH redraws before the last sample of the settle window.
* `idleSeconds` is positive; metadata patches do not fail; the token, a time stamp, is
  fresh with respect to every token still around.


### SessionLifecycle
Every thread's loop is a program counter; a patch is two steps, `lock.copy` being what was
read. `Teardown` is the critical section that sets `exited` and takes the scrollback;
`LastRound` the title thread's round after the stop. The platform decides what ends the
reader: on Windows the drop of the master, elsewhere the last holder of the terminal.
Failures of the launch, the PTY and the listener are actions. Chunk *n* sets title *n*.

### AttachClient
`ReaderReads` consumes a non-empty prefix of what is under way, as one read does, and runs
every frame in it through the gate (`ConsumeControl`, replay requests, notice); the input
loop is a program counter over poll, process, resize and return, with the chord prefix it
holds back. The daemon answers in order and is otherwise `SessionHost`'s business.

### Launching
A token is a tuple, a vector a sequence. `Parse` is `parse_args` over every session flag;
`ClimonCommand`, `SpawnArgv` and their kin are the builders of the other processes. A
request goes through up to two clients; window and daemon may fail; `outcome` is what
`__spawn` prints. The ambiguous requests of section 4 are named by an operator of their own.

### Configuration
Three settings stand for the registry, one for each of its kinds: free, global only, and
written by the program itself. Each command is several steps: read, truncate, write,
rename. Two commands run at once and one may be killed. `Resolve` is what the next
`climon config <key>` would print.

### TerminalOutput, FrameCodec
`ReadChunk(n)` and `ReadBytes(n)` read any number of symbols. What the code computes
chunk by chunk is compared with the same computation on the whole. The loops of the
decoders are folds over as many turns as the bytes have room for (`FrameTurn`, `MuxTurn`);
a turn that finds no whole frame changes nothing, as the code has left its loop then.
`TerminalOutput` uses recursive operators over sequences and is model-checked only.

### RemoteLink
Two connections of one client id, each used once. The frames of one reconciliation are
one entry of the channel that the ingest consumes frame by frame. A hello evicts the older
connection and waits for its teardown; `Scan` and `Dismiss` are the two halves of the
dismiss watcher; `IngestStop` and `IngestStart` a death and the sweep of stale records.
Constants name what the passing run assumes: `Overlap = FALSE` (one hello at a time),
`Gap = FALSE` (no session changes before the watcher's first signature), `PromptPoll`
(the once-a-second scan sees a removal before a reconnect announces the session again) and
`MaxTargets = 1` (one uplink target at a time leads to this ingest). TLC violates
`RemoteInv` when any one of the four is dropped. Local I/O is assumed to succeed: a listing
of the sessions that fails counts as an empty one in the code
(`list_sessions().unwrap_or_default()`, `uplink.rs:309`), which retracts every session, and
an ingest that cannot bind a port or write a record leaves the session out until it is
announced again (`ingest.rs:1229-1242`); neither is in the model. `Added` and `Retracted` are what is left
of an entry when one of its frames has been read.

### RemoteChannel
One session over one connection: each viewer's socket, the map entry, the reader threads,
and spawn requests with a ten-second timeout. `Quick = FALSE` assumes that viewers do not
come and go faster than a detach or the end of a reader thread takes.

### UplinkSupervisor
`PollTargets` reads, `ReconcileTargets` acts on what was read. A task goes through
`port`, `wait`, `linked`, `ended`; an abort leaves its child (`upAbandoned`) and its
heartbeat (`upGhosts`) behind, as dropping the future does.

### IngestDaemon, TunnelPort, PeerBridge
Files are the daemon, port or setting they name. `climon cleanup` is a process that reads,
kills, waits and removes in steps of its own. `devtunnel` commands and settings writes
succeed or fail, and the process may be interrupted between any two.

No lock keeps `create_tunnel`, `reconcile_tunnel_port` and `delete_tunnel` apart
(`tunnel.rs:171-322`), so in `TunnelPort` several `Callers` run them at once: each reads
`remote-host.json` when it starts (`tpOp[c].read`), every `devtunnel` command is a step of
its own, and the last one writes what follows from that reading, or removes the file, over
whatever is there by now. `use_manual_tunnel` records any id and port and maps nothing. The
functions take the port as an argument, so each call may be given any port; nothing in the
Rust code calls them yet, in the TypeScript twin the handlers of the dashboard server do
(`server.ts:1312`, 1720-1752), which overlap at their awaits. `tpWhy` is history: it says
how the mapping on record came about. Only climon takes mappings away in the model; a tunnel
that its owner or the service removes is met as a command that fails.

### Installation
A file's content is a version, `Absent` or `Torn`. A swap is displace, place, restore;
the installer copies in place. Failing steps and deaths share one bound.


## 3. The runs

| run | configuration | states | shows |
|---|---|---|---|
| `lock_debris` | 2 processes, 1 ghost, 6 identities never reused, 1 crash, any debris | 180 thousand | `TypeOK`, `LocksExclusive`; patches are atomic (`ImplementsMetaStore`); from a start without a recovery lock a stale lock is reclaimed (`ReclaimedFromClean`) |
| `lock_three` | 3 processes in 2 pid scopes, 3 identities that are reused, 1 crash | 1.8 million | `SafeUnlessRecovererDied` |
| `host_control` | local terminal, 2 clients, sizes 1..2, writers die | 1.5 million | `TypeOK`, `LocalYields`, `GridFollowsController`, `ViewersInformed`, `ExitDelivered`, `ControlSticks` |
| `host_liveness` | the same with one size | 20 thousand | `LocalRestored`, `JiggleCompletes`, `ControllerRecovers` |
| `attention_episodes` | 2 contents, 2 grid sizes, 4 tokens, 2 samples to idle and to settle, pauses | 30 thousand | `TypeOK`, `EpisodeAgreed`, `PauseSticks`, `OutcomeFinal`, `AckHolds` |
| `attention_liveness` | never paused, with jiggles | 25 thousand | `IdleFlagged` |
| `remote_sync` | 2 connections, 2 sessions, 1 restart of the ingest | 650 thousand | `RemoteInv` |
| `network_parts` | see below | 460 thousand | `UplinkInv`, `TunnelInv`, `ChannelInv`, `InstallInv`, `TargetsTried`, `RequestAnswered`, `LauncherCatchesUp` |
| `local_parts` | see below | 358 thousand | `DaemonInv`, `AttachInv`, `LifeInv`, `RequestEnds`, `ClientReturns`, `DaemonReturns` |
| `command_parts` | see below | 1.8 million | `LaunchInv`, `ConfigInv`, `BridgeInv`, `CodecInv`, `OutputInv`, `LegacyKept` |
| `update_deferred` | 2 releases, a deferred file | violated | a deferred update is not retried |
| `session_exit` | local terminal | violated | a session in the foreground does not return |

Each of the thirteen newer models has one invariant, the conjunction of its type
invariant and of named parts, each with its own comment and its own mutants:

| invariant | parts |
|---|---|
| `RemoteInv` | `OneBridge`, `NoDeadRunning`, `RemovalSticks`, `DismissedRightly`, `SyncedAtRest` |
| `ChannelInv` | `BridgedAtRest`, `AnswerTrue` |
| `UplinkInv` | `ChildrenAccounted`, `ConnectedTrue`, `DisconnectedTrue` |
| `TunnelInv` | `RecordedMapped` |
| `DaemonInv` | `ServingFound`, `NoReplay`, `HostsOwned` |
| `InstallInv` | `NeverWithoutExecutable`, `ClearedWhenApplied` |
| `AttachInv` | `ScreenFollowsControl`, `SizeFollows`, `KeysKept`, `ExitCodeReported` |
| `LifeInv` | `EndedIsFinal`, `ScrollbackAsSeen`, `TitleKept` |
| `LaunchInv` | `SpawnAsAsked`, `OneSession`, `OutcomeTrue` |
| `ConfigInv` | `SetIsEffective`, `OtherSettingsKept` |
| `BridgeInv` | `LinkTrue`, `BridgeByChoice`, `UplinkStarted` |
| `CodecInv` | `FramesDelivered`, `ClosedForCause`, `BufferBounded` |
| `OutputInv` | `TitleAsWhole`, `ModesAsWhole`, `ViewerModesTrue`, `TextOnItsScreen` |

Every property of a passing run, and every part in the table, has a mutant in
`PROJECT.json`: a plausible bug in one definition that makes TLC report the
property.

**Runs of several parts.** `MCNetwork`, `MCLocal` and `MCCommands` each put several models
into one run. The models share no variable and no action. `part` is chosen in the initial
state and never changes; only that part moves, from any of its initial states, while the
others rest in a plain one. A behaviour of the run is thus a behaviour of one model, and
every behaviour of every model is one of the run; an invariant of one part holds of the
others' behaviours because they leave its state in an initial one. The same goes for
liveness: a part's fairness is either conjoined with `part = ...`, or has no enabled
action in the resting state, so that it asks nothing of a part that rests.

**Bounds.** Two processes suffice for a holder and a recoverer, three are needed for a
holder that returns while one recovers and another watches; one ghost is enough because
debris of two dead processes differs from that of one only in names. Six identities are never exhausted
with two processes when none is reused; three, with reuse, force every coincidence. One
crash per behaviour comes on top of the debris of earlier ones. Two clients and a local
terminal give every pair of surfaces and a bystander; two sizes tell "equal" from
"different" and, with the extra PTY size 3, a jiggle from both. Four tokens leave a fresh
one with three in use. Connections are made once, so a reconnect is a second connection.

* `remote_sync`: two connections for an eviction, two sessions for one that comes while the
  other goes, a limit of two, one restart.
* `network_parts`: the machine's own tunnel, one discovered tunnel and the direct host, two
  changes of the configuration, the account or the process; two tunnel ids, two ports, two
  callers and three operations (one to record, one to map, one to take away meanwhile); three viewers and three reader threads (one leaving, one joining, one
  watching), one spawn request, two frames under way, with and without a secret; two
  processes, two releases, one installer and one fault, on both platforms.
* `local_parts`: two ingest daemons (one ending, one starting), one request, one dashboard
  server, one cleanup; two keys (a chord), one hand-over, two sizes, two frames under way;
  one chunk of output, with and without a local terminal, on both platforms.
* `command_parts`: every request of `Launching`; two commands at once in a subdirectory or
  in the home directory, two in a behaviour, one kill; one change of the settings during a
  link or a launch; streams of up to three frames, at, below and above the mux limit;
  outputs of up to two phrases (a title, a mode, a screen control, text, a broken control)
  against remainders and a scrollback short enough to be outgrown.

**Fairness.** A process that runs keeps taking steps, and time passes (`PatchLock`): the
scheduler and the clock. Starting is part of that, giving up at the deadline is not. The
restore thread ticks every 100 ms, and a restore that is due is acted on by the tick
after its delay: strong fairness, because other surfaces may arm and disarm it. A writer
that fails shuts its socket down, so its reader ends: weak fairness of `Disconnect` for
such connections only. Nobody is obliged to resize, type, connect or leave. The idle
thread samples, and a program answers its signals (`Attention`).

In the newer models: every thread and task that runs takes its next step; timers of the
code fire (the spawn timeout, the retry of a target, the poll of the supervisor, the watch
of the shutdown request). A connection attempt ends one way or the other, and it is not
assumed which. In `SessionLifecycle` the main thread has strong fairness, because it
competes for a mutex and for the patch lock that others take again and again. In
`Installation` users go on launching climon and days go by, which is what
`LauncherCatchesUp` is about; a step of a process that can succeed is not failed forever,
as faults are bounded.

**Deadlock** is not checked: the models end when every patch is done, the command has
exited, the request is answered or the stream is read.


## 4. What the code does differently

### The two violated properties
* **A deferred update** (`update_cmd.rs:59`). The files are swapped one by one, the launcher
  first. If the server's file is in use the update says "Will retry later", but the
  launcher that runs next is the new one and finds itself up to date; the check then clears
  the cached version. The old server stays until the next release.
* **A session in the foreground** (`host.rs:1042`). The last join waits for the local writer
  thread, which ends when all senders of its channel are gone. The comment says that all
  threads were joined; the stdin reader and, on Unix, the SIGWINCH thread were not, and
  hold senders. climon returns after the next key and the next resize.

### Further configurations
Each of these checks one sentence of the repository's comments or documentation that the
code does not keep; TLC reports a violation.

| configuration, module | property | what happens |
|---|---|---|
| `PatchLock_lost_update.cfg`, `MCPatchLock` | `NoLostUpdate` | `lock.rs:678`. Directories are told apart by inode number. If a recoverer died, two processes may clean up its recovery lock; the slower one has validated the dead directory when the faster one has created its own, which got the same number and has no owner file yet. It is renamed away, two processes recover at once, and one takes a live patch lock away. The theorems show that this is the only way: unless a recoverer dies nothing is lost, even with inode reuse; `lock_debris` shows that with two processes and without reuse nothing is lost even then |
| `PatchLock_claim_moved.cfg`, `MCPatchLock` | `RecoveryExclusive` | `lock.rs:609`. A reclaimer holds its claim "across the final validation→rename window" (`lock.rs:15-16`), but `claim_for_reclaim` renames the claim it finds before it compares it with the stale one it read, and puts it back later. A recoverer and a process that was reclaiming its recovery lock have died. One process has read the stale claim; a second replaces it by its own and validates the dead recovery lock; the first moves that claim aside; a third claims in the gap, renames the dead recovery lock away and makes its own; the second renames that one away and makes another. Two processes recover at once (`lock.rs:13-14`: "serializing stale-lock reclaimers"), and no inode number was reused. It takes three processes: with two, `lock_debris` shows the locks exclusive; and no patch is lost by this alone (three processes, nine identities, 17.8 million states) |
| `SessionHost_lockstep.cfg`, `MCSessionHost` | `LockStep` | `host.rs:1593`. The size of a jiggle's second leg is read under the mutex and applied after it was dropped |
| `SessionHost_headless_jiggle.cfg`, `MCSessionHost` | `JiggleCompletes` | `host.rs:877`. The restore thread exists only with a local terminal, but `take_control` always requests the jiggle |
| `SessionHost_reconnect.cfg`, `MCSessionHost` | `GridFollowsController` | `host.rs:392`. A size is recorded for the first client in hash map order that has the viewer id, possibly the old connection of a viewer that reconnected |
| `Attention_pause_missed.cfg`, `Attention` | `IdleFlagged` | `host.rs:625`. The detector notes that it flagged the session, but `apply_attention` drops the flag of a paused session |
| `Attention_input.cfg`, `Attention` | `InputAcknowledges` | `host.rs:1274`. Input is reported without a token, and an acknowledgement without a token is always rejected |
| `TunnelPort_skipped.cfg`, `TunnelPort` | `NeverSkipped` | `tunnel.rs:270`, 312. "Ensures the tunnel's port mapping matches the ingest's actual bound port" (`tunnel.rs:253`). When the service refuses the mapping and a new tunnel, the port is recorded all the same, and every later call for it returns at once with "not changed": it is never mapped. The same holds after an interruption, once the daemon is bound to the recorded port again |
| `TunnelPort_overlap.cfg`, `TunnelPort` | `OwnRecordReplaced` | `tunnel.rs:312`. `..state` is the record read before the commands ran: a tunnel that was adopted or created in the meantime is overwritten |
| `RemoteChannel_secret.cfg`, `RemoteChannel` | `ViewersServed` | `uplink.rs:87`. With `remote.spawnSecret` set the uplink rejects unsigned control frames, and the ingest sends Attach, Detach, Ping and Pong unsigned (`ingest.rs:1258`, 1295, 891, 1053): no viewer is served. `docs/architecture.md:377-379` says otherwise |

### Seen while modelling
Each is a behaviour the models have; where a property would fail because of it, the
property or a constant names the exception.

*Patch lock and session daemon.*
* A claim that is put back after its owner gave up blocks the recovery of a stale lock
  while that owner lives (`lock.rs:624`). It takes a recovery lock left behind by a dead
  process, which is why `ReclaimedFromClean` starts without one.
* A client whose join timer fires before its first `Resize` can become the fallback
  controller with no size, which drives the PTY to 1x1 (`host.rs:531`), and its first
  `Resize` then renames it, so that the controller id names nobody (`SizedFirst`).
* A local terminal larger than the grid is paused too (`host.rs:350`), where
  `docs/architecture.md:95-97` has it follow.
* A sample of the idle thread between the two legs of a jiggle takes the redraw for
  activity and ends an acknowledged state (`host.rs:1594`), where
  `docs/manual-tests/phase07-session.md:297-299` has the size change absorbed. This is why
  `attention_episodes` runs without jiggles.
* A patch that read a record before its unlocked removal writes it back (`meta.rs:173`): a
  killed session's record, or its scrollback alone, can reappear. A launch that fails after
  the record was written (`host.rs:742`, 761, 908; `spawn.rs:160`) leaves a record that
  says "running" until a sweep finds its process dead.

*Attach client and launching.*
* A lost daemon and the end of stdin make the client return 0. On Windows it returns only
  with the next key: `ClientReturns` is about loops that poll.
* A visible spawn whose first word is a subcommand of climon (`spawn_command.rs:73`), or a
  command that begins with `--headless`, is read back as something else; a terminal
  template without `{cmd}` opens a window that runs nothing; a window that dies later is
  reported to nobody; a spawn through the uplink drops the theme.

*Configuration.*
* Of two commands at once one may be lost, and overlapping writes may tear the file
  (`config.rs:380`); `set` over a file that does not parse discards it.
* An interrupted migration leaves a truncated `config.jsonc` that hides `config.json`; a
  load that races with one writes defaults over its result (`config.rs:459-472`, 591-596);
  the second of two racing migrations reports a failure although it wrote.
* `--local` in the home directory writes a file that is never read when `CLIMON_HOME` is
  set; the help says it writes "the nearest" file, the code writes the working directory's.

*Remote.*
* With three overlapping hellos of one client the first one to wait may wait forever
  (`ingest.rs:524-561`); `Overlap` names it. A session created between the first
  reconciliation and the watcher's first signature is announced with the next change
  (`uplink.rs:521`); `Gap` names it.
* A session that `add_session` refuses because the connection is full (`ingest.rs:1225`)
  is not asked for again when another one goes: it stays hidden until the devbox's next
  advertisement. `SyncedAtRest` therefore promises the devbox's own list only when there
  is `Room` for all.
* With two targets that lead to the same ingest (a host and its tunnel), a session list
  sent over one connection may be read after a newer advertisement that came over the
  other: it deletes the file of a new session, the next poll takes that for a removal by
  the user and dismisses the session for good; `MaxTargets` names it.
* A cancelled target's bridge future is dropped, so its teardown (`uplink.rs:672-690`) does
  not run, against the comment at 549-552: its heartbeat keeps writing "connected" and its
  tunnel child runs on (`upGhosts`, `upAbandoned`).
* A cleanup that has found the ingest dead removes the files of one that starts meanwhile
  (`teardown.rs:278`): `ServingFound` leaves out that daemon (`clean.raced`).
* A demotion does not stop the dashboard server (`main.rs:407`, `docs/architecture.md:485-488`).
* A tunnel adopted by hand is taken for mapped with the port it is recorded with
  (`tunnel.rs:154-167`, 270), and `delete_tunnel` removes a record made while it ran.
* A host without a port hides a tunnel id and causes a warning that is not true; the
  launcher does not start an uplink for a setup with discovery only; an uplink gives way to
  one that is about to leave; an automatic link that failed half-way is not retried; an
  uplink for another target also bridges to the peer whatever `feature.wslBridge` says on
  its side (`uplink.rs:855-865`, 1271-1304; `docs/architecture.md:451-464`).

*Installation.* Two updates that overlap may downgrade, and on Windows may leave no
executable, because each takes the displaced file of the other for its own; `.version` is
written by the installer only.

*Streams.* A cut inside the `ESC [ ?` of a mode control hides it from the tracker
(`replay.rs:55-56`); a viewer that joins in the middle of a control loses the mode; a
wide character cut in two spoils a title; a replay that begins inside the alternate screen
and holds no screen control is shown on the main one; mux frames before a bad frame of the
same chunk are dropped with it; `FrameDecoder` has no limit on the length it waits for.


## 5. What is proved

### The patch lock
`PatchLockProofs.tla`, for every set of processes and ghosts, every assignment of
pid scopes, any finite or infinite supply of identities, any number of crashes, and with
or without inode reuse. The only assumption is `PatchLockAssumption` (the sets do not
overlap, identities are naturals, processes are finitely many).

* `TypeCorrect`: `Spec => []TypeOK`, from any debris. `TypeOK` is not inductive: where
  `Return` and `Released` go depends on the active call, so `CallOK` (which call is active
  at which label) is carried along.
* `LockSafe`: `CleanSpec => []SafeUnlessRecovererDied`. At most one process merges, no
  acknowledged patch is lost and at most one process recovers, unless a process died with
  the recovery lock. The start is one without a recovery lock on disk, the lock itself
  may be debris.
* `LockImplements`: `CleanSpec /\ []NoRecovererDied => ImplementsMetaStore`.

The inductive invariant is `Inv == TypeInv /\ (NoRecovererDied => SafeInv)`, with `SafeInv`
the conjunction of
* `LockOwned`: a running process in the lock made the directory that is there, named
  itself in it once it wrote the owner file, and remembers its identity; a directory made
  by a running process belongs to one that is in the lock, and is not old;
* `RecoveryOwned`: the same for the recovery lock, which always has a running maker;
* `QuarantineSound`: nobody gets past the first snapshot of the recovery lock, and whoever
  is past the second snapshot of the lock has a directory before it whose maker is dead.
  This is what survives inode reuse: the dead lock can only be replaced after it was
  taken away, which only the holder of the recovery lock does;
* `DataSound`: a copy about to be written back is the metadata as it is, and what was
  written is still there;
* `ExpiredDead`: only dead processes' files expire.

`NoRecovererDied` is stable backwards (dead processes do not move), so a step from a state
in which a recoverer is dead needs no argument. The maker of a directory is a history
field (`by`) that no guard but `Naming` reads: the invariant is about makers, because a
directory in the making has no owner yet. The proof has one lemma per group of system
calls, over lemmas that say which conjuncts a step cannot disturb (`LockKept`,
`RecoveryKept`, `QuarantineKept`, `DataKept`, `QuietStep`) and what the directory
operations do. The refinement adds `OnlyWritten`: the metadata contains only patches
whose process has got past its write.

### Control handoff
`SessionHostProofs.tla`, for every finite set of connections and every largest size, every assignment of
viewer ids (several connections may share one), every hash map order, with and without a
local terminal, and whether or not a client reports its size before its join timer fires.
The assumption is `SessionHostAssumption` (connections, viewer ids and the local terminal
are told apart, the largest size is positive, the map order is a numbering).

* `HostTypeCorrect`: `Spec => []TypeOK`. No size 0 reaches the grid or the PTY, although
  a client joins with size 0.
* `HostYields`: `Spec => []LocalYields`, the local terminal is paused while another
  surface has control.
* `HostSticks`: `Spec => ControlSticks`, control moves only when a surface asks, nobody
  has it, the command exits, or the controller's last connection is gone.

* `ExitsDelivered`: `Spec => []ExitDelivered`, every client that joined and whose writer
  works learns of the exit.
* `ViewersAreInformed`: if every viewer id belongs to one connection (`OneEach`),
  `Spec => []ViewersInformed`.
* `GridFollows`: if `OneEach` and `SizedFirst`, `Spec => []GridFollowsController`.

The inductive invariant `HostInv` of the first three adds two things to `TypeOK`. Join sequence numbers are
below the next one. And `Yields`: while another surface controls, not only is the local
terminal suppressed, no restore is pending either; otherwise the restore thread could
unpause it at its next tick. The proof follows the code: one lemma per method of
`HostState` says what it keeps of the record and when it moves control, and each action
composes them. The choice of the first matching client and of the oldest remaining one is
shown to be well defined from the well-foundedness of the naturals.

The last three need `ViewInv`, which adds to `HostInv`
* `Connected`: the map holds the clients whose connection is open and whose writer has
  not failed; whoever joined is in it, or was sent the exit. Nobody in the map has joined
  once the command has exited, so nothing is broadcast after the `Exit` frame;
* `Identified`: a connection is known by the id it was accepted with or by the viewer id
  it sent, and a connection still to come has no id that anybody controls under;
* `Informed`: the grid has the controller's recorded size, clamped (`SizeMatches`), and the
  grid and the controller were told (`SizesTold`, `ControlTold`). The first is needed
  because `broadcast_control` sends the size of the controller's record, not of the grid;
* `Present`: nobody joins under the id it was accepted with, and the controller is the
  local terminal or has an open connection that sends its id.

Lemmas of two forms carry the proof. `Drops` and `Fewer` say that a method leaves the
record as it was but for clients that a broadcast found dead; the `...Informs` lemmas say
that `set_pty_size` followed by `broadcast_control` restores `Informed` whatever was there
before, which is how a `Resize` of the controller may break `SizeMatches` half-way.
`OneEach` is needed: `SessionHost_reconnect.cfg` is the counterexample without it. So is
`SizedFirst`: without it the controller may be a client under the id it was accepted with,
which its first `Resize` replaces (section 4).

### Attention
`SessionStreamProofs.tla`, for every set of screen contents and sizes, every idle time and
settle window. `AttentionAssumption` asks for one token more than the three that can be in
use at once, and that contents are not the marks for an owed redraw.

* `AttentionTypeCorrect`, `EpisodesAgree`, `PausesStick`, `OutcomesFinal`: `TypeOK` and
  `EpisodeAgreed` always, `PauseSticks` and `OutcomeFinal` of every step, with jiggles,
  pauses, late and lost acknowledgements. The invariant `AttInv` adds that a session
  recorded as completed has exited: without it a sample could still overwrite the outcome.
* `AcksHold`: if `~Jiggles` and the settle window is at least one sample,
  `Spec => AckHolds`. The invariant `AckInv` says that a redraw the program owes falls
  within the settle window, and that an acknowledged session's detector remembers the
  acknowledgement and has the screen as its baseline, up to a difference the window will
  absorb. Both assumptions are needed: with jiggles the property is false (section 4).

### Session lifecycle
`SessionLifecycleProofs.tla`, for any length of the output (`LifeAssumption`), on both
platforms, with and without a local terminal. `LifeCorrect`: `LifeSpec => []LifeInv`, that
is, an ended session is never recorded as live again, its scrollback is what its clients
were shown, and its title is the last one before the shutdown. The invariant `LifeIInv`:
* `Holding` reads off the stage of every thread who has the patch lock and the mutex;
* `Phases` says what has happened by each stage of the main thread: the title thread, for
  instance, is done when the scrollback is flushed, because it was joined;
* `Copies`: a copy of the record that a lock holder is about to write back has missed
  nothing but a removal (removal takes no lock), and is not live once the outcome was
  recorded. Without it the idle thread could write back "running" after the end;
* `Titles`: the record and every copy of it carry the title written last, and the round
  of the title thread after the stop flag samples what was captured when it was set.

### Attach client
Also in `SessionLifecycleProofs.tla`, for any bounds on keys, sizes, hand-overs and frames
under way (`AttachAssumption`).
* `AttachCorrect`: `AttachSpec => []AttachInv`. Once all is quiet the screen is the one that
  belongs to whoever has control, the daemon knows the size of the window, no key of a
  client that kept control is lost or doubled, and the exit code is the command's.
* `SizeKept`, on the way: `SizeUnderWay` says where the last size is while the signal's flag
  is down: about to be read, read and not stale, or the last one sent. The code takes the
  flag down before it reads; with a poll that takes it down as well (a mutant) the step is
  not provable.

The invariant `AttachIInv` is about the frames under way. `Joining`: a client that was not
yet heard of is sent nothing. `Gate`: the control frame that the reader reads last says
what the daemon has in mind, and a screen that was cleared has a replay coming, asked for,
or a notice about to cover it. `Endings`: the exit frame comes before the end of the
stream, and the input loop notices the end after the reader stored the code. `KeysTrue`:
what was typed is what the PTY got, then the keys of the input frames under way, then a
held-back prefix. But for the last these are about what is under way, where `AttachInv`
speaks of quiet states.

The reader makes of a chunk of frames, and the input loop of a read of keys, what a fold
makes of them. `Consumed` and `Processed` say what it is after the first i of them, and an
INSTANCE of `SequenceFolds` gives the induction (see below).

### Frame codec
Also in `SessionStreamProofs.tla`, for any number of frames, any payload limit and any
bound on session ids (`CodecAssumption`), for all three decoders and every cut of the
stream. `CodecCorrect`: `CodecSpec => []CodecInv`. The frames are those of `Frames`; the
lemmas about the loops hold for frames of any type and payload.

The invariant `CodecIInv` has two cases. A decoder that goes on (`Reading`) has taken the
first m frames, has returned what those of known types say, and its buffer is the part of
the stream from the end of the m-th frame to what was read, in which the next frame is not
whole. One that gave up (`GaveUp`) has returned what the frames before some point say, all
of them acceptable, and some frame of the stream is not.

`Laid` says where the frames are in the stream; `StreamLaid` proves it of the encoding.
`TurnDoes` is one turn of either loop at the end of a frame: it takes the next one, refuses
it, or waits. `Decoded` is what holds after i turns, by induction over the fold; that the
loop does not stop early is a count: each turn that takes a frame uses up at least a header
(`TurnCounts`), so that after the last turn less than a header is left. `PushDoes` adds what
happens to the result of the loop: an error drops what was decoded with it, and the strict
decoder refuses control messages that do not parse.

### Folds
`SequenceFolds.tla` has what the other proofs need of `FoldLeft` and `FlattenSeq`:
`FoldInvariant` (what holds of the base and is kept by every element holds of the result)
and `FlattenAppend`, `FlattenHead`; at its end, facts about parts of a stream of bytes. The
operator and the invariant are constants of the
module, for a theorem that takes an operator as a parameter cannot be used with these
provers, but a theorem of an instance can. The proofs rest on the least number principle,
which is about sets: the function by which a fold is defined exists for every length, as
there is no least length for which it does not.

### Settings files
`CommandProofs.tla`, for any set of commands that overlap, any subset of the four kinds of
working directory and any bounds on commands and kills (`ConfigAssumption`).
* `ConfigCorrect`: `ConfigSpec => []ConfigInv`. A `set` or `unset` that nothing overlapped
  is in effect for its key, and no other setting changed in what the cascade resolves to.
  This holds over files that do not parse, which such a command discards: they said nothing
  before either.
* `LegacyNeverLost`: `ConfigSpec => LegacyKept`, of every step, whatever overlaps.

`ConfigIInv` relates a lone command to the files at every stage: `Says(c, k, v)` is the
cascade with the command's record in the place of the file it is about to write. It is
what `Resolve` was when the command began (`before`), and what it will be at the end; the
truncation and the migration in between do not show in it. `CascadeKept` and the lemmas
about `ResolveIn` are about the cascade alone: what a change of one file does to the first
one that has a value.

### Uplink, ingest daemon, tunnel, peer, channel
`NetworkProofs.tla`, five independent components.
* `TunnelCorrect`: `TunnelSpec => []TunnelInv`, for any tunnels, ports, callers and number of
  operations (`TunnelAssumption`). `RecordedMapped` says what is left, whichever operations
  overlapped, failed or died: a hosted record that was written after a successful
  `port create` (`tpWhy = "mapped"`) names a port that is mapped, or an operation under way
  has taken the mapping away (`Took`) and has yet to replace the record. It says nothing of
  the other four causes: recorded by hand, both commands refused, the mapping taken away by
  an overlapping operation before it was recorded, and an operation that died after it took
  the recorded mapping away. Each is a real outcome of the code (section 4); a cause is set by the step
  that brings it about, never by looking at the mapping. The inductive invariant adds
  `Sound`: a mapping that an operation has made and nobody has taken away is there until it
  is recorded. `OperationStep` covers the steps of one operation, `TunnelTaken` the two that
  disturb the others.
* `UplinkCorrect`: `UplinkSpec => []UplinkInv`, for any tunnels and changes
  (`UplinkAssumption`). `TasksOwned` adds that a task belongs to an active or a cancelled
  target, that a poll starts with no cancelled target left, and that a "connected" beacon
  names a target.
* `DaemonCorrect`: `DaemonSpec => []DaemonInv`, for any number of ingest daemons, requests
  and dashboard servers (`DaemonAssumption`). `LockHeld` says that the daemon that runs
  has the lock, `PidFound` what a cleanup in progress has read and whom it can still hurt,
  `RequestFresh` that a request seen by a watcher was written under its daemon's lock (the
  reason it is no replay), `HostStopped` that the child is stopped before the beacons go.
* `BridgeCorrect`: `BridgeSpec => []BridgeInv`, for any number of edits. `JobSound` says what
  a link has written by the stage it is in; `UplinkStays` is `UplinkStarted` in a form that
  survives the launch: the uplink that a launch counts on does not end at its next poll.
* `ChannelCorrect`: if `~Quick`, `ChannelSpec => []ChannelInv`, for any viewers, requests,
  reader threads and room on the wire (`RemoteChannelAssumption`). `LastWordRight` is its
  heart: the frame that the uplink reads last, or the entry of its map if there is none on
  the way, is what the viewers at the ingest daemon want. `ViewersSound` orders Attach and
  Detach at the ingest, `ThreadSound` gives a live session at most one thread, that of the
  entry. The assumption is needed: with `Quick` the Detach of the last viewer can follow
  the Attach of the next one, and TLC finds `BridgedAtRest` violated.
* `AnswersTrue`: `ChannelSpec => []AnswerTrue`, also with `Quick`. `SpawnsOnce` says that a
  request is on the wire, being spawned or answered, and never at two of these places.

### Remote sessions
`RemoteLinkProofs.tla`, for any connections and sessions, any room, channel bound and
number of restarts, and any setting of the two secrets and of the bridge
(`RemoteLinkAssumption`).
* `RemoteCorrect`: if `~Overlap`, `~Gap`, `PromptPoll` and `MaxTargets =< 1`,
  `Spec => []RemoteInv`. Each of the four is needed (section 2).
* `OneBridgeAlways`: if `~Overlap`, `Spec => []OneBridge`, whatever the number of targets,
  the secrets, and the timing of the watcher and the poll.

The invariant `RemoteIInv` is about what the ingest has *not read yet*. Its parts:
* `Stages`: what goes with each phase of a connection, what its channel begins with, and
  that the registry names the connection that is served; `OneAtATime`: one connection at
  most has a hello to come, one at most is linked, and what may be read from before a
  greeting one is of a closed uplink;
* `InOrder`, the heart: of two advertisements, the one that will be read later (`Follows`)
  is the newer. What it lacks although an earlier one, a file or a connection has it, and
  what it retracts, was deleted before it was written and is in none that follows
  (`EndedBy`). So what the frame loop takes away on a `session-removed` or a
  `session-list` is `Lost`: no advertisement will bring it back;
* `Entries`, `NothingFresh`, `Current`: an entry adds sessions of its own list and retracts
  others; a session that has not started is nowhere; the last entry of the linked
  connection is what the uplink last advertised;
* `Removals`: what is kept out, or will be at the next poll, was removed by the user or is
  lost, and a removed session that is advertised is either kept out by then or still
  bridged, so that `add_session` does not write its file again;
* `Counts`, `Clean`, `Told`: the count, the disk and every session of the devbox are right
  once nothing is left to read. `Told` says that a session is announced by the last entry
  or has been dealt with; reading its `session-added` turns the one into the other.

The proof first says what each action does to the fields that matter (one `...Shape` lemma
per action). Then most steps fall into two classes: those after which every entry that can
still have an effect is one from before, some places further ahead (`Shifted`; reading,
tearing down, restarting), and those that append one (`Sending`). What is said of entries
is proved once for each class.

### Installation
Also in `CommandProofs.tla`, for any number of processes, releases, installers and faults
(`InstallAssumption`), on both platforms. `InstallCorrect`: `InstallSpec => []InstallInv`.
The invariant says who owes a file that is missing or torn (`MissingOwed`): a process that
has displaced it and not yet placed the new one, or is filling it in place, or one that
was interrupted there (`hurt`). It needs that a process that found the file already missing
displaced nothing (`displaced`), that only Unix truncates in place and only Windows makes
`.old` files (`FilesSound`), and which files an update has applied by its stage
(`ProcSound`), which is why the cached version is cleared only when all are in place.

### Only model-checked
* All liveness (`LocalRestored`, `JiggleCompletes`, `ControllerRecovers`, `IdleFlagged`,
  `ReclaimedFromClean`, `TargetsTried`, `RequestAnswered`, `LauncherCatchesUp`, `RequestEnds`,
  `ClientReturns`, `DaemonReturns`): fairness and `ENABLED` are outside the prover's reach.
* Debris that includes a recovery lock: `LocksExclusive` and the refinement of `lock_debris`,
  for two processes. With three, `LocksExclusive` is false (section 4), so that `LockSafe`,
  which excepts recoverers that died, is what holds for any number.
* `BridgedAtRest` with `Quick`, where it does not hold.
* `RemoteInv` where one of the four assumptions fails, as there it does not hold.
* `LaunchInv`: the model has no constants, and TLC enumerates every request and outcome.
* `OutputInv`: what recursive definitions compute over sequences.


## 6. Plan

Done: `PatchLock`, `MetaStore`, `SessionHost` and `Attention`, with proofs; the thirteen
models of the session's life, the client, the commands, the remote side and the
installation, eleven of them with proofs of their invariants.

Next, in this order:

1. The order of input bytes against take-overs (`host.rs:1283`), metadata patches that fail
   in `Attention` (`host.rs:585`).
2. The dashboard server's promotion and tie-break, composed with `IngestDaemon`.

Composition: `PatchLock` implements `MetaStore`; `Attention`, `SessionLifecycle` and
`RemoteLink` use metadata patches as the steps `MetaStore` allows.
