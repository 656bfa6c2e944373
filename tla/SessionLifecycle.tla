-------------------------- MODULE SessionLifecycle --------------------------
(***************************************************************************)
(* One monitored session from its launch to its end.  The launcher writes  *)
(* the metadata record and runs the host, in the same process (with the    *)
(* local terminal) or in a detached daemon.  The host's main thread, its   *)
(* reader, idle and title threads and its local relay share HostState      *)
(* under a mutex; all of them, and `climon kill` in another process, patch *)
(* the record by reading and writing it under the patch lock (PatchLock    *)
(* and MetaStore justify taking that lock as one step).  The removal of    *)
(* the record takes no lock.                                               *)
(***************************************************************************)
EXTENDS Integers

CONSTANTS
  MaxOutput     \* bound: chunks of output; chunk n sets the title n

ASSUME LifeAssumption == MaxOutput \in Nat

VARIABLES
  place,      \* [local, windows]: a local terminal is attached; the platform
  record,     \* the metadata file, or NoRecord
  scroll,     \* chunks in the scrollback file, or NoFile
  lock,       \* [by, copy]: who holds the patch lock and what it has read
  mutex,      \* who holds the mutex of HostState over several steps
  host,       \* where the main thread of the host is
  child,      \* the command: "none", "runs", "exited"
  heirs,      \* whether a descendant of the command keeps the terminal open
  master,     \* whether the PTY master is open in the main thread
  output,     \* [written, captured, seen]: by the command, by the reader, by clients
  exited,     \* HostState.exited
  shutdown,   \* the shutdown flag
  pump,       \* the reader thread: "off", "reads", "done"
  title,      \* the title thread: [pc, stop, next, last]
  idle,       \* the idle thread: "off", "sleeps", "patches", "done"
  relay,      \* the two threads of the local relay: [keys, winch]
  kill,       \* climon kill: where it is
  kept        \* history: the title captured when the shutdown flag was set

lifeVars == <<place, record, scroll, lock, mutex, host, child, heirs, master,
              output, exited, shutdown, pump, title, idle, relay, kill, kept>>
hostVars == <<place, mutex, host, child, heirs, master, output, exited,
              shutdown, pump, title, idle, relay, kept>>
fileVars == <<record, scroll, lock>>

NoRecord == [status |-> "none"]
NoFile == -1
Final == {"completed", "failed"}
LiveStatuses == {"running", "needs-attention"}
Unlocked == [by |-> "nobody", copy |-> NoRecord]

LifeInit ==
  /\ place \in [local : BOOLEAN, windows : BOOLEAN]
  /\ record = NoRecord
  /\ scroll = NoFile
  /\ lock = Unlocked
  /\ mutex = "free"
  /\ host = "launcher"
  /\ child = "none"
  /\ heirs = FALSE
  /\ master = FALSE
  /\ output = [written |-> 0, captured |-> 0, seen |-> 0]
  /\ exited = FALSE
  /\ shutdown = FALSE
  /\ pump = "off"
  /\ title = [pc |-> "off", stop |-> FALSE, next |-> 0, last |-> 0]
  /\ idle = "off"
  /\ relay = [keys |-> "off", winch |-> "off"]
  /\ kill = "idle"
  /\ kept = 0

----------------------------------------------------------------------------
(* Patches: read and write under the patch lock *)

\* patch_queued up to the read of the record.
PatchReads(who) ==
  /\ lock = Unlocked
  /\ lock' = [by |-> who, copy |-> record]
  /\ UNCHANGED <<record, scroll>>

\* The rest of it: a record that was not there is not written.
PatchWrites(who, updated) ==
  /\ lock.by = who
  /\ record' = IF lock.copy = NoRecord THEN record ELSE updated
  /\ lock' = Unlocked
  /\ UNCHANGED scroll

HostAt(pc, next) == host = pc /\ host' = next

UnchangedByMain == UNCHANGED <<place, child, heirs, output, relay, kill, kept>>
UnchangedThreads == UNCHANGED <<pump, title, idle>>

----------------------------------------------------------------------------
(* The launch *)

\* start_monitored_command and spawn_headless_session write the record first.
Launch ==
  /\ HostAt("launcher", "boot")
  /\ record' = [status |-> "running", pid |-> FALSE, title |-> 0, socket |-> FALSE]
  /\ UNCHANGED <<scroll, lock, mutex, master, exited, shutdown>>
  /\ UnchangedByMain /\ UnchangedThreads

\* The configuration cannot be read, or the daemon cannot be started: the
\* error is returned and the record stays as it is.
LaunchFails ==
  /\ HostAt("boot", "gone")
  /\ UNCHANGED <<fileVars, mutex, master, exited, shutdown>>
  /\ UnchangedByMain /\ UnchangedThreads

\* The threads of the local relay, on either platform.  They hold HostState.
RelayThreads ==
  IF place.local THEN [keys |-> "reads", winch |-> "waits"] ELSE relay

\* Pty::spawn and the local relay, then the restore and reader threads.
SpawnPty ==
  /\ HostAt("boot", "mark")
  /\ child' = "runs"
  /\ master' = TRUE
  /\ relay' = RelayThreads
  /\ pump' = "reads"
  /\ UNCHANGED <<fileVars, place, mutex, heirs, output, exited, shutdown,
                 title, idle, kill, kept>>

PtyFails ==
  /\ HostAt("boot", "fail")
  /\ PatchReads("main")
  /\ UNCHANGED <<mutex, master, exited, shutdown>>
  /\ UnchangedByMain /\ UnchangedThreads

PtyFailed ==
  /\ HostAt("fail", "gone")
  /\ PatchWrites("main", [lock.copy EXCEPT !.status = "failed"])
  /\ UNCHANGED <<mutex, master, exited, shutdown>>
  /\ UnchangedByMain /\ UnchangedThreads

\* Mark running: the pid of the command is recorded as the daemon's.
MarkReads ==
  /\ HostAt("mark", "marking")
  /\ PatchReads("main")
  /\ UNCHANGED <<mutex, master, exited, shutdown>>
  /\ UnchangedByMain /\ UnchangedThreads

MarkWrites ==
  /\ HostAt("marking", "listen")
  /\ PatchWrites("main", [lock.copy EXCEPT !.status = "running", !.pid = TRUE])
  /\ UNCHANGED <<mutex, master, exited, shutdown>>
  /\ UnchangedByMain /\ UnchangedThreads

\* listen_on_session_socket fails after the session was marked running: the
\* process ends, and with its terminal gone so does the command.
ListenFails ==
  /\ HostAt("listen", "gone")
  /\ child' = "exited"
  /\ pump' = "done"
  /\ master' = FALSE
  /\ relay' = [keys |-> "off", winch |-> "off"]
  /\ UNCHANGED <<fileVars, place, mutex, heirs, output, exited, shutdown,
                 title, idle, kill, kept>>

Listens ==
  /\ HostAt("listen", "socket")
  /\ PatchReads("main")
  /\ UNCHANGED <<mutex, master, exited, shutdown>>
  /\ UnchangedByMain /\ UnchangedThreads

\* The socket is published; the accept, idle and title threads start.
SocketPublished ==
  /\ HostAt("socket", "wait")
  /\ PatchWrites("main", [lock.copy EXCEPT !.socket = TRUE])
  /\ idle' = "sleeps"
  /\ title' = [title EXCEPT !.pc = "sleeps"]
  /\ UNCHANGED <<mutex, master, exited, shutdown, pump>>
  /\ UnchangedByMain

----------------------------------------------------------------------------
(* The command and the threads *)

CommandWrites ==
  /\ child = "runs" \/ heirs
  /\ output.written < MaxOutput
  /\ output' = [output EXCEPT !.written = @ + 1]
  /\ UNCHANGED <<fileVars, place, mutex, host, child, heirs, master, exited,
                 shutdown, pump, title, idle, relay, kill, kept>>

\* The command exits; a background job of it may keep the terminal open.
CommandExits(leaves) ==
  /\ child = "runs"
  /\ leaves => ~place.windows
  /\ child' = "exited"
  /\ heirs' = leaves
  /\ UNCHANGED <<fileVars, place, mutex, host, master, output, exited,
                 shutdown, pump, title, idle, relay, kill, kept>>

HeirExits ==
  /\ heirs
  /\ heirs' = FALSE
  /\ UNCHANGED <<fileVars, place, mutex, host, child, master, output, exited,
                 shutdown, pump, title, idle, relay, kill, kept>>

\* spawn_reader_thread: a chunk is added to the scrollback, sent to the
\* clients and searched for a title in one critical section.
PumpReads ==
  /\ pump = "reads"
  /\ mutex = "free"
  /\ output.captured < output.written
  /\ output' = [output EXCEPT !.captured = @ + 1,
                              !.seen = IF exited THEN @ ELSE output.captured + 1]
  /\ UNCHANGED <<fileVars, place, mutex, host, child, heirs, master, exited,
                 shutdown, pump, title, idle, relay, kill, kept>>

\* The end of the file: on Windows only once the pseudoconsole is closed.
PumpEnds ==
  /\ pump = "reads"
  /\ child = "exited" /\ ~heirs
  /\ output.captured = output.written
  /\ place.windows => ~master
  /\ pump' = "done"
  /\ UNCHANGED <<fileVars, place, mutex, host, child, heirs, master, output,
                 exited, shutdown, title, idle, relay, kill, kept>>

\* Mutant of IdleReads: the exit is not looked at.
IdleReadsLate ==
  /\ idle = "sleeps"
  /\ mutex = "free"
  /\ PatchReads("idle")
  /\ mutex' = "idle"
  /\ idle' = "patches"
  /\ UNCHANGED <<place, host, child, heirs, master, output, exited, shutdown,
                 pump, title, relay, kill, kept>>

\* apply_attention for an idle screen patches the record with the mutex held.
IdleReads ==
  /\ idle = "sleeps"
  /\ mutex = "free"
  /\ ~exited
  /\ PatchReads("idle")
  /\ mutex' = "idle"
  /\ idle' = "patches"
  /\ UNCHANGED <<place, host, child, heirs, master, output, exited, shutdown,
                 pump, title, relay, kill, kept>>

IdleWrites ==
  /\ idle = "patches"
  /\ PatchWrites("idle", [lock.copy EXCEPT !.status = "needs-attention"])
  /\ mutex' = "free"
  /\ idle' = "sleeps"
  /\ UNCHANGED <<place, host, child, heirs, master, output, exited, shutdown,
                 pump, title, relay, kill, kept>>

IdleEnds ==
  /\ idle = "sleeps"
  /\ shutdown \/ (exited /\ mutex = "free")
  /\ idle' = "done"
  /\ UNCHANGED <<fileVars, place, mutex, host, child, heirs, master, output,
                 exited, shutdown, pump, title, relay, kill, kept>>

UnchangedByTitle == UNCHANGED <<place, mutex, host, child, heirs, master,
                                output, exited, shutdown, pump, idle, relay, kill, kept>>

\* spawn_title_capture_thread: every 300 ms the shutdown flag is read first,
TitleWakes ==
  /\ title.pc = "sleeps"
  /\ title' = [title EXCEPT !.pc = "woken", !.stop = shutdown]
  /\ UNCHANGED fileVars /\ UnchangedByTitle

\* then what the reader captured;
TitleSamples ==
  /\ title.pc = "woken"
  /\ mutex = "free"
  /\ title' = [title EXCEPT !.pc = "sampled", !.next = output.captured]
  /\ UNCHANGED fileVars /\ UnchangedByTitle

\* Mutant of LastRound: the flag is read again at the end of the round.
LastRoundNow == shutdown

\* a title that is new is patched in; the round that saw the flag is the last.
LastRound == title.stop

TitleReads ==
  /\ title.pc = "sampled"
  /\ title.next # title.last
  /\ PatchReads("title")
  /\ title' = [title EXCEPT !.pc = "patches", !.last = title.next]
  /\ UnchangedByTitle

TitleWrites ==
  /\ title.pc = "patches"
  /\ PatchWrites("title", [lock.copy EXCEPT !.title = title.next])
  /\ title' = [title EXCEPT !.pc = IF LastRound THEN "done" ELSE "sleeps"]
  /\ UnchangedByTitle

TitleUnchanged ==
  /\ title.pc = "sampled"
  /\ title.next = title.last
  /\ title' = [title EXCEPT !.pc = IF LastRound THEN "done" ELSE "sleeps"]
  /\ UNCHANGED fileVars /\ UnchangedByTitle

\* The threads of the local relay look at the flag when something arrives: a
\* key, a window change.  A key also ends its thread when it cannot be written
\* to the PTY any more.
KeyPressed ==
  /\ relay.keys = "reads"
  /\ shutdown \/ child = "exited"
  /\ relay' = [relay EXCEPT !.keys = "off"]
  /\ UNCHANGED <<fileVars, place, mutex, host, child, heirs, master, output,
                 exited, shutdown, pump, title, idle, kill, kept>>

WinchEnds ==
  /\ relay.winch = "waits"
  /\ shutdown
  /\ relay' = [relay EXCEPT !.winch = "off"]
  /\ UNCHANGED <<fileVars, place, mutex, host, child, heirs, master, output,
                 exited, shutdown, pump, title, idle, kill, kept>>

WindowResized == ~place.windows /\ WinchEnds

\* On Windows the size is polled, and the flag with it.
PollerEnds == place.windows /\ WinchEnds

----------------------------------------------------------------------------
(* The end of the session *)

\* Mutant of WaitReturns: the master is kept until the function returns.
WaitReturnsKeeping ==
  /\ HostAt("wait", "exited")
  /\ child = "exited"
  /\ UNCHANGED <<fileVars, mutex, master, exited, shutdown>>
  /\ UnchangedByMain /\ UnchangedThreads

\* pty.wait, then drop(pty).
WaitReturns ==
  /\ HostAt("wait", "exited")
  /\ child = "exited"
  /\ master' = FALSE
  /\ UNCHANGED <<fileVars, mutex, exited, shutdown>>
  /\ UnchangedByMain /\ UnchangedThreads

\* Mutant of Teardown: the mutex is given up once the snapshot is taken.
TeardownUnlocked ==
  /\ HostAt("exited", "outcome")
  /\ mutex = "free"
  /\ scroll' = output.captured
  /\ UNCHANGED <<record, lock, mutex, master, exited, shutdown>>
  /\ UnchangedByMain /\ UnchangedThreads

\* The lifecycle teardown takes the mutex: the exit is recorded and the
\* scrollback written.
Teardown ==
  /\ HostAt("exited", "outcome")
  /\ mutex = "free"
  /\ mutex' = "main"
  /\ exited' = TRUE
  /\ scroll' = output.captured
  /\ UNCHANGED <<record, lock, master, shutdown>>
  /\ UnchangedByMain /\ UnchangedThreads

OutcomeReads ==
  /\ HostAt("outcome", "recording")
  /\ PatchReads("main")
  /\ UNCHANGED <<mutex, master, exited, shutdown>>
  /\ UnchangedByMain /\ UnchangedThreads

\* The outcome is written, the exit frame sent to the clients, which are then
\* dropped, and the mutex is released.
OutcomeWrites(status) ==
  /\ HostAt("recording", "flag")
  /\ PatchWrites("main", [lock.copy EXCEPT !.status = status])
  /\ exited' = TRUE
  /\ mutex' = "free"
  /\ UNCHANGED <<master, shutdown>>
  /\ UnchangedByMain /\ UnchangedThreads

SetShutdown ==
  /\ HostAt("flag", "join")
  /\ shutdown' = TRUE
  /\ kept' = output.captured
  /\ UNCHANGED <<fileVars, place, mutex, child, heirs, master, output, exited,
                 relay, kill>>
  /\ UnchangedThreads

\* The joins of the idle, title and reader threads.
Joins ==
  /\ HostAt("join", "flush")
  /\ idle = "done" /\ title.pc = "done" /\ pump = "done"
  /\ UNCHANGED <<fileVars, mutex, master, exited, shutdown>>
  /\ UnchangedByMain /\ UnchangedThreads

\* The local output thread ends when the last sender is dropped, and one of
\* them is in HostState: nobody else may hold it.
LocalOutEnds == relay = [keys |-> "off", winch |-> "off"]

Flush ==
  /\ HostAt("flush", "gone")
  /\ LocalOutEnds
  /\ UNCHANGED <<fileVars, mutex, master, exited, shutdown>>
  /\ UnchangedByMain /\ UnchangedThreads

----------------------------------------------------------------------------
(* climon kill *)

KillAt(pc, next) == kill = pc /\ kill' = next

\* kill_session reads the record; without a pid it refuses.
KillReads ==
  /\ record # NoRecord
  /\ KillAt("idle", IF record.pid THEN "signal" ELSE "refused")
  /\ UNCHANGED <<hostVars, fileVars>>

\* SIGTERM to the pid; a process that is gone is no error.
KillSignals ==
  /\ KillAt("signal", "patch")
  /\ UNCHANGED <<hostVars, fileVars>>

KillPatches ==
  /\ KillAt("patch", "patching")
  /\ PatchReads("kill")
  /\ UNCHANGED hostVars

KillFails ==
  /\ KillAt("patching", "remove")
  /\ PatchWrites("kill", [lock.copy EXCEPT !.status = "failed"])
  /\ UNCHANGED hostVars

\* remove_session_meta: the record, then its scrollback, without the lock.
KillRemoves ==
  /\ KillAt("remove", IF record = NoRecord THEN "done" ELSE "scrollback")
  /\ record' = NoRecord
  /\ UNCHANGED <<hostVars, scroll, lock>>

KillRemovesScrollback ==
  /\ KillAt("scrollback", "done")
  /\ scroll' = NoFile
  /\ UNCHANGED <<hostVars, record, lock>>

----------------------------------------------------------------------------

MainStep ==
  \/ Launch \/ SpawnPty \/ PtyFailed \/ MarkReads \/ MarkWrites \/ Listens
  \/ SocketPublished \/ WaitReturns \/ Teardown \/ OutcomeReads
  \/ \E status \in Final : OutcomeWrites(status)
  \/ SetShutdown \/ Joins \/ Flush
PumpStep == PumpReads \/ PumpEnds
IdleStep == IdleWrites \/ IdleEnds
TitleStep ==
  TitleWakes \/ TitleSamples \/ TitleReads \/ TitleWrites \/ TitleUnchanged
KillStep ==
  KillSignals \/ KillPatches \/ KillFails \/ KillRemoves \/ KillRemovesScrollback

LifeNext ==
  \/ MainStep \/ LaunchFails \/ PtyFails \/ ListenFails
  \/ CommandWrites \/ (\E leaves \in BOOLEAN : CommandExits(leaves)) \/ HeirExits
  \/ PumpStep \/ IdleReads \/ IdleStep \/ TitleStep
  \/ KeyPressed \/ WindowResized \/ PollerEnds
  \/ KillReads \/ KillStep

\* Threads run.  The idle thread wakes once a second, so the main thread gets
\* the mutex although the idle thread takes it again and again.  Nobody has
\* to press a key, change a window or end the command; on Windows the
\* size of the window is polled.
LifeFairness ==
  /\ SF_lifeVars(MainStep)
  /\ WF_lifeVars(PumpStep)
  /\ WF_lifeVars(IdleStep)
  /\ WF_lifeVars(TitleStep)
  /\ WF_lifeVars(KillStep)
  /\ WF_lifeVars(PollerEnds)

LifeSpec == LifeInit /\ [][LifeNext]_lifeVars /\ LifeFairness

----------------------------------------------------------------------------
(* Properties *)

\* The type of every variable.
LifeTypeOK ==
  LET Statuses == LiveStatuses \cup Final
      Records == {NoRecord} \cup [status : Statuses, pid : BOOLEAN,
                                  title : 0 .. MaxOutput, socket : BOOLEAN]
      Count == 0 .. MaxOutput
  IN  /\ place \in [local : BOOLEAN, windows : BOOLEAN]
      /\ record \in Records
      /\ scroll \in Count \cup {NoFile}
      /\ lock \in [by : {"nobody", "main", "idle", "title", "kill"}, copy : Records]
      /\ mutex \in {"free", "main", "idle"}
      /\ child \in {"none", "runs", "exited"}
      /\ output \in [written : Count, captured : Count, seen : Count]
      /\ title \in [pc : {"off", "sleeps", "woken", "sampled", "patches", "done"},
                    stop : BOOLEAN, next : Count, last : Count]
      /\ relay \in [keys : {"off", "reads"}, winch : {"off", "waits"}]
      /\ output.captured <= output.written /\ output.seen <= output.captured

TornDown == host \in {"flag", "join", "flush", "gone"} /\ exited

\* Once the outcome of a session is recorded its record, if there is one, is
\* never live again: not through a late attention of the idle thread, not
\* through a title or a kill that read the record earlier, and not through a
\* patch that writes back a record which was removed (run_session_host, the
\* teardown; apply_attention; kill_session_meta; patch_queued).
EndedIsFinal ==
  TornDown => record.status \notin LiveStatuses

\* The scrollback file of an ended session is what its clients were shown up
\* to the exit frame, no chunk less and no chunk more (the teardown's
\* critical section against the reader thread's).
ScrollbackAsSeen ==
  TornDown /\ scroll # NoFile => scroll = output.seen

\* The last title shown before the shutdown flag was set is in the record of
\* a session whose host has returned (spawn_title_capture_thread reads the
\* flag before the title, and patches once more after it).
TitleKept ==
  TornDown /\ host \in {"flush", "gone"} /\ record # NoRecord =>
    record.title >= kept

\* What is left of an ended session is final and complete, whichever thread or
\* process came last: its record, its scrollback and its title (the parts above;
\* host.rs, meta.rs, launcher.rs).
LifeInv ==
    /\ LifeTypeOK
    /\ EndedIsFinal
    /\ ScrollbackAsSeen
    /\ TitleKept

Returns(local) ==
  (host = "wait" /\ child = "exited" /\ ~heirs /\ place.local = local)
    ~> (host = "gone")

\* A daemon without a local terminal ends once its command has exited and
\* nothing else holds the terminal, whoever patches the record meanwhile
\* (the joins of run_session_host; drop(pty) lets the reader end on Windows).
DaemonReturns == Returns(FALSE)

\* So does a session in the foreground (docs/manual-tests/phase07-session.md,
\* MT-P7-10; the comment before drop(state) in run_session_host).
ForegroundReturns == Returns(TRUE)

=============================================================================
