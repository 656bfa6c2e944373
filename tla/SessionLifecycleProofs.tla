----------------------- MODULE SessionLifecycleProofs -----------------------
(***************************************************************************)
(* Proofs about the life of a session and the client attached to it, for    *)
(* any length of the output and any bounds on the client:                  *)
(*   - LifeCorrect: what is left of an ended session is final and          *)
(*     complete, whichever thread or process came last;                    *)
(*   - AttachCorrect: the attached client's screen follows control, its     *)
(*     keys arrive as typed, and it reports the command's exit code;        *)
(*   - SizeKept: the daemon learns every size of the client's window.      *)
(* The inductive invariant of the first says who holds the lock and the    *)
(* mutex by the stage that each thread is in, what has happened by each    *)
(* stage of the host, and that a copy of the record which a lock holder is *)
(* about to write back has missed nothing but the removal of the record.   *)
(* Those of the other two say what the frames under way have still to      *)
(* bring; what a chunk of frames or of keys comes to is a fold over it,    *)
(* with the induction of SequenceFolds.                                    *)
(***************************************************************************)
EXTENDS SessionLifecycle, AttachClient, SequenceTheorems, TLAPS

Count == 0 .. MaxOutput
FullRecords == [status : LiveStatuses \cup Final, pid : BOOLEAN, title : Count, socket : BOOLEAN]
Records == {NoRecord} \cup FullRecords

Early == {"launcher", "boot", "fail", "mark", "marking", "listen", "socket"}
Ending == {"outcome", "recording", "flag", "join", "flush"}
Patching == {"fail", "marking", "socket", "recording"}

Types ==
  /\ LifeTypeOK
  /\ host \in Early \cup Ending \cup {"wait", "exited", "gone"}
  /\ idle \in {"off", "sleeps", "patches", "done"}
  /\ kill \in {"idle", "refused", "signal", "patch", "patching", "remove", "scrollback", "done"}
  /\ exited \in BOOLEAN /\ shutdown \in BOOLEAN
  /\ kept \in Count

\* The holder of the lock, and of the mutex, is in the stage that needs it.
Holding ==
  /\ lock.by = "main" <=> host \in Patching
  /\ lock.by = "idle" <=> idle = "patches"
  /\ lock.by = "title" <=> title.pc = "patches"
  /\ lock.by = "kill" <=> kill = "patching"
  /\ lock.by = "nobody" => lock = Unlocked
  /\ mutex = "main" <=> host \in {"outcome", "recording"}
  /\ mutex = "idle" <=> idle = "patches"
  /\ idle = "patches" => ~exited

\* What is so by the stage of the host.
Phases ==
  /\ host = "launcher" => record = NoRecord /\ kill = "idle"
  /\ host \in Early => idle = "off" /\ title.pc = "off"
  /\ host \in Ending => exited
  /\ exited => host \in Ending \cup {"gone"}
  /\ shutdown => host \in {"join", "flush", "gone"}
  /\ TornDown /\ host \in {"flush", "gone"} => title.pc = "done"

\* A copy about to be written back has missed at most the removal of the record,
\* and is not live once the session has ended; the scrollback is what was shown.
Copies ==
  /\ lock.by # "nobody" => record \in {lock.copy, NoRecord}
  /\ TornDown => record.status \notin LiveStatuses /\ lock.copy.status \notin LiveStatuses
  /\ exited => scroll = NoFile \/ scroll = output.seen
  /\ ~exited => output.seen = output.captured

\* The record and every copy of it have the title that the title thread wrote last,
\* and its last round has sampled what was captured when the flag was set.
Titles ==
  /\ title.pc # "patches" /\ record # NoRecord => record.title = title.last
  /\ title.pc # "patches" /\ lock.copy # NoRecord => lock.copy.title = title.last
  /\ title.pc = "patches" => title.last = title.next
  /\ title.pc = "off" => title.last = 0
  /\ title.stop => shutdown
  /\ title.stop /\ title.pc \in {"sampled", "patches", "done"} => title.next >= kept
  /\ title.pc = "done" => title.stop /\ title.last = title.next
  /\ kept <= output.captured

LifeIInv == Types /\ Holding /\ Phases /\ Copies /\ Titles

----------------------------------------------------------------------------
(* What a patch leaves of a record *)

LEMMA RecordFacts ==
    ASSUME NEW r \in FullRecords
    PROVE  /\ r # NoRecord
           /\ \A s \in LiveStatuses \cup Final :
                /\ [r EXCEPT !.status = s] \in FullRecords
                /\ [r EXCEPT !.status = s].status = s
                /\ [r EXCEPT !.status = s].title = r.title
                /\ [r EXCEPT !.status = s, !.pid = TRUE] \in FullRecords
                /\ [r EXCEPT !.status = s, !.pid = TRUE].title = r.title
           /\ [r EXCEPT !.socket = TRUE] \in FullRecords
           /\ [r EXCEPT !.socket = TRUE].title = r.title
           /\ \A n \in Count :
                /\ [r EXCEPT !.title = n] \in FullRecords
                /\ [r EXCEPT !.title = n].status = r.status
                /\ [r EXCEPT !.title = n].title = n
<1>1. r # NoRecord
  <2>1. r.status # "none"
    BY DEF FullRecords, LiveStatuses, Final
  <2> QED  BY <2>1 DEF NoRecord
<1>2. \A s \in LiveStatuses \cup Final :
        /\ [r EXCEPT !.status = s] \in FullRecords
        /\ [r EXCEPT !.status = s].status = s
        /\ [r EXCEPT !.status = s].title = r.title
        /\ [r EXCEPT !.status = s, !.pid = TRUE] \in FullRecords
        /\ [r EXCEPT !.status = s, !.pid = TRUE].title = r.title
  BY DEF FullRecords
<1>3. /\ [r EXCEPT !.socket = TRUE] \in FullRecords
      /\ [r EXCEPT !.socket = TRUE].title = r.title
  BY DEF FullRecords
<1>4. \A n \in Count :
        /\ [r EXCEPT !.title = n] \in FullRecords
        /\ [r EXCEPT !.title = n].status = r.status
        /\ [r EXCEPT !.title = n].title = n
  BY DEF FullRecords
<1> QED  BY <1>1, <1>2, <1>3, <1>4

\* One field at a time.
LEMMA StatusSet ==
    ASSUME NEW r \in FullRecords, NEW s \in LiveStatuses \cup Final
    PROVE  /\ [r EXCEPT !.status = s] \in FullRecords
           /\ [r EXCEPT !.status = s].status = s /\ [r EXCEPT !.status = s].title = r.title
BY RecordFacts

LEMMA TitleSet ==
    ASSUME NEW r \in FullRecords, NEW n \in Count
    PROVE  /\ [r EXCEPT !.title = n] \in FullRecords
           /\ [r EXCEPT !.title = n].status = r.status /\ [r EXCEPT !.title = n].title = n
BY RecordFacts

LEMMA NoRecordDead == NoRecord.status \notin LiveStatuses /\ NoRecord \notin FullRecords
BY DEF NoRecord, LiveStatuses, Final, FullRecords

\* The type invariant with its local definitions named.
LEMMA LifeTypes ==
    LifeTypeOK <=>
      /\ place \in [local : BOOLEAN, windows : BOOLEAN]
      /\ record \in Records
      /\ scroll \in Count \cup {NoFile}
      /\ lock \in [by : {"nobody", "main", "idle", "title", "kill"}, copy : Records]
      /\ mutex \in {"free", "main", "idle"}
      /\ child \in {"none", "runs", "exited"}
      /\ output \in [written : Count, captured : Count, seen : Count]
      /\ title \in [pc : {"off", "sleeps", "woken", "sampled", "patches", "done"},
                    stop : BOOLEAN, next : Count, last : Count]
      /\ relay \in [keys : {"off", "reads"}, winch : {"off", "waits"}]
      /\ output.captured <= output.written /\ output.seen <= output.captured
BY DEF LifeTypeOK, Records, FullRecords, Count

LEMMA LifeTypesNext ==
    LifeTypeOK' <=>
      /\ place' \in [local : BOOLEAN, windows : BOOLEAN]
      /\ record' \in Records
      /\ scroll' \in Count \cup {NoFile}
      /\ lock' \in [by : {"nobody", "main", "idle", "title", "kill"}, copy : Records]
      /\ mutex' \in {"free", "main", "idle"}
      /\ child' \in {"none", "runs", "exited"}
      /\ output' \in [written : Count, captured : Count, seen : Count]
      /\ title' \in [pc : {"off", "sleeps", "woken", "sampled", "patches", "done"},
                     stop : BOOLEAN, next : Count, last : Count]
      /\ relay' \in [keys : {"off", "reads"}, winch : {"off", "waits"}]
      /\ output'.captured <= output'.written /\ output'.seen <= output'.captured
BY DEF LifeTypeOK, Records, FullRecords, Count

\* The lock is taken with a copy of the record as it is.
LEMMA ReadFacts ==
    ASSUME LifeIInv, NEW who \in {"main", "idle", "title", "kill"}, PatchReads(who)
    PROVE  /\ lock = Unlocked /\ lock.by = "nobody" /\ lock'.by = who /\ lock'.copy = record
           /\ lock' \in [by : {"nobody", "main", "idle", "title", "kill"}, copy : Records]
           /\ record' = record /\ scroll' = scroll
BY LifeTypes DEF LifeIInv, Types, PatchReads, Unlocked

\* A patch writes its copy, changed, or nothing over a record that was removed.
LEMMA WriteFacts ==
    ASSUME LifeIInv, NEW who \in {"main", "idle", "title", "kill"}, NEW updated,
           PatchWrites(who, updated), lock.copy \in FullRecords => updated \in FullRecords
    PROVE  /\ lock.by = who /\ lock' = Unlocked /\ lock'.by = "nobody" /\ lock'.copy = NoRecord
           /\ lock' \in [by : {"nobody", "main", "idle", "title", "kill"}, copy : Records]
           /\ record' \in Records /\ scroll' = scroll
           /\ \/ lock.copy = NoRecord /\ record' = NoRecord
              \/ lock.copy \in FullRecords /\ record' = updated
<1>1. lock.by = who /\ who # "nobody" /\ lock.copy \in Records /\ record \in {lock.copy, NoRecord}
  BY LifeTypes DEF LifeIInv, Types, PatchWrites, Copies
<1>2. CASE lock.copy = NoRecord
  BY <1>1, <1>2 DEF PatchWrites, Unlocked, Records
<1>3. CASE lock.copy # NoRecord
  BY <1>1, <1>3 DEF PatchWrites, Unlocked, Records
<1> QED  BY <1>2, <1>3

LEMMA LifeInitial == LifeInit => LifeIInv
<1> SUFFICES ASSUME LifeInit PROVE LifeIInv
  OBVIOUS
<1>0. 0 \in Count
  BY LifeAssumption DEF Count
<1>1. Types
  <2>1. /\ lock \in [by : {"nobody", "main", "idle", "title", "kill"}, copy : Records]
        /\ record \in Records
    BY DEF LifeInit, Unlocked, Records
  <2>2. /\ output \in [written : Count, captured : Count, seen : Count]
        /\ output.captured <= output.written /\ output.seen <= output.captured
    BY <1>0 DEF LifeInit
  <2>3. /\ title \in [pc : {"off", "sleeps", "woken", "sampled", "patches", "done"},
                      stop : BOOLEAN, next : Count, last : Count]
        /\ relay \in [keys : {"off", "reads"}, winch : {"off", "waits"}]
    BY <1>0 DEF LifeInit
  <2>4. LifeTypeOK
    BY <2>1, <2>2, <2>3, LifeTypes DEF LifeInit
  <2> QED  BY <1>0, <2>4 DEF LifeInit, Types, Early
<1>2. Holding
  BY DEF LifeInit, Holding, Unlocked, Patching
<1>3. Phases
  BY DEF LifeInit, Phases, TornDown, Early, Ending
<1>4. Copies
  BY DEF LifeInit, Copies, TornDown, Unlocked
<1>5. Titles
  BY DEF LifeInit, Titles, Unlocked
<1> QED  BY <1>1, <1>2, <1>3, <1>4, <1>5 DEF LifeIInv

----------------------------------------------------------------------------
(* The main thread of the host *)

LEMMA MainReads ==
    ASSUME LifeIInv, PtyFails \/ MarkReads \/ Listens \/ OutcomeReads
    PROVE  LifeIInv'
<1> USE DEF LifeIInv
<1>1. /\ PatchReads("main") /\ host' \in Patching
      /\ \/ host \in Early \ {"launcher"} /\ host' \in Early \ {"launcher"}
         \/ host = "outcome" /\ host' = "recording"
      /\ UNCHANGED <<mutex, exited, shutdown, place, child, output, relay, kill, kept, title, idle>>
  BY DEF PtyFails, MarkReads, Listens, OutcomeReads, HostAt, UnchangedByMain, UnchangedThreads,
         Patching, Early
<1>2. Types'
  BY <1>1, ReadFacts, LifeTypes, LifeTypesNext DEF Types, Ending
<1>3. Holding'
  BY <1>1, ReadFacts DEF Holding, Patching, Early
<1>4. Phases' /\ ~TornDown'
  BY <1>1, ReadFacts DEF Phases, TornDown, Early, Ending
<1>5. Copies' /\ Titles'
  BY <1>1, <1>4, ReadFacts DEF Copies, Titles
<1> QED  BY <1>2, <1>3, <1>4, <1>5

\* The patches of the launch: the title threads are not there yet.
LEMMA MainWrites ==
    ASSUME LifeIInv, PtyFailed \/ MarkWrites \/ SocketPublished
    PROVE  LifeIInv'
<1> USE DEF LifeIInv
<1>1. PICK updated :
         /\ PatchWrites("main", updated)
         /\ lock.copy \in FullRecords => updated \in FullRecords /\ updated.title = lock.copy.title
  <2>1. CASE PtyFailed
    <3> DEFINE u == [lock.copy EXCEPT !.status = "failed"]
    <3>1. PatchWrites("main", u)
      BY <2>1 DEF PtyFailed
    <3>2. lock.copy \in FullRecords => u \in FullRecords /\ u.title = lock.copy.title
      BY RecordFacts DEF Final
    <3> HIDE DEF u
    <3> QED  BY <3>1, <3>2
  <2>2. CASE MarkWrites
    <3> DEFINE u == [lock.copy EXCEPT !.status = "running", !.pid = TRUE]
    <3>1. PatchWrites("main", u)
      BY <2>2 DEF MarkWrites
    <3>2. lock.copy \in FullRecords => u \in FullRecords /\ u.title = lock.copy.title
      BY RecordFacts DEF LiveStatuses
    <3> HIDE DEF u
    <3> QED  BY <3>1, <3>2
  <2>3. CASE SocketPublished
    <3>1. PatchWrites("main", [lock.copy EXCEPT !.socket = TRUE])
      BY <2>3 DEF SocketPublished
    <3> QED  BY <3>1, RecordFacts
  <2> QED  BY <2>1, <2>2, <2>3
<1>2. /\ host \in Early /\ host \in Patching
      /\ \/ host' = "gone" /\ UNCHANGED <<idle, title>>
         \/ host' = "listen" /\ UNCHANGED <<idle, title>>
         \/ host' = "wait" /\ idle' = "sleeps" /\ title' = [title EXCEPT !.pc = "sleeps"]
      /\ UNCHANGED <<mutex, exited, shutdown, place, child, output, relay, kill, kept>>
  BY DEF PtyFailed, MarkWrites, SocketPublished, HostAt, UnchangedByMain, UnchangedThreads,
         Patching, Early
<1>3. /\ lock.by = "main" /\ lock' = Unlocked /\ lock'.by = "nobody" /\ lock'.copy = NoRecord
      /\ lock' \in [by : {"nobody", "main", "idle", "title", "kill"}, copy : Records]
      /\ record' \in Records /\ scroll' = scroll
      /\ \/ lock.copy = NoRecord /\ record' = NoRecord
         \/ lock.copy \in FullRecords /\ record' = updated /\ record'.title = lock.copy.title
  BY <1>1, WriteFacts
<1>4. title.pc = "off" /\ idle = "off" /\ ~exited /\ ~shutdown
  BY <1>2 DEF Phases, Early, Ending
<1>5. Types'
  BY <1>2, <1>3, LifeTypes, LifeTypesNext DEF Types, Early
<1>6. Holding'
  BY <1>2, <1>3, <1>4, LifeTypes DEF Holding, Types, Patching, Early
<1>7. Phases' /\ ~TornDown'
  BY <1>2, <1>3, <1>4, LifeTypes DEF Phases, TornDown, Types, Early, Ending
<1>8. Copies'
  BY <1>2, <1>3, <1>7 DEF Copies
<1>9. Titles'
  BY <1>2, <1>3, <1>4, LifeTypes, NoRecordDead DEF Titles, Types
<1> QED  BY <1>5, <1>6, <1>7, <1>8, <1>9

\* The outcome: from here on the record is final.
LEMMA OutcomeWritten ==
    ASSUME LifeIInv, NEW status \in Final, OutcomeWrites(status)
    PROVE  LifeIInv'
<1> USE DEF LifeIInv
<1> DEFINE updated == [lock.copy EXCEPT !.status = status]
<1>1. /\ PatchWrites("main", updated) /\ host = "recording" /\ host' = "flag" /\ exited'
      /\ mutex' = "free"
      /\ UNCHANGED <<shutdown, place, child, output, relay, kill, kept, title, idle>>
  BY DEF OutcomeWrites, HostAt, UnchangedByMain, UnchangedThreads
<1>2. lock.copy \in FullRecords =>
        updated \in FullRecords /\ updated.title = lock.copy.title /\ updated.status = status
  BY StatusSet
<1> HIDE DEF updated
<1>3. /\ lock.by = "main" /\ lock' = Unlocked /\ lock'.by = "nobody" /\ lock'.copy = NoRecord
      /\ lock' \in [by : {"nobody", "main", "idle", "title", "kill"}, copy : Records]
      /\ record' \in Records /\ scroll' = scroll
      /\ \/ lock.copy = NoRecord /\ record' = NoRecord
         \/ lock.copy \in FullRecords /\ record'.title = lock.copy.title /\ record'.status = status
  BY <1>1, <1>2, WriteFacts
<1>4. exited /\ idle # "patches" /\ title.pc # "patches" /\ kill # "patching"
  BY <1>1, <1>3 DEF Phases, Holding, Ending
<1>5. Types'
  BY <1>1, <1>3, <1>4, LifeTypes, LifeTypesNext DEF Types, Ending
<1>6. Holding'
  BY <1>1, <1>3, <1>4 DEF Holding, Patching
<1>7. Phases'
  BY <1>1, <1>3, <1>4 DEF Phases, TornDown, Early, Ending
<1>8. Copies'
  BY <1>1, <1>3, <1>4, NoRecordDead DEF Copies, Final, LiveStatuses
<1>9. Titles'
  BY <1>1, <1>3, <1>4, NoRecordDead DEF Titles
<1> QED  BY <1>5, <1>6, <1>7, <1>8, <1>9

LEMMA MainLaunches ==
    ASSUME LifeIInv, Launch \/ LaunchFails \/ SpawnPty \/ ListenFails \/ WaitReturns
    PROVE  LifeIInv'
<1> USE DEF LifeIInv
<1>1. /\ host \in {"launcher", "boot", "listen", "wait"}
      /\ host' \in {"boot", "gone", "mark", "exited"}
      /\ host = "launcher" <=> host' = "boot"
      /\ host = "wait" <=> host' = "exited"
      /\ UNCHANGED <<mutex, exited, shutdown, place, output, kill, kept, title, idle, scroll, lock>>
      /\ \/ record' = record
         \/ /\ host = "launcher"
            /\ record' = [status |-> "running", pid |-> FALSE, title |-> 0, socket |-> FALSE]
      /\ child' \in {child, "runs", "exited"}
      /\ relay' = relay \/ relay' = RelayThreads \/ relay' = [keys |-> "off", winch |-> "off"]
  BY DEF Launch, LaunchFails, SpawnPty, ListenFails, WaitReturns, HostAt, UnchangedByMain,
         UnchangedThreads, fileVars
<1>2. relay' \in [keys : {"off", "reads"}, winch : {"off", "waits"}]
  BY <1>1, LifeTypes DEF RelayThreads, Types
<1>3. /\ record' \in Records
      /\ host = "launcher" => /\ record' # NoRecord /\ record'.title = 0 /\ record = NoRecord
                              /\ lock.by = "nobody" /\ title.pc = "off"
  <2>1. CASE record' = record /\ host # "launcher"
    BY <2>1, LifeTypes DEF Types
  <2>2. CASE record' = [status |-> "running", pid |-> FALSE, title |-> 0, socket |-> FALSE]
    <3>1. record' \in FullRecords /\ record'.title = 0
      BY <2>2, LifeAssumption DEF FullRecords, LiveStatuses, Count
    <3>2. host = "launcher" => record = NoRecord /\ kill = "idle" /\ idle = "off" /\ title.pc = "off"
      BY DEF Phases, Early
    <3>3. host = "launcher" => lock.by = "nobody"
      BY <3>2, LifeTypes DEF Holding, Patching, Types
    <3> QED  BY <3>1, <3>2, <3>3, RecordFacts DEF Records
  <2> QED  BY <1>1, <2>1, <2>2 DEF Launch, HostAt, LaunchFails, SpawnPty, ListenFails, WaitReturns
<1>4. ~exited /\ ~shutdown
  BY <1>1 DEF Phases, Ending
<1>5. Types'
  BY <1>1, <1>2, <1>3, LifeTypes, LifeTypesNext DEF Types, Early
<1>6. Holding'
  BY <1>1 DEF Holding, Patching
<1>7. Phases' /\ ~TornDown'
  BY <1>1, <1>3, <1>4 DEF Phases, TornDown, Early, Ending
<1>8. Copies' /\ Titles'
  BY <1>1, <1>3, <1>7 DEF Copies, Titles
<1> QED  BY <1>5, <1>6, <1>7, <1>8

\* The teardown takes the mutex: no patch of the idle thread is under way, and what
\* is saved is what was shown.
LEMMA MainTearsDown ==
    ASSUME LifeIInv, Teardown
    PROVE  LifeIInv'
<1> USE DEF LifeIInv
<1>1. /\ host = "exited" /\ host' = "outcome" /\ mutex = "free" /\ mutex' = "main" /\ exited'
      /\ exited' \in BOOLEAN /\ scroll' = output.captured
      /\ UNCHANGED <<record, lock, shutdown, place, child, output, relay, kill, kept, title, idle>>
  BY DEF Teardown, HostAt, UnchangedByMain, UnchangedThreads
<1>2. Types'
  BY <1>1, LifeTypes, LifeTypesNext DEF Types, Ending
<1>3. Holding'
  BY <1>1 DEF Holding, Patching
<1>4. Phases' /\ ~TornDown'
  BY <1>1 DEF Phases, TornDown, Early, Ending
<1>5. Copies' /\ Titles'
  BY <1>1, <1>4 DEF Copies, Titles, Phases, Ending
<1> QED  BY <1>2, <1>3, <1>4, <1>5

\* The flag is set and the threads are joined.
LEMMA MainReturns ==
    ASSUME LifeIInv, SetShutdown \/ Joins \/ Flush
    PROVE  LifeIInv'
<1> USE DEF LifeIInv
<1>1. UNCHANGED <<mutex, exited, place, child, output, relay, kill, title, idle, record, lock, scroll>>
  BY DEF SetShutdown, Joins, Flush, HostAt, UnchangedByMain, UnchangedThreads, fileVars
<1>2. CASE SetShutdown
  <2>1. host = "flag" /\ host' = "join" /\ shutdown' = TRUE /\ kept' = output.captured
    BY <1>2 DEF SetShutdown, HostAt
  <2>2. ~title.stop /\ title.pc # "done" /\ exited
    BY <2>1 DEF Titles, Phases, Ending
  <2>3. Types'
    BY <1>1, <2>1, LifeTypes, LifeTypesNext DEF Types, Ending
  <2>4. Holding' /\ Phases'
    BY <1>1, <2>1 DEF Holding, Phases, TornDown, Patching, Early, Ending
  <2>5. Copies'
    BY <1>1, <2>1, <2>2 DEF Copies, TornDown
  <2>6. Titles'
    BY <1>1, <2>1, <2>2, LifeTypes DEF Titles, Types, Count
  <2> QED  BY <2>3, <2>4, <2>5, <2>6
<1>3. CASE Joins \/ Flush
  <2>1. /\ host \in {"join", "flush"} /\ host' \in {"flush", "gone"} /\ UNCHANGED <<shutdown, kept>>
        /\ exited /\ title.pc = "done"
    BY <1>3 DEF Joins, Flush, HostAt, UnchangedByMain, Phases, TornDown, Ending
  <2>2. Types'
    BY <1>1, <2>1, LifeTypes, LifeTypesNext DEF Types, Ending
  <2>3. Holding' /\ Phases'
    BY <1>1, <2>1 DEF Holding, Phases, TornDown, Patching, Early, Ending
  <2>4. Copies' /\ Titles'
    BY <1>1, <2>1 DEF Copies, Titles, TornDown
  <2> QED  BY <2>2, <2>3, <2>4
<1> QED  BY <1>2, <1>3

----------------------------------------------------------------------------
(* The command, the reader and the relay *)

LEMMA CommandRuns ==
    ASSUME LifeIInv, CommandWrites \/ (\E leaves \in BOOLEAN : CommandExits(leaves)) \/ HeirExits
                     \/ PumpReads \/ PumpEnds
    PROVE  LifeIInv'
<1> USE DEF LifeIInv
<1>1. /\ UNCHANGED <<record, scroll, lock, place, mutex, host, exited, shutdown, title, idle, relay, kill, kept>>
      /\ child' \in {child, "exited"}
  BY DEF CommandWrites, CommandExits, HeirExits, PumpReads, PumpEnds, fileVars
<1>2. /\ output' \in [written : Count, captured : Count, seen : Count]
      /\ output'.captured <= output'.written /\ output'.seen <= output'.captured
      /\ output.captured <= output'.captured
      /\ exited => output'.seen = output.seen
      /\ ~exited => output'.seen = output'.captured
  <2>0. /\ output \in [written : Count, captured : Count, seen : Count]
        /\ output.captured <= output.written /\ output.seen <= output.captured
        /\ ~exited => output.seen = output.captured
    BY LifeTypes DEF Types, Copies
  <2>1. CASE CommandWrites
    <3>1. output' = [output EXCEPT !.written = output.written + 1] /\ output.written < MaxOutput
      BY <2>1 DEF CommandWrites
    <3> QED  BY <2>0, <3>1, LifeAssumption DEF Count
  <2>2. CASE PumpReads
    <3> DEFINE c == output.captured + 1
               v == IF exited THEN output.seen ELSE c
    <3>1. output' = [output EXCEPT !.captured = c, !.seen = v] /\ output.captured < output.written
      BY <2>2 DEF PumpReads
    <3>2. /\ c \in Count /\ v \in Count /\ v <= c /\ c <= output.written /\ output.captured <= c
          /\ exited => v = output.seen
          /\ ~exited => v = c
      BY <2>0, <3>1, LifeAssumption DEF Count
    <3> HIDE DEF c, v
    <3> QED  BY <2>0, <3>1, <3>2
  <2>3. CASE output' = output
    BY <2>0, <2>3 DEF Count
  <2> QED  BY <2>1, <2>2, <2>3 DEF CommandExits, HeirExits, PumpEnds
<1>3. Types'
  BY <1>1, <1>2, LifeTypes, LifeTypesNext DEF Types
<1>4. Holding' /\ Phases' /\ Copies'
  BY <1>1, <1>2 DEF Holding, Phases, Copies, TornDown
<1>5. Titles'
  BY <1>1, <1>2, LifeTypes DEF Titles, Types, Count
<1> QED  BY <1>3, <1>4, <1>5

LEMMA RelayEnds ==
    ASSUME LifeIInv, KeyPressed \/ WindowResized \/ PollerEnds
    PROVE  LifeIInv'
<1> USE DEF LifeIInv
<1>1. /\ UNCHANGED <<record, scroll, lock, place, mutex, host, child, output, exited, shutdown, title,
                     idle, kill, kept>>
      /\ relay' = [relay EXCEPT !.keys = "off"] \/ relay' = [relay EXCEPT !.winch = "off"]
  BY DEF KeyPressed, WindowResized, PollerEnds, WinchEnds, fileVars
<1>2. Types'
  BY <1>1, LifeTypes, LifeTypesNext DEF Types
<1>3. Holding' /\ Phases' /\ Copies' /\ Titles'
  BY <1>1 DEF Holding, Phases, Copies, Titles, TornDown
<1> QED  BY <1>2, <1>3

----------------------------------------------------------------------------
(* The idle thread *)

LEMMA IdleSteps ==
    ASSUME LifeIInv, IdleReads \/ IdleWrites \/ IdleEnds
    PROVE  LifeIInv'
<1> USE DEF LifeIInv
<1>1. UNCHANGED <<place, host, child, output, exited, shutdown, title, relay, kill, kept>>
  BY DEF IdleReads, IdleWrites, IdleEnds
<1>2. CASE IdleReads
  <2>1. /\ PatchReads("idle") /\ idle = "sleeps" /\ idle' = "patches" /\ mutex = "free" /\ mutex' = "idle"
        /\ ~exited
    BY <1>2 DEF IdleReads
  <2>2. Types'
    BY <1>1, <2>1, ReadFacts, LifeTypes, LifeTypesNext DEF Types
  <2>3. Holding'
    BY <1>1, <2>1, ReadFacts DEF Holding
  <2>4. Phases' /\ Copies' /\ Titles'
    BY <1>1, <2>1, ReadFacts DEF Phases, Copies, Titles, TornDown
  <2> QED  BY <2>2, <2>3, <2>4
<1>3. CASE IdleWrites
  <2> DEFINE updated == [lock.copy EXCEPT !.status = "needs-attention"]
  <2>1. PatchWrites("idle", updated) /\ idle = "patches" /\ idle' = "sleeps" /\ mutex' = "free"
    BY <1>3 DEF IdleWrites
  <2>2. lock.copy \in FullRecords => updated \in FullRecords /\ updated.title = lock.copy.title
    BY RecordFacts DEF LiveStatuses
  <2> HIDE DEF updated
  <2>3. /\ lock.by = "idle" /\ lock' = Unlocked /\ lock'.by = "nobody" /\ lock'.copy = NoRecord
        /\ lock' \in [by : {"nobody", "main", "idle", "title", "kill"}, copy : Records]
        /\ record' \in Records /\ scroll' = scroll
        /\ \/ lock.copy = NoRecord /\ record' = NoRecord
           \/ lock.copy \in FullRecords /\ record'.title = lock.copy.title
    BY <2>1, <2>2, WriteFacts
  <2>4. ~exited /\ title.pc # "patches" /\ host \notin Early
    BY <2>1, <2>3 DEF Holding, Phases
  <2>5. Types'
    BY <1>1, <2>1, <2>3, LifeTypes, LifeTypesNext DEF Types
  <2>6. Holding'
    BY <1>1, <2>1, <2>3 DEF Holding
  <2>7. Phases' /\ Copies'
    BY <1>1, <2>3, <2>4 DEF Phases, Copies, TornDown, Early
  <2>8. Titles'
    BY <1>1, <2>3, <2>4, NoRecordDead DEF Titles
  <2> QED  BY <2>5, <2>6, <2>7, <2>8
<1>4. CASE IdleEnds
  <2>1. UNCHANGED <<record, scroll, lock, mutex>> /\ idle = "sleeps" /\ idle' = "done"
    BY <1>4 DEF IdleEnds, fileVars
  <2>2. Types'
    BY <1>1, <2>1, LifeTypes, LifeTypesNext DEF Types
  <2>3. Holding' /\ Phases' /\ Copies' /\ Titles'
    BY <1>1, <2>1 DEF Holding, Phases, Copies, Titles, TornDown
  <2> QED  BY <2>2, <2>3
<1> QED  BY <1>2, <1>3, <1>4

----------------------------------------------------------------------------
(* The title thread *)

LEMMA TitleSteps ==
    ASSUME LifeIInv, TitleStep
    PROVE  LifeIInv'
<1> USE DEF LifeIInv
<1>0. UNCHANGED <<place, mutex, host, child, output, exited, shutdown, idle, relay, kill, kept>>
  BY DEF TitleStep, TitleWakes, TitleSamples, TitleReads, TitleWrites, TitleUnchanged, UnchangedByTitle
<1>a. title \in [pc : {"off", "sleeps", "woken", "sampled", "patches", "done"},
                 stop : BOOLEAN, next : Count, last : Count]
  BY LifeTypes DEF Types
<1>1. CASE TitleWakes
  <2>1. /\ title.pc = "sleeps" /\ title' = [title EXCEPT !.pc = "woken", !.stop = shutdown]
        /\ UNCHANGED <<record, scroll, lock>>
    BY <1>1 DEF TitleWakes, fileVars
  <2>2. Types'
    <3>1. title' \in [pc : {"off", "sleeps", "woken", "sampled", "patches", "done"},
                     stop : BOOLEAN, next : Count, last : Count]
      BY <1>a, <2>1, LifeTypes DEF Types
    <3> QED  BY <1>0, <2>1, <3>1, LifeTypes, LifeTypesNext DEF Types
  <2>3. Holding' /\ Phases' /\ Copies'
    BY <1>0, <1>a, <2>1 DEF Holding, Phases, Copies, TornDown
  <2>4. Titles'
    BY <1>0, <1>a, <2>1 DEF Titles
  <2> QED  BY <2>2, <2>3, <2>4
<1>2. CASE TitleSamples
  <2>1. /\ title.pc = "woken" /\ title' = [title EXCEPT !.pc = "sampled", !.next = output.captured]
        /\ UNCHANGED <<record, scroll, lock>>
    BY <1>2 DEF TitleSamples, fileVars
  <2>2. Types'
    <3>1. title' \in [pc : {"off", "sleeps", "woken", "sampled", "patches", "done"},
                     stop : BOOLEAN, next : Count, last : Count]
      BY <1>a, <2>1, LifeTypes DEF Types
    <3> QED  BY <1>0, <2>1, <3>1, LifeTypes, LifeTypesNext DEF Types
  <2>3. Holding' /\ Phases' /\ Copies'
    BY <1>0, <1>a, <2>1 DEF Holding, Phases, Copies, TornDown
  <2>4. Titles'
    BY <1>0, <1>a, <2>1, LifeTypes DEF Titles, Types, Count
  <2> QED  BY <2>2, <2>3, <2>4
<1>3. CASE TitleReads
  <2>1. /\ title.pc = "sampled" /\ title' = [title EXCEPT !.pc = "patches", !.last = title.next]
        /\ PatchReads("title")
    BY <1>3 DEF TitleReads
  <2>2. Types'
    <3>1. title' \in [pc : {"off", "sleeps", "woken", "sampled", "patches", "done"},
                     stop : BOOLEAN, next : Count, last : Count]
      BY <1>a, <2>1
    <3> QED  BY <1>0, <2>1, <3>1, ReadFacts, LifeTypes, LifeTypesNext DEF Types
  <2>3. Holding'
    BY <1>0, <1>a, <2>1, ReadFacts DEF Holding
  <2>4. Phases' /\ Copies'
    BY <1>0, <1>a, <2>1, ReadFacts DEF Phases, Copies, TornDown
  <2>5. Titles'
    BY <1>0, <1>a, <2>1, ReadFacts DEF Titles
  <2> QED  BY <2>2, <2>3, <2>4, <2>5
<1>4. CASE TitleWrites
  <2> DEFINE updated == [lock.copy EXCEPT !.title = title.next]
  <2>1. /\ PatchWrites("title", updated) /\ title.pc = "patches"
        /\ title' = [title EXCEPT !.pc = IF title.stop THEN "done" ELSE "sleeps"]
    BY <1>4 DEF TitleWrites, LastRound
  <2>2. lock.copy \in FullRecords =>
          updated \in FullRecords /\ updated.title = title.next /\ updated.status = lock.copy.status
    BY <1>a, TitleSet
  <2> HIDE DEF updated
  <2>3. /\ lock.by = "title" /\ lock' = Unlocked /\ lock'.by = "nobody" /\ lock'.copy = NoRecord
        /\ lock' \in [by : {"nobody", "main", "idle", "title", "kill"}, copy : Records]
        /\ record' \in Records /\ scroll' = scroll
        /\ \/ lock.copy = NoRecord /\ record' = NoRecord
           \/ lock.copy \in FullRecords /\ record'.title = title.next /\ record'.status = lock.copy.status
    BY <2>1, <2>2, WriteFacts
  <2>4. Types'
    BY <1>0, <2>1, <2>3, LifeTypes, LifeTypesNext DEF Types
  <2>5. Holding'
    BY <1>0, <1>a, <2>1, <2>3 DEF Holding
  <2>6. Phases' /\ Copies'
    BY <1>0, <1>a, <2>1, <2>3, NoRecordDead DEF Phases, Copies, TornDown, Early
  <2>7. Titles'
    BY <1>0, <1>a, <2>1, <2>3, NoRecordDead DEF Titles
  <2> QED  BY <2>4, <2>5, <2>6, <2>7
<1>5. CASE TitleUnchanged
  <2>1. /\ title.pc = "sampled" /\ title.next = title.last
        /\ title' = [title EXCEPT !.pc = IF title.stop THEN "done" ELSE "sleeps"]
        /\ UNCHANGED <<record, scroll, lock>>
    BY <1>5 DEF TitleUnchanged, LastRound, fileVars
  <2>2. Types'
    <3>1. title' \in [pc : {"off", "sleeps", "woken", "sampled", "patches", "done"},
                     stop : BOOLEAN, next : Count, last : Count]
      BY <1>a, <2>1, LifeTypes DEF Types
    <3> QED  BY <1>0, <2>1, <3>1, LifeTypes, LifeTypesNext DEF Types
  <2>3. Holding' /\ Phases' /\ Copies'
    BY <1>0, <1>a, <2>1 DEF Holding, Phases, Copies, TornDown
  <2>4. Titles'
    BY <1>0, <1>a, <2>1 DEF Titles
  <2> QED  BY <2>2, <2>3, <2>4
<1> QED  BY <1>1, <1>2, <1>3, <1>4, <1>5 DEF TitleStep

----------------------------------------------------------------------------
(* climon kill *)

LEMMA KillSteps ==
    ASSUME LifeIInv, KillReads \/ KillStep
    PROVE  LifeIInv'
<1> USE DEF LifeIInv
<1>0. UNCHANGED <<place, mutex, host, child, output, exited, shutdown, title, idle, relay, kept>>
  BY DEF KillReads, KillStep, KillSignals, KillPatches, KillFails, KillRemoves, KillRemovesScrollback,
         hostVars
<1>1. CASE KillReads \/ KillSignals
  <2>1. /\ kill' \in {"signal", "refused", "patch"} /\ kill # "patching"
        /\ kill = "idle" => record # NoRecord
        /\ UNCHANGED <<record, scroll, lock>>
    BY <1>1 DEF KillReads, KillSignals, KillAt, fileVars
  <2>2. Types'
    BY <1>0, <2>1, LifeTypes, LifeTypesNext DEF Types
  <2>3. Holding' /\ Phases' /\ Copies' /\ Titles'
    BY <1>0, <2>1 DEF Holding, Phases, Copies, Titles, TornDown
  <2> QED  BY <2>2, <2>3
<1>2. CASE KillPatches
  <2>1. PatchReads("kill") /\ kill = "patch" /\ kill' = "patching"
    BY <1>2 DEF KillPatches, KillAt
  <2>2. Types'
    BY <1>0, <2>1, ReadFacts, LifeTypes, LifeTypesNext DEF Types
  <2>3. Holding'
    BY <1>0, <2>1, ReadFacts DEF Holding
  <2>4. Phases' /\ Copies' /\ Titles'
    BY <1>0, <2>1, ReadFacts DEF Phases, Copies, Titles, TornDown
  <2> QED  BY <2>2, <2>3, <2>4
<1>3. CASE KillFails
  <2> DEFINE updated == [lock.copy EXCEPT !.status = "failed"]
  <2>1. PatchWrites("kill", updated) /\ kill = "patching" /\ kill' = "remove"
    BY <1>3 DEF KillFails, KillAt
  <2>2. lock.copy \in FullRecords =>
          updated \in FullRecords /\ updated.title = lock.copy.title /\ updated.status = "failed"
    BY StatusSet DEF Final
  <2> HIDE DEF updated
  <2>3. /\ lock.by = "kill" /\ lock' = Unlocked /\ lock'.by = "nobody" /\ lock'.copy = NoRecord
        /\ lock' \in [by : {"nobody", "main", "idle", "title", "kill"}, copy : Records]
        /\ record' \in Records /\ scroll' = scroll
        /\ \/ lock.copy = NoRecord /\ record' = NoRecord
           \/ lock.copy \in FullRecords /\ record'.title = lock.copy.title /\ record'.status = "failed"
    BY <2>1, <2>2, WriteFacts
  <2>4. Types'
    BY <1>0, <2>1, <2>3, LifeTypes, LifeTypesNext DEF Types
  <2>5. Holding'
    BY <1>0, <2>1, <2>3 DEF Holding
  <2>6. Phases' /\ Copies'
    BY <1>0, <2>1, <2>3, NoRecordDead DEF Phases, Copies, TornDown, LiveStatuses
  <2>7. Titles'
    BY <1>0, <2>1, <2>3, NoRecordDead DEF Titles, Holding
  <2> QED  BY <2>4, <2>5, <2>6, <2>7
<1>4. CASE KillRemoves \/ KillRemovesScrollback
  <2>1. /\ kill' \in {"done", "scrollback"} /\ kill \notin {"idle", "patching"} /\ lock' = lock
        /\ record' \in {record, NoRecord} /\ scroll' \in {scroll, NoFile}
    BY <1>4 DEF KillRemoves, KillRemovesScrollback, KillAt
  <2>2. Types'
    BY <1>0, <2>1, LifeTypes, LifeTypesNext DEF Types, Records
  <2>3. Holding' /\ Phases'
    BY <1>0, <2>1 DEF Holding, Phases, TornDown
  <2>4. Copies' /\ Titles'
    BY <1>0, <2>1, NoRecordDead DEF Copies, Titles, TornDown
  <2> QED  BY <2>2, <2>3, <2>4
<1> QED  BY <1>1, <1>2, <1>3, <1>4 DEF KillStep

----------------------------------------------------------------------------

LEMMA LifeImplied == LifeIInv => LifeInv
<1> SUFFICES ASSUME LifeIInv PROVE LifeInv
  OBVIOUS
<1>1. LifeTypeOK /\ EndedIsFinal /\ ScrollbackAsSeen
  BY DEF LifeIInv, Types, Copies, EndedIsFinal, ScrollbackAsSeen, TornDown
<1>2. TitleKept
  BY DEF LifeIInv, TitleKept, Phases, Titles
<1> QED  BY <1>1, <1>2 DEF LifeInv

\* What is left of an ended session is final and complete (run_session_host,
\* apply_attention, kill_session_meta, patch_queued, spawn_title_capture_thread):
\* its record is never live again, its scrollback is what its clients were shown,
\* and its title the last one before the shutdown, whatever came last.
THEOREM LifeCorrect == LifeSpec => []LifeInv
<1>1. LifeIInv /\ [LifeNext]_lifeVars => LifeIInv'
  <2> SUFFICES ASSUME LifeIInv, [LifeNext]_lifeVars PROVE LifeIInv'
    OBVIOUS
  <2>1. CASE MainStep \/ LaunchFails \/ PtyFails \/ ListenFails
    BY <2>1, MainReads, MainWrites, OutcomeWritten, MainLaunches, MainTearsDown, MainReturns DEF MainStep
  <2>2. CASE CommandWrites \/ (\E leaves \in BOOLEAN : CommandExits(leaves)) \/ HeirExits \/ PumpStep
    BY <2>2, CommandRuns DEF PumpStep
  <2>3. CASE IdleReads \/ IdleStep \/ TitleStep
    BY <2>3, IdleSteps, TitleSteps DEF IdleStep
  <2>4. CASE KeyPressed \/ WindowResized \/ PollerEnds \/ KillReads \/ KillStep
    BY <2>4, RelayEnds, KillSteps
  <2>5. CASE UNCHANGED lifeVars
    <3>1. Types'
      BY <2>5, LifeTypes, LifeTypesNext DEF lifeVars, LifeIInv, Types
    <3>2. Holding' /\ Phases' /\ Copies' /\ Titles'
      BY <2>5 DEF lifeVars, LifeIInv, Holding, Phases, Copies, Titles, TornDown
    <3> QED  BY <3>1, <3>2 DEF LifeIInv
  <2> QED  BY <2>1, <2>2, <2>3, <2>4, <2>5 DEF LifeNext
<1> QED  BY <1>1, LifeInitial, LifeImplied, PTL DEF LifeSpec

----------------------------------------------------------------------------
(* The size of an attached terminal *)

\* A sequence of frames, whatever they carry.
FrameSeq(s) == s \in Seq({s[i] : i \in DOMAIN s})

\* Once the daemon has read all of s it knows the size n, having known k.
WillKnow(s, k, n) ==
    \/ (\A i \in 1 .. Len(s) : s[i].type # "resize") /\ k = n
    \/ \E i \in 1 .. Len(s) :
         /\ s[i].type = "resize" /\ s[i].size = n
         /\ \A j \in i + 1 .. Len(s) : s[j].type # "resize"

InputType == input \in [pc : {"check", "resize", "send", "read", "stop", "left", "returned"},
                        armed : {input.armed}, winch : BOOLEAN, seen : {input.seen}, how : {input.how}]

\* With the flag of the signal down, the size is about to be read, was read and is
\* about to be sent, or is the last one sent.
SizeUnderWay ==
    ~input.winch =>
        CASE input.pc = "resize" -> TRUE
          [] input.pc = "send" -> input.seen = size
          [] OTHER -> WillKnow(toDaemon, knownSize, size)

SizeIInv ==
    /\ InputType /\ FrameSeq(toDaemon)
    /\ over = "runs" => SizeUnderWay

LEMMA FrameSeqs == \A T : \A s \in Seq(T) : FrameSeq(s)
<1> SUFFICES ASSUME NEW T, NEW s \in Seq(T) PROVE FrameSeq(s)
  OBVIOUS
<1> DEFINE R == {s[i] : i \in DOMAIN s}
<1>1. Len(s) \in Nat /\ DOMAIN s = 1 .. Len(s) /\ s = [i \in 1 .. Len(s) |-> s[i]]
  OBVIOUS
<1>2. \A i \in 1 .. Len(s) : s[i] \in R
  BY <1>1
<1> HIDE DEF R
<1>3. [i \in 1 .. Len(s) |-> s[i]] \in Seq(R)
  BY <1>1, <1>2
<1> QED  BY <1>1, <1>3 DEF FrameSeq, R

\* Sending a frame keeps what the daemon will know, unless it is a new size.
LEMMA SizeSent ==
    ASSUME NEW s, FrameSeq(s), NEW e
    PROVE  /\ FrameSeq(Append(s, e))
           /\ \A k, n : e.type # "resize" /\ WillKnow(s, k, n) => WillKnow(Append(s, e), k, n)
           /\ \A k, n : e.type = "resize" /\ e.size = n => WillKnow(Append(s, e), k, n)
<1> DEFINE T == {s[i] : i \in DOMAIN s} \cup {e}
           t == Append(s, e)
<1>1. s \in Seq(T) /\ e \in T
  <2>1. s \in Seq({s[i] : i \in DOMAIN s})
    BY DEF FrameSeq
  <2> QED  BY <2>1
<1> HIDE DEF T
<1>2. /\ t \in Seq(T) /\ Len(t) = Len(s) + 1 /\ Len(s) \in Nat /\ t[Len(s) + 1] = e
      /\ \A i \in 1 .. Len(s) : t[i] = s[i]
  BY <1>1
<1> HIDE DEF t
<1>3. \A i \in 1 .. Len(t) : i \in 1 .. Len(s) \/ i = Len(s) + 1
  BY <1>2
<1>4. ASSUME NEW k, NEW n, e.type # "resize", WillKnow(s, k, n)
      PROVE  WillKnow(t, k, n)
  <2>1. CASE (\A i \in 1 .. Len(s) : s[i].type # "resize") /\ k = n
    BY <1>2, <1>3, <1>4, <2>1 DEF WillKnow
  <2>2. ASSUME NEW i \in 1 .. Len(s), s[i].type = "resize", s[i].size = n,
               \A j \in i + 1 .. Len(s) : s[j].type # "resize"
        PROVE  WillKnow(t, k, n)
    <3>1. i \in 1 .. Len(t) /\ t[i] = s[i]
      BY <1>2
    <3>2. \A j \in i + 1 .. Len(t) : t[j].type # "resize"
      BY <1>2, <1>3, <1>4, <2>2
    <3> QED  BY <2>2, <3>1, <3>2 DEF WillKnow
  <2> QED  BY <1>4, <2>1, <2>2 DEF WillKnow
<1>5. ASSUME NEW k, NEW n, e.type = "resize", e.size = n
      PROVE  WillKnow(t, k, n)
  <2>1. Len(t) \in 1 .. Len(t) /\ t[Len(t)] = e /\ Len(t) + 1 .. Len(t) = {}
    BY <1>2
  <2> QED  BY <1>5, <2>1 DEF WillKnow
<1> QED  BY <1>2, <1>4, <1>5, FrameSeqs DEF t

\* Reading a frame keeps what the daemon will know.
LEMMA SizeRead ==
    ASSUME NEW s, FrameSeq(s), s # <<>>
    PROVE  /\ FrameSeq(Tail(s))
           /\ \A k, n : WillKnow(s, k, n) =>
                WillKnow(Tail(s), IF Head(s).type = "resize" THEN Head(s).size ELSE k, n)
<1> DEFINE T == {s[i] : i \in DOMAIN s}
           t == Tail(s)
<1>1. s \in Seq(T)
  BY DEF FrameSeq
<1> HIDE DEF T
<1>2. /\ t \in Seq(T) /\ Len(t) = Len(s) - 1 /\ Len(s) \in Nat \ {0} /\ Head(s) = s[1]
      /\ \A i \in 1 .. Len(t) : t[i] = s[i + 1] /\ i + 1 \in 1 .. Len(s)
  BY <1>1
<1> HIDE DEF t
<1>3. ASSUME NEW k, NEW n, WillKnow(s, k, n)
      PROVE  WillKnow(t, IF Head(s).type = "resize" THEN Head(s).size ELSE k, n)
  <2>1. CASE (\A i \in 1 .. Len(s) : s[i].type # "resize") /\ k = n
    <3>1. 1 \in 1 .. Len(s)
      BY <1>2
    <3>2. Head(s).type # "resize" /\ \A i \in 1 .. Len(t) : t[i].type # "resize"
      BY <1>2, <2>1, <3>1
    <3> QED  BY <2>1, <3>2 DEF WillKnow
  <2>2. ASSUME NEW i \in 1 .. Len(s), s[i].type = "resize", s[i].size = n,
               \A j \in i + 1 .. Len(s) : s[j].type # "resize"
        PROVE  WillKnow(t, IF Head(s).type = "resize" THEN Head(s).size ELSE k, n)
    <3>1. CASE i = 1
      <4>1. \A j \in 1 .. Len(t) : t[j].type # "resize"
        BY <1>2, <2>2, <3>1
      <4>2. Head(s).type = "resize" /\ Head(s).size = n
        BY <1>2, <2>2, <3>1
      <4> QED  BY <4>1, <4>2 DEF WillKnow
    <3>2. CASE i # 1
      <4>1. i - 1 \in 1 .. Len(t) /\ t[i - 1] = s[i]
        BY <1>2, <3>2
      <4>2. \A j \in (i - 1) + 1 .. Len(t) : t[j].type # "resize"
        <5> SUFFICES ASSUME NEW j \in (i - 1) + 1 .. Len(t) PROVE t[j].type # "resize"
          OBVIOUS
        <5>1. j \in 1 .. Len(t) /\ j + 1 \in i + 1 .. Len(s)
          BY <1>2
        <5> QED  BY <1>2, <2>2, <5>1
      <4> QED  BY <2>2, <4>1, <4>2 DEF WillKnow
    <3> QED  BY <3>1, <3>2
  <2> QED  BY <1>3, <2>1, <2>2 DEF WillKnow
<1> QED  BY <1>2, <1>3, FrameSeqs DEF t

LEMMA SizeInitial == AttachInit => SizeIInv
<1> SUFFICES ASSUME AttachInit PROVE SizeIInv
  OBVIOUS
<1>1. InputType
  BY DEF AttachInit, InputType
<1>2. toDaemon = <<[type |-> "resize", size |-> 1]>> /\ size = 1 /\ input.pc = "check"
  BY DEF AttachInit
<1> DEFINE e == [type |-> "resize", size |-> 1]
<1>3. FrameSeq(toDaemon)
  <2>1. <<e>> \in Seq({e})
    OBVIOUS
  <2> QED  BY <1>2, <2>1, FrameSeqs
<1>4. WillKnow(toDaemon, knownSize, size)
  <2>1. Len(toDaemon) = 1 /\ toDaemon[1] = e /\ e.type = "resize" /\ e.size = size
    BY <1>2
  <2> HIDE DEF e
  <2>2. 1 \in 1 .. Len(toDaemon) /\ 1 + 1 .. Len(toDaemon) = {}
    BY <2>1
  <2> QED  BY <2>1, <2>2 DEF WillKnow
<1> QED  BY <1>1, <1>2, <1>3, <1>4 DEF SizeIInv, SizeUnderWay

\* Steps of the daemon and the reader leave the input loop and the window alone.
LEMMA SizeRemote ==
    ASSUME SizeIInv, \/ DaemonReceives \/ OtherTakesControl \/ OutputArrives \/ SessionExits
                     \/ DaemonLost \/ ReaderStep
    PROVE  SizeIInv'
<1>1. UNCHANGED <<input, size>>
  BY DEF DaemonReceives, OtherTakesControl, OutputArrives, SessionExits, DaemonLost, ReaderStep,
         ReaderEnds, ReaderReads, UnchangedByDaemon
<1>2. InputType'
  BY <1>1 DEF SizeIInv, InputType
<1>3. SUFFICES /\ FrameSeq(toDaemon')
               /\ over' = "runs" =>
                    /\ over = "runs"
                    /\ \A n : WillKnow(toDaemon, knownSize, n) => WillKnow(toDaemon', knownSize', n)
  BY <1>1, <1>2 DEF SizeIInv, SizeUnderWay
<1>4. CASE DaemonReceives
  <2>1. /\ toDaemon # <<>> /\ toDaemon' = Tail(toDaemon) /\ over' = over
        /\ knownSize' = IF Head(toDaemon).type = "resize" THEN Head(toDaemon).size ELSE knownSize
    BY <1>4 DEF DaemonReceives
  <2> QED  BY <2>1, SizeRead DEF SizeIInv
<1>5. CASE OtherTakesControl \/ OutputArrives \/ ReaderEnds
  BY <1>5 DEF OtherTakesControl, OutputArrives, ReaderEnds, SizeIInv
<1>6. CASE SessionExits \/ DaemonLost
  <2>1. toDaemon' = <<>> /\ over' # "runs"
    BY <1>6 DEF SessionExits, DaemonLost
  <2>2. <<>> \in Seq({})
    OBVIOUS
  <2> QED  BY <2>1, <2>2, FrameSeqs
<1>7. CASE \E n \in 1 .. (MaxQueue + 2) : ReaderReads(n)
  <2>1. /\ UNCHANGED <<over, knownSize>>
        /\ toDaemon' = toDaemon \/ toDaemon' = Append(toDaemon, Frame("replay"))
    BY <1>7 DEF ReaderReads, Push
  <2>2. Frame("replay").type # "resize"
    BY DEF Frame
  <2> QED  BY <2>1, <2>2, SizeSent DEF SizeIInv
<1> QED  BY <1>4, <1>5, <1>6, <1>7 DEF ReaderStep

\* The window and the loop that watches it.
LEMMA SizeWatched ==
    ASSUME SizeIInv, WindowChanges \/ LoopHead \/ ReadSize \/ SendResize
    PROVE  SizeIInv'
<1>1. InputType /\ FrameSeq(toDaemon) /\ UNCHANGED <<over, knownSize>>
  BY DEF SizeIInv, WindowChanges, LoopHead, ReadSize, SendResize, UnchangedByInput
<1>2. CASE WindowChanges
  BY <1>1, <1>2 DEF WindowChanges, SizeIInv, SizeUnderWay, InputType
<1>3. CASE LoopHead
  BY <1>1, <1>3 DEF LoopHead, SizeIInv, SizeUnderWay, InputType
<1>4. CASE ReadSize
  BY <1>1, <1>4 DEF ReadSize, SizeIInv, SizeUnderWay, InputType
<1>5. CASE SendResize
  <2> DEFINE e == [type |-> "resize", size |-> input.seen]
  <2>1. /\ input.pc = "send" /\ input' = [input EXCEPT !.pc = "read"] /\ size' = size
        /\ toDaemon' = IF over = "runs" THEN Append(toDaemon, e) ELSE toDaemon
    BY <1>5 DEF SendResize, Push
  <2>2. e.type = "resize" /\ e.size = input.seen
    OBVIOUS
  <2> HIDE DEF e
  <2>3. FrameSeq(toDaemon') /\ InputType'
    BY <1>1, <2>1, SizeSent DEF InputType
  <2>4. over = "runs" /\ input.seen = size => WillKnow(toDaemon', knownSize', size')
    BY <1>1, <2>1, <2>2, SizeSent
  <2> QED  BY <1>1, <2>1, <2>3, <2>4 DEF SizeIInv, SizeUnderWay, InputType
<1> QED  BY <1>2, <1>3, <1>4, <1>5

\* Keys, polls and the way out leave a size that is sent behind as it is.
LEMMA SizeAside ==
    ASSUME SizeIInv, \/ PollTimesOut \/ ShutDown \/ AttachReturns \/ InputEnds
                     \/ \E chunk \in Chunks : KeysArrive(chunk)
    PROVE  SizeIInv'
<1>1. InputType /\ FrameSeq(toDaemon) /\ UNCHANGED <<over, knownSize, size>>
  BY DEF SizeIInv, PollTimesOut, ShutDown, AttachReturns, InputEnds, KeysArrive, UnchangedByInput
<1>2. CASE PollTimesOut \/ ShutDown \/ AttachReturns \/ InputEnds
  BY <1>1, <1>2 DEF PollTimesOut, ShutDown, AttachReturns, InputEnds, SizeIInv, SizeUnderWay, InputType
<1>3. ASSUME NEW chunk \in Chunks, KeysArrive(chunk)
      PROVE  SizeIInv'
  <2> DEFINE p == Process(chunk)
             e == [type |-> "input", keys |-> p.out]
             forward == IF p.out = <<>> THEN toDaemon ELSE Push(toDaemon, e)
  <2>1. /\ input.pc = "read"
        /\ toDaemon' = IF p.action = "take" THEN Push(forward, Frame("take")) ELSE forward
        /\ input' = [input EXCEPT !.armed = p.armed,
                                  !.pc = IF p.action = "detach" THEN "stop" ELSE "check",
                                  !.how = IF p.action = "detach" THEN "detach" ELSE @]
    BY <1>3 DEF KeysArrive
  <2>2. e.type # "resize" /\ Frame("take").type # "resize"
    BY DEF Frame
  <2>3. FrameSeq(forward) /\ (WillKnow(toDaemon, knownSize, size) => WillKnow(forward, knownSize, size))
    <3> HIDE DEF e, p
    <3> QED  BY <1>1, <2>2, SizeSent DEF Push
  <2>4. /\ FrameSeq(toDaemon')
        /\ WillKnow(toDaemon, knownSize, size) => WillKnow(toDaemon', knownSize, size)
    <3> HIDE DEF forward, p
    <3> QED  BY <2>1, <2>2, <2>3, SizeSent DEF Push
  <2>5. InputType' /\ input'.winch = input.winch /\ input'.pc \in {"stop", "check"}
    <3> HIDE DEF p
    <3> QED  BY <1>1, <2>1 DEF InputType
  <2> QED  BY <1>1, <2>1, <2>4, <2>5 DEF SizeIInv, SizeUnderWay
<1> QED  BY <1>2, <1>3

\* Once nothing is under way the daemon knows the size of the window, whenever it
\* changed while a size was read or sent (WINCH, local_terminal_size, the loop of
\* connect_to_session): the flag is taken down before the size is read.
THEOREM SizeKept == AttachSpec => []SizeFollows
<1>1. SizeIInv /\ [AttachNext]_attachVars => SizeIInv'
  <2> SUFFICES ASSUME SizeIInv, [AttachNext]_attachVars PROVE SizeIInv'
    OBVIOUS
  <2>1. CASE UNCHANGED attachVars
    BY <2>1 DEF attachVars, SizeIInv, InputType, SizeUnderWay
  <2> QED  BY <2>1, SizeRemote, SizeWatched, SizeAside DEF AttachNext, InputStep
<1>2. SizeIInv => SizeFollows
  <2> SUFFICES ASSUME SizeIInv, AtRest, ~input.winch PROVE knownSize = size
    BY DEF SizeFollows
  <2>1. WillKnow(toDaemon, knownSize, size) /\ toDaemon = <<>>
    BY DEF AtRest, SizeIInv, SizeUnderWay
  <2>2. Len(toDaemon) = 0
    BY <2>1
  <2> QED  BY <2>1, <2>2 DEF WillKnow
<1> QED  BY <1>1, <1>2, SizeInitial, PTL DEF AttachSpec

----------------------------------------------------------------------------
(* The terminal and the session: screen, keys and exit code *)

Surfaces == {"me", "other"}
ClientFrames == [type : {"replay", "output", "exit", "eof"}] \cup [type : {"control"}, who : Surfaces]
DaemonFrames ==
    [type : {"resize"}, size : 1 .. MaxSizes] \cup [type : {"input"}, keys : Seq(Keys)]
    \cup [type : {"take", "replay"}]
Inputs ==
    [pc : {"check", "resize", "send", "read", "stop", "left", "returned"}, armed : BOOLEAN,
     winch : BOOLEAN, seen : 1 .. MaxSizes, how : {"none", "detach", "eof", "done"}]
Readers ==
    [displaced : BOOLEAN, screen : {"blank", "live", "notice"}, code : {0, ExitCode},
     request : BOOLEAN, done : BOOLEAN]
Processors == [armed : BOOLEAN, out : Seq(Keys), action : {"none", "detach", "take"}]

AttachTypes ==
    /\ AttachTypeOK
    /\ input \in Inputs /\ toClient \in Seq(ClientFrames) /\ toDaemon \in Seq(DaemonFrames)
    /\ over = "runs" => Len(toClient) =< MaxQueue

\* A frame of type t is among those of s.
Among(s, t) == \E i \in 1 .. Len(s) : s[i].type = t

\* A control frame in s takes control away.
TakenAway(s) == \E i \in 1 .. Len(s) : s[i].type = "control" /\ s[i].who # "me"

\* The last control frame in s gives control away (out), or there is none and it was away before.
Ends(s, before, out) ==
    \/ ~Among(s, "control") /\ (before <=> out)
    \/ \E i \in 1 .. Len(s) :
         /\ s[i].type = "control" /\ (s[i].who # "me" <=> out)
         /\ \A j \in i + 1 .. Len(s) : s[j].type # "control"

\* The client that has not joined yet is sent nothing; its first frame makes it join.
Joining ==
    over = "runs" /\ knownSize = 0 =>
        /\ toClient = <<>> /\ toDaemon # <<>> /\ Head(toDaemon).type = "resize"
        /\ ~displaced

\* The gate ends up as the daemon has it; the notice is up while it is shut, and a screen
\* that was cleared is about to be painted, or covered by the notice.
Gate ==
    /\ displaced => screen = "notice"
    /\ over = "runs" /\ knownSize # 0 => Ends(toClient, displaced, owner # "me")
    /\ over = "runs" /\ knownSize # 0 /\ ~displaced /\ screen # "live" =>
         Among(toClient, "replay") \/ TakenAway(toClient) \/ Among(toDaemon, "replay")

\* The exit code is stored or under way, before the end of the stream; the input loop sees
\* the end after it was stored.
Endings ==
    /\ over = "runs" => ~Among(toClient, "exit") /\ ~Among(toClient, "eof")
    /\ \A i \in 1 .. Len(toClient) : toClient[i].type = "eof" => i = Len(toClient)
    /\ over = "exited" => exitCode = ExitCode \/ Among(toClient, "exit")
    /\ readerDone /\ input.pc \notin {"left", "returned"} => toClient = <<>> /\ over # "runs"
    /\ input.how # "none" => input.pc \in {"stop", "left", "returned"}
    /\ input.how = "done" =>
         /\ input.pc \in {"left", "returned"} /\ over # "runs"
         /\ over = "exited" => exitCode = ExitCode

\* A client that has kept control all the time is never told otherwise.
Undisturbed == mine => owner = "me" /\ ~displaced /\ ~TakenAway(toClient)

\* The keys of the frames under way.
KeysOf(f) == IF f.type = "input" THEN f.keys ELSE <<>>
Typing(s) == FlattenSeq([i \in DOMAIN s |-> IF s[i].type = "input" THEN s[i].keys ELSE <<>>])

\* A prefix that is held back.
Held(armed) == IF armed THEN <<"prefix">> ELSE <<>>

\* KeysKept, by the keys of the frames under way (Typing) and the prefix held back.
KeysTrue ==
    mine /\ over = "runs" /\ input.how # "detach" =>
        typed = ptyInput \o Typing(toDaemon) \o Held(input.armed)

AttachIInv == AttachTypes /\ Joining /\ Gate /\ Endings /\ Undisturbed /\ KeysTrue

\* What the reader has made of the first i frames of s, starting from b.
Consumed(b, s, i, r) ==
    /\ r \in Readers
    /\ r.done => b.done \/ \E j \in 1 .. i : s[j].type = "eof"
    /\ b.code = ExitCode => r.code = ExitCode
    /\ (\E j \in 1 .. i : s[j].type = "exit") => r.code = ExitCode
    /\ (b.displaced => b.screen = "notice") => (r.displaced => r.screen = "notice")
    /\ \/ (\A j \in 1 .. i : s[j].type # "control") /\ r.displaced = b.displaced
       \/ \E j \in 1 .. i :
            /\ s[j].type = "control" /\ (s[j].who # "me" <=> r.displaced)
            /\ \A k \in j + 1 .. i : s[k].type # "control"
    /\ ~r.displaced /\ r.screen # "live" /\ ~r.request =>
         /\ ~b.displaced /\ b.screen # "live"
         /\ \A j \in 1 .. i : s[j].type # "replay" /\ ~(s[j].type = "control" /\ s[j].who # "me")

\* One frame, for a reader with any past.
LEMMA ConsumeOne ==
    ASSUME AttachAssumption, NEW r \in Readers, NEW f \in ClientFrames
    PROVE  LET t == ConsumeFrame(r, f) IN
             /\ t \in Readers
             /\ t.done <=> r.done \/ f.type = "eof"
             /\ t.code = IF f.type = "exit" THEN ExitCode ELSE r.code
             /\ f.type # "control" => t.displaced = r.displaced
             /\ f.type = "control" => (t.displaced <=> f.who # "me")
             /\ (r.displaced => r.screen = "notice") => (t.displaced => t.screen = "notice")
             /\ ~t.displaced /\ t.screen # "live" /\ ~t.request =>
                  /\ ~r.displaced /\ r.screen # "live" /\ ~r.request
                  /\ f.type # "replay" /\ ~(f.type = "control" /\ f.who # "me")
<1> DEFINE t == ConsumeFrame(r, f)
<1>1. CASE f.type = "replay"
  BY <1>1 DEF ConsumeFrame, Readers
<1>2. CASE f.type = "exit"
  BY <1>2 DEF ConsumeFrame, Readers
<1>3. CASE f.type = "eof"
  BY <1>3 DEF ConsumeFrame, Readers
<1>4. CASE f.type = "output"
  BY <1>4 DEF ConsumeFrame, Readers
<1>5. CASE f.type = "control"
  <2>1. f.who \in Surfaces /\ t = ConsumeControl(r, f.who)
    BY <1>5 DEF ConsumeFrame, ClientFrames
  <2> HIDE DEF t
  <2>2. /\ t \in Readers /\ t.done = r.done /\ t.code = r.code /\ (t.displaced <=> f.who # "me")
        /\ t.displaced => t.screen = "notice"
        /\ ~t.displaced => ~(r.displaced /\ ~t.request) /\ (~r.displaced => t.screen = r.screen)
        /\ r.request => t.request
    BY <2>1 DEF ConsumeControl, Readers
  <2> QED  BY <1>5, <2>2 DEF t, Readers
<1> QED  BY <1>1, <1>2, <1>3, <1>4, <1>5 DEF ClientFrames

LEMMA ConsumeStep ==
    ASSUME AttachAssumption, NEW b, NEW s \in Seq(ClientFrames), NEW n \in Nat, n =< Len(s),
           NEW i \in 1 .. n, NEW r, Consumed(b, s, i - 1, r)
    PROVE  Consumed(b, s, i, ConsumeFrame(r, s[i]))
<1> DEFINE f == s[i]
           t == ConsumeFrame(r, f)
<1>1. f \in ClientFrames /\ r \in Readers
  BY DEF Consumed
<1>2. i - 1 \in Nat /\ \A j \in 1 .. i : j \in 1 .. i - 1 \/ j = i
  OBVIOUS
<1>3. \A j \in 1 .. i - 1 : j \in 1 .. i
  OBVIOUS
<1>4. i \in 1 .. i /\ i + 1 .. i = {}
  OBVIOUS
<1>5. \A j \in 1 .. i - 1 : \A k \in j + 1 .. i : k \in j + 1 .. i - 1 \/ k = i
  OBVIOUS
<1> HIDE DEF t
<1>6. /\ t \in Readers
      /\ t.done <=> r.done \/ f.type = "eof"
      /\ t.code = IF f.type = "exit" THEN ExitCode ELSE r.code
      /\ f.type # "control" => t.displaced = r.displaced
      /\ f.type = "control" => (t.displaced <=> f.who # "me")
      /\ (r.displaced => r.screen = "notice") => (t.displaced => t.screen = "notice")
      /\ ~t.displaced /\ t.screen # "live" /\ ~t.request =>
           /\ ~r.displaced /\ r.screen # "live" /\ ~r.request
           /\ f.type # "replay" /\ ~(f.type = "control" /\ f.who # "me")
  BY <1>1, ConsumeOne, Zenon DEF t
<1>7. t.done => b.done \/ \E j \in 1 .. i : s[j].type = "eof"
  BY <1>3, <1>4, <1>6 DEF Consumed
<1>8. /\ b.code = ExitCode => t.code = ExitCode
      /\ (\E j \in 1 .. i : s[j].type = "exit") => t.code = ExitCode
  BY <1>2, <1>6 DEF Consumed
<1>9. (b.displaced => b.screen = "notice") => (t.displaced => t.screen = "notice")
  BY <1>6, Zenon DEF Consumed
<1>10. \/ (\A j \in 1 .. i : s[j].type # "control") /\ t.displaced = b.displaced
       \/ \E j \in 1 .. i :
            /\ s[j].type = "control" /\ (s[j].who # "me" <=> t.displaced)
            /\ \A k \in j + 1 .. i : s[k].type # "control"
  <2>1. CASE f.type = "control"
    BY <1>4, <1>6, <2>1
  <2>2. CASE f.type # "control" /\ (\A j \in 1 .. i - 1 : s[j].type # "control") /\ r.displaced = b.displaced
    BY <1>2, <1>6, <2>2
  <2>3. ASSUME f.type # "control", NEW j \in 1 .. i - 1, s[j].type = "control",
               s[j].who # "me" <=> r.displaced, \A k \in j + 1 .. i - 1 : s[k].type # "control"
        PROVE  \E l \in 1 .. i :
                 /\ s[l].type = "control" /\ (s[l].who # "me" <=> t.displaced)
                 /\ \A k \in l + 1 .. i : s[k].type # "control"
    BY <1>3, <1>5, <1>6, <2>3
  <2> QED  BY <2>1, <2>2, <2>3 DEF Consumed
<1>11. ~t.displaced /\ t.screen # "live" /\ ~t.request =>
         /\ ~b.displaced /\ b.screen # "live"
         /\ \A j \in 1 .. i : s[j].type # "replay" /\ ~(s[j].type = "control" /\ s[j].who # "me")
  BY <1>2, <1>6 DEF Consumed
<1> QED  BY <1>6, <1>7, <1>8, <1>9, <1>10, <1>11, Zenon DEF Consumed, t

ReaderFolds == INSTANCE SequenceFolds WITH Op <- ConsumeFrame, Inv <- Consumed

\* The reader after one read.
LEMMA ConsumeAll ==
    ASSUME AttachAssumption, NEW b \in Readers, NEW s \in Seq(ClientFrames)
    PROVE  Consumed(b, s, Len(s), FoldLeft(ConsumeFrame, b, s))
<1>1. Consumed(b, s, 0, b)
  BY DEF Consumed
<1>2. Len(s) \in Nat /\ DOMAIN s = 1 .. Len(s)
  OBVIOUS
<1>3. \A i \in 1 .. Len(s) : \A r : Consumed(b, s, i - 1, r) => Consumed(b, s, i, ConsumeFrame(r, s[i]))
  BY <1>2, ConsumeStep
<1>4. Consumed(b, s, Len(s), ReaderFolds!Fold(b, s))
  BY <1>1, <1>2, <1>3, ReaderFolds!FoldInvariant, Zenon
<1>5. FoldLeft(ConsumeFrame, b, s) = ReaderFolds!Fold(b, s)
  BY Zenon DEF ReaderFolds!Fold, ReaderFolds!FoldLeft, ReaderFolds!MapThenFoldSet, ReaderFolds!Max, FoldLeft, MapThenFoldSet, Max
<1> QED  BY <1>4, <1>5

\* Concatenation of keys.
LEMMA KeysJoin ==
    /\ \A x, y \in Seq(Keys) : x \o y \in Seq(Keys)
    /\ \A x, y, z \in Seq(Keys) : (x \o y) \o z = x \o (y \o z)
  BY ConcatProperties, ConcatAssociative

\* What has become of the first i keys of a chunk, read by a client that is in control.
Processed(b, s, i, r) ==
    /\ r \in Processors
    /\ ~displaced => r.action # "take"
    /\ ~displaced /\ r.action = "none" => Held(b.armed) \o SubSeq(s, 1, i) = r.out \o Held(r.armed)

LEMMA SubSeqNext ==
    ASSUME NEW T, NEW s \in Seq(T), NEW i \in 1 .. Len(s)
    PROVE  /\ SubSeq(s, 1, i - 1) \in Seq(T) /\ s[i] \in T
           /\ SubSeq(s, 1, i) = SubSeq(s, 1, i - 1) \o <<s[i]>>
<1>1. /\ SubSeq(s, 1, i - 1) \in Seq(T) /\ Len(SubSeq(s, 1, i - 1)) = i - 1
      /\ \A j \in 1 .. i - 1 : SubSeq(s, 1, i - 1)[j] = s[j]
  OBVIOUS
<1>2. /\ SubSeq(s, 1, i) \in Seq(T) /\ Len(SubSeq(s, 1, i)) = i
      /\ \A j \in 1 .. i : SubSeq(s, 1, i)[j] = s[j]
  OBVIOUS
<1> DEFINE p == SubSeq(s, 1, i - 1)
           q == SubSeq(s, 1, i)
<1> HIDE DEF p, q
<1>3. s[i] \in T /\ <<s[i]>> \in Seq(T)
  OBVIOUS
<1>4. p \o <<s[i]>> \in Seq(T) /\ Len(p \o <<s[i]>>) = i
  BY <1>1, <1>3 DEF p
<1>5. \A j \in 1 .. i : (p \o <<s[i]>>)[j] = q[j]
  BY <1>1, <1>2, <1>3 DEF p, q
<1>6. q = p \o <<s[i]>>
  BY <1>2, <1>4, <1>5, SeqEqual DEF q
<1> QED  BY <1>1, <1>3, <1>6 DEF p, q

LEMMA ProcessOne ==
    ASSUME displaced \in BOOLEAN, NEW r \in Processors, NEW key \in Keys
    PROVE  LET t == ProcessKey(r, key) IN
             /\ t \in Processors
             /\ t.action = "none" => r.action = "none"
             /\ ~displaced /\ t.action = "take" => r.action = "take"
             /\ ~displaced /\ t.action = "none" =>
                  r.out \o Held(r.armed) \o <<key>> = t.out \o Held(t.armed)
<1> DEFINE t == ProcessKey(r, key)
<1>0. /\ r.out \in Seq(Keys) /\ r.armed \in BOOLEAN /\ <<key>> \in Seq(Keys)
      /\ <<"prefix">> \in Seq(Keys) /\ <<"prefix", key>> \in Seq(Keys)
  BY DEF Processors, Keys
<1>1. CASE r.action # "none"
  BY <1>1 DEF ProcessKey
<1>2. CASE r.action = "none" /\ r.armed
  <2>1. CASE key = "d" \/ displaced
    BY <1>0, <1>2, <2>1 DEF ProcessKey, Processors
  <2>2. CASE key # "d" /\ ~displaced
    <3>1. t = [r EXCEPT !.armed = FALSE, !.out = r.out \o <<"prefix", key>>]
      BY <1>2, <2>2 DEF ProcessKey
    <3> HIDE DEF t
    <3>2. r.out \o <<"prefix", key>> \in Seq(Keys)
      BY <1>0, ConcatProperties
    <3>3. t \in Processors /\ t.out = r.out \o <<"prefix", key>> /\ ~t.armed /\ t.action = r.action
      BY <3>1, <3>2 DEF Processors
    <3>4. <<"prefix">> \o <<key>> = <<"prefix", key>>
      <4> DEFINE c == <<"prefix">> \o <<key>>
      <4>1. c \in Seq(Keys) /\ Len(c) = 2 /\ c[1] = "prefix" /\ c[2] = key
        BY <1>0, ConcatProperties
      <4> HIDE DEF c
      <4>2. Len(<<"prefix", key>>) = 2 /\ \A i \in 1 .. 2 : c[i] = <<"prefix", key>>[i]
        BY <4>1
      <4> QED  BY <1>0, <4>1, <4>2, SeqEqual DEF c
    <3>5. r.out \o <<"prefix">> \o <<key>> = r.out \o <<"prefix", key>>
      BY <1>0, <3>4, ConcatAssociative
    <3>6. t.out \o Held(t.armed) = t.out
      BY <3>2, <3>3, ConcatEmptySeq DEF Held
    <3> QED  BY <1>2, <3>3, <3>5, <3>6 DEF t, Held
  <2> QED  BY <2>1, <2>2
<1>3. CASE r.action = "none" /\ ~r.armed
  <2>1. CASE key = "prefix"
    <3>1. t = [r EXCEPT !.armed = TRUE]
      BY <1>3, <2>1 DEF ProcessKey
    <3>2. r.out \o <<>> = r.out
      BY <1>0, ConcatEmptySeq
    <3> QED  BY <1>0, <1>3, <2>1, <3>1, <3>2 DEF Held, Processors
  <2>2. CASE key # "prefix" /\ displaced
    BY <1>0, <1>3, <2>2 DEF ProcessKey, Processors
  <2>3. CASE key # "prefix" /\ ~displaced
    <3>1. t = [r EXCEPT !.out = Append(r.out, key)]
      BY <1>3, <2>3 DEF ProcessKey
    <3> HIDE DEF t
    <3>2. Append(r.out, key) = r.out \o <<key>> /\ r.out \o <<key>> \in Seq(Keys)
      BY <1>0, AppendIsConcat, ConcatProperties
    <3>3. t \in Processors /\ t.out = r.out \o <<key>> /\ ~t.armed /\ t.action = r.action
      BY <1>3, <3>1, <3>2 DEF Processors
    <3>4. r.out \o <<>> = r.out /\ t.out \o <<>> = t.out
      BY <1>0, <3>2, <3>3, ConcatEmptySeq
    <3> QED  BY <1>3, <3>3, <3>4 DEF t, Held
  <2> QED  BY <2>1, <2>2, <2>3
<1> QED  BY <1>0, <1>1, <1>2, <1>3 DEF Processors

KeyFolds == INSTANCE SequenceFolds WITH Op <- ProcessKey, Inv <- Processed

\* A read of keys, whatever was held back before it.
LEMMA ProcessAll ==
    ASSUME displaced \in BOOLEAN, input.armed \in BOOLEAN, NEW chunk \in Seq(Keys)
    PROVE  LET p == Process(chunk) IN
             /\ p \in Processors
             /\ ~displaced => p.action # "take"
             /\ ~displaced /\ p.action = "none" => Held(input.armed) \o chunk = p.out \o Held(p.armed)
<1> DEFINE b == [armed |-> input.armed, out |-> <<>>, action |-> "none"]
<1>1. Len(chunk) \in Nat /\ DOMAIN chunk = 1 .. Len(chunk)
  OBVIOUS
<1>2. b \in Processors /\ b.action = "none" /\ b.out = <<>> /\ b.armed = input.armed
  BY DEF Processors
<1> HIDE DEF b
<1>3. Held(input.armed) \in Seq(Keys)
  <2>1. <<>> \in Seq(Keys) /\ <<"prefix">> \in Seq(Keys)
    BY DEF Keys
  <2> QED  BY <2>1, Zenon DEF Held
<1>4. Processed(b, chunk, 0, b)
  <2>1. SubSeq(chunk, 1, 0) = <<>>
    OBVIOUS
  <2>2. Held(input.armed) \o <<>> = <<>> \o Held(input.armed)
    BY <1>3, ConcatEmptySeq
  <2> QED  BY <1>2, <2>1, <2>2 DEF Processed
<1>5. ASSUME NEW i \in 1 .. Len(chunk), NEW r, Processed(b, chunk, i - 1, r)
      PROVE  Processed(b, chunk, i, ProcessKey(r, chunk[i]))
  <2> DEFINE t == ProcessKey(r, chunk[i])
             pre == SubSeq(chunk, 1, i - 1)
  <2>1. r \in Processors /\ chunk[i] \in Keys
    BY <1>5 DEF Processed
  <2>2. pre \in Seq(Keys) /\ SubSeq(chunk, 1, i) = pre \o <<chunk[i]>> /\ <<chunk[i]>> \in Seq(Keys)
    BY <2>1, SubSeqNext
  <2>3. /\ t \in Processors
        /\ t.action = "none" => r.action = "none"
        /\ ~displaced /\ t.action = "take" => r.action = "take"
        /\ ~displaced /\ t.action = "none" =>
             r.out \o Held(r.armed) \o <<chunk[i]>> = t.out \o Held(t.armed)
    BY <2>1, ProcessOne, Zenon
  <2> HIDE DEF t, pre
  <2>4. ASSUME ~displaced, t.action = "none"
        PROVE  Held(b.armed) \o SubSeq(chunk, 1, i) = t.out \o Held(t.armed)
    <3>1. Held(b.armed) \o pre = r.out \o Held(r.armed)
      BY <1>5, <2>3, <2>4, Zenon DEF Processed, pre
    <3>2. Held(b.armed) \o (pre \o <<chunk[i]>>) = (Held(b.armed) \o pre) \o <<chunk[i]>>
      <4> DEFINE a == Held(b.armed)
                 c == <<chunk[i]>>
      <4>1. a \in Seq(Keys) /\ pre \in Seq(Keys) /\ c \in Seq(Keys)
        BY <1>2, <1>3, <2>2
      <4> HIDE DEF a, c
      <4>2. a \o (pre \o c) = (a \o pre) \o c
        BY <4>1, KeysJoin, ZenonT(60)
      <4> QED  BY <4>2 DEF a, c
    <3> QED  BY <2>2, <2>3, <2>4, <3>1, <3>2, Zenon
  <2> QED  BY <1>5, <2>3, <2>4, Zenon DEF Processed, t
<1>6. Processed(b, chunk, Len(chunk), KeyFolds!Fold(b, chunk))
  BY <1>1, <1>4, <1>5, KeyFolds!FoldInvariant, Zenon
<1>7. FoldLeft(ProcessKey, b, chunk) = KeyFolds!Fold(b, chunk)
  BY Zenon DEF KeyFolds!Fold, KeyFolds!FoldLeft, KeyFolds!MapThenFoldSet, KeyFolds!Max, FoldLeft, MapThenFoldSet, Max
<1>8. Process(chunk) = KeyFolds!Fold(b, chunk)
  BY <1>7, Zenon DEF Process, b
<1>9. SubSeq(chunk, 1, Len(chunk)) = chunk
  OBVIOUS
<1> QED  BY <1>2, <1>6, <1>8, <1>9, Zenon DEF Processed


LEMMA TypingFlat == \A s : FlattenSeq(s) = KeyFolds!Flat(s)
  BY Zenon DEF KeyFolds!Flat, KeyFolds!FlattenSeq, FlattenSeq

LEMMA TypingEnds ==
    ASSUME NEW s \in Seq(DaemonFrames)
    PROVE  /\ Typing(s) \in Seq(Keys) /\ Typing(<<>>) = <<>>
           /\ \A f \in DaemonFrames : KeysOf(f) \in Seq(Keys) /\ Typing(Append(s, f)) = Typing(s) \o KeysOf(f)
           /\ s # <<>> => Typing(Tail(s)) \in Seq(Keys) /\ Typing(s) = KeysOf(Head(s)) \o Typing(Tail(s))
<1> DEFINE keys(t) == [i \in DOMAIN t |-> IF t[i].type = "input" THEN t[i].keys ELSE <<>>]
<1>1. \A f \in DaemonFrames : KeysOf(f) \in Seq(Keys)
  BY DEF DaemonFrames, KeysOf
<1>2. \A t \in Seq(DaemonFrames) : /\ keys(t) \in Seq(Seq(Keys)) /\ Len(keys(t)) = Len(t)
                                   /\ \A i \in 1 .. Len(t) : keys(t)[i] = KeysOf(t[i])
  <2> SUFFICES ASSUME NEW t \in Seq(DaemonFrames)
               PROVE  /\ keys(t) \in Seq(Seq(Keys)) /\ Len(keys(t)) = Len(t)
                      /\ \A i \in 1 .. Len(t) : keys(t)[i] = KeysOf(t[i])
    OBVIOUS
  <2>1. DOMAIN t = 1 .. Len(t) /\ Len(t) \in Nat /\ \A i \in 1 .. Len(t) : t[i] \in DaemonFrames
    OBVIOUS
  <2>2. keys(t) = [i \in 1 .. Len(t) |-> KeysOf(t[i])]
    BY <2>1, Zenon DEF KeysOf
  <2> HIDE DEF keys
  <2> QED  BY <1>1, <2>1, <2>2
<1>3. \A t : Typing(t) = KeyFolds!Flat(keys(t))
  BY TypingFlat, Zenon DEF Typing
<1> HIDE DEF keys
<1>4. Typing(<<>>) = <<>>
  <2>1. <<>> \in Seq(DaemonFrames) /\ Len(<<>>) = 0
    OBVIOUS
  <2>2. keys(<<>>) \in Seq(Seq(Keys)) /\ Len(keys(<<>>)) = 0
    BY <1>2, <2>1
  <2>3. keys(<<>>) = <<>>
    BY <2>2
  <2> QED  BY <1>3, <2>3 DEF KeyFolds!Flat, KeyFolds!FlattenSeq
<1>5. ASSUME NEW f \in DaemonFrames
      PROVE  Typing(s) \in Seq(Keys) /\ Typing(Append(s, f)) = Typing(s) \o KeysOf(f)
  <2> DEFINE t == Append(s, f)
  <2>1. t \in Seq(DaemonFrames) /\ Len(t) = Len(s) + 1 /\ t[Len(s) + 1] = f /\ \A i \in 1 .. Len(s) : t[i] = s[i]
    OBVIOUS
  <2> HIDE DEF t
  <2>2. keys(t) = Append(keys(s), KeysOf(f))
    <3>1. /\ keys(t) \in Seq(Seq(Keys)) /\ Len(keys(t)) = Len(s) + 1
          /\ \A i \in 1 .. Len(s) + 1 : keys(t)[i] = KeysOf(t[i])
      BY <1>2, <2>1
    <3>2. keys(s) \in Seq(Seq(Keys)) /\ Len(keys(s)) = Len(s) /\ \A i \in 1 .. Len(s) : keys(s)[i] = KeysOf(s[i])
      BY <1>2
    <3> DEFINE a == Append(keys(s), KeysOf(f))
    <3>3. /\ a \in Seq(Seq(Keys)) /\ Len(a) = Len(s) + 1
          /\ a[Len(s) + 1] = KeysOf(f) /\ \A i \in 1 .. Len(s) : a[i] = keys(s)[i]
      BY <1>1, <3>2, AppendProperties
    <3> HIDE DEF a
    <3>4. \A i \in 1 .. Len(s) + 1 : keys(t)[i] = a[i]
      <4> SUFFICES ASSUME NEW i \in 1 .. Len(s) + 1 PROVE keys(t)[i] = a[i]
        OBVIOUS
      <4>1. CASE i = Len(s) + 1
        BY <2>1, <3>1, <3>3, <4>1
      <4>2. CASE i # Len(s) + 1
        <5>1. i \in 1 .. Len(s)
          BY <4>2
        <5> QED  BY <2>1, <3>1, <3>2, <3>3, <5>1
      <4> QED  BY <4>1, <4>2
    <3> QED  BY <3>1, <3>3, <3>4, SeqEqual DEF a
  <2>3. keys(s) \in Seq(Seq(Keys)) /\ KeysOf(f) \in Seq(Keys)
    BY <1>1, <1>2
  <2> QED  BY <1>3, <2>2, <2>3, KeyFolds!FlattenAppend DEF t
<1>6. ASSUME s # <<>>
      PROVE  Typing(Tail(s)) \in Seq(Keys) /\ Typing(s) = KeysOf(Head(s)) \o Typing(Tail(s))
  <2> DEFINE t == Tail(s)
  <2>1. /\ t \in Seq(DaemonFrames) /\ Len(s) = Len(t) + 1 /\ \A i \in 1 .. Len(t) : t[i] = s[i + 1]
        /\ Head(s) = s[1] /\ Len(t) \in Nat
    BY <1>6
  <2> HIDE DEF t
  <2>2. keys(s) \in Seq(Seq(Keys)) /\ Len(keys(s)) = Len(t) + 1 /\ \A i \in 1 .. Len(t) + 1 : keys(s)[i] = KeysOf(s[i])
    BY <1>2, <2>1
  <2>3. keys(t) \in Seq(Seq(Keys)) /\ Len(keys(t)) = Len(t) /\ \A i \in 1 .. Len(t) : keys(t)[i] = KeysOf(t[i])
    BY <1>2, <2>1
  <2>4. keys(s) # <<>> /\ Head(keys(s)) = KeysOf(Head(s))
    BY <2>1, <2>2
  <2>5. Tail(keys(s)) = keys(t)
    <3> DEFINE a == Tail(keys(s))
    <3>1. a \in Seq(Seq(Keys)) /\ Len(a) = Len(t) /\ \A i \in 1 .. Len(t) : a[i] = keys(s)[i + 1]
      BY <2>1, <2>2, <2>4
    <3> HIDE DEF a
    <3>2. \A i \in 1 .. Len(t) : a[i] = keys(t)[i]
      BY <2>1, <2>2, <2>3, <3>1
    <3> QED  BY <2>3, <3>1, <3>2, SeqEqual DEF a
  <2> QED  BY <1>3, <2>2, <2>4, <2>5, KeyFolds!FlattenHead DEF t
<1>7. \E f : f \in DaemonFrames
  <2>1. [type |-> "take"] \in DaemonFrames
    BY DEF DaemonFrames
  <2> QED  BY <2>1
<1> QED  BY <1>1, <1>4, <1>5, <1>6, <1>7

\* A frame at the end.
LEMMA FrameAdded ==
    ASSUME NEW T, NEW s \in Seq(T), NEW f
    PROVE  LET t == Append(s, f) IN
             /\ \A k : Among(t, k) <=> Among(s, k) \/ f.type = k
             /\ TakenAway(t) <=> TakenAway(s) \/ (f.type = "control" /\ f.who # "me")
             /\ \A before, out : f.type # "control" /\ Ends(s, before, out) => Ends(t, before, out)
             /\ \A before, out : f.type = "control" /\ (f.who # "me" <=> out) => Ends(t, before, out)
<1> DEFINE t == Append(s, f)
<1>1. Len(s) \in Nat /\ Len(t) = Len(s) + 1 /\ t[Len(s) + 1] = f /\ \A i \in 1 .. Len(s) : t[i] = s[i]
  <2>1. s \in Seq(T \cup {f}) /\ f \in T \cup {f}
    OBVIOUS
  <2> QED  BY <2>1, AppendProperties, LenProperties
<1> HIDE DEF t
<1>2. /\ \A i \in 1 .. Len(t) : i \in 1 .. Len(s) \/ i = Len(t)
      /\ \A i \in 1 .. Len(s) : i \in 1 .. Len(t)
      /\ Len(t) \in 1 .. Len(t) /\ Len(t) + 1 .. Len(t) = {} /\ t[Len(t)] = f
      /\ \A i \in 1 .. Len(s) : \A j \in i + 1 .. Len(t) : j \in i + 1 .. Len(s) \/ j = Len(t)
  BY <1>1
<1>3. \A k : Among(t, k) <=> Among(s, k) \/ f.type = k
  BY <1>1, <1>2 DEF Among
<1>4. TakenAway(t) <=> TakenAway(s) \/ (f.type = "control" /\ f.who # "me")
  <2> DEFINE Away(g) == g.type = "control" /\ g.who # "me"
  <2>1. (\E i \in 1 .. Len(t) : Away(t[i])) <=> (\E i \in 1 .. Len(s) : Away(s[i])) \/ Away(f)
    <3> HIDE DEF Away
    <3> QED  BY <1>1, <1>2
  <2>2. TakenAway(t) <=> \E i \in 1 .. Len(t) : Away(t[i])
    BY DEF TakenAway
  <2>3. TakenAway(s) <=> \E i \in 1 .. Len(s) : Away(s[i])
    BY DEF TakenAway
  <2>4. Away(f) <=> f.type = "control" /\ f.who # "me"
    OBVIOUS
  <2> HIDE DEF Away
  <2> QED  BY <2>1, <2>2, <2>3, <2>4, Zenon
<1>5. ASSUME NEW before, NEW out, f.type # "control", Ends(s, before, out)
      PROVE  Ends(t, before, out)
  <2>1. CASE ~Among(s, "control") /\ (before <=> out)
    BY <1>3, <1>5, <2>1, Zenon DEF Ends
  <2>2. ASSUME NEW i \in 1 .. Len(s), s[i].type = "control", s[i].who # "me" <=> out,
               \A j \in i + 1 .. Len(s) : s[j].type # "control"
        PROVE  Ends(t, before, out)
    <3>1. i \in 1 .. Len(t) /\ t[i] = s[i]
      BY <1>1, <1>2
    <3>2. \A j \in i + 1 .. Len(t) : t[j].type # "control"
      <4> SUFFICES ASSUME NEW j \in i + 1 .. Len(t) PROVE t[j].type # "control"
        OBVIOUS
      <4>1. j \in i + 1 .. Len(s) \/ j = Len(t)
        BY <1>2
      <4>2. j \in i + 1 .. Len(s) => j \in 1 .. Len(s)
        BY <1>1
      <4> QED  BY <1>1, <1>2, <1>5, <2>2, <4>1, <4>2
    <3> QED  BY <2>2, <3>1, <3>2, Zenon DEF Ends
  <2> QED  BY <1>5, <2>1, <2>2, Zenon DEF Ends
<1>6. ASSUME f.type = "control", NEW before, NEW out, f.who # "me" <=> out
      PROVE  Ends(t, before, out)
  <2>1. \A j \in Len(t) + 1 .. Len(t) : FALSE
    BY <1>2
  <2> QED  BY <1>2, <1>6, <2>1, Zenon DEF Ends
<1> QED  BY <1>3, <1>4, <1>5, <1>6, Zenon DEF t

\* Frames taken from the front.
LEMMA FramesLeft ==
    ASSUME NEW T, NEW s \in Seq(T), NEW n \in 1 .. Len(s)
    PROVE  LET p == SubSeq(s, 1, n)
               t == SubSeq(s, n + 1, Len(s))
           IN  /\ p \in Seq(T) /\ Len(p) = n /\ \A i \in 1 .. n : p[i] = s[i]
               /\ t \in Seq(T) /\ Len(t) = Len(s) - n
               /\ \A i \in 1 .. Len(t) : t[i] = s[n + i] /\ n + i \in 1 .. Len(s)
               /\ \A i \in 1 .. Len(s) : i \in 1 .. n \/ (i - n \in 1 .. Len(t) /\ t[i - n] = s[i])
<1> DEFINE p == SubSeq(s, 1, n)
           t == SubSeq(s, n + 1, Len(s))
<1>1. Len(s) \in Nat /\ n \in Nat /\ n >= 1 /\ n =< Len(s) /\ \A i \in 1 .. Len(s) : s[i] \in T
  OBVIOUS
<1>2. p \in Seq(T) /\ Len(p) = n /\ \A i \in 1 .. n : p[i] = s[i]
  OBVIOUS
<1>3. t \in Seq(T) /\ Len(t) = Len(s) - n
  <2>1. \A i \in n + 1 .. Len(s) : s[i] \in T
    BY <1>1
  <2>2. /\ t \in Seq(T)
        /\ Len(t) = IF n + 1 =< Len(s) THEN Len(s) - (n + 1) + 1 ELSE 0
    BY <1>1, <2>1, SubSeqProperties
  <2> QED  BY <1>1, <2>2
<1>4. \A i \in 1 .. Len(s) - n : t[i] = s[n + i]
  <2>1. \A i \in n + 1 .. Len(s) : s[i] \in T
    BY <1>1
  <2>2. \A i \in 1 .. Len(s) - (n + 1) + 1 : t[i] = s[(n + 1) + i - 1]
    BY <1>1, <2>1, SubSeqProperties
  <2> HIDE DEF t
  <2>3. \A i \in 1 .. Len(s) - n : i \in 1 .. Len(s) - (n + 1) + 1 /\ (n + 1) + i - 1 = n + i
    BY <1>1
  <2> QED  BY <2>2, <2>3
<1> HIDE DEF p, t
<1>5. \A i \in 1 .. Len(t) : t[i] = s[n + i] /\ n + i \in 1 .. Len(s)
  BY <1>1, <1>3, <1>4
<1>6. \A i \in 1 .. Len(s) : i \in 1 .. n \/ (i - n \in 1 .. Len(t) /\ n + (i - n) = i)
  BY <1>1, <1>3
<1>7. \A i \in 1 .. Len(s) : i \in 1 .. n \/ (i - n \in 1 .. Len(t) /\ t[i - n] = s[i])
  <2> SUFFICES ASSUME NEW i \in 1 .. Len(s), i \notin 1 .. n
               PROVE  i - n \in 1 .. Len(t) /\ t[i - n] = s[i]
    BY Zenon
  <2> DEFINE m == i - n
  <2>1. m \in 1 .. Len(t) /\ n + m = i
    BY <1>6
  <2> HIDE DEF m
  <2>2. t[m] = s[i]
    BY <1>5, <2>1
  <2> QED  BY <2>1, <2>2 DEF m
<1> QED  BY <1>2, <1>3, <1>5, <1>7, Zenon DEF p, t

\* The frames that a client sends: what they leave to be typed.
LEMMA FrameSent ==
    ASSUME NEW s \in Seq(DaemonFrames), NEW f \in DaemonFrames
    PROVE  LET t == Append(s, f) IN
             /\ t \in Seq(DaemonFrames) /\ t # <<>>
             /\ s # <<>> => Head(t) = Head(s)
             /\ f.type # "input" => Typing(t) = Typing(s)
             /\ f.type = "input" => f.keys \in Seq(Keys) /\ Typing(t) = Typing(s) \o f.keys
             /\ \A k : Among(t, k) <=> Among(s, k) \/ f.type = k
<1>1. Append(s, f) \in Seq(DaemonFrames) /\ Append(s, f) # <<>>
  BY AppendProperties
<1>2. s # <<>> => Head(Append(s, f)) = Head(s)
  BY HeadTailAppend
<1>3. Typing(s) \in Seq(Keys) /\ Typing(Append(s, f)) = Typing(s) \o KeysOf(f) /\ KeysOf(f) \in Seq(Keys)
  BY TypingEnds
<1>4. Typing(s) \o <<>> = Typing(s)
  BY <1>3, ConcatEmptySeq
<1>5. \A k : Among(Append(s, f), k) <=> Among(s, k) \/ f.type = k
  BY FrameAdded, Zenon
<1> QED  BY <1>1, <1>2, <1>3, <1>4, <1>5 DEF KeysOf

LEMMA AttachInitial == AttachInit => AttachIInv
<1> SUFFICES ASSUME AttachInit PROVE AttachIInv
  OBVIOUS
<1> USE AttachAssumption
<1> DEFINE e == [type |-> "resize", size |-> 1]
<1>1. e \in DaemonFrames /\ e.type = "resize"
  BY DEF DaemonFrames
<1>2. toDaemon = Append(<<>>, e) /\ toClient = <<>> /\ Len(toClient) = 0
  <2>1. Append(<<>>, e) = <<e>>
    OBVIOUS
  <2> QED  BY <2>1 DEF AttachInit
<1> HIDE DEF e
<1>3. /\ <<>> \in Seq(DaemonFrames) /\ toClient \in Seq(ClientFrames) /\ <<>> \in Seq(Keys)
  BY <1>2
<1>4. toDaemon \in Seq(DaemonFrames) /\ toDaemon # <<>> /\ Typing(toDaemon) = <<>> /\ Head(toDaemon) = e
  BY <1>1, <1>2, <1>3, FrameSent, TypingEnds, HeadTailAppend
<1>5. AttachTypes
  <2>1. 1 \in 1 .. MaxSizes /\ 0 \in 0 .. MaxSizes /\ 0 \in 0 .. MaxHandovers /\ 0 =< MaxQueue /\ 0 =< MaxQueue + 2
    OBVIOUS
  <2>2. input \in Inputs
    BY <2>1 DEF AttachInit, Inputs
  <2>3. AttachTypeOK
    BY <1>2, <1>3, <2>1 DEF AttachInit, AttachTypeOK
  <2> QED  BY <1>2, <1>3, <1>4, <2>1, <2>2, <2>3 DEF AttachTypes
<1>6. Joining /\ Gate /\ Endings /\ Undisturbed
  <2>1. Joining
    BY <1>1, <1>2, <1>4 DEF AttachInit, Joining
  <2>2. ~Among(toClient, "exit") /\ ~Among(toClient, "eof") /\ ~TakenAway(toClient) /\ \A i \in 1 .. Len(toClient) : FALSE
    BY <1>2 DEF Among, TakenAway
  <2>3. /\ over = "runs" /\ knownSize = 0 /\ readerDone = FALSE /\ displaced = FALSE
        /\ input.how = "none" /\ mine = (owner = "me")
    BY DEF AttachInit
  <2> QED  BY <2>1, <2>2, <2>3 DEF Gate, Endings, Undisturbed
<1>7. KeysTrue
  <2>1. <<>> \o <<>> = <<>>
    BY <1>3, ConcatEmptySeq
  <2>2. typed = <<>> /\ ptyInput = <<>> /\ input.armed = FALSE
    BY DEF AttachInit
  <2> QED  BY <1>4, <2>1, <2>2 DEF KeysTrue, Held
<1> QED  BY <1>5, <1>6, <1>7 DEF AttachIInv

\* The daemon reads a frame of the client's.
LEMMA AttachReceived ==
    ASSUME AttachIInv, DaemonReceives
    PROVE  AttachIInv'
<1> USE AttachAssumption
<1> DEFINE f == Head(toDaemon)
<1>1. /\ over = "runs" /\ over' = "runs" /\ toDaemon # <<>> /\ Len(toClient) + 2 =< MaxQueue
      /\ toDaemon' = Tail(toDaemon)
      /\ UNCHANGED <<mine, handovers, polls, screen, exitCode, readerDone, displaced, input, size, typed>>
  BY DEF DaemonReceives, UnchangedByDaemon, Roomy
<1>2. /\ f \in DaemonFrames /\ toDaemon' \in Seq(DaemonFrames)
      /\ \A i \in 1 .. Len(toDaemon) : (i = 1 /\ toDaemon[i] = f) \/ (i - 1 \in 1 .. Len(toDaemon') /\ toDaemon'[i - 1] = toDaemon[i])
  <2>1. toDaemon \in Seq(DaemonFrames)
    BY DEF AttachIInv, AttachTypes
  <2>2. /\ f \in DaemonFrames /\ f = toDaemon[1] /\ Tail(toDaemon) \in Seq(DaemonFrames)
        /\ Len(Tail(toDaemon)) = Len(toDaemon) - 1
        /\ \A i \in 1 .. Len(Tail(toDaemon)) : Tail(toDaemon)[i] = toDaemon[i + 1]
    BY <1>1, <2>1, HeadTailProperties
  <2> SUFFICES ASSUME NEW i \in 1 .. Len(toDaemon), i # 1
               PROVE  i - 1 \in 1 .. Len(toDaemon') /\ toDaemon'[i - 1] = toDaemon[i]
    BY <1>1, <2>2
  <2> DEFINE m == i - 1
  <2>3. Len(toDaemon) \in Nat
    BY <2>1
  <2>4. m \in 1 .. Len(Tail(toDaemon)) /\ m + 1 = i
    BY <2>2, <2>3
  <2> HIDE DEF m
  <2>5. toDaemon'[m] = toDaemon[i]
    BY <1>1, <2>2, <2>4
  <2> QED  BY <1>1, <2>4, <2>5 DEF m
<1>3. /\ knownSize' = IF f.type = "resize" THEN f.size ELSE knownSize
      /\ ptyInput' = IF f.type = "input" /\ owner = "me" THEN ptyInput \o f.keys ELSE ptyInput
      /\ owner' = IF f.type = "take" THEN "me" ELSE owner
      /\ toClient' = toClient \o
           CASE f.type = "resize" /\ knownSize = 0 -> <<Frame("replay"), Control(owner)>>
             [] f.type = "take" -> <<Control("me")>>
             [] f.type = "replay" -> <<Frame("replay")>>
             [] OTHER -> <<>>
  BY DEF DaemonReceives
<1> HIDE DEF f
<1>4. /\ toClient \in Seq(ClientFrames) /\ Frame("replay") \in ClientFrames /\ owner \in Surfaces
      /\ Control("me") \in ClientFrames /\ Control(owner) \in ClientFrames
      /\ Frame("replay").type = "replay"
      /\ Control("me").type = "control" /\ Control("me").who = "me"
      /\ Control(owner).type = "control" /\ Control(owner).who = owner
  BY DEF AttachIInv, AttachTypes, AttachTypeOK, ClientFrames, Frame, Control, Surfaces
<1>5. \/ /\ f.type = "resize" /\ knownSize = 0
         /\ toClient' = Append(Append(toClient, Frame("replay")), Control(owner))
      \/ f.type = "take" /\ toClient' = Append(toClient, Control("me"))
      \/ f.type = "replay" /\ toClient' = Append(toClient, Frame("replay"))
      \/ /\ f.type = "input" \/ (f.type = "resize" /\ knownSize # 0)
         /\ toClient' = toClient
  <2>1. /\ toClient \o <<>> = toClient
        /\ \A g \in ClientFrames : toClient \o <<g>> = Append(toClient, g)
    BY <1>4, AppendIsConcat, ConcatEmptySeq
  <2>2. toClient \o <<Frame("replay"), Control(owner)>> = Append(Append(toClient, Frame("replay")), Control(owner))
    <3> DEFINE g == Frame("replay")
               c == Control(owner)
    <3>1. g \in ClientFrames /\ c \in ClientFrames
      BY <1>4
    <3> HIDE DEF g, c
    <3>2. toClient \o <<g, c>> = Append(Append(toClient, g), c)
      BY <1>4, <3>1
    <3> QED  BY <3>2 DEF g, c
  <2>3. f.type \in {"resize", "input", "take", "replay"}
    BY <1>2 DEF DaemonFrames
  <2> QED  BY <1>3, <1>4, <2>1, <2>2, <2>3
<1>6. AttachTypes'
  <2>1. toClient' \in Seq(ClientFrames) /\ Len(toClient') =< MaxQueue
    <3>1. \A s \in Seq(ClientFrames) : \A g \in ClientFrames :
            Append(s, g) \in Seq(ClientFrames) /\ Len(Append(s, g)) = Len(s) + 1 /\ Len(s) \in Nat
      BY AppendProperties, LenProperties
    <3>2. toClient' \in Seq(ClientFrames) /\ Len(toClient') =< Len(toClient) + 2
      BY <1>4, <1>5, <3>1
    <3> QED  BY <1>1, <1>4, <3>1, <3>2
  <2>2. knownSize' \in 0 .. MaxSizes
    BY <1>2, <1>3 DEF AttachIInv, AttachTypes, AttachTypeOK, DaemonFrames
  <2>3. ptyInput' \in Seq(Keys)
    <3>1. f.type = "input" => f.keys \in Seq(Keys)
      BY <1>2 DEF DaemonFrames
    <3> QED  BY <1>3, <3>1, ConcatProperties DEF AttachIInv, AttachTypes, AttachTypeOK
  <2>4. owner' \in Surfaces
    BY <1>3, <1>4 DEF Surfaces
  <2>5. AttachTypeOK'
    BY <1>1, <2>1, <2>2, <2>3, <2>4 DEF AttachIInv, AttachTypes, AttachTypeOK, Surfaces
  <2> QED  BY <1>1, <1>2, <2>1, <2>5 DEF AttachIInv, AttachTypes
<1>7. Joining'
  <2>1. knownSize' # 0
    BY <1>1, <1>2, <1>3 DEF AttachIInv, Joining, DaemonFrames, f
  <2> QED  BY <2>1 DEF Joining
<1>8. /\ ~Among(toClient, "exit") /\ ~Among(toClient, "eof")
      /\ ~(readerDone /\ input.pc \notin {"left", "returned"}) /\ input.how # "done"
      /\ input.how # "none" => input.pc \in {"stop", "left", "returned"}
  BY <1>1 DEF AttachIInv, Endings
<1>9. f.type # "resize" => knownSize # 0
  BY <1>1, <1>2 DEF AttachIInv, Joining, f
<1>10. f.type # "replay" /\ Among(toDaemon, "replay") => Among(toDaemon', "replay")
  BY <1>2 DEF Among
<1>11. /\ ~Among(toClient', "exit") /\ ~Among(toClient', "eof") /\ Gate'
       /\ mine => ~TakenAway(toClient')
  <2> DEFINE a == Append(toClient, Frame("replay"))
  <2>0. /\ displaced => screen = "notice"
        /\ knownSize # 0 => Ends(toClient, displaced, owner # "me")
        /\ knownSize # 0 /\ ~displaced /\ screen # "live" =>
             Among(toClient, "replay") \/ TakenAway(toClient) \/ Among(toDaemon, "replay")
        /\ mine => owner = "me" /\ ~TakenAway(toClient)
    BY <1>1, Zenon DEF AttachIInv, Gate, Undisturbed
  <2>1. /\ a \in Seq(ClientFrames)
        /\ \A k : Among(a, k) <=> Among(toClient, k) \/ k = "replay"
        /\ TakenAway(a) <=> TakenAway(toClient)
        /\ \A before, out : Ends(toClient, before, out) => Ends(a, before, out)
    <3> DEFINE g == Frame("replay")
    <3>1. g \in ClientFrames /\ g.type = "replay"
      BY <1>4
    <3> HIDE DEF g
    <3>2. Append(toClient, g) \in Seq(ClientFrames)
      BY <1>4, <3>1, AppendProperties
    <3>3. /\ \A k : Among(Append(toClient, g), k) <=> Among(toClient, k) \/ g.type = k
          /\ TakenAway(Append(toClient, g)) <=> TakenAway(toClient) \/ (g.type = "control" /\ g.who # "me")
          /\ \A before, out : g.type # "control" /\ Ends(toClient, before, out) => Ends(Append(toClient, g), before, out)
      BY <1>4, FrameAdded, Zenon
    <3>4. a = Append(toClient, g)
      BY DEF g
    <3> QED  BY <3>1, <3>2, <3>3, <3>4
  <2>2. ASSUME NEW s \in Seq(ClientFrames), NEW who \in Surfaces, Control(who).type = "control", Control(who).who = who
        PROVE  /\ \A k : Among(Append(s, Control(who)), k) <=> Among(s, k) \/ k = "control"
               /\ TakenAway(Append(s, Control(who))) <=> TakenAway(s) \/ who # "me"
               /\ \A before, out : (who # "me" <=> out) => Ends(Append(s, Control(who)), before, out)
    <3> DEFINE g == Control(who)
    <3> HIDE DEF g
    <3>1. /\ \A k : Among(Append(s, g), k) <=> Among(s, k) \/ g.type = k
          /\ TakenAway(Append(s, g)) <=> TakenAway(s) \/ (g.type = "control" /\ g.who # "me")
          /\ \A before, out : g.type = "control" /\ (g.who # "me" <=> out) => Ends(Append(s, g), before, out)
      BY FrameAdded, Zenon
    <3>2. g.type = "control" /\ g.who = who
      BY <2>2 DEF g
    <3> QED  BY <3>1, <3>2 DEF g
  <2> HIDE DEF a
  <2>3. CASE f.type = "resize" /\ knownSize = 0 /\ toClient' = Append(a, Control(owner))
    <3>2. /\ \A k : Among(toClient', k) <=> Among(a, k) \/ k = "control"
          /\ TakenAway(toClient') <=> TakenAway(a) \/ owner # "me"
          /\ \A before, out : (owner # "me" <=> out) => Ends(toClient', before, out)
      BY <1>4, <2>1, <2>2, <2>3
    <3>3. Gate'
      BY <1>1, <1>3, <2>0, <2>1, <2>3, <3>2 DEF Gate
    <3> QED  BY <1>8, <2>0, <2>1, <3>2, <3>3
  <2>4. CASE f.type = "take" /\ toClient' = Append(toClient, Control("me"))
    <3>1. "me" \in Surfaces /\ owner' = "me"
      BY <1>3, <2>4 DEF Surfaces
    <3>2. /\ \A k : Among(toClient', k) <=> Among(toClient, k) \/ k = "control"
          /\ TakenAway(toClient') <=> TakenAway(toClient)
          /\ Ends(toClient', displaced, FALSE)
      BY <1>4, <2>2, <2>4, <3>1
    <3>3. Gate'
      <4>1. Ends(toClient', displaced', owner' # "me")
        BY <1>1, <3>1, <3>2 DEF Ends
      <4> QED  BY <1>1, <1>9, <1>10, <2>0, <2>4, <3>2, <4>1 DEF Gate
    <3> QED  BY <1>8, <2>0, <3>2, <3>3
  <2>5. CASE f.type = "replay" /\ toClient' = a
    <3>1. owner' = owner /\ knownSize' = knownSize
      BY <1>3, <2>5
    <3>2. Gate'
      BY <1>1, <2>0, <2>1, <2>5, <3>1 DEF Gate
    <3> QED  BY <1>8, <2>0, <2>1, <2>5, <3>2
  <2>6. CASE (f.type = "input" \/ (f.type = "resize" /\ knownSize # 0)) /\ toClient' = toClient
    <3>1. owner' = owner /\ knownSize # 0
      BY <1>3, <1>9, <2>6
    <3>2. Gate'
      BY <1>1, <1>10, <2>0, <2>6, <3>1 DEF Gate
    <3> QED  BY <1>8, <2>0, <2>6, <3>2
  <2> QED  BY <1>5, <2>3, <2>4, <2>5, <2>6 DEF a
<1>12. Endings'
  BY <1>1, <1>8, <1>11 DEF Endings, Among
<1>13. Undisturbed'
  BY <1>1, <1>3, <1>11 DEF AttachIInv, Undisturbed
<1>14. KeysTrue'
  <2> DEFINE rest == Typing(toDaemon')
             held == Held(input.armed)
  <2>1. /\ Typing(toDaemon) = KeysOf(f) \o rest /\ rest \in Seq(Keys) /\ ptyInput \in Seq(Keys)
        /\ KeysOf(f) \in Seq(Keys)
    BY <1>1, <1>2, TypingEnds DEF AttachIInv, AttachTypes, AttachTypeOK, f
  <2>2. SUFFICES ASSUME mine, over = "runs", input.how # "detach" PROVE typed = ptyInput' \o rest \o held
    BY <1>1 DEF KeysTrue
  <2>3. typed = ptyInput \o (KeysOf(f) \o rest) \o held
    BY <2>1, <2>2, Zenon DEF AttachIInv, KeysTrue
  <2>4. owner = "me"
    BY <2>2 DEF AttachIInv, Undisturbed
  <2> HIDE DEF rest, held
  <2>5. CASE f.type = "input"
    <3>1. ptyInput' = ptyInput \o KeysOf(f)
      BY <1>3, <2>4, <2>5 DEF KeysOf
    <3>2. ptyInput \o (KeysOf(f) \o rest) = (ptyInput \o KeysOf(f)) \o rest
      BY <2>1, ConcatAssociative
    <3> QED  BY <2>3, <3>1, <3>2, Zenon
  <2>6. CASE f.type # "input"
    <3>1. KeysOf(f) = <<>> /\ ptyInput' = ptyInput
      BY <1>3, <2>6 DEF KeysOf
    <3>2. KeysOf(f) \o rest = rest
      BY <2>1, <3>1, ConcatEmptySeq
    <3> QED  BY <2>3, <3>1, <3>2, Zenon
  <2> QED  BY <2>5, <2>6
<1> QED  BY <1>6, <1>7, <1>11, <1>12, <1>13, <1>14 DEF AttachIInv

\* The daemon sends output, hands control over, or closes the connection.
LEMMA AttachSent ==
    ASSUME AttachIInv, OtherTakesControl \/ OutputArrives \/ SessionExits \/ DaemonLost
    PROVE  AttachIInv'
<1> USE AttachAssumption
<1>1. /\ over = "runs" /\ input.pc \notin {"left", "returned"}
      /\ UNCHANGED <<knownSize, ptyInput, polls, screen, exitCode, readerDone, displaced, input, size, typed>>
  BY DEF OtherTakesControl, OutputArrives, SessionExits, DaemonLost, UnchangedByDaemon, Linked
<1>2. /\ toClient \in Seq(ClientFrames) /\ Len(toClient) =< MaxQueue /\ toDaemon \in Seq(DaemonFrames)
      /\ ~Among(toClient, "exit") /\ ~Among(toClient, "eof") /\ ~readerDone /\ input.how # "done"
      /\ input.how # "none" => input.pc \in {"stop", "left", "returned"}
  BY <1>1 DEF AttachIInv, AttachTypes, Endings
<1>3. ASSUME NEW s \in Seq(ClientFrames), NEW g \in ClientFrames
      PROVE  /\ Append(s, g) \in Seq(ClientFrames) /\ Len(Append(s, g)) = Len(s) + 1 /\ Len(s) \in Nat
             /\ Append(s, g)[Len(s) + 1] = g /\ \A i \in 1 .. Len(s) : Append(s, g)[i] = s[i]
             /\ \A k : Among(Append(s, g), k) <=> Among(s, k) \/ g.type = k
             /\ TakenAway(Append(s, g)) <=> TakenAway(s) \/ (g.type = "control" /\ g.who # "me")
             /\ \A before, out : g.type # "control" /\ Ends(s, before, out) => Ends(Append(s, g), before, out)
             /\ \A before, out : g.type = "control" /\ (g.who # "me" <=> out) => Ends(Append(s, g), before, out)
  <2>1. /\ \A k : Among(Append(s, g), k) <=> Among(s, k) \/ g.type = k
        /\ TakenAway(Append(s, g)) <=> TakenAway(s) \/ (g.type = "control" /\ g.who # "me")
        /\ \A before, out : g.type # "control" /\ Ends(s, before, out) => Ends(Append(s, g), before, out)
        /\ \A before, out : g.type = "control" /\ (g.who # "me" <=> out) => Ends(Append(s, g), before, out)
    BY FrameAdded, Zenon
  <2> QED  BY <2>1, AppendProperties, LenProperties
<1>4. /\ Frame("output") \in ClientFrames /\ Frame("output").type = "output"
      /\ Frame("exit") \in ClientFrames /\ Frame("exit").type = "exit"
      /\ Frame("eof") \in ClientFrames /\ Frame("eof").type = "eof"
      /\ Control("other") \in ClientFrames /\ Control("other").type = "control" /\ Control("other").who = "other"
  BY DEF ClientFrames, Frame, Control, Surfaces
<1>5. CASE OtherTakesControl
  <2>1. /\ owner' = "other" /\ mine' = FALSE /\ handovers < MaxHandovers /\ handovers' = handovers + 1
        /\ Len(toClient) + 1 =< MaxQueue /\ over' = "runs" /\ toDaemon' = toDaemon
        /\ toClient' = IF knownSize = 0 THEN toClient ELSE Append(toClient, Control("other"))
    BY <1>1, <1>5 DEF OtherTakesControl, Roomy
  <2>2. toClient' \in Seq(ClientFrames) /\ Len(toClient') =< MaxQueue
    BY <1>2, <1>3, <1>4, <2>1
  <2>3. AttachTypes'
    <3>1. handovers' \in 0 .. MaxHandovers
      BY <2>1 DEF AttachIInv, AttachTypes, AttachTypeOK
    <3>2. Len(toClient') =< MaxQueue + 2
      BY <2>2, LenProperties
    <3>3. AttachTypeOK'
      BY <1>1, <2>1, <3>1, <3>2 DEF AttachIInv, AttachTypes, AttachTypeOK
    <3> QED  BY <1>1, <2>1, <2>2, <3>3 DEF AttachIInv, AttachTypes
  <2>4. Joining'
    BY <1>1, <2>1 DEF AttachIInv, Joining
  <2>5. Gate' /\ ~Among(toClient', "exit") /\ ~Among(toClient', "eof")
    <3>1. CASE knownSize = 0
      BY <1>1, <1>2, <2>1, <3>1 DEF AttachIInv, Gate
    <3>2. CASE knownSize # 0
      <4>1. /\ \A k : Among(toClient', k) <=> Among(toClient, k) \/ k = "control"
            /\ TakenAway(toClient') /\ Ends(toClient', displaced', owner' # "me")
        <5> DEFINE g == Control("other")
        <5>1. toClient' = Append(toClient, g) /\ g \in ClientFrames /\ g.type = "control" /\ g.who = "other"
          BY <1>4, <2>1, <3>2
        <5> HIDE DEF g
        <5> DEFINE x == owner' # "me"
        <5>2. x /\ (g.who # "me" <=> x)
          BY <2>1, <5>1
        <5> HIDE DEF x
        <5>3. /\ \A k : Among(toClient', k) <=> Among(toClient, k) \/ k = "control"
              /\ TakenAway(toClient')
          BY <1>2, <1>3, <5>1
        <5>4. Ends(toClient', displaced', x)
          BY <1>2, <1>3, <5>1, <5>2
        <5> QED  BY <5>3, <5>4 DEF x
      <4> QED  BY <1>1, <1>2, <2>1, <4>1 DEF AttachIInv, Gate
    <3> QED  BY <3>1, <3>2
  <2>6. Endings' /\ Undisturbed' /\ KeysTrue'
    BY <1>1, <1>2, <2>1, <2>5 DEF Endings, Undisturbed, KeysTrue, Among
  <2> QED  BY <2>3, <2>4, <2>5, <2>6 DEF AttachIInv
<1>6. CASE OutputArrives
  <2>1. /\ owner' = owner /\ mine' = mine /\ handovers' = handovers /\ knownSize # 0
        /\ Len(toClient) + 1 =< MaxQueue /\ over' = "runs" /\ toDaemon' = toDaemon
        /\ toClient' = Append(toClient, Frame("output"))
    BY <1>1, <1>6 DEF OutputArrives, Roomy
  <2>2. /\ toClient' \in Seq(ClientFrames) /\ Len(toClient') =< MaxQueue
        /\ \A k : Among(toClient', k) <=> Among(toClient, k) \/ k = "output"
        /\ TakenAway(toClient') <=> TakenAway(toClient)
        /\ \A before, out : Ends(toClient, before, out) => Ends(toClient', before, out)
    BY <1>2, <1>3, <1>4, <2>1
  <2>3. AttachTypes'
    <3>1. AttachTypeOK'
      BY <1>1, <2>1, <2>2 DEF AttachIInv, AttachTypes, AttachTypeOK
    <3> QED  BY <1>1, <2>1, <2>2, <3>1 DEF AttachIInv, AttachTypes
  <2>4. Joining' /\ Gate'
    BY <1>1, <2>1, <2>2 DEF AttachIInv, Joining, Gate
  <2>5. Endings'
    <3>1. ~Among(toClient', "exit") /\ ~Among(toClient', "eof")
      BY <1>2, <2>2
    <3> QED  BY <1>1, <1>2, <2>1, <3>1 DEF Endings, Among
  <2>6. Undisturbed' /\ KeysTrue'
    BY <1>1, <2>1, <2>2 DEF AttachIInv, Undisturbed, KeysTrue
  <2> QED  BY <2>3, <2>4, <2>5, <2>6 DEF AttachIInv
<1>7. CASE SessionExits \/ DaemonLost
  <2> DEFINE e == Append(toClient, Frame("exit"))
  <2>1. /\ UNCHANGED <<owner, mine, handovers>> /\ toDaemon' = <<>> /\ over' \in {"exited", "lost"}
        /\ \/ over' = "exited" /\ toClient' = toClient \o <<Frame("exit"), Frame("eof")>>
           \/ over' = "lost" /\ toClient' = Append(toClient, Frame("eof"))
    BY <1>7 DEF SessionExits, DaemonLost
  <2>2. toClient \o <<Frame("exit"), Frame("eof")>> = Append(e, Frame("eof"))
    <3> DEFINE x == Frame("exit")
               o == Frame("eof")
    <3>1. x \in ClientFrames /\ o \in ClientFrames
      BY <1>4
    <3> HIDE DEF x, o
    <3>2. toClient \o <<x, o>> = Append(Append(toClient, x), o)
      BY <1>2, <3>1
    <3> QED  BY <3>2 DEF x, o
  <2>3. /\ e \in Seq(ClientFrames) /\ Len(e) = Len(toClient) + 1 /\ Among(e, "exit") /\ ~Among(e, "eof")
        /\ TakenAway(e) <=> TakenAway(toClient)
    BY <1>2, <1>3, <1>4
  <2> HIDE DEF e
  <2> DEFINE s == IF over' = "exited" THEN e ELSE toClient
  <2>4. /\ s \in Seq(ClientFrames) /\ toClient' = Append(s, Frame("eof")) /\ ~Among(s, "eof")
        /\ Len(s) =< Len(toClient) + 1 /\ (TakenAway(s) <=> TakenAway(toClient))
        /\ over' = "exited" => Among(s, "exit")
    <3>1. Len(toClient) \in Nat
      BY <1>2
    <3>2. CASE over' = "exited"
      <4>1. s = e /\ toClient' = Append(e, Frame("eof"))
        BY <2>1, <2>2, <3>2
      <4> HIDE DEF s
      <4> QED  BY <2>3, <3>1, <4>1
    <3>3. CASE over' = "lost"
      BY <1>2, <2>1, <3>1, <3>3
    <3> QED  BY <2>1, <3>2, <3>3
  <2> HIDE DEF s
  <2>5. /\ toClient' \in Seq(ClientFrames) /\ Len(toClient') = Len(s) + 1 /\ Len(s) \in Nat
        /\ \A i \in 1 .. Len(s) : toClient'[i] = s[i]
        /\ \A k : Among(toClient', k) <=> Among(s, k) \/ k = "eof"
        /\ TakenAway(toClient') <=> TakenAway(toClient)
    BY <1>3, <1>4, <2>4
  <2>6. AttachTypes'
    <3>1. Len(toClient') =< MaxQueue + 2 /\ <<>> \in Seq(DaemonFrames)
      BY <1>2, <2>4, <2>5
    <3>2. AttachTypeOK'
      BY <1>1, <2>1, <2>5, <3>1 DEF AttachIInv, AttachTypes, AttachTypeOK
    <3> QED  BY <1>1, <2>1, <2>5, <3>1, <3>2 DEF AttachIInv, AttachTypes
  <2>7. Joining' /\ Gate' /\ Undisturbed' /\ KeysTrue'
    BY <1>1, <2>1, <2>5 DEF AttachIInv, Joining, Gate, Undisturbed, KeysTrue
  <2>8. \A i \in 1 .. Len(toClient') : toClient'[i].type = "eof" => i = Len(toClient')
    <3> SUFFICES ASSUME NEW i \in 1 .. Len(toClient'), i # Len(toClient') PROVE toClient'[i].type # "eof"
      OBVIOUS
    <3>1. i \in 1 .. Len(s)
      BY <2>5
    <3> QED  BY <2>4, <2>5, <3>1 DEF Among
  <2>9. Endings'
    BY <1>1, <1>2, <2>1, <2>4, <2>5, <2>8 DEF Endings
  <2> QED  BY <2>6, <2>7, <2>9 DEF AttachIInv
<1> QED  BY <1>5, <1>6, <1>7

\* The reader, or its end after the socket was shut down.
LEMMA AttachRead ==
    ASSUME AttachIInv, ReaderStep
    PROVE  AttachIInv'
<1> USE AttachAssumption
<1>1. CASE ReaderEnds
  <2>1. /\ input.pc = "left" /\ readerDone' = TRUE
        /\ UNCHANGED <<polls, owner, over, knownSize, ptyInput, toClient, toDaemon, screen, exitCode, displaced, input, size, typed, mine, handovers>>
    BY <1>1 DEF ReaderEnds
  <2>2. AttachTypes'
    BY <2>1 DEF AttachIInv, AttachTypes, AttachTypeOK
  <2>3. Joining' /\ Gate' /\ Endings'
    BY <2>1 DEF AttachIInv, Joining, Gate, Endings
  <2>4. Undisturbed' /\ KeysTrue'
    BY <2>1 DEF AttachIInv, Undisturbed, KeysTrue
  <2> QED  BY <2>2, <2>3, <2>4 DEF AttachIInv
<1>2. ASSUME NEW n \in 1 .. (MaxQueue + 2), ReaderReads(n)
      PROVE  AttachIInv'
  <2> DEFINE p == SubSeq(toClient, 1, n)
             t == SubSeq(toClient, n + 1, Len(toClient))
             b == [displaced |-> displaced, screen |-> screen, code |-> exitCode, request |-> FALSE, done |-> FALSE]
             r == FoldLeft(ConsumeFrame, b, p)
  <2>0. AttachTypes /\ n \in 1 .. Len(toClient) /\ ~readerDone
    BY <1>2 DEF AttachIInv, ReaderReads
  <2>1. /\ p \in Seq(ClientFrames) /\ Len(p) = n /\ \A i \in 1 .. n : p[i] = toClient[i]
        /\ t \in Seq(ClientFrames) /\ Len(t) = Len(toClient) - n
        /\ \A i \in 1 .. Len(t) : t[i] = toClient[n + i] /\ n + i \in 1 .. Len(toClient)
        /\ \A i \in 1 .. Len(toClient) : i \in 1 .. n \/ (i - n \in 1 .. Len(t) /\ t[i - n] = toClient[i])
        /\ Len(toClient) \in Nat
    BY <2>0, FramesLeft DEF AttachTypes
  <2>left. \A i \in 1 .. Len(t) : n + i \in 1 .. Len(toClient) /\ t[i] = toClient[n + i]
    BY <2>1
  <2>split. \A i \in 1 .. Len(toClient) : i \in 1 .. n \/ (i - n \in 1 .. Len(t) /\ t[i - n] = toClient[i])
    BY <2>1
  <2>read. \A i \in 1 .. n : i \in 1 .. Len(toClient) /\ p[i] = toClient[i]
    BY <2>0, <2>1
  <2>2. /\ screen' = r.screen /\ exitCode' = r.code /\ displaced' = r.displaced /\ readerDone' = r.done
        /\ toDaemon' = IF r.request /\ over = "runs" THEN Append(toDaemon, Frame("replay")) ELSE toDaemon
        /\ toClient' = t
        /\ UNCHANGED <<polls, owner, over, knownSize, ptyInput, input, size, typed, mine, handovers>>
    BY <1>2 DEF ReaderReads, Push
  <2>3. b \in Readers /\ b.displaced = displaced /\ b.screen = screen /\ b.code = exitCode /\ ~b.done
    BY <2>0 DEF AttachTypes, AttachTypeOK, Readers
  <2> HIDE DEF b, p, t
  <2>4. Consumed(b, p, n, r)
    BY <2>1, <2>3, ConsumeAll
  <2> HIDE DEF r
  <2>5. r \in Readers
    BY <2>4 DEF Consumed
  <2>6. /\ toDaemon' \in Seq(DaemonFrames)
        /\ toDaemon # <<>> => toDaemon' # <<>> /\ Head(toDaemon') = Head(toDaemon)
        /\ Typing(toDaemon') = Typing(toDaemon)
        /\ Among(toDaemon, "replay") \/ (r.request /\ over = "runs") => Among(toDaemon', "replay")
    <3> DEFINE f == Frame("replay")
    <3>1. f \in DaemonFrames /\ f.type = "replay"
      BY DEF DaemonFrames, Frame
    <3>2. toDaemon \in Seq(DaemonFrames)
      BY <2>0 DEF AttachTypes
    <3> HIDE DEF f
    <3>3. toDaemon' = IF r.request /\ over = "runs" THEN Append(toDaemon, f) ELSE toDaemon
      BY <2>2 DEF f
    <3> QED  BY <3>1, <3>2, <3>3, FrameSent
  <2>7. AttachTypes'
    <3>1. Len(t) =< Len(toClient)
      BY <2>0, <2>1
    <3>2. AttachTypeOK'
      BY <2>0, <2>1, <2>2, <2>5, <3>1 DEF AttachTypes, AttachTypeOK, Readers
    <3> QED  BY <2>0, <2>1, <2>2, <2>6, <3>1, <3>2 DEF AttachTypes
  <2>8. over = "runs" => knownSize # 0
    BY <2>0 DEF AttachIInv, Joining
  <2>9. Joining'
    BY <2>2, <2>8 DEF Joining
  <2>10. over = "runs" => Ends(t, r.displaced, owner # "me")
    <3> SUFFICES ASSUME over = "runs" PROVE Ends(t, r.displaced, owner # "me")
      OBVIOUS
    <3> DEFINE out == owner # "me"
    <3>1. Ends(toClient, displaced, out)
      BY <2>8 DEF AttachIInv, Gate
    <3> HIDE DEF out
    <3>2. ASSUME NEW i \in 1 .. Len(t), t[i].type = "control", t[i].who # "me" <=> out,
                 \A j \in i + 1 .. Len(t) : t[j].type # "control"
          PROVE  Ends(t, r.displaced, out)
      BY <3>2, Zenon DEF Ends
    <3>3. ASSUME ~Among(toClient, "control"), displaced <=> out
          PROVE  Ends(t, r.displaced, out)
      <4>2. ~Among(t, "control") /\ \A i \in 1 .. n : p[i].type # "control"
        <5>1. \A i \in 1 .. Len(toClient) : toClient[i].type # "control"
          BY <3>3 DEF Among
        <5>2. \A i \in 1 .. n : p[i].type # "control"
          BY <2>read, <5>1, Zenon
        <5>3. \A i \in 1 .. Len(t) : t[i].type # "control"
          BY <2>left, <5>1, Zenon
        <5> QED  BY <5>2, <5>3 DEF Among
      <4>3. r.displaced = displaced
        BY <2>3, <2>4, <4>2 DEF Consumed
      <4>4. r.displaced <=> out
        BY <3>3, <4>3
      <4> QED  BY <4>2, <4>4, Zenon DEF Ends
    <3>4. ASSUME NEW i \in 1 .. Len(toClient), toClient[i].type = "control", toClient[i].who # "me" <=> out,
                 \A j \in i + 1 .. Len(toClient) : toClient[j].type # "control"
          PROVE  Ends(t, r.displaced, out)
      <4>1. CASE i \in 1 .. n
        <5>1. \A j \in 1 .. Len(t) : n + j \in i + 1 .. Len(toClient)
          BY <2>1, <4>1
        <5>2. ~Among(t, "control")
          BY <2>left, <3>4, <5>1, Zenon DEF Among
        <5>3. \A j \in i + 1 .. n : p[j].type # "control"
          <6> SUFFICES ASSUME NEW j \in i + 1 .. n PROVE p[j].type # "control"
            OBVIOUS
          <6>1. j \in 1 .. n /\ j \in i + 1 .. Len(toClient)
            BY <2>0, <2>1, <4>1
          <6> QED  BY <2>1, <3>4, <6>1
        <5>4. p[i] = toClient[i] /\ p[i].type = "control"
          BY <2>1, <3>4, <4>1
        <5>5. PICK j \in 1 .. n : p[j].type = "control" /\ (p[j].who # "me" <=> r.displaced)
                                  /\ \A k \in j + 1 .. n : p[k].type # "control"
          BY <2>4, <4>1, <5>4 DEF Consumed
        <5>6. i = j
          <6>1. ~(i < j)
            <7>1. i < j => j \in i + 1 .. n
              BY <4>1
            <7> QED  BY <5>3, <5>5, <7>1
          <6>2. ~(j < i)
            <7>1. j < i => i \in j + 1 .. n
              BY <4>1
            <7> QED  BY <5>4, <5>5, <7>1
          <6> QED  BY <4>1, <6>1, <6>2
        <5>7. r.displaced <=> out
          BY <3>4, <5>4, <5>5, <5>6
        <5> QED  BY <5>2, <5>7, Zenon DEF Ends
      <4>2. CASE i \notin 1 .. n
        <5> DEFINE m == i - n
        <5>1. m \in 1 .. Len(t) /\ t[m] = toClient[i] /\ n + m = i
          BY <2>0, <2>1, <4>2
        <5> HIDE DEF m
        <5>2. \A j \in m + 1 .. Len(t) : t[j].type # "control"
          <6> SUFFICES ASSUME NEW j \in m + 1 .. Len(t) PROVE t[j].type # "control"
            OBVIOUS
          <6>1. j \in 1 .. Len(t) /\ n + j \in i + 1 .. Len(toClient)
            BY <2>0, <2>1, <5>1
          <6> QED  BY <2>1, <3>4, <6>1
        <5> QED  BY <3>2, <3>4, <5>1, <5>2
      <4> QED  BY <4>1, <4>2
    <3>5. \/ ~Among(toClient, "control") /\ (displaced <=> out)
          \/ \E i \in 1 .. Len(toClient) :
               /\ toClient[i].type = "control" /\ (toClient[i].who # "me" <=> out)
               /\ \A j \in i + 1 .. Len(toClient) : toClient[j].type # "control"
      BY <3>1, Zenon DEF Ends
    <3>6. Ends(t, r.displaced, out)
      BY <3>3, <3>4, <3>5
    <3> QED  BY <3>6 DEF out
  <2>11. Gate'
    <3>1. r.displaced => r.screen = "notice"
      BY <2>3, <2>4 DEF AttachIInv, Gate, Consumed
    <3>2. ASSUME over = "runs", ~r.displaced, r.screen # "live"
          PROVE  Among(t, "replay") \/ TakenAway(t) \/ Among(toDaemon', "replay")
      <4>1. CASE r.request
        BY <2>6, <3>2, <4>1
      <4>2. CASE ~r.request
        <5>1. /\ ~displaced /\ screen # "live"
              /\ \A j \in 1 .. n : p[j].type # "replay" /\ ~(p[j].type = "control" /\ p[j].who # "me")
          BY <2>3, <2>4, <3>2, <4>2 DEF Consumed
        <5>2. Among(toClient, "replay") \/ TakenAway(toClient) \/ Among(toDaemon, "replay")
          BY <2>8, <3>2, <5>1 DEF AttachIInv, Gate
        <5>3. Among(toClient, "replay") => Among(t, "replay")
          <6> SUFFICES ASSUME NEW i \in 1 .. Len(toClient), toClient[i].type = "replay" PROVE Among(t, "replay")
            BY DEF Among
          <6>1. i \in 1 .. n => FALSE
            BY <2>read, <5>1
          <6> QED  BY <2>split, <6>1 DEF Among
        <5>4. TakenAway(toClient) => TakenAway(t)
          <6> SUFFICES ASSUME NEW i \in 1 .. Len(toClient), toClient[i].type = "control", toClient[i].who # "me"
                       PROVE  TakenAway(t)
            BY DEF TakenAway
          <6>1. i \in 1 .. n => FALSE
            BY <2>read, <5>1
          <6> QED  BY <2>split, <6>1 DEF TakenAway
        <5> QED  BY <2>6, <5>2, <5>3, <5>4
      <4> QED  BY <4>1, <4>2
    <3> QED  BY <2>2, <2>8, <2>10, <3>1, <3>2 DEF Gate
  <2>12. Endings'
    <3>0. Len(t) = Len(toClient) - n /\ n \in Nat /\ Len(toClient) \in Nat
      BY <2>0, <2>1
    <3>1. ASSUME NEW k, Among(t, k) PROVE Among(toClient, k)
      BY <2>left, <3>1, Zenon DEF Among
    <3>2. Among(toClient, "exit") => r.code = ExitCode \/ Among(t, "exit")
      BY <2>1, <2>4 DEF Among, Consumed
    <3>3. exitCode = ExitCode => r.code = ExitCode
      BY <2>3, <2>4 DEF Consumed
    <3>4. \A i \in 1 .. Len(toClient) : toClient[i].type = "eof" => i = Len(toClient)
      BY DEF AttachIInv, Endings
    <3>5. \A i \in 1 .. Len(t) : t[i].type = "eof" => i = Len(t)
      <4> SUFFICES ASSUME NEW i \in 1 .. Len(t), t[i].type = "eof" PROVE i = Len(t)
        OBVIOUS
      <4>1. n + i = Len(toClient)
        BY <2>1, <3>4
      <4> QED  BY <3>0, <4>1
    <3>6. Len(t) \in Nat /\ n =< Len(toClient)
      BY <2>0, <2>1
    <3>7. r.done => t = <<>> /\ over # "runs"
      <4> SUFFICES ASSUME r.done PROVE t = <<>> /\ over # "runs"
        OBVIOUS
      <4>1. PICK j \in 1 .. n : p[j].type = "eof"
        BY <2>3, <2>4 DEF Consumed
      <4>2. j \in 1 .. Len(toClient) /\ toClient[j].type = "eof"
        BY <2>0, <2>1, <4>1
      <4>3. j = Len(toClient) /\ Among(toClient, "eof")
        BY <3>4, <4>2 DEF Among
      <4>4. Len(t) = 0
        BY <3>0, <3>6, <4>3
      <4> QED  BY <2>1, <4>3, <4>4 DEF AttachIInv, Endings
    <3> QED  BY <2>2, <3>1, <3>2, <3>3, <3>5, <3>7 DEF AttachIInv, Endings
  <2>13. Undisturbed'
    <3> SUFFICES ASSUME mine PROVE owner = "me" /\ ~r.displaced /\ ~TakenAway(t)
      BY <2>2 DEF Undisturbed
    <3>1. owner = "me" /\ ~displaced /\ ~TakenAway(toClient)
      BY DEF AttachIInv, Undisturbed
    <3>2. ~TakenAway(t)
      BY <2>1, <3>1 DEF TakenAway
    <3>3. \A j \in 1 .. n : p[j].type = "control" => p[j].who = "me"
      <4> SUFFICES ASSUME NEW j \in 1 .. n PROVE p[j].type = "control" => p[j].who = "me"
        OBVIOUS
      <4>1. j \in 1 .. Len(toClient) /\ p[j] = toClient[j]
        BY <2>0, <2>1
      <4> QED  BY <3>1, <4>1 DEF TakenAway
    <3>4. ~r.displaced
      BY <2>3, <2>4, <3>1, <3>3 DEF Consumed
    <3> QED  BY <3>1, <3>2, <3>4
  <2>14. KeysTrue'
    BY <2>2, <2>6 DEF AttachIInv, KeysTrue
  <2> QED  BY <2>7, <2>9, <2>11, <2>12, <2>13, <2>14 DEF AttachIInv
<1> QED  BY <1>1, <1>2 DEF ReaderStep

\* The window, and the steps of the loop that send nothing.
LEMMA AttachWatched ==
    ASSUME AttachIInv, \/ WindowChanges \/ LoopHead \/ ReadSize \/ PollTimesOut \/ InputEnds
                       \/ ShutDown \/ AttachReturns
    PROVE  AttachIInv'
<1> USE AttachAssumption
<1>1. /\ toDaemon' = toDaemon /\ typed' = typed
      /\ UNCHANGED <<polls, owner, over, knownSize, ptyInput, toClient, screen, exitCode, readerDone, displaced, mine, handovers>>
  BY DEF WindowChanges, LoopHead, ReadSize, PollTimesOut, InputEnds, ShutDown, AttachReturns, UnchangedByInput
<1>2. AttachTypes
  BY DEF AttachIInv
<1>3. /\ input' \in Inputs /\ size' \in 1 .. MaxSizes /\ input'.armed = input.armed
      /\ input.how = "detach" => input'.how = "detach"
      /\ input'.how # "none" => input'.pc \in {"stop", "left", "returned"}
      /\ input.pc \in {"left", "returned"} => input'.pc \in {"left", "returned"} /\ input'.how = input.how
      /\ input'.how # "done" \/ input.how = "done" \/ (readerDone /\ input.pc = "check" /\ input'.pc = "left")
  <2>0. /\ input \in Inputs /\ size \in 1 .. MaxSizes
        /\ input.how # "none" => input.pc \in {"stop", "left", "returned"}
    BY <1>2 DEF AttachTypes, AttachTypeOK, AttachIInv, Endings
  <2>1. CASE WindowChanges
    <3>1. size' = size + 1 /\ size < MaxSizes /\ input' = [input EXCEPT !.winch = TRUE]
      BY <2>1 DEF WindowChanges
    <3>2. input' \in Inputs /\ input'.armed = input.armed /\ input'.pc = input.pc /\ input'.how = input.how
      BY <2>0, <3>1 DEF Inputs
    <3> QED  BY <2>0, <3>1, <3>2
  <2>2. CASE LoopHead
    <3>1. /\ input.pc = "check" /\ size' = size
          /\ input' = IF readerDone THEN [input EXCEPT !.pc = "left", !.how = "done"]
                      ELSE IF polls /\ input.winch THEN [input EXCEPT !.pc = "resize", !.winch = FALSE]
                      ELSE [input EXCEPT !.pc = "read"]
      BY <2>2 DEF LoopHead
    <3>2. CASE readerDone
      BY <2>0, <3>1, <3>2 DEF Inputs
    <3>3. CASE ~readerDone /\ polls /\ input.winch
      BY <2>0, <3>1, <3>3 DEF Inputs
    <3>4. CASE ~readerDone /\ ~(polls /\ input.winch)
      BY <2>0, <3>1, <3>4 DEF Inputs
    <3> QED  BY <3>2, <3>3, <3>4
  <2>3. CASE ReadSize
    BY <2>0, <2>3 DEF ReadSize, Inputs
  <2>4. CASE PollTimesOut \/ InputEnds
    <3>1. /\ input.pc = "read" /\ size' = size
          /\ \/ input' = [input EXCEPT !.pc = "check"]
             \/ input' = [input EXCEPT !.pc = "stop", !.how = "eof"]
      BY <2>4 DEF PollTimesOut, InputEnds
    <3>2. input.how = "none"
      BY <2>0, <3>1
    <3>3. CASE input' = [input EXCEPT !.pc = "check"]
      BY <2>0, <3>1, <3>2, <3>3 DEF Inputs
    <3>4. CASE input' = [input EXCEPT !.pc = "stop", !.how = "eof"]
      BY <2>0, <3>1, <3>2, <3>4 DEF Inputs
    <3> QED  BY <3>1, <3>3, <3>4
  <2>5. CASE ShutDown \/ AttachReturns
    BY <2>0, <2>5 DEF ShutDown, AttachReturns, Inputs
  <2> QED  BY <2>1, <2>2, <2>3, <2>4, <2>5
<1>4. AttachTypes'
  <2>1. AttachTypeOK'
    BY <1>1, <1>2, <1>3 DEF AttachTypes, AttachTypeOK, Inputs
  <2> QED  BY <1>1, <1>2, <1>3, <2>1 DEF AttachTypes
<1>5. Joining' /\ Gate' /\ Undisturbed' /\ KeysTrue'
  <2>1. Joining' /\ Gate'
    BY <1>1 DEF AttachIInv, Joining, Gate
  <2>2. Undisturbed' /\ KeysTrue'
    BY <1>1, <1>3 DEF AttachIInv, Undisturbed, KeysTrue
  <2> QED  BY <2>1, <2>2
<1>6. input.how = "done" => input.pc \in {"left", "returned"} /\ over # "runs" /\ (over = "exited" => exitCode = ExitCode)
  BY DEF AttachIInv, Endings
<1>7. readerDone /\ input.pc \notin {"left", "returned"} =>
        toClient = <<>> /\ over # "runs" /\ (over = "exited" => exitCode = ExitCode)
  <2>1. toClient = <<>> => ~Among(toClient, "exit")
    BY DEF Among
  <2> QED  BY <2>1 DEF AttachIInv, Endings
<1>8. Endings'
  BY <1>1, <1>3, <1>6, <1>7 DEF AttachIInv, Endings
<1> QED  BY <1>4, <1>5, <1>8 DEF AttachIInv

\* A frame that is sent while the session runs.
LEMMA FramePushed ==
    ASSUME AttachIInv, NEW f \in DaemonFrames, NEW s \in Seq(DaemonFrames),
           over = "runs" /\ knownSize = 0 => s # <<>> /\ Head(s).type = "resize"
    PROVE  /\ Push(s, f) \in Seq(DaemonFrames)
           /\ over = "runs" /\ knownSize = 0 => Push(s, f) # <<>> /\ Head(Push(s, f)).type = "resize"
           /\ Among(s, "replay") => Among(Push(s, f), "replay")
           /\ over = "runs" /\ f.type # "input" => Typing(Push(s, f)) = Typing(s)
           /\ over = "runs" /\ f.type = "input" => Typing(Push(s, f)) = Typing(s) \o f.keys
  BY FrameSent DEF Push

\* A new size is sent.
LEMMA AttachSized ==
    ASSUME AttachIInv, SendResize
    PROVE  AttachIInv'
<1> USE AttachAssumption
<1> DEFINE f == [type |-> "resize", size |-> input.seen]
<1>1. /\ input.pc = "send" /\ input' = [input EXCEPT !.pc = "read"] /\ toDaemon' = Push(toDaemon, f)
      /\ UNCHANGED <<polls, owner, over, knownSize, ptyInput, toClient, screen, exitCode, readerDone, displaced, mine, handovers, size, typed>>
  BY DEF SendResize, UnchangedByInput
<1>2. AttachTypes /\ Joining
  BY DEF AttachIInv
<1>3. f \in DaemonFrames /\ f.type = "resize"
  BY <1>2 DEF AttachTypes, Inputs, DaemonFrames
<1> HIDE DEF f
<1>4. /\ toDaemon' \in Seq(DaemonFrames)
      /\ over = "runs" /\ knownSize = 0 => toDaemon' # <<>> /\ Head(toDaemon').type = "resize"
      /\ Among(toDaemon, "replay") => Among(toDaemon', "replay")
      /\ over = "runs" => Typing(toDaemon') = Typing(toDaemon)
  <2>1. /\ toDaemon \in Seq(DaemonFrames)
        /\ over = "runs" /\ knownSize = 0 => toDaemon # <<>> /\ Head(toDaemon).type = "resize"
    BY <1>2 DEF AttachTypes, Joining
  <2> QED  BY <1>1, <1>3, <2>1, FramePushed
<1>5. input' \in Inputs /\ input'.pc = "read" /\ input'.armed = input.armed /\ input'.how = input.how
  BY <1>1, <1>2 DEF AttachTypes, Inputs
<1>6. AttachTypes'
  <2>1. AttachTypeOK'
    BY <1>1, <1>2, <1>5 DEF AttachTypes, AttachTypeOK, Inputs
  <2> QED  BY <1>1, <1>2, <1>4, <1>5, <2>1 DEF AttachTypes
<1>7. Joining' /\ Gate'
  BY <1>1, <1>4 DEF AttachIInv, Joining, Gate
<1>8. Endings' /\ Undisturbed'
  <2>1. input.how = "none"
    BY <1>1 DEF AttachIInv, Endings
  <2> QED  BY <1>1, <1>5, <2>1 DEF AttachIInv, Endings, Undisturbed
<1>9. KeysTrue'
  BY <1>1, <1>4, <1>5 DEF AttachIInv, KeysTrue
<1> QED  BY <1>6, <1>7, <1>8, <1>9 DEF AttachIInv

LEMMA ChunkTyped == \A chunk \in Chunks : chunk \in Seq(Keys)
<1> SUFFICES ASSUME NEW chunk \in Chunks PROVE chunk \in Seq(Keys)
  OBVIOUS
<1>1. CASE \E a \in Keys : chunk = <<a>>
  <2> PICK a \in Keys : chunk = <<a>>
    BY <1>1
  <2> QED  OBVIOUS
<1>2. CASE \E a, b \in Keys : chunk = <<a, b>>
  <2> PICK a \in Keys, b \in Keys : chunk = <<a, b>>
    BY <1>2
  <2> QED  OBVIOUS
<1> QED  BY <1>1, <1>2 DEF Chunks

\* Keys are read.
LEMMA AttachTyped ==
    ASSUME AttachIInv, NEW chunk \in Chunks, KeysArrive(chunk)
    PROVE  AttachIInv'
<1> USE AttachAssumption
<1> DEFINE p == Process(chunk)
           e == [type |-> "input", keys |-> p.out]
           forward == IF p.out = <<>> THEN toDaemon ELSE Push(toDaemon, e)
<1>1. /\ input.pc = "read" /\ typed' = typed \o chunk
      /\ toDaemon' = IF p.action = "take" THEN Push(forward, Frame("take")) ELSE forward
      /\ input' = [input EXCEPT !.armed = p.armed,
                                !.pc = IF p.action = "detach" THEN "stop" ELSE "check",
                                !.how = IF p.action = "detach" THEN "detach" ELSE @]
      /\ UNCHANGED <<polls, owner, over, knownSize, ptyInput, toClient, screen, exitCode, readerDone, displaced, mine, handovers, size>>
  BY DEF KeysArrive, UnchangedByInput
<1>2. AttachTypes /\ Joining /\ displaced \in BOOLEAN /\ input.armed \in BOOLEAN /\ chunk \in Seq(Keys)
  BY ChunkTyped DEF AttachIInv, AttachTypes, AttachTypeOK, Inputs
<1>3. /\ p \in Processors
      /\ ~displaced => p.action # "take"
      /\ ~displaced /\ p.action = "none" => Held(input.armed) \o chunk = p.out \o Held(p.armed)
  BY <1>2, ProcessAll, Zenon
<1> HIDE DEF p
<1>4. /\ p.out \in Seq(Keys) /\ p.armed \in BOOLEAN
      /\ e \in DaemonFrames /\ e.type = "input" /\ e.keys = p.out
      /\ Frame("take") \in DaemonFrames /\ Frame("take").type = "take"
  BY <1>3 DEF Processors, DaemonFrames, Frame
<1> HIDE DEF e
<1>5. /\ toDaemon \in Seq(DaemonFrames) /\ Typing(toDaemon) \in Seq(Keys)
      /\ over = "runs" /\ knownSize = 0 => toDaemon # <<>> /\ Head(toDaemon).type = "resize"
  BY <1>2, TypingEnds DEF AttachTypes, Joining
<1>6. /\ forward \in Seq(DaemonFrames)
      /\ over = "runs" /\ knownSize = 0 => forward # <<>> /\ Head(forward).type = "resize"
      /\ Among(toDaemon, "replay") => Among(forward, "replay")
      /\ over = "runs" => Typing(forward) = Typing(toDaemon) \o p.out
  <2>1. CASE p.out = <<>>
    <3>1. Typing(toDaemon) \o <<>> = Typing(toDaemon)
      BY <1>5, ConcatEmptySeq
    <3> QED  BY <1>5, <2>1, <3>1
  <2>2. CASE p.out # <<>>
    <3>1. forward = Push(toDaemon, e)
      BY <2>2
    <3> HIDE DEF forward
    <3> QED  BY <1>4, <1>5, <3>1, FramePushed
  <2> QED  BY <2>1, <2>2
<1> HIDE DEF forward
<1>7. /\ toDaemon' \in Seq(DaemonFrames)
      /\ over = "runs" /\ knownSize = 0 => toDaemon' # <<>> /\ Head(toDaemon').type = "resize"
      /\ Among(toDaemon, "replay") => Among(toDaemon', "replay")
  <2> DEFINE f == Frame("take")
  <2>1. f \in DaemonFrames /\ toDaemon' = IF p.action = "take" THEN Push(forward, f) ELSE forward
    BY <1>1, <1>4
  <2> HIDE DEF f
  <2> QED  BY <1>6, <2>1, FramePushed
<1>8. /\ input' \in Inputs /\ input'.pc \in {"stop", "check"} /\ input'.armed = p.armed
      /\ input.how = "none" /\ input'.how \in {"none", "detach"}
      /\ input'.how # "none" => input'.pc = "stop"
      /\ p.action = "detach" => input'.how = "detach"
  <2>1. input \in Inputs /\ input.how = "none"
    BY <1>1 DEF AttachIInv, AttachTypes, Endings
  <2>2. CASE p.action = "detach"
    <3>1. input' = [input EXCEPT !.armed = p.armed, !.pc = "stop", !.how = "detach"]
      BY <1>1, <2>2
    <3> QED  BY <1>4, <2>1, <3>1 DEF Inputs
  <2>3. CASE p.action # "detach"
    <3>1. input' = [input EXCEPT !.armed = p.armed, !.pc = "check", !.how = input.how]
      BY <1>1, <2>3
    <3> QED  BY <1>4, <2>1, <2>3, <3>1 DEF Inputs
  <2> QED  BY <2>2, <2>3
<1>9. AttachTypes'
  <2>1. typed' \in Seq(Keys)
    BY <1>1, <1>2, ConcatProperties DEF AttachTypes, AttachTypeOK
  <2>2. AttachTypeOK'
    BY <1>1, <1>2, <1>8, <2>1 DEF AttachTypes, AttachTypeOK, Inputs
  <2> QED  BY <1>1, <1>2, <1>7, <1>8, <2>2 DEF AttachTypes
<1>10. Joining' /\ Gate'
  BY <1>1, <1>7 DEF AttachIInv, Joining, Gate
<1>11. Endings' /\ Undisturbed'
  BY <1>1, <1>8 DEF AttachIInv, Endings, Undisturbed
<1>12. KeysTrue'
  <2> SUFFICES ASSUME mine, over = "runs", input'.how # "detach"
               PROVE  typed' = ptyInput \o Typing(toDaemon') \o Held(input'.armed)
    BY <1>1 DEF KeysTrue
  <2>1. ~displaced /\ input.how # "detach"
    BY <1>8 DEF AttachIInv, Undisturbed
  <2>2. p.action = "none" /\ toDaemon' = forward
    BY <1>1, <1>3, <1>8, <2>1 DEF Processors
  <2> DEFINE a == Held(input.armed)
             h == Held(p.armed)
             w == Typing(toDaemon)
  <2>3. typed = ptyInput \o w \o a
    BY <2>1, Zenon DEF AttachIInv, KeysTrue
  <2>4. a \o chunk = p.out \o h /\ Typing(forward) = w \o p.out
    BY <1>3, <1>6, <2>1, <2>2
  <2>5. ptyInput \in Seq(Keys) /\ w \in Seq(Keys) /\ a \in Seq(Keys) /\ h \in Seq(Keys)
    <3>1. <<>> \in Seq(Keys) /\ <<"prefix">> \in Seq(Keys)
      BY DEF Keys
    <3>2. a \in Seq(Keys) /\ h \in Seq(Keys)
      BY <3>1, Zenon DEF Held
    <3> QED  BY <1>2, <1>5, <3>2 DEF AttachTypes, AttachTypeOK
  <2> DEFINE o == p.out
             u == ptyInput \o w
  <2> HIDE DEF a, h, w, o
  <2>6. o \in Seq(Keys)
    BY <1>4 DEF o
  <2>7. u \in Seq(Keys) /\ u \o o = ptyInput \o (w \o o)
    BY <2>5, <2>6, KeysJoin, ZenonT(60) DEF u
  <2> HIDE DEF u
  <2>8. (u \o a) \o chunk = u \o (a \o chunk) /\ u \o (o \o h) = (u \o o) \o h
    <3>1. chunk \in Seq(Keys) /\ a \in Seq(Keys) /\ h \in Seq(Keys) /\ o \in Seq(Keys) /\ u \in Seq(Keys)
      BY <1>2, <2>5, <2>6, <2>7
    <3>2. (u \o a) \o chunk = u \o (a \o chunk)
      BY <3>1, KeysJoin, ZenonT(60)
    <3>3. u \o (o \o h) = (u \o o) \o h
      BY <3>1, KeysJoin, ZenonT(60)
    <3> QED  BY <3>2, <3>3, Zenon
  <2>9. typed = u \o a /\ a \o chunk = o \o h
    BY <2>3, <2>4 DEF u, o
  <2>10. typed' = ptyInput \o (w \o p.out) \o h
    BY <1>1, <2>7, <2>8, <2>9 DEF o
  <2>11. Held(input'.armed) = h
    BY <1>8, Zenon DEF h
  <2> QED  BY <2>2, <2>4, <2>10, <2>11
<1> QED  BY <1>9, <1>10, <1>11, <1>12 DEF AttachIInv

LEMMA AttachUnchanged == AttachIInv /\ UNCHANGED attachVars => AttachIInv'
<1> SUFFICES ASSUME AttachIInv, UNCHANGED attachVars PROVE AttachIInv'
  OBVIOUS
<1>1. AttachTypes'
  BY DEF attachVars, AttachIInv, AttachTypes, AttachTypeOK
<1>2. Joining' /\ Gate' /\ Endings'
  BY DEF attachVars, AttachIInv, Joining, Gate, Endings
<1>3. Undisturbed' /\ KeysTrue'
  BY DEF attachVars, AttachIInv, Undisturbed, KeysTrue
<1> QED  BY <1>1, <1>2, <1>3 DEF AttachIInv

LEMMA AttachImplied == AttachIInv /\ SizeFollows => AttachInv
<1> SUFFICES ASSUME AttachIInv, SizeFollows PROVE AttachInv
  OBVIOUS
<1>1. AttachTypeOK
  BY DEF AttachIInv, AttachTypes
<1>2. ScreenFollowsControl
  <2> SUFFICES ASSUME AtRest PROVE screen = IF owner = "me" THEN "live" ELSE "notice"
    BY DEF ScreenFollowsControl
  <2>1. over = "runs" /\ knownSize # 0 /\ Len(toClient) = 0 /\ Len(toDaemon) = 0
    BY DEF AtRest
  <2>2. ~Among(toClient, "control") /\ ~Among(toClient, "replay") /\ ~TakenAway(toClient) /\ ~Among(toDaemon, "replay")
        /\ \A i \in 1 .. Len(toClient) : FALSE
    BY <2>1 DEF Among, TakenAway
  <2>3. displaced <=> owner # "me"
    BY <2>1, <2>2 DEF AttachIInv, Gate, Ends
  <2>4. /\ displaced => screen = "notice"
        /\ ~displaced => screen = "live"
    BY <2>1, <2>2, Zenon DEF AttachIInv, Gate
  <2> QED  BY <2>3, <2>4
<1>3. KeysKept
  BY Zenon DEF AttachIInv, KeysTrue, Typing, Held, KeysKept
<1>4. ExitCodeReported
  BY DEF AttachIInv, Endings, ExitCodeReported
<1> QED  BY <1>1, <1>2, <1>3, <1>4 DEF AttachInv

\* The terminal and the session agree, however reads cut the frames of the one and the
\* keys of the other (client.rs): once nothing is under way the screen shows who is in
\* control and the daemon knows the size, no key is lost, doubled or reordered while this
\* client is in control, and the exit code of the command reaches the caller.
THEOREM AttachCorrect == AttachSpec => []AttachInv
<1>1. AttachIInv /\ [AttachNext]_attachVars => AttachIInv'
  BY AttachReceived, AttachSent, AttachRead, AttachWatched, AttachSized, AttachTyped, AttachUnchanged
     DEF AttachNext, InputStep
<1> QED  BY <1>1, AttachInitial, AttachImplied, SizeKept, PTL DEF AttachSpec
=============================================================================
