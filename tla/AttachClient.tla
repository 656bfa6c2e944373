---------------------------- MODULE AttachClient ----------------------------
(***************************************************************************)
(* The attach client: a terminal connected to a session daemon by a        *)
(* socket.  The reader thread decodes frames into a gate that stops        *)
(* painting while another surface controls the session; the input loop     *)
(* turns keys into frames and watches for the detach chord, a resize of    *)
(* the terminal and the end of the session.  The two share an exit code    *)
(* and two flags.  The daemon is reduced to what it sends this client; the *)
(* full one is in SessionHost.                                             *)
(***************************************************************************)
EXTENDS Integers, Sequences, SequencesExt

CONSTANTS
  MaxKeys,      \* bound: keys typed
  MaxHandovers, \* bound: times another surface takes control
  MaxSizes,     \* bound: sizes the terminal takes
  MaxQueue,     \* bound: frames under way to the client
  ExitCode      \* the exit code of the command

ASSUME AttachAssumption ==
  MaxKeys \in Nat /\ MaxHandovers \in Nat /\ MaxSizes \in Nat \ {0}
  /\ MaxQueue \in Nat \ {0} /\ ExitCode \in Nat \ {0}

VARIABLES
  polls,      \* whether the input loop polls (Unix) or blocks in a read
  owner,      \* who controls the session: "me" or "other"
  over,       \* the session: "runs", "exited", "lost" (its daemon died)
  knownSize,  \* the size of this surface the daemon knows
  ptyInput,   \* what this client wrote to the PTY
  toClient, toDaemon,  \* the two directions of the socket
  screen,     \* "blank" after a clear, "live", or "notice"
  exitCode,   \* the shared exit code
  readerDone, \* the shared flag: the reader thread ended
  displaced,  \* the gate of the reader and the flag the input loop reads
  input,      \* input loop: [pc, armed, winch, seen, how]
  size,       \* the size of the terminal
  typed,      \* history: the keys typed
  mine,       \* history: this client controlled the session all the time
  handovers

attachVars == <<polls, owner, over, knownSize, ptyInput, toClient, toDaemon,
                screen, exitCode, readerDone, displaced, input, size,
                typed, mine, handovers>>

Keys == {"prefix", "d", "space", "x"}
Chunks == {<<a>> : a \in Keys} \cup {<<a, b>> : a, b \in Keys}

Control(who) == [type |-> "control", who |-> who]
Frame(t) == [type |-> t]

(* connect_to_session: the terminal is in raw mode, the size is the first  *)
(* frame sent.                                                             *)
AttachInit ==
  /\ polls \in BOOLEAN
  /\ owner \in {"me", "other"}
  /\ mine = (owner = "me")
  /\ over = "runs"
  /\ knownSize = 0
  /\ ptyInput = <<>>
  /\ toClient = <<>>
  /\ toDaemon = <<[type |-> "resize", size |-> 1]>>
  /\ screen = "blank"
  /\ exitCode = 0
  /\ readerDone = FALSE
  /\ displaced = FALSE
  /\ input = [pc |-> "check", armed |-> FALSE, winch |-> FALSE,
              seen |-> 1, how |-> "none"]
  /\ size = 1
  /\ typed = <<>>
  /\ handovers = 0

-----------------------------------------------------------------------------
(* The daemon.                                                             *)

UnchangedByDaemon ==
  UNCHANGED <<polls, screen, exitCode, readerDone, displaced, input,
              size, typed>>
Linked == over = "runs" /\ input.pc \notin {"left", "returned"}
Roomy(n) == Len(toClient) + n <= MaxQueue

(* Frames from the client in the order they were sent: the first resize    *)
(* makes it join, which paints its screen and names the controller; input  *)
(* counts while it controls; it may take control and ask for a replay.     *)
DaemonReceives ==
  /\ over = "runs" /\ toDaemon # <<>> /\ Roomy(2)
  /\ toDaemon' = Tail(toDaemon)
  /\ LET f == Head(toDaemon)
     IN /\ knownSize' = IF f.type = "resize" THEN f.size ELSE knownSize
        /\ ptyInput' = IF f.type = "input" /\ owner = "me"
                       THEN ptyInput \o f.keys ELSE ptyInput
        /\ owner' = IF f.type = "take" THEN "me" ELSE owner
        /\ toClient' = toClient \o
             CASE f.type = "resize" /\ knownSize = 0 ->
                    <<Frame("replay"), Control(owner)>>
               [] f.type = "take" -> <<Control("me")>>
               [] f.type = "replay" -> <<Frame("replay")>>
               [] OTHER -> <<>>
  /\ UNCHANGED <<over, mine, handovers>> /\ UnchangedByDaemon

OtherTakesControl ==
  /\ Linked /\ Roomy(1)
  /\ owner = "me" /\ handovers < MaxHandovers
  /\ owner' = "other" /\ mine' = FALSE
  /\ handovers' = handovers + 1
  /\ toClient' = IF knownSize = 0 THEN toClient
                 ELSE Append(toClient, Control("other"))
  /\ UNCHANGED <<over, knownSize, ptyInput, toDaemon>> /\ UnchangedByDaemon

OutputArrives ==
  /\ Linked /\ Roomy(1) /\ knownSize # 0
  /\ toClient' = Append(toClient, Frame("output"))
  /\ UNCHANGED <<owner, over, knownSize, ptyInput, toDaemon, mine, handovers>>
  /\ UnchangedByDaemon

(* The command exits: the joined client is told, then the socket closes.   *)
SessionExits ==
  /\ Linked /\ knownSize # 0
  /\ over' = "exited"
  /\ toClient' = toClient \o <<Frame("exit"), Frame("eof")>>
  /\ toDaemon' = <<>>
  /\ UNCHANGED <<owner, knownSize, ptyInput, mine, handovers>>
  /\ UnchangedByDaemon

(* The daemon dies, or gives up on a slow client.                          *)
DaemonLost ==
  /\ Linked
  /\ over' = "lost"
  /\ toClient' = Append(toClient, Frame("eof"))
  /\ toDaemon' = <<>>
  /\ UNCHANGED <<owner, knownSize, ptyInput, mine, handovers>>
  /\ UnchangedByDaemon

-----------------------------------------------------------------------------
(* The reader thread.                                                      *)

\* Mutant of ConsumeControl: no replay is requested.
ConsumeControlQuietly(r, who) ==
  [r EXCEPT !.displaced = who # "me",
            !.screen = IF who # "me" THEN "notice"
                       ELSE IF r.displaced THEN "blank" ELSE @]

(* consume_frame on the state of the reader: gate, screen, exit code and   *)
(* whether a replay has to be requested.                                   *)
ConsumeControl(r, who) ==
  LET out == who # "me"
      back == r.displaced /\ ~out
  IN [r EXCEPT !.displaced = out,
               !.screen = IF out THEN "notice" ELSE IF back THEN "blank" ELSE @,
               !.request = @ \/ back]

ConsumeFrame(r, f) ==
  CASE f.type = "replay" /\ ~r.displaced -> [r EXCEPT !.screen = "live"]
    [] f.type = "exit" -> [r EXCEPT !.code = ExitCode]
    [] f.type = "control" -> ConsumeControl(r, f.who)
    [] f.type = "eof" -> [r EXCEPT !.done = TRUE]
    [] OTHER -> r

(* A frame sent to a daemon that still runs.                               *)
Push(s, f) == IF over = "runs" THEN Append(s, f) ELSE s

\* Mutant of ReaderReads: the code of a last frame is dropped.
ReaderReadsForgetful(n) ==
  /\ ~readerDone /\ n \in 1..Len(toClient)
  /\ LET r == FoldLeft(ConsumeFrame,
                       [displaced |-> displaced, screen |-> screen,
                        code |-> exitCode, request |-> FALSE, done |-> FALSE],
                       SubSeq(toClient, 1, n))
     IN /\ screen' = r.screen
        /\ exitCode' = IF r.done THEN exitCode ELSE r.code
        /\ displaced' = r.displaced
        /\ readerDone' = r.done
        /\ toDaemon' = IF r.request THEN Push(toDaemon, Frame("replay"))
                       ELSE toDaemon
  /\ toClient' = SubSeq(toClient, n + 1, Len(toClient))
  /\ UNCHANGED <<polls, owner, over, knownSize, ptyInput, input, size, typed,
                 mine, handovers>>

(* A read returns one or more frames.  A replay is requested once for the  *)
(* chunk; the exit code and the flag for the input loop are stored last.   *)
ReaderReads(n) ==
  /\ ~readerDone /\ n \in 1..Len(toClient)
  /\ LET r == FoldLeft(ConsumeFrame,
                       [displaced |-> displaced, screen |-> screen,
                        code |-> exitCode, request |-> FALSE, done |-> FALSE],
                       SubSeq(toClient, 1, n))
     IN /\ screen' = r.screen
        /\ exitCode' = r.code
        /\ displaced' = r.displaced
        /\ readerDone' = r.done
        /\ toDaemon' = IF r.request THEN Push(toDaemon, Frame("replay"))
                       ELSE toDaemon
  /\ toClient' = SubSeq(toClient, n + 1, Len(toClient))
  /\ UNCHANGED <<polls, owner, over, knownSize, ptyInput, input, size, typed,
                 mine, handovers>>

(* After the client shut its socket down the reader ends; what was already *)
(* received may be read first.                                             *)
ReaderEnds ==
  /\ ~readerDone /\ input.pc = "left"
  /\ readerDone' = TRUE
  /\ UNCHANGED <<polls, owner, over, knownSize, ptyInput, toClient, toDaemon,
                 screen, exitCode, displaced, input, size, typed, mine,
                 handovers>>

-----------------------------------------------------------------------------
(* The input loop.                                                         *)

UnchangedByInput ==
  UNCHANGED <<polls, owner, over, knownSize, ptyInput, toClient, screen,
              exitCode, readerDone, displaced, mine, handovers>>

(* The user resizes the window; the handler of the signal sets a flag.     *)
WindowChanges ==
  /\ polls /\ size < MaxSizes /\ input.pc # "returned"
  /\ size' = size + 1
  /\ input' = [input EXCEPT !.winch = TRUE]
  /\ UNCHANGED <<toDaemon, typed>> /\ UnchangedByInput

(* The head of the loop: leave when the reader is done, otherwise clear    *)
(* the flag of the signal and, in a further step, read the size.           *)
LoopHead ==
  /\ input.pc = "check"
  /\ input' = IF readerDone THEN [input EXCEPT !.pc = "left", !.how = "done"]
              ELSE IF polls /\ input.winch
              THEN [input EXCEPT !.pc = "resize", !.winch = FALSE]
              ELSE [input EXCEPT !.pc = "read"]
  /\ UNCHANGED <<toDaemon, size, typed>> /\ UnchangedByInput

(* local_terminal_size, and the frame that tells the daemon.               *)
ReadSize ==
  /\ input.pc = "resize"
  /\ input' = [input EXCEPT !.pc = "send", !.seen = size]
  /\ UNCHANGED <<toDaemon, size, typed>> /\ UnchangedByInput

SendResize ==
  /\ input.pc = "send"
  /\ toDaemon' = Push(toDaemon, [type |-> "resize", size |-> input.seen])
  /\ input' = [input EXCEPT !.pc = "read"]
  /\ UNCHANGED <<size, typed>> /\ UnchangedByInput

\* Mutant of PollTimesOut: a poll the signal interrupts consumes its flag.
PollTimesOutConsuming ==
  /\ polls /\ input.pc = "read"
  /\ readerDone \/ input.winch
  /\ input' = [input EXCEPT !.pc = "check", !.winch = FALSE]
  /\ UNCHANGED <<toDaemon, size, typed>> /\ UnchangedByInput

\* Mutant of PollTimesOut: only a resize wakes the loop.
PollTimesOutForSize ==
  /\ polls /\ input.pc = "read"
  /\ input.winch
  /\ input' = [input EXCEPT !.pc = "check"]
  /\ UNCHANGED <<toDaemon, size, typed>> /\ UnchangedByInput

(* A poll without input goes round the loop.                               *)
PollTimesOut ==
  /\ polls /\ input.pc = "read"
  /\ readerDone \/ input.winch
  /\ input' = [input EXCEPT !.pc = "check"]
  /\ UNCHANGED <<toDaemon, size, typed>> /\ UnchangedByInput

(* InputProcessor.process, one key at a time: a chord ends the chunk.      *)
ProcessKey(st, key) ==
  IF st.action # "none" THEN st
  ELSE IF st.armed
  THEN IF key = "d" THEN [st EXCEPT !.armed = FALSE, !.action = "detach"]
       ELSE [st EXCEPT !.armed = FALSE,
                       !.out = IF displaced THEN @ ELSE @ \o <<"prefix", key>>]
  ELSE IF key = "prefix" THEN [st EXCEPT !.armed = TRUE]
  ELSE IF ~displaced THEN [st EXCEPT !.out = Append(@, key)]
  ELSE IF key = "space" THEN [st EXCEPT !.action = "take"]
  ELSE st

\* Mutant of Process: the prefix is forgotten between two reads.
ProcessAfresh(chunk) ==
  FoldLeft(ProcessKey, [armed |-> FALSE, out |-> <<>>, action |-> "none"],
           chunk)

(* A chunk of keys; the prefix may have been the last key of the one       *)
(* before.                                                                 *)
Process(chunk) ==
  FoldLeft(ProcessKey, [armed |-> input.armed, out |-> <<>>, action |-> "none"],
           chunk)

(* A read returns keys: what is to be forwarded goes out first, then the   *)
(* action is carried out.                                                  *)
KeysArrive(chunk) ==
  /\ input.pc = "read" /\ Len(typed) + Len(chunk) <= MaxKeys
  /\ typed' = typed \o chunk
  /\ LET p == Process(chunk)
         forward == IF p.out = <<>> THEN toDaemon
                    ELSE Push(toDaemon, [type |-> "input", keys |-> p.out])
     IN /\ toDaemon' = IF p.action = "take" THEN Push(forward, Frame("take"))
                       ELSE forward
        /\ input' = [input EXCEPT !.armed = p.armed,
                                  !.pc = IF p.action = "detach" THEN "stop"
                                         ELSE "check",
                                  !.how = IF p.action = "detach" THEN "detach"
                                          ELSE @]
  /\ UNCHANGED size /\ UnchangedByInput

(* Standard input ends, or cannot be read.                                 *)
InputEnds ==
  /\ input.pc = "read"
  /\ input' = [input EXCEPT !.pc = "stop", !.how = "eof"]
  /\ UNCHANGED <<toDaemon, size, typed>> /\ UnchangedByInput

(* Out of the loop: shut the socket down, join the reader, return.  An     *)
(* input loop that saw the end of the session shuts down a socket that is  *)
(* already closed.                                                         *)
ShutDown ==
  /\ input.pc = "stop"
  /\ input' = [input EXCEPT !.pc = "left"]
  /\ UNCHANGED <<toDaemon, size, typed>> /\ UnchangedByInput

AttachReturns ==
  /\ input.pc = "left" /\ readerDone
  /\ input' = [input EXCEPT !.pc = "returned"]
  /\ UNCHANGED <<toDaemon, size, typed>> /\ UnchangedByInput

-----------------------------------------------------------------------------
InputStep == \/ LoopHead \/ ReadSize \/ SendResize \/ PollTimesOut
             \/ ShutDown \/ AttachReturns
ReaderStep == ReaderEnds \/ \E n \in 1..(MaxQueue + 2) : ReaderReads(n)

AttachNext ==
  \/ InputStep \/ ReaderStep
  \/ DaemonReceives \/ OtherTakesControl \/ OutputArrives
  \/ SessionExits \/ DaemonLost
  \/ WindowChanges \/ InputEnds
  \/ \E chunk \in Chunks : KeysArrive(chunk)

(* Both threads run when they can; keys, windows and the daemon need not.  *)
AttachFairness ==
  /\ WF_attachVars(InputStep) /\ WF_attachVars(ReaderStep)

AttachSpec ==
  AttachInit /\ [][AttachNext]_attachVars /\ AttachFairness

-----------------------------------------------------------------------------
(* Every variable has its type; an exit code is the one of the command.    *)
AttachTypeOK ==
  /\ owner \in {"me", "other"} /\ over \in {"runs", "exited", "lost"}
  /\ knownSize \in 0..MaxSizes /\ size \in 1..MaxSizes
  /\ ptyInput \in Seq(Keys) /\ typed \in Seq(Keys)
  /\ Len(toClient) <= MaxQueue + 2
  /\ screen \in {"blank", "live", "notice"}
  /\ exitCode \in {0, ExitCode}
  /\ {polls, readerDone, displaced, mine} \subseteq BOOLEAN
  /\ input.pc \in {"check", "resize", "send", "read", "stop", "left",
                   "returned"}
  /\ handovers \in 0..MaxHandovers

(* Nothing is under way between the daemon and the client that joined it.  *)
AtRest == /\ over = "runs" /\ knownSize # 0 /\ input.pc = "read"
          /\ toClient = <<>> /\ toDaemon = <<>>

(* However hand-overs, replays and output are cut into reads: once all     *)
(* frames were consumed, the terminal shows the notice if another surface  *)
(* controls the session and a painted screen, not a cleared one, if not.   *)
ScreenFollowsControl ==
  AtRest => screen = IF owner = "me" THEN "live" ELSE "notice"

(* A window that changes while its size is being sent is not forgotten.    *)
SizeFollows == AtRest /\ ~input.winch => knownSize = size

(* While this terminal controls the session, what was typed is what the    *)
(* PTY got, what is under way and a prefix that is held back, in order,    *)
(* wherever the reads cut a chord.                                         *)
KeysKept ==
  mine /\ over = "runs" /\ input.how # "detach" =>
    typed = ptyInput
            \o FlattenSeq([i \in DOMAIN toDaemon |->
                             IF toDaemon[i].type = "input"
                             THEN toDaemon[i].keys ELSE <<>>])
            \o (IF input.armed THEN <<"prefix">> ELSE <<>>)

(* A client that returns because its session ended reports the exit code   *)
(* of the command.                                                         *)
ExitCodeReported ==
  input.pc = "returned" /\ input.how = "done" /\ over = "exited"
    => exitCode = ExitCode

\* The terminal and the session agree however reads cut the two streams: screen,
\* size, typed keys and exit code (the parts above; client.rs).
AttachInv ==
    /\ AttachTypeOK
    /\ ScreenFollowsControl
    /\ SizeFollows
    /\ KeysKept
    /\ ExitCodeReported

(* An input loop that polls returns once the session or its daemon is      *)
(* gone, without a key being pressed.                                      *)
ClientReturns == polls /\ over # "runs" ~> input.pc = "returned"
=============================================================================
