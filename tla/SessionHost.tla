---------------------------- MODULE SessionHost ----------------------------
(***************************************************************************)
(* Control handoff in the session daemon (rust/climon-session/src/host.rs,  *)
(* control.rs): which surface (the in-process local terminal, a dashboard   *)
(* tab, a PWA) controls the shared PTY, how sizes reach the PTY, when the   *)
(* local terminal is paused and restored, and what the clients are told.    *)
(*                                                                          *)
(* The daemon keeps its state in one record behind one mutex; so does the   *)
(* model.  The methods of HostState are operators from record to record,    *)
(* and each critical section of a thread is one action.  The restore        *)
(* thread drops the mutex before it resizes the PTY, so that resize is an   *)
(* action of its own.                                                       *)
(*                                                                          *)
(* A terminal size is one number: 0 stands for "not reported yet", and the  *)
(* code clamps every size it applies to at least 1.                         *)
(***************************************************************************)
EXTENDS Integers, FiniteSets

CONSTANTS
    Conns,          \* connections to the session socket, each made once
    Viewers,        \* viewer ids that clients send in their Resize frames
    ViewerOf,       \* the viewer id a connection sends
    KindOf,         \* the kind it sends: 1 terminal, 2 dashboard, 3 pwa
    MapOrders,      \* iteration orders of the clients hash map
    None,           \* no controller, no frame
    Local,          \* the id "local" of the in-process terminal
    MaxSize,        \* bound on reported sizes
    LocalAttached,  \* an interactive local terminal is attached
    SizedFirst,     \* a client's first Resize arrives within the 10 ms timer
    WritersDie      \* the writer thread of a client may fail

Ids == Conns \cup Viewers \cup {Local}
Sizes == 0 .. MaxSize
PtySizes == 1 .. MaxSize + 1

ASSUME SessionHostAssumption ==
    /\ IsFiniteSet(Conns)
    /\ ViewerOf \in [Conns -> Viewers]
    /\ KindOf \in [Conns -> 1..3]
    /\ MaxSize \in Nat \ {0}
    /\ Conns \cap Viewers = {}
    /\ Local \notin Conns \cup Viewers
    /\ None \notin Ids
    /\ LocalAttached \in BOOLEAN
    /\ SizedFirst \in BOOLEAN
    /\ WritersDie \in BOOLEAN
    /\ MapOrders \subseteq [Conns -> Nat]

VARIABLES
    host,      \* HostState, guarded by its mutex
    conn,      \* the reader thread of each connection
    inflight   \* size the restore thread is about to give to the PTY

vars == <<host, conn, inflight>>

----------------------------------------------------------------------------
(* Helpers on HostState *)

\* Mutant of AtLeastOne: no clamp.
Unclamped(n) == n

AtLeastOne(n) == IF n < 1 THEN 1 ELSE n

Max2(a, b) == IF a < b THEN b ELSE a

\* clients.values().find(|c| c.viewer_id == id): the first in map order.
Named(h, v) == {c \in h.clients : h.vid[c] = v}

Find(h, v) ==
    CHOOSE c \in Named(h, v) : \A d \in Named(h, v) : h.order[c] =< h.order[d]

\* broadcast: a client whose writer has died is dropped from the map.
Reached(h) == h.joined \cap h.clients

Broadcast(h) ==
    [h EXCEPT !.clients = @ \ (Reached(h) \cap h.dead)]

\* controller_size: None when the controller id names no surface.
ControllerSize(h) ==
    IF h.controller = None THEN None
    ELSE IF h.controller = Local THEN AtLeastOne(h.local)
    ELSE IF Named(h, h.controller) = {} THEN None
    ELSE AtLeastOne(h.size[Find(h, h.controller)])

\* broadcast_control
BroadcastControl(h) ==
    IF ControllerSize(h) = None THEN h
    ELSE [Broadcast(h) EXCEPT !.ctlSent = [c \in Conns |->
            IF c \in Reached(h) THEN <<h.controller, ControllerSize(h)>> ELSE h.ctlSent[c]]]

\* Mutant of LocalDisplaced: goes by size, as the documentation has it.
LocalDisplacedBySize(h) ==
    h.controller \notin {None, Local} /\ h.applied > AtLeastOne(h.local)

\* update_local_displaced: displaced whenever another surface controls.
LocalDisplaced(h) == h.controller \notin {None, Local}

\* Mutant of UpdateLocalDisplaced: the restore is never armed.
UpdateLocalDisplacedOnly(h) ==
    IF LocalAttached /\ LocalDisplaced(h)
      THEN [h EXCEPT !.restore = FALSE, !.suppressed = TRUE,
                     !.notice = AtLeastOne(h.local)]
      ELSE h

UpdateLocalDisplaced(h) ==
    IF ~LocalAttached THEN h
    ELSE IF LocalDisplaced(h)
      THEN [h EXCEPT !.restore = FALSE, !.suppressed = TRUE,
                     !.notice = AtLeastOne(h.local)]
      ELSE [h EXCEPT !.restore = @ \/ h.suppressed]

\* set_pty_size: the one path that changes the grid, the PTY and the metadata.
SetPtySize(h, n) ==
    LET resized == [h EXCEPT !.applied = n, !.pty = n]
        told == [Broadcast(resized) EXCEPT !.sizeSent = [c \in Conns |->
                    IF c \in Reached(h) THEN n ELSE h.sizeSent[c]]]
    IN  UpdateLocalDisplaced(IF n # h.applied THEN told ELSE resized)

\* Mutant of ApplyResize: any surface's size is applied.
ApplyAnyResize(h, v, n) ==
    LET size == AtLeastOne(n) IN
      BroadcastControl(SetPtySize(
        [h EXCEPT !.local = IF v = Local THEN size ELSE @,
                  !.size = IF Named(h, v) = {} THEN @ ELSE [@ EXCEPT ![Find(h, v)] = size],
                  !.controller = IF @ = None THEN v ELSE @], size))

\* apply_resize, for the surface with id v
ApplyResize(h, v, n) ==
    LET size == AtLeastOne(n)
        sized == [h EXCEPT
                    !.local = IF v = Local THEN size ELSE @,
                    !.size = IF Named(h, v) = {} THEN @
                             ELSE [@ EXCEPT ![Find(h, v)] = size],
                    !.controller = IF @ = None THEN v ELSE @]
    IN  BroadcastControl(
          IF sized.controller = v THEN SetPtySize(sized, size)
          ELSE IF v = Local THEN UpdateLocalDisplaced(sized)
          ELSE sized)

\* Mutant of RequestJiggle: a jiggle in progress starts over.
RestartJiggle(h) == [h EXCEPT !.jiggle = "away"]

\* request_jiggle: a jiggle in progress absorbs the request.
RequestJiggle(h) == [h EXCEPT !.jiggle = IF @ = "none" THEN "away" ELSE @]

\* take_control: by v, at its last reported size
TakeControlBy(h, v) ==
    IF v # Local /\ Named(h, v) = {} THEN h
    ELSE LET n == IF v = Local THEN AtLeastOne(h.local) ELSE AtLeastOne(h.size[Find(h, v)])
             taken == SetPtySize([h EXCEPT !.controller = v], n)
         IN  BroadcastControl(IF v # Local /\ n = h.applied THEN RequestJiggle(taken) ELSE taken)

\* surfaces and choose_controller: the highest kind, then the latest
\* connection; the local terminal is a terminal with sequence number 0 that
\* comes last, so it wins a tie.
SurfaceKeys(h) ==
    {<<h.vid[c], h.size[c], h.kind[c], h.seq[c], 0>> : c \in Reached(h)}
      \cup IF LocalAttached THEN {<<Local, h.local, 1, 0, 1>>} ELSE {}

Above(s, t) ==
    \/ s[3] > t[3]
    \/ s[3] = t[3] /\ s[4] > t[4]
    \/ s[3] = t[3] /\ s[4] = t[4] /\ s[5] >= t[5]

ChooseController(h) ==
    CHOOSE s \in SurfaceKeys(h) : \A t \in SurfaceKeys(h) : Above(s, t)

\* recompute_controller: a no-op while the controller is connected
StillPresent(h) ==
    \/ h.controller = Local /\ LocalAttached
    \/ \E c \in Reached(h) : h.vid[c] = h.controller

\* Mutant of RecomputeController: a present controller competes again.
RecomputeAlways(h) ==
    IF SurfaceKeys(h) = {} THEN [h EXCEPT !.controller = None]
    ELSE LET s == ChooseController(h) IN
           BroadcastControl(SetPtySize([h EXCEPT !.controller = s[1]], AtLeastOne(s[2])))

RecomputeController(h) ==
    IF StillPresent(h) THEN h
    ELSE IF SurfaceKeys(h) = {} THEN [h EXCEPT !.controller = None]
    ELSE LET s == ChooseController(h) IN
           BroadcastControl(SetPtySize([h EXCEPT !.controller = s[1]], AtLeastOne(s[2])))

\* write_replay: to one client, whose writer may have died
WriteReplay(h, c) ==
    IF c \in h.dead THEN [h EXCEPT !.clients = @ \ {c}]
    ELSE [h EXCEPT !.sizeSent[c] = h.applied]

\* Mutant of WriteInitialFrames: the new client is not told who controls.
JoinSilently(h, c) ==
    IF c \in h.joined \/ c \notin h.clients THEN h
    ELSE UpdateLocalDisplaced(WriteReplay(
           [h EXCEPT !.joined = @ \cup {c}, !.seq[c] = h.nextSeq, !.nextSeq = @ + 1], c))

\* Mutant of WriteInitialFrames: a client that joins late misses the exit.
JoinAfterExit(h, c) ==
    IF c \in h.joined \/ c \notin h.clients THEN h
    ELSE BroadcastControl(UpdateLocalDisplaced(WriteReplay(
           [h EXCEPT !.joined = @ \cup {c}, !.seq[c] = h.nextSeq, !.nextSeq = @ + 1], c)))

\* write_initial_frames: join the broadcasts; after the exit, only the Exit
\* frame is sent and the client dropped.
WriteInitialFrames(h, c) ==
    IF c \in h.joined \/ c \notin h.clients THEN h
    ELSE LET in == [h EXCEPT !.joined = @ \cup {c}, !.seq[c] = h.nextSeq, !.nextSeq = @ + 1]
             told == BroadcastControl(UpdateLocalDisplaced(WriteReplay(in, c)))
         IN  IF h.exited THEN [told EXCEPT !.clients = @ \ {c}, !.exitSent = @ \cup ({c} \ h.dead)] ELSE told

----------------------------------------------------------------------------
(* Threads: each action is one critical section *)

Init ==
    /\ \E n \in 1 .. MaxSize, order \in MapOrders :
         host = [clients |-> {}, joined |-> {}, dead |-> {},
                 vid |-> [c \in Conns |-> c], kind |-> [c \in Conns |-> 2],
                 size |-> [c \in Conns |-> 0], seq |-> [c \in Conns |-> 0],
                 nextSeq |-> 0, order |-> order,
                 controller |-> IF LocalAttached THEN Local ELSE None,
                 local |-> n, applied |-> n, pty |-> n,
                 suppressed |-> FALSE, restore |-> FALSE, notice |-> 0,
                 jiggle |-> "none", exited |-> FALSE,
                 sizeSent |-> [c \in Conns |-> 0], ctlSent |-> [c \in Conns |-> <<None, 0>>],
                 exitSent |-> {}]
    /\ conn = [c \in Conns |-> "new"]
    /\ inflight = 0

\* spawn_accept_thread: register the client under the id "client-<n>".
Accept(c) ==
    /\ conn[c] = "new"
    /\ conn' = [conn EXCEPT ![c] = "open"]
    /\ host' = [host EXCEPT !.clients = @ \cup {c}]
    /\ UNCHANGED inflight

\* The client has sent a Resize frame.
Stamped(c) == host.vid[c] = ViewerOf[c]

\* The 10 ms timer of a new connection.
JoinTimer(c) ==
    /\ conn[c] # "new"
    /\ SizedFirst => Stamped(c)
    /\ host' = WriteInitialFrames(host, c)
    /\ UNCHANGED <<conn, inflight>>

\* A Resize frame: stamp the client's kind and viewer id, apply the size, join.
ResizeFrame(c, n) ==
    /\ conn[c] = "open"
    /\ LET stamped == IF c \in host.clients
                        THEN [host EXCEPT !.kind[c] = KindOf[c], !.vid[c] = ViewerOf[c]]
                        ELSE host
           \* a client already dropped from the map resizes under the id it sent
           v == IF c \in host.clients THEN stamped.vid[c] ELSE ViewerOf[c]
       IN  host' = WriteInitialFrames(ApplyResize(stamped, v, n), c)
    /\ UNCHANGED <<conn, inflight>>

\* A TakeControl frame; every client of the repository sends its size first.
TakeControlFrame(c) ==
    /\ conn[c] = "open"
    /\ c \in host.clients
    /\ Stamped(c)
    /\ host' = TakeControlBy(host, host.vid[c])
    /\ UNCHANGED <<conn, inflight>>

ReplayFrame(c) ==
    /\ conn[c] = "open"
    /\ c \in host.clients
    /\ host' = WriteReplay(host, c)
    /\ UNCHANGED <<conn, inflight>>

\* Mutant of Disconnect: the controller is not recomputed.
DisconnectOnly(c) ==
    /\ conn[c] = "open"
    /\ conn' = [conn EXCEPT ![c] = "gone"]
    /\ host' = [host EXCEPT !.clients = @ \ {c}]
    /\ UNCHANGED inflight

\* The reader of connection c ends: handle_disconnect.
Disconnect(c) ==
    /\ conn[c] = "open"
    /\ conn' = [conn EXCEPT ![c] = "gone"]
    /\ host' = RecomputeController([host EXCEPT !.clients = @ \ {c}])
    /\ UNCHANGED inflight

\* A writer thread fails to write and ends; the host notices at its next send.
WriterDies(c) ==
    /\ WritersDie
    /\ conn[c] = "open"
    /\ c \notin host.dead
    /\ host' = [host EXCEPT !.dead = @ \cup {c}]
    /\ UNCHANGED <<conn, inflight>>

\* The reader thread broadcasts output of the command.
Output ==
    /\ host' = Broadcast(host)
    /\ host' # host
    /\ UNCHANGED <<conn, inflight>>

\* SIGWINCH of the local terminal
LocalResize(n) ==
    /\ LocalAttached
    /\ host' = ApplyResize(host, Local, n)
    /\ UNCHANGED <<conn, inflight>>

\* local_stdin with the Space key, which takes control only while suppressed
LocalSpace ==
    /\ LocalAttached
    /\ host.suppressed
    /\ host' = TakeControlBy(host, Local)
    /\ UNCHANGED <<conn, inflight>>

\* One tick of the restore thread: a pending restore that is due is repainted
\* (or skipped while the PTY is larger than the console), then one leg of a
\* pending jiggle is read; the PTY is resized after the mutex is dropped.
Overgrown(h) == h.applied > AtLeastOne(h.local)

RestoreDue(h) ==
    IF Overgrown(h) THEN [h EXCEPT !.restore = FALSE]
    ELSE RequestJiggle([h EXCEPT !.suppressed = FALSE, !.restore = FALSE, !.notice = 0])

JiggleSize(n) == IF n > 1 THEN n - 1 ELSE n + 1

RestoreTick(due) ==
    /\ LocalAttached
    /\ ~host.exited
    /\ inflight = 0
    /\ due => host.restore
    /\ LET h == IF due THEN RestoreDue(host) ELSE host IN
         /\ h.jiggle # "none" \/ due
         /\ host' = [h EXCEPT !.jiggle = IF @ = "away" THEN "back" ELSE "none"]
         /\ inflight' = CASE h.jiggle = "away" -> JiggleSize(h.applied)
                          [] h.jiggle = "back" -> h.applied
                          [] h.jiggle = "none" -> 0
    /\ UNCHANGED conn

JiggleResize ==
    /\ inflight # 0
    /\ host' = [host EXCEPT !.pty = inflight]
    /\ inflight' = 0
    /\ UNCHANGED conn

\* The command exits: tell the clients, give the screen back to the local
\* terminal, drop every client.
Exit ==
    /\ ~host.exited
    /\ LET strand == LocalAttached /\ host.suppressed IN
         host' = [host EXCEPT
                    !.exited = TRUE,
                    !.exitSent = @ \cup (Reached(host) \ host.dead),
                    !.controller = IF strand THEN Local ELSE @,
                    !.suppressed = FALSE,
                    !.notice = IF strand THEN 0 ELSE @,
                    !.restore = IF strand THEN FALSE ELSE @,
                    !.clients = {}]
    /\ UNCHANGED <<conn, inflight>>

ClientStep(c) ==
    \/ Accept(c) \/ JoinTimer(c) \/ TakeControlFrame(c) \/ ReplayFrame(c)
    \/ Disconnect(c) \/ WriterDies(c)
    \/ \E n \in Sizes : ResizeFrame(c, n)

Restore == (\E due \in BOOLEAN : RestoreTick(due)) \/ JiggleResize

Next ==
    \/ \E c \in Conns : ClientStep(c)
    \/ \E n \in Sizes : LocalResize(n)
    \/ LocalSpace
    \/ Output
    \/ Restore
    \/ Exit

Spec == Init /\ [][Next]_vars

\* The restore thread keeps ticking, a restore whose delay has passed is acted
\* on by the next tick, and a connection whose writer died is shut down, which
\* ends its reader.
Fairness ==
    /\ WF_vars(Restore)
    /\ SF_vars(RestoreTick(TRUE))
    /\ \A c \in Conns : WF_vars(c \in host.dead /\ Disconnect(c))

FairSpec == Spec /\ Fairness

----------------------------------------------------------------------------

(* Properties *)

HostState ==
    [clients : SUBSET Conns, joined : SUBSET Conns, dead : SUBSET Conns,
     vid : [Conns -> Conns \cup Viewers], kind : [Conns -> 1..3],
     size : [Conns -> Sizes], seq : [Conns -> Nat],
     nextSeq : Nat, order : MapOrders,
     controller : Ids \cup {None},
     local : 1 .. MaxSize, applied : 1 .. MaxSize, pty : PtySizes,
     suppressed : BOOLEAN, restore : BOOLEAN, notice : Sizes,
     jiggle : {"none", "away", "back"}, exited : BOOLEAN,
     sizeSent : [Conns -> Sizes], ctlSent : [Conns -> (Ids \cup {None}) \X Sizes],
     exitSent : SUBSET Conns]

\* The type of every variable; in particular no size 0 ever reaches the grid
\* or the PTY, whatever a client reports (the clamps of apply_resize,
\* take_control and recompute_controller).
TypeOK ==
    /\ host \in HostState
    /\ conn \in [Conns -> {"new", "open", "gone"}]
    /\ inflight \in PtySizes \cup {0}

\* While another surface controls the session the local terminal is paused:
\* whichever thread changed the controller last, output is never painted on a
\* local terminal that another surface sizes (update_local_displaced).
LocalYields ==
    LocalAttached /\ ~host.suppressed => host.controller \in {None, Local}

\* The shared grid has the size that the controller reported last: the local
\* terminal's, or that of an open connection that sends the controller's viewer
\* id (set_pty_size is only called with the controller's own size).  A client
\* that a broadcast or a replay dropped has no recorded size, but its reader may
\* still resize.
GridFollowsController ==
    (host.controller # None /\ ~host.exited) =>
        \/ host.controller = Local /\ LocalAttached /\ host.applied = host.local
        \/ \E c \in Conns :
             /\ conn[c] = "open"
             /\ IF c \in host.clients
                THEN host.vid[c] = host.controller /\ host.size[c] = host.applied
                ELSE ViewerOf[c] = host.controller

\* Every client that takes part in the broadcasts was told the current grid
\* and the current controller last, by whatever mix of replay, PtySize and
\* Control frames (broadcast, broadcast_control, write_replay).
ViewersInformed ==
    \A c \in Reached(host) \ host.dead :
        /\ host.sizeSent[c] = host.applied
        /\ ControllerSize(host) # None => host.ctlSent[c] = <<host.controller, host.applied>>

\* Every connected client that has joined learns of the exit, whether it joined
\* before the command ended (broadcast) or after (write_initial_frames).
ExitDelivered ==
    \A c \in host.joined \ host.dead :
        host.exited /\ conn[c] = "open" => c \in host.exitSent

\* What may move control: a surface that asks for it, the exit of the command,
\* the loss of the controller's last connection; or nobody had it.
ControlMayMove ==
    \/ host.controller = None
    \/ LocalSpace
    \/ \E c \in Conns : TakeControlFrame(c)
    \/ Exit
    \/ /\ ~(host.controller = Local /\ LocalAttached)
       /\ \A c \in Reached(host') : host'.vid[c] # host.controller

\* Control is sticky: nothing else moves it; never does a surface because of
\* its priority or its size (recompute_controller, apply_resize).
ControlSticks == [][host'.controller # host.controller => ControlMayMove]_vars

\* A local terminal that has control again does not stay paused: the restore
\* thread repaints it, unless control moves on first (spawn_restore_thread).
\* A terminal smaller than the grid is skipped, but the controller's grid is
\* its own size.
LocalRestored ==
    (host.suppressed /\ host.controller = Local)
        ~> (~host.suppressed \/ host.controller # Local)

\* A requested jiggle runs both of its legs, so the PTY does not stay at the
\* size that only served to force a repaint (request_jiggle, JiggleLeg).
JiggleCompletes ==
    (host.jiggle # "none") ~> (host.jiggle = "none" \/ host.exited)

\* A controller whose connection is gone, also because its writer died and a
\* broadcast dropped it, is replaced (handle_disconnect).
ControllerRecovers ==
    (host.controller # None /\ ~StillPresent(host))
        ~> (host.controller = None \/ StillPresent(host) \/ host.exited)

\* With no jiggle under way the PTY has the size of the grid (the comment of
\* spawn_restore_thread: "keeps PTY / grid / metadata in lock-step").
LockStep == host.jiggle = "none" /\ inflight = 0 => host.pty = host.applied

=============================================================================
