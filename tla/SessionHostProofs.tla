------------------------- MODULE SessionHostProofs -------------------------
(***************************************************************************)
(* Proofs about SessionHost, for any number of connections and sizes, any   *)
(* sharing of viewer ids, with or without a local terminal, and whether or  *)
(* not clients report their size before they join:                          *)
(*   - HostTypeCorrect: every variable has its type;                        *)
(*   - HostYields: the local terminal is paused while another one controls; *)
(*   - HostSticks: control moves only for one of the listed reasons;        *)
(*   - ExitsDelivered: every client that joined learns of the exit.         *)
(* And for viewers that have one connection each:                           *)
(*   - ViewersAreInformed: clients know the grid and who controls it;       *)
(*   - GridFollows: the grid has the size its controller sent, when clients *)
(*     report their size before they join.                                  *)
(***************************************************************************)
EXTENDS SessionHost, WellFoundedInduction, TLAPS

----------------------------------------------------------------------------
(* Sizes and choices *)

\* The clamp makes every reported size one the PTY can have.
LEMMA ClampType == \A n \in Sizes : AtLeastOne(n) \in 1 .. MaxSize /\ AtLeastOne(n) \in Sizes
BY SessionHostAssumption DEF Sizes, AtLeastOne

\* A nonempty set of numbers given by a function has a smallest one.
LEMMA Smallest ==
    ASSUME NEW S, S # {}, NEW f, \A s \in S : f[s] \in Nat
    PROVE  \E s \in S : \A t \in S : f[s] =< f[t]
<1> DEFINE V == {f[s] : s \in S}
<1>1. V # {} /\ V \subseteq Nat
  OBVIOUS
<1>2. PICK n \in V : \A m \in V : ~ (<<m, n>> \in OpToRel(<, Nat))
  BY <1>1, NatLessThanWellFounded, WFMin
<1>3. \A m \in V : ~ (m < n)
  BY <1>1, <1>2 DEF OpToRel
<1>4. \A m \in V : n =< m
  BY <1>1, <1>3
<1> QED  BY <1>4

\* The client that find yields is one with the viewer id asked for.
LEMMA FindType ==
    ASSUME NEW h \in HostState, NEW v, Named(h, v) # {}
    PROVE  Find(h, v) \in Named(h, v) /\ Find(h, v) \in Conns
<1>1. \A c \in Named(h, v) : h.order[c] \in Nat
  BY SessionHostAssumption DEF Named, HostState
<1>2. \E c \in Named(h, v) : \A d \in Named(h, v) : h.order[c] =< h.order[d]
  BY <1>1, Smallest
<1> QED  BY <1>2 DEF Find, Named, HostState
\* What the methods of HostState keep: the types, and that connections are
\* numbered in the order they joined.
HostOK(h) == h \in HostState /\ \A c \in Conns : h.seq[c] =< h.nextSeq

\* A surface has an id, a size, a kind and a number.
LEMMA KeyType ==
    ASSUME NEW h, HostOK(h), NEW s \in SurfaceKeys(h)
    PROVE  /\ s[1] \in Ids /\ s[2] \in Sizes
           /\ s[3] \in 1..3 /\ s[4] \in Nat /\ s[4] =< h.nextSeq /\ s[5] \in 0..1
<1>1. CASE s = <<Local, h.local, 1, 0, 1>>
  BY <1>1 DEF HostOK, HostState, Ids, Sizes
<1>2. ASSUME NEW c \in Reached(h), s = <<h.vid[c], h.size[c], h.kind[c], h.seq[c], 0>>
      PROVE  /\ s[1] \in Ids /\ s[2] \in Sizes
             /\ s[3] \in 1..3 /\ s[4] \in Nat /\ s[4] =< h.nextSeq /\ s[5] \in 0..1
  <2>1. c \in Conns
    BY DEF Reached, HostOK, HostState
  <2> QED  BY <1>2, <2>1 DEF HostOK, HostState, Ids
<1> QED  BY <1>1, <1>2 DEF SurfaceKeys

\* choose_controller yields one of the surfaces: the highest kind, then the
\* latest number, then the local terminal.
LEMMA ChooseType ==
    ASSUME NEW h, HostOK(h), SurfaceKeys(h) # {}
    PROVE  ChooseController(h) \in SurfaceKeys(h)
<1> DEFINE K3 == SurfaceKeys(h)
           f3 == [s \in K3 |-> 3 - s[3]]
           K4 == {s \in K3 : \A t \in K3 : s[3] >= t[3]}
           f4 == [s \in K4 |-> h.nextSeq - s[4]]
           K5 == {s \in K4 : \A t \in K4 : s[4] >= t[4]}
           f5 == [s \in K5 |-> 1 - s[5]]
<1>t. \A s \in K3 : /\ s[3] \in 1..3 /\ s[4] \in Nat /\ s[4] =< h.nextSeq
                    /\ s[5] \in 0..1 /\ h.nextSeq \in Nat
  BY KeyType DEF HostOK, HostState
<1> HIDE DEF K3
<1>1. K4 # {}
  <2>1. \A s \in K3 : f3[s] \in Nat
    BY <1>t
  <2> HIDE DEF f3
  <2>2. PICK s \in K3 : \A t \in K3 : f3[s] =< f3[t]
    BY <2>1, Smallest DEF K3
  <2> QED  BY <1>t, <2>2 DEF f3
<1>2. K5 # {}
  <2>1. \A s \in K4 : f4[s] \in Nat
    BY <1>t
  <2> HIDE DEF f4, K4
  <2>2. PICK s \in K4 : \A t \in K4 : f4[s] =< f4[t]
    BY <1>1, <2>1, Smallest
  <2>3. \A t \in K4 : t \in K3
    BY DEF K4
  <2>4. \A t \in K4 : s[4] >= t[4]
    BY <1>t, <2>2, <2>3 DEF f4
  <2> QED  BY <2>4
<1>3. PICK s \in K5 : \A t \in K5 : s[5] >= t[5]
  <2>1. \A s \in K5 : f5[s] \in Nat
    BY <1>t
  <2> HIDE DEF f5, K5
  <2>2. PICK s \in K5 : \A t \in K5 : f5[s] =< f5[t]
    BY <1>2, <2>1, Smallest
  <2> QED  BY <1>t, <2>2 DEF f5, K5, K4
<1>4. s \in K3 /\ \A t \in K3 : Above(s, t)
  BY <1>t, <1>3 DEF Above
<1> QED  BY <1>4 DEF ChooseController, K3
----------------------------------------------------------------------------
(* The methods of HostState keep its type *)

\* broadcast changes the clients only, and adds none.
LEMMA BroadcastType ==
    ASSUME NEW h, HostOK(h)
    PROVE  HostOK(Broadcast(h))
BY DEF HostOK, HostState, Broadcast, Reached

\* controller_size is a size the PTY can have.
LEMMA ControllerSizeType ==
    ASSUME NEW h, HostOK(h)
    PROVE  ControllerSize(h) \in Sizes \cup {None}
<1>1. ASSUME Named(h, h.controller) # {}
      PROVE  h.size[Find(h, h.controller)] \in Sizes
  BY <1>1, FindType DEF HostOK, HostState
<1>2. h.local \in Sizes
  BY DEF HostOK, HostState, Sizes
<1> QED  BY <1>1, <1>2, ClampType DEF ControllerSize

\* broadcast_control tells everybody who controls, at a size in range.
LEMMA BroadcastControlType ==
    ASSUME NEW h, HostOK(h)
    PROVE  HostOK(BroadcastControl(h))
<1>1. CASE ControllerSize(h) = None
  BY <1>1 DEF BroadcastControl
<1>2. CASE ControllerSize(h) # None
  <2> DEFINE s == [c \in Conns |->
                    IF c \in Reached(h) THEN <<h.controller, ControllerSize(h)>> ELSE h.ctlSent[c]]
             g == Broadcast(h)
  <2>1. s \in [Conns -> (Ids \cup {None}) \X Sizes]
    <3>1. <<h.controller, ControllerSize(h)>> \in (Ids \cup {None}) \X Sizes
      BY <1>2, ControllerSizeType DEF HostOK, HostState
    <3>2. h.ctlSent \in [Conns -> (Ids \cup {None}) \X Sizes]
      BY DEF HostOK, HostState
    <3> QED  BY <3>1, <3>2
  <2>2. HostOK(g)
    BY BroadcastType
  <2> HIDE DEF s, g
  <2>3. HostOK([g EXCEPT !.ctlSent = s])
    BY <2>1, <2>2, ZenonT(60) DEF HostOK, HostState
  <2> QED  BY <1>2, <2>3 DEF BroadcastControl, g, s
<1> QED  BY <1>1, <1>2

\* update_local_displaced keeps the type; the notice has the size of the terminal.
LEMMA DisplacedType ==
    ASSUME NEW h, HostOK(h)
    PROVE  HostOK(UpdateLocalDisplaced(h))
<1>1. AtLeastOne(h.local) \in Sizes
  BY ClampType DEF HostOK, HostState, Sizes
<1>2. HostOK([h EXCEPT !.restore = FALSE, !.suppressed = TRUE, !.notice = AtLeastOne(h.local)])
  BY <1>1, ZenonT(60) DEF HostOK, HostState
<1>3. HostOK([h EXCEPT !.restore = @ \/ h.suppressed])
  BY ZenonT(60) DEF HostOK, HostState
<1> QED  BY <1>2, <1>3 DEF UpdateLocalDisplaced

\* set_pty_size keeps the type for every size the PTY can have.
LEMMA SetPtySizeType ==
    ASSUME NEW h, HostOK(h), NEW n \in 1 .. MaxSize
    PROVE  HostOK(SetPtySize(h, n))
<1> DEFINE r == [h EXCEPT !.applied = n, !.pty = n]
           b == Broadcast(r)
           s == [c \in Conns |-> IF c \in Reached(h) THEN n ELSE h.sizeSent[c]]
           t == [b EXCEPT !.sizeSent = s]
<1>1. HostOK(r)
  <2>1. n \in PtySizes
    BY SessionHostAssumption DEF PtySizes
  <2> QED  BY <2>1, ZenonT(60) DEF HostOK, HostState
<1> HIDE DEF r
<1>2. HostOK(b)
  BY <1>1, BroadcastType
<1>3. s \in [Conns -> Sizes]
  BY SessionHostAssumption DEF HostOK, HostState, Sizes
<1> HIDE DEF b, s
<1>4. HostOK(t)
  BY <1>2, <1>3, ZenonT(60) DEF HostOK, HostState
<1> HIDE DEF t
<1> QED  BY <1>1, <1>4, DisplacedType DEF SetPtySize, r, b, s, t
\* apply_resize clamps what a surface reports before it records or applies it.
LEMMA ApplyResizeType ==
    ASSUME NEW h, HostOK(h), NEW v \in Ids, NEW n \in Sizes
    PROVE  HostOK(ApplyResize(h, v, n))
<1> DEFINE size == AtLeastOne(n)
           l == IF v = Local THEN size ELSE h.local
           z == IF Named(h, v) = {} THEN h.size ELSE [h.size EXCEPT ![Find(h, v)] = size]
           k == IF h.controller = None THEN v ELSE h.controller
           sized == [h EXCEPT !.local = l, !.size = z, !.controller = k]
<1>1. size \in 1 .. MaxSize /\ size \in Sizes
  BY ClampType
<1>2. l \in 1 .. MaxSize
  BY <1>1 DEF HostOK, HostState
<1>3. z \in [Conns -> Sizes]
  BY <1>1 DEF HostOK, HostState
<1>4. k \in Ids \cup {None}
  BY DEF HostOK, HostState
<1> HIDE DEF l, z, k
<1>5. HostOK(sized)
  BY <1>2, <1>3, <1>4 DEF HostOK, HostState
<1>6. sized = [h EXCEPT
                 !.local = IF v = Local THEN size ELSE @,
                 !.size = IF Named(h, v) = {} THEN @
                          ELSE [@ EXCEPT ![Find(h, v)] = size],
                 !.controller = IF @ = None THEN v ELSE @]
  BY DEF l, z, k
<1> HIDE DEF sized
<1>7. /\ HostOK(BroadcastControl(SetPtySize(sized, size)))
      /\ HostOK(BroadcastControl(UpdateLocalDisplaced(sized)))
      /\ HostOK(BroadcastControl(sized))
  BY <1>1, <1>5, SetPtySizeType, DisplacedType, BroadcastControlType
<1> QED  BY <1>6, <1>7 DEF ApplyResize

\* request_jiggle keeps the type.
LEMMA RequestJiggleType ==
    ASSUME NEW h, HostOK(h)
    PROVE  HostOK(RequestJiggle(h))
BY ZenonT(60) DEF HostOK, HostState, RequestJiggle

\* take_control applies a clamped size, of the local terminal or of a client.
LEMMA TakeControlType ==
    ASSUME NEW h, HostOK(h), NEW v \in Ids
    PROVE  HostOK(TakeControlBy(h, v))
<1>1. CASE v # Local /\ Named(h, v) = {}
  BY <1>1 DEF TakeControlBy
<1>2. CASE v = Local \/ Named(h, v) # {}
  <2> DEFINE n == IF v = Local THEN AtLeastOne(h.local) ELSE AtLeastOne(h.size[Find(h, v)])
             k == [h EXCEPT !.controller = v]
             taken == SetPtySize(k, n)
  <2>1. n \in 1 .. MaxSize
    <3>1. h.local \in Sizes
      BY DEF HostOK, HostState, Sizes
    <3>2. v # Local => h.size[Find(h, v)] \in Sizes
      BY <1>2, FindType DEF HostOK, HostState
    <3> QED  BY <3>1, <3>2, ClampType
  <2>2. HostOK(k)
    BY DEF HostOK, HostState
  <2> HIDE DEF n, k
  <2>3. HostOK(taken)
    BY <2>1, <2>2, SetPtySizeType
  <2> HIDE DEF taken
  <2>4. HostOK(BroadcastControl(RequestJiggle(taken))) /\ HostOK(BroadcastControl(taken))
    BY <2>3, RequestJiggleType, BroadcastControlType
  <2> QED  BY <1>2, <2>4 DEF TakeControlBy, taken, k, n
<1> QED  BY <1>1, <1>2

\* recompute_controller applies the clamped size of the surface it chooses.
LEMMA RecomputeType ==
    ASSUME NEW h, HostOK(h)
    PROVE  HostOK(RecomputeController(h))
<1>1. HostOK([h EXCEPT !.controller = None])
  BY DEF HostOK, HostState
<1>2. ASSUME SurfaceKeys(h) # {}
      PROVE  HostOK(BroadcastControl(SetPtySize(
               [h EXCEPT !.controller = ChooseController(h)[1]], AtLeastOne(ChooseController(h)[2]))))
  <2> DEFINE s == ChooseController(h)
             k == [h EXCEPT !.controller = s[1]]
  <2>1. s[1] \in Ids /\ s[2] \in Sizes
    BY <1>2, ChooseType, KeyType
  <2> HIDE DEF s
  <2>2. HostOK(k)
    BY <2>1, ZenonT(60) DEF HostOK, HostState
  <2> HIDE DEF k
  <2>3. HostOK(BroadcastControl(SetPtySize(k, AtLeastOne(s[2]))))
    BY <2>1, <2>2, ClampType, SetPtySizeType, BroadcastControlType
  <2> QED  BY <2>3 DEF k, s
<1> QED  BY <1>1, <1>2 DEF RecomputeController

\* write_replay sends the grid as it is, or drops the client.
LEMMA WriteReplayType ==
    ASSUME NEW h, HostOK(h), NEW c \in Conns
    PROVE  HostOK(WriteReplay(h, c))
<1>1. HostOK([h EXCEPT !.clients = @ \ {c}])
  BY DEF HostOK, HostState
<1>2. HostOK([h EXCEPT !.sizeSent[c] = h.applied])
  <2>1. [h.sizeSent EXCEPT ![c] = h.applied] \in [Conns -> Sizes]
    BY DEF HostOK, HostState, Sizes
  <2> QED  BY <2>1 DEF HostOK, HostState
<1> QED  BY <1>1, <1>2 DEF WriteReplay

\* A connection that joins gets the next number.
LEMMA JoinType ==
    ASSUME NEW h, HostOK(h), NEW c \in Conns
    PROVE  HostOK([h EXCEPT !.joined = @ \cup {c}, !.seq[c] = h.nextSeq, !.nextSeq = @ + 1])
<1> DEFINE q == [h.seq EXCEPT ![c] = h.nextSeq]
           g == [h EXCEPT !.joined = @ \cup {c}, !.seq = q, !.nextSeq = @ + 1]
<1>1. q \in [Conns -> Nat] /\ \A d \in Conns : q[d] =< h.nextSeq + 1
  BY DEF HostOK, HostState
<1>2. h.nextSeq + 1 \in Nat
  BY DEF HostOK, HostState
<1> HIDE DEF q
<1>3. g \in HostState
  BY <1>1, <1>2, ZenonT(60) DEF HostOK, HostState
<1>4. g.seq = q /\ g.nextSeq = h.nextSeq + 1
  BY DEF HostOK, HostState
<1> QED  BY <1>1, <1>3, <1>4 DEF HostOK, q

\* write_initial_frames is a join, a replay and a round of Control frames.
LEMMA InitialFramesType ==
    ASSUME NEW h, HostOK(h), NEW c \in Conns
    PROVE  HostOK(WriteInitialFrames(h, c))
<1> DEFINE in == [h EXCEPT !.joined = @ \cup {c}, !.seq[c] = h.nextSeq, !.nextSeq = @ + 1]
           told == BroadcastControl(UpdateLocalDisplaced(WriteReplay(in, c)))
<1>1. HostOK(in)
  BY JoinType
<1> HIDE DEF in
<1>2. HostOK(told)
  BY <1>1, WriteReplayType, DisplacedType, BroadcastControlType
<1> HIDE DEF told
<1>3. HostOK([told EXCEPT !.clients = @ \ {c}, !.exitSent = @ \cup ({c} \ h.dead)])
  BY <1>2, ZenonT(60) DEF HostOK, HostState
<1> QED  BY <1>2, <1>3 DEF WriteInitialFrames, told, in
----------------------------------------------------------------------------
(* What the methods do to the controller and to the local terminal *)

\* A local terminal that is not the controller is paused, and no restore is
\* pending that would wake it.
Yields(h) ==
    LocalAttached /\ h.controller \notin {None, Local} => h.suppressed /\ ~h.restore

\* g has the controller and the clients of h, or fewer clients.
Keeps(h, g) ==
    /\ g.controller = h.controller
    /\ g.vid = h.vid
    /\ Reached(g) \subseteq Reached(h)
    /\ Yields(h) => Yields(g)

\* broadcast drops dead clients and changes nothing else.
LEMMA BroadcastKeeps ==
    ASSUME NEW h, HostOK(h)
    PROVE  Keeps(h, Broadcast(h))
BY DEF HostOK, HostState, Broadcast, Reached, Keeps, Yields

\* Nor does broadcast_control.
LEMMA BroadcastControlKeeps ==
    ASSUME NEW h, HostOK(h)
    PROVE  Keeps(h, BroadcastControl(h))
<1> DEFINE s == [c \in Conns |->
                  IF c \in Reached(h) THEN <<h.controller, ControllerSize(h)>> ELSE h.ctlSent[c]]
           g == Broadcast(h)
<1>1. HostOK(g) /\ Keeps(h, g)
  BY BroadcastType, BroadcastKeeps
<1> HIDE DEF s, g
<1>2. Keeps(h, [g EXCEPT !.ctlSent = s])
  BY <1>1 DEF HostOK, HostState, Reached, Keeps, Yields
<1> QED  BY <1>2 DEF BroadcastControl, Keeps, g, s

\* update_local_displaced makes a displaced terminal yield.
LEMMA DisplacedKeeps ==
    ASSUME NEW h, HostOK(h)
    PROVE  Keeps(h, UpdateLocalDisplaced(h)) /\ Yields(UpdateLocalDisplaced(h))
BY DEF HostOK, HostState, Reached, Keeps, Yields, UpdateLocalDisplaced, LocalDisplaced

\* set_pty_size ends with it.
LEMMA SetPtySizeKeeps ==
    ASSUME NEW h, HostOK(h), NEW n \in 1 .. MaxSize
    PROVE  Keeps(h, SetPtySize(h, n)) /\ Yields(SetPtySize(h, n))
<1> DEFINE r == [h EXCEPT !.applied = n, !.pty = n]
           b == Broadcast(r)
           s == [c \in Conns |-> IF c \in Reached(h) THEN n ELSE h.sizeSent[c]]
           t == [b EXCEPT !.sizeSent = s]
<1>1. HostOK(r) /\ Keeps(h, r)
  <2>1. n \in PtySizes
    BY SessionHostAssumption DEF PtySizes
  <2> QED  BY <2>1 DEF HostOK, HostState, Reached, Keeps, Yields
<1> HIDE DEF r
<1>2. HostOK(b) /\ Keeps(r, b)
  BY <1>1, BroadcastType, BroadcastKeeps
<1>3. s \in [Conns -> Sizes]
  BY SessionHostAssumption DEF HostOK, HostState, Sizes
<1> HIDE DEF b, s
<1>4. HostOK(t) /\ Keeps(b, t)
  BY <1>2, <1>3, ZenonT(60) DEF HostOK, HostState, Reached, Keeps, Yields
<1> HIDE DEF t
<1>5. /\ Keeps(t, UpdateLocalDisplaced(t)) /\ Yields(UpdateLocalDisplaced(t))
      /\ Keeps(r, UpdateLocalDisplaced(r)) /\ Yields(UpdateLocalDisplaced(r))
  BY <1>1, <1>4, DisplacedKeeps
<1>6. Keeps(h, UpdateLocalDisplaced(t)) /\ Keeps(h, UpdateLocalDisplaced(r))
  BY <1>1, <1>2, <1>4, <1>5 DEF Keeps
<1> QED  BY <1>5, <1>6 DEF SetPtySize, r, b, s, t

\* A resize moves control only if nobody had it.
LEMMA ApplyResizeKeeps ==
    ASSUME NEW h, HostOK(h), NEW v \in Ids, NEW n \in Sizes
    PROVE  /\ h.controller # None => ApplyResize(h, v, n).controller = h.controller
           /\ Yields(h) => Yields(ApplyResize(h, v, n))
<1> DEFINE size == AtLeastOne(n)
           sized == [h EXCEPT
                       !.local = IF v = Local THEN size ELSE @,
                       !.size = IF Named(h, v) = {} THEN @
                                ELSE [@ EXCEPT ![Find(h, v)] = size],
                       !.controller = IF @ = None THEN v ELSE @]
<1>1. size \in 1 .. MaxSize /\ size \in Sizes
  BY ClampType
<1>2. HostOK(sized)
  <2> DEFINE l == IF v = Local THEN size ELSE h.local
             z == IF Named(h, v) = {} THEN h.size ELSE [h.size EXCEPT ![Find(h, v)] = size]
             k == IF h.controller = None THEN v ELSE h.controller
  <2>1. l \in 1 .. MaxSize /\ z \in [Conns -> Sizes] /\ k \in Ids \cup {None}
    BY <1>1 DEF HostOK, HostState
  <2> HIDE DEF l, z, k
  <2>2. HostOK([h EXCEPT !.local = l, !.size = z, !.controller = k])
    BY <2>1 DEF HostOK, HostState
  <2> QED  BY <2>2 DEF l, z, k
<1>3. /\ sized.controller = IF h.controller = None THEN v ELSE h.controller
      /\ sized.suppressed = h.suppressed /\ sized.restore = h.restore
  BY DEF HostOK, HostState
<1>4. sized.controller # v /\ Yields(h) => Yields(sized)
  BY <1>3 DEF Yields
<1> HIDE DEF sized, size
<1>5. HostOK(SetPtySize(sized, size)) /\ HostOK(UpdateLocalDisplaced(sized))
  BY <1>1, <1>2, SetPtySizeType, DisplacedType
<1>6. /\ Keeps(sized, SetPtySize(sized, size)) /\ Yields(SetPtySize(sized, size))
      /\ Keeps(sized, UpdateLocalDisplaced(sized)) /\ Yields(UpdateLocalDisplaced(sized))
  BY <1>1, <1>2, SetPtySizeKeeps, DisplacedKeeps
<1> DEFINE g == IF sized.controller = v THEN SetPtySize(sized, size)
                ELSE IF v = Local THEN UpdateLocalDisplaced(sized)
                ELSE sized
<1>7. HostOK(g) /\ g.controller = sized.controller /\ (Yields(h) => Yields(g))
  BY <1>2, <1>4, <1>5, <1>6 DEF Keeps
<1>8. ApplyResize(h, v, n) = BroadcastControl(g)
  BY DEF ApplyResize, sized, size
<1> HIDE DEF g
<1>9. Keeps(g, BroadcastControl(g))
  BY <1>7, BroadcastControlKeeps
<1> QED  BY <1>3, <1>7, <1>8, <1>9 DEF Keeps
\* request_jiggle touches nothing of this.
LEMMA RequestJiggleKeeps ==
    ASSUME NEW h, HostOK(h)
    PROVE  Keeps(h, RequestJiggle(h))
BY DEF HostOK, HostState, Reached, Keeps, Yields, RequestJiggle

\* Whoever takes control, the local terminal yields to another surface.
LEMMA TakeControlKeeps ==
    ASSUME NEW h, HostOK(h), NEW v \in Ids
    PROVE  Yields(h) => Yields(TakeControlBy(h, v))
<1>1. CASE v # Local /\ Named(h, v) = {}
  BY <1>1 DEF TakeControlBy
<1>2. CASE v = Local \/ Named(h, v) # {}
  <2> DEFINE n == IF v = Local THEN AtLeastOne(h.local) ELSE AtLeastOne(h.size[Find(h, v)])
             k == [h EXCEPT !.controller = v]
             taken == SetPtySize(k, n)
  <2>1. n \in 1 .. MaxSize
    <3>1. h.local \in Sizes
      BY DEF HostOK, HostState, Sizes
    <3>2. v # Local => h.size[Find(h, v)] \in Sizes
      BY <1>2, FindType DEF HostOK, HostState
    <3> QED  BY <3>1, <3>2, ClampType
  <2>2. HostOK(k)
    BY DEF HostOK, HostState
  <2> HIDE DEF n, k
  <2>3. HostOK(taken) /\ Yields(taken)
    BY <2>1, <2>2, SetPtySizeType, SetPtySizeKeeps
  <2> HIDE DEF taken
  <2>4. Yields(BroadcastControl(RequestJiggle(taken))) /\ Yields(BroadcastControl(taken))
    BY <2>3, RequestJiggleType, RequestJiggleKeeps, BroadcastControlKeeps DEF Keeps
  <2> QED  BY <1>2, <2>4 DEF TakeControlBy, taken, k, n
<1> QED  BY <1>1, <1>2

\* recompute_controller leaves a controller alone that is still there.
LEMMA RecomputeKeeps ==
    ASSUME NEW h, HostOK(h)
    PROVE  /\ Yields(h) => Yields(RecomputeController(h))
           /\ RecomputeController(h).controller # h.controller => ~StillPresent(h)
           /\ RecomputeController(h).vid = h.vid
           /\ Reached(RecomputeController(h)) \subseteq Reached(h)
<1> DEFINE g == [h EXCEPT !.controller = None]
<1>1. CASE StillPresent(h)
  BY <1>1 DEF RecomputeController
<1>2. CASE ~StillPresent(h) /\ SurfaceKeys(h) = {}
  <2>1. RecomputeController(h) = g
    BY <1>2 DEF RecomputeController
  <2>2. Yields(g) /\ g.vid = h.vid /\ Reached(g) = Reached(h)
    BY DEF Yields, HostOK, HostState, Reached
  <2> QED  BY <1>2, <2>1, <2>2
<1>3. CASE ~StillPresent(h) /\ SurfaceKeys(h) # {}
  <2> DEFINE s == ChooseController(h)
             k == [h EXCEPT !.controller = s[1]]
             r == SetPtySize(k, AtLeastOne(s[2]))
  <2>1. s[1] \in Ids /\ s[2] \in Sizes
    BY <1>3, ChooseType, KeyType
  <2> HIDE DEF s
  <2>2. HostOK(k) /\ k.vid = h.vid /\ Reached(k) = Reached(h)
    BY <2>1 DEF HostOK, HostState, Reached
  <2> HIDE DEF k
  <2>3. HostOK(r) /\ Keeps(k, r) /\ Yields(r)
    BY <2>1, <2>2, ClampType, SetPtySizeType, SetPtySizeKeeps
  <2> HIDE DEF r
  <2>4. Keeps(r, BroadcastControl(r))
    BY <2>3, BroadcastControlKeeps
  <2>5. RecomputeController(h) = BroadcastControl(r)
    BY <1>3 DEF RecomputeController, r, k, s
  <2> QED  BY <1>3, <2>2, <2>3, <2>4, <2>5 DEF Keeps
<1> QED  BY <1>1, <1>2, <1>3

\* A new client changes neither: it takes part in the broadcasts, no more.
LEMMA InitialFramesKeep ==
    ASSUME NEW h, HostOK(h), NEW c \in Conns
    PROVE  /\ WriteInitialFrames(h, c).controller = h.controller
           /\ Yields(h) => Yields(WriteInitialFrames(h, c))
<1> DEFINE in == [h EXCEPT !.joined = @ \cup {c}, !.seq[c] = h.nextSeq, !.nextSeq = @ + 1]
           w == WriteReplay(in, c)
           d == UpdateLocalDisplaced(w)
           told == BroadcastControl(d)
           last == [told EXCEPT !.clients = @ \ {c}, !.exitSent = @ \cup ({c} \ h.dead)]
<1>1. HostOK(in) /\ in.controller = h.controller
  <2>1. HostOK(in)
    BY JoinType
  <2> QED  BY <2>1 DEF HostOK, HostState
<1> HIDE DEF in
<1>2. HostOK(w) /\ w.controller = in.controller
  <2>1. HostOK(w)
    BY <1>1, WriteReplayType
  <2> QED  BY <1>1, <2>1 DEF HostOK, HostState, WriteReplay
<1> HIDE DEF w
<1>3. HostOK(d) /\ Yields(d) /\ d.controller = w.controller
  BY <1>2, DisplacedType, DisplacedKeeps DEF Keeps
<1> HIDE DEF d
<1>4. HostOK(told) /\ Yields(told) /\ told.controller = d.controller
  BY <1>3, BroadcastControlType, BroadcastControlKeeps DEF Keeps
<1> HIDE DEF told
<1>5. Yields(last) /\ last.controller = told.controller
  BY <1>4 DEF HostOK, HostState, Yields
<1> HIDE DEF last
<1> QED  BY <1>1, <1>2, <1>3, <1>4, <1>5 DEF WriteInitialFrames, last, told, d, w, in
----------------------------------------------------------------------------
(* The steps of the threads *)

\* What a step does: it keeps HostState, the local terminal yields afterwards
\* if it did before, and control stays or moves for one of the reasons.
Fine ==
    /\ HostOK(host')
    /\ Yields(host) => Yields(host')
    /\ host'.controller # host.controller => ControlMayMove

\* The frames and the end of one connection.
LEMMA ClientSteps ==
    ASSUME HostOK(host), NEW c \in Conns, ClientStep(c)
    PROVE  Fine
<1> USE DEF Fine
<1>1. CASE Accept(c)
  BY <1>1, ZenonT(60) DEF Accept, HostOK, HostState, Yields
<1>2. CASE JoinTimer(c)
  BY <1>2, InitialFramesType, InitialFramesKeep DEF JoinTimer
<1>3. CASE TakeControlFrame(c)
  <2>1. host.vid[c] \in Ids
    BY DEF HostOK, HostState, Ids
  <2>2. host' = TakeControlBy(host, host.vid[c]) /\ ControlMayMove
    BY <1>3 DEF TakeControlFrame, ControlMayMove
  <2> QED  BY <2>1, <2>2, TakeControlType, TakeControlKeeps
<1>4. CASE ReplayFrame(c)
  <2>1. HostOK(host')
    BY <1>4, WriteReplayType DEF ReplayFrame
  <2>2. /\ host'.controller = host.controller
        /\ host'.suppressed = host.suppressed /\ host'.restore = host.restore
    BY <1>4 DEF ReplayFrame, WriteReplay, HostOK, HostState
  <2> QED  BY <2>1, <2>2 DEF Yields
<1>5. CASE Disconnect(c)
  <2> DEFINE h == [host EXCEPT !.clients = @ \ {c}]
  <2>1. HostOK(h) /\ (Yields(host) => Yields(h)) /\ h.controller = host.controller
    BY DEF HostOK, HostState, Yields
  <2>2. host' = RecomputeController(h)
    BY <1>5 DEF Disconnect
  <2> HIDE DEF h
  <2>3. host'.controller # host.controller => ControlMayMove
    <3> SUFFICES ASSUME host'.controller # host.controller PROVE ControlMayMove
      OBVIOUS
    <3>1. ~StillPresent(h) /\ host'.vid = h.vid /\ Reached(host') \subseteq Reached(h)
      BY <2>1, <2>2, RecomputeKeeps
    <3> QED  BY <2>1, <3>1 DEF StillPresent, ControlMayMove
  <2> QED  BY <2>1, <2>2, <2>3, RecomputeType, RecomputeKeeps
<1>6. CASE WriterDies(c)
  BY <1>6, ZenonT(60) DEF WriterDies, HostOK, HostState, Yields
<1>7. ASSUME NEW n \in Sizes, ResizeFrame(c, n) PROVE Fine
  <2> DEFINE h == IF c \in host.clients
                    THEN [host EXCEPT !.kind[c] = KindOf[c], !.vid[c] = ViewerOf[c]]
                    ELSE host
             v == IF c \in host.clients THEN h.vid[c] ELSE ViewerOf[c]
             g == ApplyResize(h, v, n)
  <2>1. HostOK(h) /\ (Yields(host) => Yields(h)) /\ h.controller = host.controller
    <3> DEFINE k == [host.kind EXCEPT ![c] = KindOf[c]]
               w == [host.vid EXCEPT ![c] = ViewerOf[c]]
    <3>1. k \in [Conns -> 1..3] /\ w \in [Conns -> Conns \cup Viewers]
      BY SessionHostAssumption DEF HostOK, HostState
    <3> HIDE DEF k, w
    <3>2. HostOK([host EXCEPT !.kind = k, !.vid = w])
      BY <3>1 DEF HostOK, HostState
    <3>3. HostOK(h)
      BY <3>2 DEF k, w
    <3>4. h.controller = host.controller /\ h.suppressed = host.suppressed /\ h.restore = host.restore
      BY DEF HostOK, HostState
    <3> HIDE DEF h
    <3> QED  BY <3>3, <3>4 DEF Yields
  <2>2. host' = WriteInitialFrames(g, c)
    BY <1>7 DEF ResizeFrame
  <2> HIDE DEF h
  <2>3. v \in Ids
    BY <2>1, SessionHostAssumption DEF HostOK, HostState, Ids
  <2> HIDE DEF v
  <2>4. HostOK(g) /\ (Yields(h) => Yields(g)) /\ (h.controller # None => g.controller = h.controller)
    BY <2>1, <2>3, ApplyResizeType, ApplyResizeKeeps
  <2> HIDE DEF g
  <2>5. host.controller = None => ControlMayMove
    BY DEF ControlMayMove
  <2> QED  BY <2>1, <2>2, <2>4, <2>5, InitialFramesType, InitialFramesKeep
<1> QED  BY <1>1, <1>2, <1>3, <1>4, <1>5, <1>6, <1>7 DEF ClientStep

\* The local terminal, the output and the exit of the command.
LEMMA HostSteps ==
    ASSUME HostOK(host), Yields(host),
           (\E n \in Sizes : LocalResize(n)) \/ LocalSpace \/ Output \/ Exit
    PROVE  Fine
<1> USE DEF Fine
<1>l. Local \in Ids
  BY DEF Ids
<1>1. ASSUME NEW n \in Sizes, LocalResize(n) PROVE Fine
  <2>1. host.controller = None => ControlMayMove
    BY DEF ControlMayMove
  <2> QED  BY <1>1, <1>l, <2>1, ApplyResizeType, ApplyResizeKeeps DEF LocalResize
<1>2. CASE LocalSpace
  <2>1. ControlMayMove
    BY <1>2 DEF ControlMayMove
  <2> QED  BY <1>2, <1>l, <2>1, TakeControlType, TakeControlKeeps DEF LocalSpace
<1>3. CASE Output
  BY <1>3, BroadcastType, BroadcastKeeps DEF Output, Keeps
<1>4. CASE Exit
  <2>1. ControlMayMove
    BY <1>4 DEF ControlMayMove
  <2>2. HostOK(host')
    <3> DEFINE strand == LocalAttached /\ host.suppressed
               e == host.exitSent \cup (Reached(host) \ host.dead)
               k == IF strand THEN Local ELSE host.controller
               m == IF strand THEN 0 ELSE host.notice
               r == IF strand THEN FALSE ELSE host.restore
    <3>0. 0 \in Sizes
      BY SessionHostAssumption DEF Sizes
    <3>h. /\ host.exitSent \in SUBSET Conns /\ Reached(host) \in SUBSET Conns
          /\ host.controller \in Ids \cup {None} /\ host.notice \in Sizes
          /\ host.restore \in BOOLEAN
      BY DEF HostOK, HostState, Reached
    <3>1. /\ e \in SUBSET Conns /\ k \in Ids \cup {None}
          /\ m \in Sizes /\ r \in BOOLEAN
      BY <1>l, <3>0, <3>h
    <3>2. host' = [host EXCEPT !.exited = TRUE, !.exitSent = e, !.controller = k,
                     !.suppressed = FALSE, !.notice = m, !.restore = r, !.clients = {}]
      BY <1>4 DEF Exit
    <3> HIDE DEF e, k, m, r
    <3> QED  BY <3>1, <3>2, ZenonT(60) DEF HostOK, HostState
  <2>3. Yields(host')
    BY <1>4 DEF Exit, HostOK, HostState, Yields
  <2> QED  BY <2>1, <2>2, <2>3
<1> QED  BY <1>1, <1>2, <1>3, <1>4
\* The restore thread: it wakes the local terminal only when a restore is
\* pending, which it is not while another surface controls.
LEMMA RestoreSteps ==
    ASSUME HostOK(host), Yields(host), inflight \in PtySizes \cup {0}, Restore
    PROVE  Fine /\ inflight' \in PtySizes \cup {0}
<1> USE DEF Fine
<1>1. CASE JiggleResize
  BY <1>1, ZenonT(60) DEF JiggleResize, HostOK, HostState, Yields
<1>2. ASSUME NEW due \in BOOLEAN, RestoreTick(due)
      PROVE  Fine /\ inflight' \in PtySizes \cup {0}
  <2> DEFINE h == IF due THEN RestoreDue(host) ELSE host
             j == IF h.jiggle = "away" THEN "back" ELSE "none"
  <2>1. HostOK(h) /\ Yields(h) /\ h.controller = host.controller
    <3> DEFINE g == [host EXCEPT !.suppressed = FALSE, !.restore = FALSE, !.notice = 0]
               o == [host EXCEPT !.restore = FALSE]
    <3>1. HostOK(o) /\ Yields(o) /\ o.controller = host.controller
      BY ZenonT(60) DEF HostOK, HostState, Yields
    <3>2. HostOK(g) /\ g.controller = host.controller
      <4>1. 0 \in Sizes
        BY SessionHostAssumption DEF Sizes
      <4> QED  BY <4>1 DEF HostOK, HostState
    <3>3. due => Yields(g)
      <4>1. due => host.restore
        BY <1>2 DEF RestoreTick
      <4> QED  BY <3>2, <4>1 DEF Yields
    <3> HIDE DEF g, o
    <3>4. HostOK(RequestJiggle(g)) /\ Keeps(g, RequestJiggle(g))
      BY <3>2, RequestJiggleType, RequestJiggleKeeps
    <3>5. RestoreDue(host) \in {o, RequestJiggle(g)}
      BY DEF RestoreDue, g, o
    <3> QED  BY <3>1, <3>2, <3>3, <3>4, <3>5 DEF Keeps
  <2>2. /\ host' = [h EXCEPT !.jiggle = j]
        /\ inflight' = CASE h.jiggle = "away" -> JiggleSize(h.applied)
                          [] h.jiggle = "back" -> h.applied
                          [] h.jiggle = "none" -> 0
    BY <1>2 DEF RestoreTick
  <2> HIDE DEF h
  <2>3. HostOK(host') /\ Yields(host') /\ host'.controller = h.controller
    BY <2>1, <2>2, ZenonT(60) DEF HostOK, HostState, Yields
  <2>4. h.jiggle \in {"none", "away", "back"} /\ h.applied \in 1 .. MaxSize
    BY <2>1 DEF HostOK, HostState
  <2>5. JiggleSize(h.applied) \in PtySizes /\ h.applied \in PtySizes
    BY <2>4, SessionHostAssumption DEF JiggleSize, PtySizes
  <2>6. inflight' \in PtySizes \cup {0}
    BY <2>2, <2>4, <2>5
  <2> QED  BY <2>1, <2>3, <2>6
<1> QED  BY <1>1, <1>2 DEF Restore

----------------------------------------------------------------------------
(* The theorems *)

\* The inductive invariant: TypeOK with the order of the numbers, and Yields.
HostInv ==
    /\ HostOK(host)
    /\ Yields(host)
    /\ conn \in [Conns -> {"new", "open", "gone"}]
    /\ inflight \in PtySizes \cup {0}

\* The daemon starts with the local terminal, if any, in control.
LEMMA HostInit == Init => HostInv
<1> SUFFICES ASSUME Init PROVE HostInv
  OBVIOUS
<1>1. PICK n \in 1 .. MaxSize, order \in MapOrders :
         host = [clients |-> {}, joined |-> {}, dead |-> {},
                 vid |-> [c \in Conns |-> c], kind |-> [c \in Conns |-> 2],
                 size |-> [c \in Conns |-> 0], seq |-> [c \in Conns |-> 0],
                 nextSeq |-> 0, order |-> order,
                 controller |-> IF LocalAttached THEN Local ELSE None,
                 local |-> n, applied |-> n, pty |-> n,
                 suppressed |-> FALSE, restore |-> FALSE, notice |-> 0,
                 jiggle |-> "none", exited |-> FALSE,
                 sizeSent |-> [c \in Conns |-> 0], ctlSent |-> [c \in Conns |-> <<None, 0>>],
                 exitSent |-> {}]
  BY DEF Init
<1>2. 0 \in Sizes /\ n \in PtySizes
  BY SessionHostAssumption DEF Sizes, PtySizes
<1>3. host \in HostState
  BY <1>1, <1>2 DEF HostState, Ids
<1>4. \A c \in Conns : host.seq[c] =< host.nextSeq
  BY <1>1
<1>5. Yields(host)
  BY <1>1 DEF Yields
<1> QED  BY <1>3, <1>4, <1>5 DEF Init, HostInv, HostOK

\* Every step keeps the invariant and moves control only for a reason.
LEMMA HostStep ==
    HostInv /\ [Next]_vars =>
        HostInv' /\ [host'.controller # host.controller => ControlMayMove]_vars
<1> SUFFICES ASSUME HostInv, [Next]_vars
             PROVE  HostInv' /\ (host'.controller # host.controller => ControlMayMove)
  OBVIOUS
<1> USE DEF HostInv
<1>1. CASE UNCHANGED vars
  BY <1>1 DEF vars, HostOK, Yields
<1>2. ASSUME NEW c \in Conns, ClientStep(c)
      PROVE  Fine /\ conn' \in [Conns -> {"new", "open", "gone"}] /\ inflight' = inflight
  <2>1. Fine
    BY <1>2, ClientSteps
  <2>2. conn' \in [Conns -> {"new", "open", "gone"}] /\ inflight' = inflight
    BY <1>2 DEF ClientStep, Accept, JoinTimer, TakeControlFrame, ReplayFrame, Disconnect,
         WriterDies, ResizeFrame
  <2> QED  BY <2>1, <2>2
<1>3. CASE (\E n \in Sizes : LocalResize(n)) \/ LocalSpace \/ Output \/ Exit
  <2>1. Fine
    BY <1>3, HostSteps
  <2>2. UNCHANGED <<conn, inflight>>
    BY <1>3 DEF LocalResize, LocalSpace, Output, Exit
  <2> QED  BY <2>1, <2>2 DEF Fine
<1>4. CASE Restore
  <2>1. Fine /\ inflight' \in PtySizes \cup {0}
    BY <1>4, RestoreSteps
  <2>2. UNCHANGED conn
    BY <1>4 DEF Restore, RestoreTick, JiggleResize
  <2> QED  BY <2>1, <2>2 DEF Fine
<1> QED  BY <1>1, <1>2, <1>3, <1>4 DEF Next, Fine

\* Every variable keeps its type; in particular the grid and the PTY never get
\* the size 0 that clients may report (the clamps of host.rs).
THEOREM HostTypeCorrect == Spec => []TypeOK
<1>1. HostInv => TypeOK
  BY DEF HostInv, HostOK, TypeOK
<1> QED  BY <1>1, HostInit, HostStep, PTL DEF Spec

\* Whatever surfaces come, go, resize and take control, in whatever order, and
\* whenever the restore thread ticks, the local terminal is paused while
\* another surface controls (update_local_displaced).
THEOREM HostYields == Spec => []LocalYields
<1>1. HostInv => LocalYields
  BY DEF HostInv, Yields, LocalYields
<1> QED  BY <1>1, HostInit, HostStep, PTL DEF Spec

\* Control moves only when asked for, when nobody has it, when the command
\* exits or when its holder is gone, also for viewers that reconnect under
\* their old id (recompute_controller).
THEOREM HostSticks == Spec => ControlSticks
BY HostInit, HostStep, PTL DEF Spec, ControlSticks
----------------------------------------------------------------------------
(* What the clients are told, and whose size the grid has *)

\* Every viewer has one connection: without this a size may be recorded for the
\* old connection of a viewer that reconnected.
OneEach == \A c, d \in Conns : ViewerOf[c] = ViewerOf[d] => c = d

\* A viewer id names one client.
Distinct(h) == \A c, d \in Conns : h.vid[c] = h.vid[d] => c = d

\* The grid has the size of the surface that controls.
SizeMatches(h) ==
    /\ h.controller = Local => h.applied = h.local
    /\ \A c \in h.clients : h.vid[c] = h.controller => AtLeastOne(h.size[c]) = h.applied

\* The clients were told the grid, and who controls it.
SizesTold(h) == \A c \in Reached(h) \ h.dead : h.sizeSent[c] = h.applied
ControlTold(h) ==
    ControllerSize(h) # None =>
        \A c \in Reached(h) \ h.dead : h.ctlSent[c] = <<h.controller, h.applied>>
Informed(h) == SizeMatches(h) /\ SizesTold(h) /\ ControlTold(h)

\* Clients are in the map from the accept to the end of the connection, unless their
\* writer died; those that joined got the exit, or will.
Connected(h, k) ==
    /\ \A c \in h.clients : k[c] = "open"
    /\ \A c \in h.joined : k[c] # "new"
    /\ h.exited => Reached(h) = {}
    /\ \A c \in h.joined \ h.dead :
         k[c] = "open" => IF h.exited THEN c \in h.exitSent ELSE c \in h.clients

\* Client ids are replaced by viewer ids; the local id is only in use when there
\* is a local terminal.
Identified(h, k) ==
    /\ \A c \in Conns : h.vid[c] \in {c, ViewerOf[c]}
    /\ \A c \in Conns : k[c] = "new" => h.vid[c] = c /\ h.controller # c
    /\ h.controller = Local => LocalAttached

\* When sizes come before the join timer: no client joins under the id it was accepted
\* with, and a controller that is not the local terminal has an open connection.
Present(h, k) ==
    /\ \A c \in h.joined : h.vid[c] = ViewerOf[c]
    /\ \A c \in h.clients : h.vid[c] = ViewerOf[c] => h.size[c] # 0
    /\ h.controller \in Viewers \cup {Local, None}
    /\ h.controller \in Viewers /\ ~h.exited =>
         \E c \in Conns : /\ k[c] = "open" /\ ViewerOf[c] = h.controller
                          /\ c \in h.clients => h.vid[c] = ViewerOf[c]

ViewInv ==
    /\ HostInv
    /\ Connected(host, conn)
    /\ Identified(host, conn)
    /\ OneEach /\ ~host.exited => Informed(host)
    /\ OneEach /\ SizedFirst => Present(host, conn)

\* g is h with fewer clients, as far as those are concerned.
Fewer(h, g) ==
    /\ HostOK(g)
    /\ g.vid = h.vid /\ g.joined = h.joined /\ g.dead = h.dead
    /\ g.exited = h.exited /\ g.exitSent = h.exitSent
    /\ g.clients \subseteq h.clients

\* Those that went were dropped because their writer had died.
Drops(h, g) == Fewer(h, g) /\ h.clients \ g.clients \subseteq h.dead

\* Besides, it has the sizes and the controller of h.
Same(h, g) ==
    /\ g.controller = h.controller /\ g.local = h.local /\ g.size = h.size
    /\ g.order = h.order

LEMMA DropsTwice ==
    ASSUME NEW h, NEW g, NEW f, Drops(h, g), Drops(g, f)
    PROVE  Drops(h, f)
BY DEF Drops, Fewer

\* The size that is broadcast is the grid's.
LEMMA MatchingSize ==
    ASSUME NEW h, HostOK(h), SizeMatches(h)
    PROVE  ControllerSize(h) \in {None, h.applied}
<1>1. h.controller = Local => AtLeastOne(h.local) = h.local
  BY DEF HostOK, HostState, AtLeastOne
<1>2. ASSUME h.controller # Local, Named(h, h.controller) # {}
      PROVE  AtLeastOne(h.size[Find(h, h.controller)]) = h.applied
  <2>1. Find(h, h.controller) \in Named(h, h.controller)
    BY <1>2, FindType DEF HostOK
  <2> QED  BY <2>1 DEF Named, SizeMatches
<1> QED  BY <1>1, <1>2 DEF ControllerSize, SizeMatches

\* Dropping clients keeps what the others were told.
LEMMA DropsInformed ==
    ASSUME NEW h, HostOK(h), NEW g, Fewer(h, g), Same(h, g), g.applied = h.applied
    PROVE  /\ SizeMatches(h) => SizeMatches(g)
           /\ SizesTold(h) /\ g.sizeSent = h.sizeSent => SizesTold(g)
           /\ Informed(h) /\ g.sizeSent = h.sizeSent /\ g.ctlSent = h.ctlSent => Informed(g)
           /\ SizeMatches(h) /\ ControllerSize(g) # None => ControllerSize(h) # None
<1>1. SizeMatches(h) => SizeMatches(g)
  BY DEF Drops, Fewer, Same, SizeMatches
<1>2. Reached(g) \ g.dead \subseteq Reached(h) \ h.dead
  BY DEF Drops, Fewer, Reached
<1>3. ASSUME SizeMatches(h), ControllerSize(g) # None PROVE ControllerSize(h) # None
  <2>1. SizeMatches(g) /\ ControllerSize(g) = h.applied
    BY <1>1, <1>3, MatchingSize DEF Drops, Fewer
  <2>2. h.controller # None
    BY <1>3 DEF ControllerSize, Same
  <2>3. CASE h.controller = Local
    BY <1>3, <2>2, <2>3 DEF ControllerSize, Same
  <2>4. CASE h.controller # Local
    <3>1. Named(g, h.controller) # {}
      BY <1>3, <2>2, <2>4 DEF ControllerSize, Same
    <3>2. Named(g, h.controller) \subseteq Named(h, h.controller)
      BY DEF Named, Drops, Fewer
    <3>3. Find(h, h.controller) \in Named(h, h.controller)
      BY <3>1, <3>2, FindType DEF HostOK
    <3>4. AtLeastOne(h.size[Find(h, h.controller)]) = h.applied
      BY <1>3, <3>3 DEF Named, SizeMatches
    <3> QED  BY <1>3, <2>1, <2>2, <2>4, <3>1, <3>2, <3>4 DEF ControllerSize
  <2> QED  BY <2>3, <2>4
<1> QED  BY <1>1, <1>2, <1>3 DEF Informed, SizesTold, ControlTold, Drops, Fewer, Same

LEMMA BroadcastDrops ==
    ASSUME NEW h, HostOK(h)
    PROVE  /\ Drops(h, Broadcast(h)) /\ Same(h, Broadcast(h))
           /\ Broadcast(h).applied = h.applied /\ Broadcast(h).sizeSent = h.sizeSent
           /\ Broadcast(h).ctlSent = h.ctlSent
<1>1. HostOK(Broadcast(h))
  BY BroadcastType
<1> QED  BY <1>1 DEF Drops, Fewer, Same, HostOK, HostState, Broadcast, Reached

LEMMA DisplacedDrops ==
    ASSUME NEW h, HostOK(h)
    PROVE  LET g == UpdateLocalDisplaced(h) IN
           /\ Drops(h, g) /\ Same(h, g) /\ g.applied = h.applied
           /\ g.sizeSent = h.sizeSent /\ g.ctlSent = h.ctlSent
<1> DEFINE g == UpdateLocalDisplaced(h)
           hidden == [h EXCEPT !.restore = FALSE, !.suppressed = TRUE, !.notice = AtLeastOne(h.local)]
           shown == [h EXCEPT !.restore = @ \/ h.suppressed]
<1>1. HostOK(g)
  BY DisplacedType
<1>2. g = h \/ g = hidden \/ g = shown
  BY DEF UpdateLocalDisplaced
<1> SUFFICES /\ Drops(h, g) /\ Same(h, g) /\ g.applied = h.applied
             /\ g.sizeSent = h.sizeSent /\ g.ctlSent = h.ctlSent
  OBVIOUS
<1> HIDE DEF g
<1>3. CASE g = h
  BY <1>1, <1>3 DEF Drops, Fewer, Same
<1>4. CASE g = hidden
  BY <1>1, <1>4, ZenonT(60) DEF Drops, Fewer, Same, HostOK, HostState
<1>5. CASE g = shown
  BY <1>1, <1>5, ZenonT(60) DEF Drops, Fewer, Same, HostOK, HostState
<1> QED  BY <1>2, <1>3, <1>4, <1>5

\* broadcast_control leaves everybody informed who was told the grid.
LEMMA ControlIsTold ==
    ASSUME NEW h, HostOK(h)
    PROVE  LET g == BroadcastControl(h) IN
           /\ Drops(h, g) /\ Same(h, g) /\ g.applied = h.applied
           /\ SizeMatches(h) /\ SizesTold(h) => Informed(g)
<1>1. CASE ControllerSize(h) = None
  BY <1>1 DEF BroadcastControl, Drops, Fewer, Same, Informed, ControlTold
<1>2. CASE ControllerSize(h) # None
  <2> DEFINE s == [c \in Conns |->
                    IF c \in Reached(h) THEN <<h.controller, ControllerSize(h)>> ELSE h.ctlSent[c]]
             b == Broadcast(h)
             g == [b EXCEPT !.ctlSent = s]
  <2>1. BroadcastControl(h) = g
    BY <1>2 DEF BroadcastControl
  <2>2. HostOK(g)
    BY <2>1, BroadcastControlType
  <2>3. HostOK(b) /\ Drops(h, b) /\ Same(h, b) /\ b.applied = h.applied /\ b.sizeSent = h.sizeSent
    BY BroadcastDrops, BroadcastType
  <2>4. \A c \in Reached(h) : s[c] = <<h.controller, ControllerSize(h)>>
    BY DEF Reached, HostOK, HostState
  <2> HIDE DEF s, b
  <2>5. /\ g.vid = b.vid /\ g.joined = b.joined /\ g.dead = b.dead /\ g.exited = b.exited
        /\ g.exitSent = b.exitSent /\ g.clients = b.clients /\ g.order = b.order
        /\ g.controller = b.controller /\ g.local = b.local /\ g.size = b.size
        /\ g.applied = b.applied /\ g.sizeSent = b.sizeSent /\ g.ctlSent = s
    BY <2>3 DEF HostOK, HostState
  <2> HIDE DEF g
  <2>6. Drops(h, g) /\ Same(h, g) /\ g.applied = h.applied /\ g.sizeSent = h.sizeSent
    BY <2>2, <2>3, <2>5 DEF Drops, Fewer, Same
  <2>7. ASSUME SizeMatches(h), SizesTold(h) PROVE Informed(g)
    <3>1. SizeMatches(g) /\ SizesTold(g)
      BY <2>6, <2>7, DropsInformed DEF Drops
    <3>2. ControllerSize(h) = h.applied
      BY <1>2, <2>7, MatchingSize
    <3>3. \A c \in Reached(g) \ g.dead : g.ctlSent[c] = <<g.controller, g.applied>>
      BY <2>4, <2>5, <2>6, <3>2 DEF Drops, Fewer, Same, Reached
    <3> QED  BY <3>1, <3>3 DEF Informed, ControlTold
  <2> QED  BY <2>1, <2>6, <2>7
<1> QED  BY <1>1, <1>2

\* set_pty_size tells every client the size it sets.
LEMMA SizeIsTold ==
    ASSUME NEW h, HostOK(h), NEW n \in 1 .. MaxSize
    PROVE  LET g == SetPtySize(h, n) IN
           /\ Drops(h, g) /\ Same(h, g) /\ g.applied = n
           /\ SizesTold(h) => SizesTold(g)
<1> DEFINE r == [h EXCEPT !.applied = n, !.pty = n]
           b == Broadcast(r)
           s == [c \in Conns |-> IF c \in Reached(h) THEN n ELSE h.sizeSent[c]]
           t == [b EXCEPT !.sizeSent = s]
           u == IF n # h.applied THEN t ELSE r
<1>1. HostOK(r) /\ Drops(h, r) /\ Same(h, r) /\ r.applied = n /\ r.sizeSent = h.sizeSent
  <2>1. n \in PtySizes
    BY SessionHostAssumption DEF PtySizes
  <2>2. HostOK(r)
    BY <2>1 DEF HostOK, HostState
  <2> QED  BY <2>2 DEF HostOK, HostState, Drops, Fewer, Same
<1>2. SetPtySize(h, n) = UpdateLocalDisplaced(u)
  BY DEF SetPtySize
<1> HIDE DEF r
<1>3. HostOK(b) /\ Drops(r, b) /\ Same(r, b) /\ b.applied = n
  BY <1>1, BroadcastType, BroadcastDrops
<1>4. s \in [Conns -> Sizes] /\ \A c \in Reached(h) : s[c] = n
  BY SessionHostAssumption DEF HostOK, HostState, Sizes, Reached
<1> HIDE DEF b, s
<1>5. HostOK(t) /\ Drops(b, t) /\ Same(b, t) /\ t.applied = n /\ t.sizeSent = s
  <2>1. HostOK(t)
    BY <1>3, <1>4, ZenonT(60) DEF HostOK, HostState
  <2> QED  BY <1>3, <2>1, ZenonT(60) DEF HostOK, HostState, Drops, Fewer, Same
<1> HIDE DEF t
<1>6. Drops(h, t) /\ Same(h, t)
  BY <1>1, <1>3, <1>5 DEF Drops, Fewer, Same
<1>7. SizesTold(t)
  BY <1>4, <1>5, <1>6 DEF SizesTold, Drops, Fewer, Reached
<1>8. HostOK(u) /\ Drops(h, u) /\ Same(h, u) /\ u.applied = n /\ (SizesTold(h) => SizesTold(u))
  <2>1. CASE n = h.applied
    <3>1. SizesTold(h) => SizesTold(r)
      BY <1>1, <2>1 DEF SizesTold, Drops, Fewer, Reached
    <3> QED  BY <1>1, <2>1, <3>1
  <2>2. CASE n # h.applied
    BY <1>5, <1>6, <1>7, <2>2
  <2> QED  BY <2>1, <2>2
<1> HIDE DEF u
<1>9. /\ Drops(u, UpdateLocalDisplaced(u)) /\ Same(u, UpdateLocalDisplaced(u))
      /\ UpdateLocalDisplaced(u).applied = u.applied /\ UpdateLocalDisplaced(u).sizeSent = u.sizeSent
  BY <1>8, DisplacedDrops
<1>10. SizesTold(u) => SizesTold(UpdateLocalDisplaced(u))
  BY <1>9 DEF SizesTold, Drops, Fewer, Reached
<1>11. Drops(h, UpdateLocalDisplaced(u)) /\ Same(h, UpdateLocalDisplaced(u))
  BY <1>8, <1>9 DEF Drops, Fewer, Same
<1> QED  BY <1>2, <1>8, <1>9, <1>10, <1>11

\* A surface of the map has an id of its own.
LEMMA OneFound ==
    ASSUME NEW h, HostOK(h), Distinct(h), NEW v, NEW c \in Named(h, v)
    PROVE  Find(h, v) = c
<1>1. Find(h, v) \in Named(h, v) /\ Named(h, v) \subseteq Conns
  BY FindType DEF Named, HostOK, HostState
<1> QED  BY <1>1 DEF Distinct, Named

LEMMA IdFacts == ASSUME NEW h, HostOK(h), NEW c \in Conns PROVE h.vid[c] \in Ids \ {Local, None}
BY SessionHostAssumption DEF HostOK, HostState, Ids

\* A resize leaves everybody informed, also if the controller's recorded size was
\* not the grid's before.
LEMMA ResizeInforms ==
    ASSUME NEW h, HostOK(h), NEW v \in Ids, NEW n \in Sizes
    PROVE  LET g == ApplyResize(h, v, n) IN
           /\ Drops(h, g)
           /\ g.controller = IF h.controller = None THEN v ELSE h.controller
           /\ \A c \in Conns : g.size[c] = h.size[c] \/ g.size[c] # 0
           /\ Distinct(h) => \A c \in Named(h, v) : g.size[c] # 0
           /\ Distinct(h) /\ SizesTold(h) /\ (h.controller = v \/ SizeMatches(h)) => Informed(g)
<1> DEFINE size == AtLeastOne(n)
           l == IF v = Local THEN size ELSE h.local
           z == IF Named(h, v) = {} THEN h.size ELSE [h.size EXCEPT ![Find(h, v)] = size]
           k == IF h.controller = None THEN v ELSE h.controller
           sized == [h EXCEPT !.local = l, !.size = z, !.controller = k]
           f == IF k = v THEN SetPtySize(sized, size)
                ELSE IF v = Local THEN UpdateLocalDisplaced(sized) ELSE sized
           g == ApplyResize(h, v, n)
<1>1. size \in 1 .. MaxSize /\ size \in Sizes /\ AtLeastOne(size) = size /\ size # 0
  <2>1. size \in 1 .. MaxSize /\ size \in Sizes
    BY ClampType
  <2> HIDE DEF size
  <2> QED  BY <2>1 DEF AtLeastOne
<1>2. l \in 1 .. MaxSize /\ z \in [Conns -> Sizes] /\ k \in Ids \cup {None}
  BY <1>1 DEF HostOK, HostState
<1>3. /\ \A c \in Conns : z[c] = h.size[c] \/ z[c] = size
      /\ \A c \in Conns : h.vid[c] # v => z[c] = h.size[c]
      /\ Distinct(h) => \A c \in Named(h, v) : z[c] = size
  <2>1. CASE Named(h, v) = {}
    BY <2>1
  <2>2. CASE Named(h, v) # {}
    <3>1. Find(h, v) \in Conns /\ h.vid[Find(h, v)] = v
      BY <2>2, FindType DEF HostOK, Named
    <3>2. h.size \in [Conns -> Sizes]
      BY DEF HostOK, HostState
    <3> QED  BY <2>2, <3>1, <3>2, OneFound
  <2> QED  BY <2>1, <2>2
<1>4. g = BroadcastControl(f)
  <2>1. sized = [h EXCEPT
                   !.local = IF v = Local THEN size ELSE @,
                   !.size = IF Named(h, v) = {} THEN @
                            ELSE [@ EXCEPT ![Find(h, v)] = size],
                   !.controller = IF @ = None THEN v ELSE @]
    OBVIOUS
  <2>2. sized.controller = k
    BY DEF HostOK, HostState
  <2> HIDE DEF sized
  <2> QED  BY <2>1, <2>2 DEF ApplyResize
<1> HIDE DEF l, z, g
<1>5. /\ Drops(h, sized) /\ sized.order = h.order /\ sized.controller = k /\ sized.local = l
      /\ sized.size = z /\ sized.applied = h.applied /\ sized.sizeSent = h.sizeSent
  <2>1. HostOK(sized)
    BY <1>2, ZenonT(60) DEF HostOK, HostState
  <2> QED  BY <2>1 DEF Drops, Fewer, HostOK, HostState
<1> HIDE DEF sized, size
<1>6. SizesTold(h) => SizesTold(sized)
  BY <1>5 DEF SizesTold, Drops, Fewer, Reached
<1>7. HostOK(sized)
  BY <1>5 DEF Drops, Fewer
<1>8. /\ Drops(sized, f) /\ Same(sized, f) /\ (SizesTold(sized) => SizesTold(f))
      /\ f.applied = IF k = v THEN size ELSE h.applied
  <2>1. CASE k = v
    BY <1>1, <1>7, <2>1, SizeIsTold
  <2>2. CASE k # v /\ v = Local
    BY <1>5, <1>7, <2>2, DisplacedDrops, DropsInformed DEF Drops
  <2>3. CASE k # v /\ v # Local
    BY <1>5, <1>7, <2>3 DEF Drops, Fewer, Same
  <2> QED  BY <2>1, <2>2, <2>3
<1> HIDE DEF f
<1>9. HostOK(f) /\ Drops(f, g) /\ Same(f, g) /\ (SizeMatches(f) /\ SizesTold(f) => Informed(g))
  BY <1>4, <1>8, ControlIsTold DEF Drops, Fewer
<1>10. Drops(h, g) /\ g.controller = k /\ g.size = z
  BY <1>5, <1>8, <1>9 DEF Drops, Fewer, Same
<1>11. ASSUME Distinct(h), h.controller = v \/ SizeMatches(h) PROVE SizeMatches(f)
  <2>1. /\ f.controller = k /\ f.local = l /\ f.size = z /\ f.vid = h.vid
        /\ f.clients \subseteq h.clients /\ h.clients \subseteq Conns
    BY <1>5, <1>8 DEF Drops, Fewer, Same, HostOK, HostState
  <2>2. CASE k = v
    <3>1. f.controller = Local => f.applied = f.local
      BY <1>8, <2>1, <2>2 DEF l
    <3>2. \A c \in f.clients : h.vid[c] = v => z[c] = size
      BY <1>3, <1>11, <2>1 DEF Named
    <3> QED  BY <1>1, <1>8, <2>1, <2>2, <3>1, <3>2 DEF SizeMatches
  <2>3. CASE k # v
    <3>1. k = h.controller /\ SizeMatches(h)
      BY <1>11, <2>3
    <3>2. k = Local => l = h.local
      BY <2>3 DEF l
    <3> QED  BY <1>3, <1>8, <2>1, <2>3, <3>1, <3>2 DEF SizeMatches
  <2> QED  BY <2>2, <2>3
<1> QED  BY <1>1, <1>3, <1>6, <1>8, <1>9, <1>10, <1>11 DEF g, k

LEMMA JiggleDrops ==
    ASSUME NEW h, HostOK(h)
    PROVE  LET g == RequestJiggle(h) IN
           /\ Drops(h, g) /\ Same(h, g) /\ g.applied = h.applied
           /\ g.sizeSent = h.sizeSent /\ g.ctlSent = h.ctlSent
<1>1. HostOK(RequestJiggle(h))
  BY RequestJiggleType
<1> QED  BY <1>1, ZenonT(60) DEF Drops, Fewer, Same, HostOK, HostState, RequestJiggle

\* Nor does a change of control, whatever the new controller's size is.
LEMMA MovedInforms ==
    ASSUME NEW h, HostOK(h), NEW v \in Ids, NEW n \in 1 .. MaxSize, NEW f,
           f \in {SetPtySize([h EXCEPT !.controller = v], n),
                 RequestJiggle(SetPtySize([h EXCEPT !.controller = v], n))}
    PROVE  LET g == BroadcastControl(f)
           IN  /\ Drops(h, g) /\ g.controller = v /\ g.size = h.size
               /\ (/\ v = Local => n = h.local
                   /\ \A c \in h.clients : h.vid[c] = v => AtLeastOne(h.size[c]) = n
                   /\ SizesTold(h)) => Informed(g)
<1> DEFINE k == [h EXCEPT !.controller = v]
           taken == SetPtySize(k, n)
           g == BroadcastControl(f)
           sized == /\ v = Local => n = h.local
                    /\ \A c \in h.clients : h.vid[c] = v => AtLeastOne(h.size[c]) = n
<1>0. f \in {taken, RequestJiggle(taken)}
  OBVIOUS
<1>1. /\ HostOK(k) /\ Drops(h, k) /\ k.controller = v /\ k.size = h.size /\ k.local = h.local
      /\ k.sizeSent = h.sizeSent /\ k.applied = h.applied
  <2>1. HostOK(k)
    BY DEF HostOK, HostState
  <2> QED  BY <2>1 DEF Drops, Fewer, HostOK, HostState
<1> HIDE DEF k
<1>2. SizesTold(h) => SizesTold(k)
  BY <1>1 DEF SizesTold, Drops, Fewer, Reached
<1>3. Drops(k, taken) /\ Same(k, taken) /\ taken.applied = n /\ (SizesTold(k) => SizesTold(taken))
  BY <1>1, SizeIsTold
<1>4. sized => SizeMatches(taken)
  BY <1>1, <1>3 DEF SizeMatches, Drops, Fewer, Same
<1> HIDE DEF taken, sized
<1>5. /\ HostOK(f) /\ Drops(taken, f) /\ Same(taken, f) /\ (sized => SizeMatches(f))
      /\ SizesTold(taken) => SizesTold(f)
  <2>1. CASE f = RequestJiggle(taken)
    <3>1. HostOK(taken)
      BY <1>3 DEF Drops, Fewer
    <3> QED  BY <1>4, <2>1, <3>1, JiggleDrops, DropsInformed DEF Drops, Fewer
  <2>2. CASE f = taken
    BY <1>3, <1>4, <2>2 DEF Drops, Fewer, Same
  <2> QED  BY <1>0, <2>1, <2>2
<1>6. Drops(f, g) /\ Same(f, g) /\ (SizeMatches(f) /\ SizesTold(f) => Informed(g))
  BY <1>5, ControlIsTold
<1> HIDE DEF g
<1>7. Drops(h, g) /\ g.controller = v /\ g.size = h.size /\ (sized /\ SizesTold(h) => Informed(g))
  BY <1>1, <1>2, <1>3, <1>5, <1>6 DEF Drops, Fewer, Same
<1> QED  BY <1>7 DEF g, sized

\* take_control by a surface that is there.
LEMMA TakeInforms ==
    ASSUME NEW h, HostOK(h), NEW v \in Ids, v = Local \/ Named(h, v) # {}
    PROVE  LET g == TakeControlBy(h, v) IN
           /\ Drops(h, g) /\ g.controller = v /\ g.size = h.size
           /\ Distinct(h) /\ SizesTold(h) => Informed(g)
<1> DEFINE n == IF v = Local THEN AtLeastOne(h.local) ELSE AtLeastOne(h.size[Find(h, v)])
           j == v # Local /\ n = h.applied
           g == TakeControlBy(h, v)
<1>1. n \in 1 .. MaxSize
  <2>1. h.local \in Sizes
    BY DEF HostOK, HostState, Sizes
  <2>2. v # Local => h.size[Find(h, v)] \in Sizes
    BY FindType DEF HostOK, HostState
  <2> QED  BY <2>1, <2>2, ClampType
<1>2. g = BroadcastControl(IF j THEN RequestJiggle(SetPtySize([h EXCEPT !.controller = v], n))
                           ELSE SetPtySize([h EXCEPT !.controller = v], n))
  BY DEF TakeControlBy
<1>3. v = Local => n = h.local
  BY DEF HostOK, HostState, AtLeastOne
<1>4. Drops(h, g) /\ g.controller = v /\ g.size = h.size
  <2> HIDE DEF n, j, g
  <2> QED  BY <1>1, <1>2, MovedInforms
<1>5. ASSUME Distinct(h), SizesTold(h) PROVE Informed(g)
  <2>1. \A c \in h.clients : h.vid[c] = v => AtLeastOne(h.size[c]) = n
    <3> SUFFICES ASSUME NEW c \in h.clients, h.vid[c] = v PROVE AtLeastOne(h.size[c]) = n
      OBVIOUS
    <3>1. c \in Conns /\ c \in Named(h, v)
      BY DEF HostOK, HostState, Named
    <3>2. v # Local
      BY <3>1, IdFacts
    <3> QED  BY <1>5, <3>1, <3>2, OneFound
  <2> HIDE DEF n, j, g
  <2> QED  BY <1>1, <1>2, <1>3, <1>5, <2>1, MovedInforms
<1> QED  BY <1>4, <1>5

\* recompute_controller gives control to a surface that is there, at its size.
LEMMA RecomputeInforms ==
    ASSUME NEW h, HostOK(h)
    PROVE  LET g == RecomputeController(h) IN
           /\ Drops(h, g) /\ g.size = h.size
           /\ Distinct(h) /\ Informed(h) => Informed(g)
           /\ \/ g = h /\ StillPresent(h)
              \/ g.controller = None
              \/ g.controller = Local /\ LocalAttached
              \/ \E c \in Reached(h) : g.controller = h.vid[c]
<1> DEFINE g == RecomputeController(h)
<1>1. CASE StillPresent(h)
  BY <1>1 DEF RecomputeController, Drops, Fewer
<1>2. CASE ~StillPresent(h) /\ SurfaceKeys(h) = {}
  <2>1. g = [h EXCEPT !.controller = None]
    BY <1>2 DEF RecomputeController
  <2>2. Drops(h, g) /\ g.size = h.size /\ g.controller = None /\ g.sizeSent = h.sizeSent /\ g.applied = h.applied
    <3>1. HostOK(g)
      BY <2>1, ZenonT(60) DEF HostOK, HostState
    <3> QED  BY <2>1, <3>1 DEF Drops, Fewer, HostOK, HostState
  <2>3. SizesTold(h) => SizesTold(g)
    BY <2>2 DEF SizesTold, Drops, Fewer, Reached
  <2>4. SizeMatches(g)
    <3>1. Local # None
      BY SessionHostAssumption DEF Ids
    <3>2. \A c \in g.clients : c \in Conns /\ g.vid[c] # None
      <4>1. g.clients \subseteq Conns /\ g.vid = h.vid
        BY <2>2 DEF Drops, Fewer, HostOK, HostState
      <4> QED  BY <4>1, IdFacts
    <3> QED  BY <2>2, <3>1, <3>2 DEF SizeMatches
  <2>5. ControlTold(g)
    BY <2>2 DEF ControlTold, ControllerSize
  <2> QED  BY <2>2, <2>3, <2>4, <2>5 DEF Informed
<1>3. CASE ~StillPresent(h) /\ SurfaceKeys(h) # {}
  <2> DEFINE s == ChooseController(h)
             n == AtLeastOne(s[2])
  <2>1. s \in SurfaceKeys(h) /\ s[1] \in Ids /\ s[2] \in Sizes
    BY <1>3, ChooseType, KeyType
  <2>2. g = BroadcastControl(SetPtySize([h EXCEPT !.controller = s[1]], n))
    BY <1>3 DEF RecomputeController
  <2> HIDE DEF s, g
  <2>3. n \in 1 .. MaxSize
    BY <2>1, ClampType
  <2>4. /\ (s[1] = Local /\ LocalAttached) \/ \E c \in Reached(h) : s[1] = h.vid[c]
        /\ s[1] = Local => n = h.local
        /\ Distinct(h) => \A c \in h.clients : h.vid[c] = s[1] => AtLeastOne(h.size[c]) = n
    <3>1. CASE s = <<Local, h.local, 1, 0, 1>> /\ LocalAttached
      <4>1. s[1] = Local /\ s[2] = h.local
        BY <3>1
      <4>2. AtLeastOne(h.local) = h.local
        BY DEF HostOK, HostState, AtLeastOne
      <4>3. \A c \in h.clients : h.vid[c] # Local
        BY IdFacts DEF HostOK, HostState
      <4> QED  BY <3>1, <4>1, <4>2, <4>3
    <3>2. ASSUME NEW c \in Reached(h), s = <<h.vid[c], h.size[c], h.kind[c], h.seq[c], 0>>
          PROVE  /\ \E d \in Reached(h) : s[1] = h.vid[d]
                 /\ s[1] # Local
                 /\ Distinct(h) => \A d \in h.clients : h.vid[d] = s[1] => AtLeastOne(h.size[d]) = n
      <4>1. s[1] = h.vid[c] /\ s[2] = h.size[c] /\ c \in Conns /\ h.clients \subseteq Conns
        BY <3>2 DEF Reached, HostOK, HostState
      <4> QED  BY <4>1, IdFacts DEF Distinct
    <3> QED  BY <2>1, <3>1, <3>2 DEF SurfaceKeys
  <2> HIDE DEF n
  <2>5. Drops(h, g) /\ g.controller = s[1] /\ g.size = h.size /\ (Distinct(h) /\ SizesTold(h) => Informed(g))
    BY <2>1, <2>2, <2>3, <2>4, MovedInforms
  <2>6. /\ Drops(h, g) /\ g.size = h.size /\ (Distinct(h) /\ Informed(h) => Informed(g))
        /\ (g.controller = Local /\ LocalAttached) \/ \E c \in Reached(h) : g.controller = h.vid[c]
    BY <2>4, <2>5 DEF Informed
  <2> QED  BY <2>6 DEF g
<1> QED  BY <1>1, <1>2, <1>3

\* write_initial_frames: the client joins and is told the grid and the controller, or
\* the exit, unless its writer has died.
LEMMA InitialInforms ==
    ASSUME NEW h, HostOK(h), NEW c \in Conns, c \in h.clients, c \notin h.joined
    PROVE  LET g == WriteInitialFrames(h, c) IN
           /\ g.vid = h.vid /\ g.dead = h.dead /\ g.exited = h.exited /\ Same(h, g)
           /\ g.joined = h.joined \cup {c} /\ g.clients \subseteq h.clients
           /\ h.clients \ g.clients \subseteq h.dead \cup {d \in {c} : h.exited}
           /\ h.exited => c \notin g.clients
           /\ g.exitSent = IF h.exited THEN h.exitSent \cup ({c} \ h.dead) ELSE h.exitSent
           /\ ~h.exited /\ SizeMatches(h) /\ SizesTold(h) => Informed(g)
<1> DEFINE in == [h EXCEPT !.joined = @ \cup {c}, !.seq[c] = h.nextSeq, !.nextSeq = @ + 1]
           w == WriteReplay(in, c)
           d == UpdateLocalDisplaced(w)
           told == BroadcastControl(d)
           last == [told EXCEPT !.clients = @ \ {c}, !.exitSent = @ \cup ({c} \ h.dead)]
           g == WriteInitialFrames(h, c)
<1>1. /\ HostOK(in) /\ Same(h, in) /\ in.vid = h.vid /\ in.dead = h.dead /\ in.exited = h.exited
      /\ in.exitSent = h.exitSent /\ in.clients = h.clients /\ in.joined = h.joined \cup {c}
      /\ in.applied = h.applied /\ in.sizeSent = h.sizeSent
  <2>1. HostOK(in)
    BY JoinType
  <2> QED  BY <2>1 DEF Same, HostOK, HostState
<1>2. g = IF h.exited THEN last ELSE told
  BY DEF WriteInitialFrames
<1> HIDE DEF in, g
<1>3. /\ HostOK(w) /\ Drops(in, w) /\ Same(in, w) /\ w.applied = h.applied
      /\ SizesTold(h) => SizesTold(w)
  <2>1. HostOK(w)
    BY <1>1, WriteReplayType
  <2>2. CASE c \in in.dead
    <3>1. w = [in EXCEPT !.clients = @ \ {c}]
      BY <2>2 DEF WriteReplay
    <3>2. /\ w.clients = in.clients \ {c} /\ w.sizeSent = in.sizeSent /\ w.applied = in.applied
          /\ Drops(in, w) /\ Same(in, w)
      <4>1. /\ w.clients = in.clients \ {c} /\ w.sizeSent = in.sizeSent /\ w.applied = in.applied
            /\ w.vid = in.vid /\ w.joined = in.joined /\ w.dead = in.dead /\ w.exited = in.exited
            /\ w.exitSent = in.exitSent /\ Same(in, w)
        BY <1>1, <3>1 DEF Same, HostOK, HostState
      <4> QED  BY <2>1, <2>2, <4>1 DEF Drops, Fewer
    <3>3. SizesTold(h) => SizesTold(w)
      BY <1>1, <3>2 DEF SizesTold, Reached, Drops, Fewer
    <3> QED  BY <1>1, <2>1, <3>2, <3>3
  <2>3. CASE c \notin in.dead
    <3>1. w = [in EXCEPT !.sizeSent[c] = in.applied]
      BY <2>3 DEF WriteReplay
    <3>2. /\ w.applied = in.applied /\ Drops(in, w) /\ Same(in, w)
          /\ w.sizeSent = [in.sizeSent EXCEPT ![c] = in.applied]
      BY <1>1, <2>1, <3>1, ZenonT(60) DEF Drops, Fewer, Same, HostOK, HostState
    <3>3. \A e \in Conns : w.sizeSent[e] = IF e = c THEN in.applied ELSE in.sizeSent[e]
      BY <1>1, <3>2 DEF HostOK, HostState
    <3>4. SizesTold(h) => SizesTold(w)
      <4>1. Reached(w) \subseteq Conns /\ Reached(w) \ w.dead \subseteq (Reached(h) \ h.dead) \cup {c}
        BY <1>1, <2>1, <3>2 DEF Reached, Drops, Fewer, HostOK, HostState
      <4> QED  BY <1>1, <3>2, <3>3, <4>1 DEF SizesTold
    <3> QED  BY <1>1, <2>1, <3>2, <3>4
  <2> QED  BY <2>2, <2>3
<1> HIDE DEF w
<1>4. /\ HostOK(d) /\ Drops(w, d) /\ Same(w, d) /\ d.applied = h.applied
      /\ SizeMatches(w) => SizeMatches(d)
      /\ SizesTold(w) => SizesTold(d)
  <2>1. Drops(w, d) /\ Same(w, d) /\ d.applied = w.applied /\ d.sizeSent = w.sizeSent
    BY <1>3, DisplacedDrops
  <2> HIDE DEF d
  <2> QED  BY <1>3, <2>1, DropsInformed DEF Drops, Fewer
<1> HIDE DEF d
<1>5. HostOK(told) /\ Drops(d, told) /\ Same(d, told) /\ (SizeMatches(d) /\ SizesTold(d) => Informed(told))
  BY <1>4, ControlIsTold, BroadcastControlType
<1>6. SizeMatches(h) => SizeMatches(w)
  <2>1. SizeMatches(h) => SizeMatches(in)
    BY <1>1 DEF SizeMatches, Same
  <2> QED  BY <1>1, <1>3, <2>1, DropsInformed DEF Drops
<1> HIDE DEF told
<1>7. Drops(in, told) /\ Same(h, told)
  BY <1>1, <1>3, <1>4, <1>5 DEF Drops, Fewer, Same
<1>8. CASE ~h.exited
  <2>1. g = told
    BY <1>2, <1>8
  <2> QED  BY <1>1, <1>3, <1>4, <1>5, <1>6, <1>7, <1>8, <2>1 DEF g, Drops, Fewer
<1>9. CASE h.exited
  <2>1. g = last
    BY <1>2, <1>9
  <2>2. /\ last.clients = told.clients \ {c} /\ last.exitSent = told.exitSent \cup ({c} \ h.dead)
        /\ last.vid = told.vid /\ last.dead = told.dead /\ last.exited = told.exited
        /\ last.joined = told.joined /\ Same(told, last)
    BY <1>5, ZenonT(60) DEF Same, HostOK, HostState
  <2> HIDE DEF last
  <2>3. Same(h, g)
    BY <1>7, <2>1, <2>2 DEF Same
  <2>4. /\ told.vid = in.vid /\ told.dead = in.dead /\ told.exited = in.exited
        /\ told.joined = in.joined /\ told.exitSent = in.exitSent
        /\ told.clients \subseteq in.clients /\ in.clients \ told.clients \subseteq in.dead
    BY <1>7 DEF Drops, Fewer
  <2>5. g.vid = h.vid /\ g.dead = h.dead /\ g.exited = h.exited /\ g.joined = h.joined \cup {c}
    BY <1>1, <2>1, <2>2, <2>4
  <2>6. g.clients = told.clients \ {c} /\ g.exitSent = h.exitSent \cup ({c} \ h.dead)
    BY <1>1, <2>1, <2>2, <2>4
  <2>7. /\ g.clients \subseteq h.clients /\ c \notin g.clients
        /\ h.clients \ g.clients \subseteq h.dead \cup {e \in {c} : h.exited}
    BY <1>1, <1>9, <2>4, <2>6
  <2> QED  BY <1>9, <2>3, <2>5, <2>6, <2>7 DEF g
<1> QED  BY <1>8, <1>9

----------------------------------------------------------------------------
(* The steps again: who is connected, who is told, and who controls *)

\* All of it, of a host and the connections.
Views(h, k) ==
    /\ Connected(h, k)
    /\ Identified(h, k)
    /\ OneEach /\ ~h.exited => Informed(h)
    /\ OneEach /\ SizedFirst => Present(h, k)

LEMMA IdsDistinct ==
    ASSUME NEW h, NEW k, Identified(h, k), OneEach
    PROVE  Distinct(h)
BY SessionHostAssumption DEF Identified, OneEach, Distinct

\* A client dropped because its writer died is still connected.
LEMMA DropsConnected ==
    ASSUME NEW h, NEW g, NEW k, Drops(h, g), Connected(h, k)
    PROVE  Connected(g, k)
BY DEF Drops, Fewer, Connected, Reached

\* If control moved to somebody present, Present is kept.
LEMMA DropsPresent ==
    ASSUME NEW h, NEW g, NEW k, Drops(h, g), Present(h, k),
           \A c \in Conns : g.size[c] = h.size[c] \/ g.size[c] # 0,
           \/ g.controller = h.controller
           \/ g.controller \in {Local, None}
           \/ \E c \in Conns : /\ k[c] = "open" /\ ViewerOf[c] = g.controller
                               /\ c \in h.clients => h.vid[c] = ViewerOf[c]
    PROVE  Present(g, k)
<1>1. ViewerOf \in [Conns -> Viewers] /\ None \notin Viewers /\ Local \notin Viewers
  BY SessionHostAssumption DEF Ids
<1>2. g.clients \subseteq h.clients /\ g.clients \subseteq Conns /\ g.vid = h.vid /\ g.joined = h.joined /\ g.exited = h.exited
  BY DEF Drops, Fewer, HostOK, HostState
<1>3. \A c \in g.clients : g.vid[c] = ViewerOf[c] => g.size[c] # 0
  BY <1>2 DEF Present
<1>4. /\ g.controller \in Viewers \cup {Local, None}
      /\ g.controller \in Viewers /\ ~g.exited =>
         \E c \in Conns : /\ k[c] = "open" /\ ViewerOf[c] = g.controller
                          /\ c \in g.clients => g.vid[c] = ViewerOf[c]
  <2>1. CASE g.controller = h.controller
    BY <1>2, <2>1 DEF Present
  <2>2. CASE g.controller \in {Local, None}
    BY <1>1, <2>2
  <2>3. CASE \E c \in Conns : /\ k[c] = "open" /\ ViewerOf[c] = g.controller
                              /\ c \in h.clients => h.vid[c] = ViewerOf[c]
    <3>1. PICK c \in Conns : /\ k[c] = "open" /\ ViewerOf[c] = g.controller
                             /\ c \in h.clients => h.vid[c] = ViewerOf[c]
      BY <2>3
    <3>2. c \in g.clients => g.vid[c] = ViewerOf[c]
      BY <1>2, <3>1
    <3>3. g.controller \in Viewers
      BY <1>1, <3>1
    <3> QED  BY <3>1, <3>2, <3>3
  <2> QED  BY <2>1, <2>2, <2>3
<1> QED  BY <1>2, <1>3, <1>4 DEF Present

\* Also a client that joins is connected, and told.
LEMMA InitialViews ==
    ASSUME NEW h, NEW k, NEW c \in Conns, HostOK(h), Views(h, k), k[c] # "new",
           SizedFirst /\ c \in h.clients => h.vid[c] = ViewerOf[c]
    PROVE  Views(WriteInitialFrames(h, c), k)
<1> DEFINE g == WriteInitialFrames(h, c)
<1>1. CASE c \in h.joined \/ c \notin h.clients
  BY <1>1 DEF WriteInitialFrames
<1>2. CASE c \notin h.joined /\ c \in h.clients
  <2>1. /\ g.vid = h.vid /\ g.dead = h.dead /\ g.exited = h.exited /\ Same(h, g)
        /\ g.joined = h.joined \cup {c} /\ g.clients \subseteq h.clients
        /\ h.clients \ g.clients \subseteq h.dead \cup {d \in {c} : h.exited}
        /\ h.exited => c \notin g.clients
        /\ g.exitSent = IF h.exited THEN h.exitSent \cup ({c} \ h.dead) ELSE h.exitSent
        /\ ~h.exited /\ SizeMatches(h) /\ SizesTold(h) => Informed(g)
    BY <1>2, InitialInforms
  <2> HIDE DEF g
  <2>2. Connected(g, k)
    <3>1. \A d \in g.clients : k[d] = "open"
      BY <2>1 DEF Views, Connected
    <3>2. \A d \in g.joined : k[d] # "new"
      BY <2>1 DEF Views, Connected
    <3>3. g.exited => Reached(g) = {}
      BY <2>1 DEF Views, Connected, Reached
    <3>4. ASSUME NEW d \in g.joined \ g.dead, k[d] = "open"
          PROVE  IF g.exited THEN d \in g.exitSent ELSE d \in g.clients
      <4>1. CASE d = c
        BY <1>2, <2>1, <3>4, <4>1
      <4>2. CASE d # c
        BY <2>1, <3>4, <4>2 DEF Views, Connected
      <4> QED  BY <4>1, <4>2
    <3> QED  BY <3>1, <3>2, <3>3, <3>4 DEF Connected
  <2>3. Identified(g, k)
    BY <2>1 DEF Views, Identified, Same
  <2>4. OneEach /\ ~g.exited => Informed(g)
    BY <2>1 DEF Views, Informed
  <2>5. OneEach /\ SizedFirst => Present(g, k)
    <3> SUFFICES ASSUME OneEach, SizedFirst PROVE Present(g, k)
      OBVIOUS
    <3>1. g.controller = h.controller /\ g.size = h.size
      BY <2>1 DEF Same
    <3> QED  BY <1>2, <2>1, <3>1 DEF Views, Present
  <2> QED  BY <2>2, <2>3, <2>4, <2>5 DEF Views, g
<1> QED  BY <1>1, <1>2

\* g has all that matters here from h.
Still(h, g) ==
    /\ g.clients = h.clients /\ g.joined = h.joined /\ g.dead = h.dead /\ g.vid = h.vid
    /\ g.exited = h.exited /\ g.exitSent = h.exitSent /\ Same(h, g)
    /\ g.applied = h.applied /\ g.sizeSent = h.sizeSent /\ g.ctlSent = h.ctlSent

LEMMA StillViews ==
    ASSUME NEW h, NEW g, NEW k, Still(h, g), Views(h, k)
    PROVE  Views(g, k)
<1>1. Reached(g) = Reached(h) /\ \A v : Named(g, v) = Named(h, v)
  BY DEF Still, Reached, Named
<1>2. \A v : Find(g, v) = Find(h, v)
  BY <1>1 DEF Find, Still, Same
<1>3. ControllerSize(g) = ControllerSize(h)
  BY <1>1, <1>2 DEF ControllerSize, Still, Same
<1>4. Informed(h) => Informed(g)
  BY <1>1, <1>3 DEF Informed, SizeMatches, SizesTold, ControlTold, Still, Same
<1>5. Connected(g, k) /\ Identified(g, k)
  BY <1>1 DEF Views, Connected, Identified, Still, Same
<1>6. Present(h, k) => Present(g, k)
  BY DEF Present, Still, Same
<1> QED  BY <1>4, <1>5, <1>6 DEF Views, Still

\* The accept: the client is in the map, under an id that nobody has.
LEMMA AcceptViews ==
    ASSUME HostInv, Views(host, conn), NEW c \in Conns, Accept(c)
    PROVE  Views(host', conn')
<1> DEFINE h == host
           g == [host EXCEPT !.clients = @ \cup {c}]
           k == conn'
<1>1. /\ host' = g /\ conn[c] = "new" /\ conn' = [conn EXCEPT ![c] = "open"]
      /\ conn \in [Conns -> {"new", "open", "gone"}] /\ HostOK(h)
  BY DEF Accept, HostInv
<1>2. /\ g.clients = h.clients \cup {c} /\ g.joined = h.joined /\ g.dead = h.dead /\ g.vid = h.vid
      /\ g.exited = h.exited /\ g.exitSent = h.exitSent /\ Same(h, g)
      /\ g.applied = h.applied /\ g.sizeSent = h.sizeSent /\ g.ctlSent = h.ctlSent
  BY <1>1 DEF HostOK, HostState, Same
<1>3. /\ h.vid[c] = c /\ h.controller # c /\ c \notin h.joined /\ c \notin h.clients
      /\ k[c] = "open" /\ \A d \in Conns \ {c} : k[d] = conn[d]
      /\ h.clients \subseteq Conns /\ h.joined \subseteq Conns
  BY <1>1 DEF Views, Identified, Connected, HostOK, HostState
<1> HIDE DEF g, h, k
<1>4. Reached(g) = Reached(h)
  BY <1>2, <1>3 DEF Reached
<1>5. Connected(g, k)
  BY <1>2, <1>3, <1>4 DEF Views, Connected, h
<1>6. Identified(g, k)
  BY <1>2, <1>3 DEF Views, Identified, Same, h
<1>7. Informed(h) => Informed(g)
  <2>1. Named(g, h.controller) = Named(h, h.controller)
    BY <1>2, <1>3 DEF Named
  <2>2. Find(g, h.controller) = Find(h, h.controller)
    BY <1>2, <2>1 DEF Find, Same
  <2>3. ControllerSize(g) = ControllerSize(h)
    BY <1>2, <2>1, <2>2 DEF ControllerSize, Same
  <2>4. SizeMatches(h) => SizeMatches(g)
    BY <1>2, <1>3 DEF SizeMatches, Same
  <2> QED  BY <1>2, <1>4, <2>3, <2>4 DEF Informed, SizesTold, ControlTold, Same
<1>8. Present(h, conn) => Present(g, k)
  <2>1. ViewerOf[c] # c
    BY SessionHostAssumption
  <2> QED  BY <1>1, <1>2, <1>3, <2>1 DEF Present, Same
<1> QED  BY <1>1, <1>2, <1>5, <1>6, <1>7, <1>8 DEF Views, h, k

\* A writer that dies: fewer clients have to be told.
LEMMA WriterDiesViews ==
    ASSUME HostInv, Views(host, conn), NEW c \in Conns, WriterDies(c)
    PROVE  Views(host', conn')
<1> DEFINE h == host
           g == [host EXCEPT !.dead = @ \cup {c}]
<1>1. host' = g /\ conn' = conn /\ HostOK(h)
  BY DEF WriterDies, HostInv
<1>2. /\ g.clients = h.clients /\ g.joined = h.joined /\ g.dead = h.dead \cup {c} /\ g.vid = h.vid
      /\ g.exited = h.exited /\ g.exitSent = h.exitSent /\ Same(h, g)
      /\ g.applied = h.applied /\ g.sizeSent = h.sizeSent /\ g.ctlSent = h.ctlSent
  BY <1>1 DEF HostOK, HostState, Same
<1> HIDE DEF g, h
<1>3. Reached(g) = Reached(h) /\ \A v : Named(g, v) = Named(h, v)
  BY <1>2 DEF Reached, Named
<1>4. \A v : Find(g, v) = Find(h, v)
  BY <1>2, <1>3 DEF Find, Same
<1>5. ControllerSize(g) = ControllerSize(h)
  BY <1>2, <1>3, <1>4 DEF ControllerSize, Same
<1>6. Informed(h) => Informed(g)
  BY <1>2, <1>3, <1>5 DEF Informed, SizeMatches, SizesTold, ControlTold, Same
<1>7. Connected(g, conn) /\ Identified(g, conn)
  BY <1>2, <1>3 DEF Views, Connected, Identified, Same, h
<1>8. Present(h, conn) => Present(g, conn)
  BY <1>2 DEF Present, Same
<1> QED  BY <1>1, <1>2, <1>6, <1>7, <1>8 DEF Views, h

\* The end of a connection: the next controller is one of those that are left.
LEMMA DisconnectViews ==
    ASSUME HostInv, Views(host, conn), NEW c \in Conns, Disconnect(c)
    PROVE  Views(host', conn')
<1> DEFINE h == [host EXCEPT !.clients = @ \ {c}]
           g == RecomputeController(h)
<1>1. /\ host' = g /\ conn' = [conn EXCEPT ![c] = "gone"] /\ HostOK(host)
      /\ conn \in [Conns -> {"new", "open", "gone"}]
  BY DEF Disconnect, HostInv
<1>2. /\ HostOK(h) /\ Fewer(host, h) /\ Same(host, h) /\ h.clients = host.clients \ {c}
      /\ h.applied = host.applied /\ h.sizeSent = host.sizeSent /\ h.ctlSent = host.ctlSent
  <2>1. HostOK(h)
    BY <1>1 DEF HostOK, HostState
  <2> QED  BY <1>1, <2>1, ZenonT(60) DEF Fewer, Same, HostOK, HostState
<1> HIDE DEF h
<1>3. Connected(h, conn')
  <2>1. conn'[c] = "gone" /\ \A d \in Conns \ {c} : conn'[d] = conn[d]
    BY <1>1
  <2>2. host.clients \subseteq Conns /\ host.joined \subseteq Conns
    BY <1>1 DEF HostOK, HostState
  <2> QED  BY <1>2, <2>1, <2>2 DEF Views, Connected, Fewer, Reached
<1>4. Identified(h, conn')
  BY <1>1, <1>2 DEF Views, Identified, Fewer, Same
<1>5. Informed(host) => Informed(h)
  BY <1>1, <1>2, DropsInformed
<1>6. OneEach => Distinct(h)
  BY <1>4, IdsDistinct
<1>7. /\ Drops(h, g) /\ g.size = h.size
      /\ Distinct(h) /\ Informed(h) => Informed(g)
      /\ \/ g = h /\ StillPresent(h)
         \/ g.controller = None
         \/ g.controller = Local /\ LocalAttached
         \/ \E d \in Reached(h) : g.controller = h.vid[d]
  BY <1>2, RecomputeInforms
<1> HIDE DEF g
<1>8. Connected(g, conn')
  BY <1>3, <1>7, DropsConnected
<1>9. Identified(g, conn')
  <2>1. \A d \in Reached(h) : d \in Conns /\ conn'[d] # "new" /\ h.vid[d] \in {d} \cup Viewers
    BY <1>2, <1>3, <1>4, SessionHostAssumption DEF Connected, Identified, Reached, HostOK, HostState
  <2>2. \A d \in Conns : conn'[d] = "new" => h.vid[d] = d /\ g.controller # d
    <3> SUFFICES ASSUME NEW d \in Conns, conn'[d] = "new" PROVE h.vid[d] = d /\ g.controller # d
      OBVIOUS
    <3>1. h.vid[d] = d /\ h.controller # d /\ d \notin Reached(h) /\ d \notin {None, Local} \cup Viewers
      BY <1>4, <2>1, SessionHostAssumption DEF Identified, Ids
    <3> QED  BY <1>7, <2>1, <3>1
  <2>3. g.controller = Local => LocalAttached
    <3>1. Local # None /\ \A d \in Reached(h) : h.vid[d] # Local
      BY <2>1, SessionHostAssumption DEF Ids
    <3> QED  BY <1>4, <1>7, <3>1 DEF Identified
  <2> QED  BY <1>4, <1>7, <2>2, <2>3 DEF Identified, Drops, Fewer
<1>10. OneEach /\ ~g.exited => Informed(g)
  BY <1>2, <1>5, <1>6, <1>7 DEF Views, Drops, Fewer
<1>11. OneEach /\ SizedFirst => Present(g, conn')
  <2> SUFFICES ASSUME OneEach, SizedFirst PROVE Present(g, conn')
    OBVIOUS
  <2>1. \A d \in Reached(h) : d \in Conns /\ conn'[d] = "open" /\ h.vid[d] = ViewerOf[d]
    BY <1>2, <1>3 DEF Views, Present, Connected, Reached, Fewer, HostOK, HostState
  <2>2. Present(h, conn') \/ ~StillPresent(h)
    <3> SUFFICES ASSUME StillPresent(h) PROVE Present(h, conn')
      OBVIOUS
    <3>1. h.controller = Local \/ \E d \in Reached(h) : h.vid[d] = h.controller
      BY DEF StillPresent
    <3>2. Local \notin Viewers
      BY SessionHostAssumption
    <3> QED  BY <1>2, <2>1, <3>1, <3>2 DEF Views, Present, Fewer, Same
  <2>3. CASE g = h /\ StillPresent(h)
    BY <2>2, <2>3
  <2>4. CASE g.controller \in {None, Local} \/ \E d \in Reached(h) : g.controller = h.vid[d]
    <3>1. /\ g.joined = host.joined /\ g.vid = host.vid /\ g.size = host.size /\ g.clients \subseteq host.clients
      BY <1>2, <1>7 DEF Drops, Fewer, Same
    <3>2. /\ \A d \in g.joined : g.vid[d] = ViewerOf[d]
          /\ \A d \in g.clients : g.vid[d] = ViewerOf[d] => g.size[d] # 0
      BY <3>1 DEF Views, Present
    <3>3. /\ \A d \in Reached(h) : ViewerOf[d] \in Viewers /\ g.vid[d] = ViewerOf[d]
          /\ None \notin Viewers /\ Local \notin Viewers
      BY <1>2, <2>1, <3>1, SessionHostAssumption DEF Ids, Fewer
    <3> QED  BY <1>2, <2>1, <2>4, <3>1, <3>2, <3>3 DEF Present, Fewer
  <2> QED  BY <1>7, <2>3, <2>4
<1> QED  BY <1>1, <1>8, <1>9, <1>10, <1>11 DEF Views

\* The timer of a new connection is such a join.
LEMMA JoinTimerViews ==
    ASSUME HostInv, Views(host, conn), NEW c \in Conns, JoinTimer(c)
    PROVE  Views(host', conn')
BY InitialViews DEF JoinTimer, HostInv, Stamped

\* A host with the clients of h or fewer, whose controller is h's or has a viewer id.
LEMMA DropsIdentified ==
    ASSUME NEW h, NEW g, NEW k, Drops(h, g), Identified(h, k),
           g.controller = h.controller \/ g.controller \in Viewers
    PROVE  Identified(g, k)
BY SessionHostAssumption DEF Drops, Fewer, Identified

\* A client that asks for control gets it at the size it sent.
LEMMA TakeControlViews ==
    ASSUME HostInv, Views(host, conn), NEW c \in Conns, TakeControlFrame(c)
    PROVE  Views(host', conn')
<1> DEFINE v == ViewerOf[c]
           g == TakeControlBy(host, v)
<1>1. /\ host' = g /\ conn' = conn /\ HostOK(host) /\ conn[c] = "open"
      /\ c \in host.clients /\ host.vid[c] = v /\ v \in Viewers /\ v \in Ids
  BY SessionHostAssumption DEF TakeControlFrame, HostInv, Stamped, Ids
<1>2. Named(host, v) # {}
  BY <1>1 DEF Named
<1>3. /\ Drops(host, g) /\ g.controller = v /\ g.size = host.size
      /\ Distinct(host) /\ SizesTold(host) => Informed(g)
  BY <1>1, <1>2, TakeInforms
<1> HIDE DEF g
<1>4. Connected(g, conn) /\ Identified(g, conn)
  BY <1>1, <1>3, DropsConnected, DropsIdentified DEF Views
<1>5. OneEach /\ ~g.exited => Informed(g)
  BY <1>3, IdsDistinct DEF Views, Informed, Drops, Fewer
<1>6. OneEach /\ SizedFirst => Present(g, conn)
  BY <1>1, <1>3, DropsPresent DEF Views
<1> QED  BY <1>1, <1>4, <1>5, <1>6 DEF Views

\* A replay sends the grid as it is, or drops a client whose writer has died.
LEMMA ReplayViews ==
    ASSUME HostInv, Views(host, conn), NEW c \in Conns, ReplayFrame(c)
    PROVE  Views(host', conn')
<1> DEFINE g == WriteReplay(host, c)
<1>1. host' = g /\ conn' = conn /\ HostOK(host) /\ HostOK(g)
  BY WriteReplayType DEF ReplayFrame, HostInv
<1>2. /\ Drops(host, g) /\ Same(host, g) /\ g.applied = host.applied /\ g.ctlSent = host.ctlSent
      /\ SizesTold(host) => SizesTold(g)
  <2>1. CASE c \in host.dead
    <3>1. /\ g.vid = host.vid /\ g.joined = host.joined /\ g.dead = host.dead
          /\ g.exited = host.exited /\ g.exitSent = host.exitSent /\ g.clients = host.clients \ {c}
          /\ Same(host, g) /\ g.applied = host.applied /\ g.ctlSent = host.ctlSent
          /\ g.sizeSent = host.sizeSent
      BY <1>1, <2>1 DEF WriteReplay, Same, HostOK, HostState
    <3> HIDE DEF g
    <3> QED  BY <1>1, <2>1, <3>1 DEF Drops, Fewer, SizesTold, Reached
  <2>2. CASE c \notin host.dead
    <3>1. /\ g.vid = host.vid /\ g.joined = host.joined /\ g.dead = host.dead
          /\ g.exited = host.exited /\ g.exitSent = host.exitSent /\ g.clients = host.clients
          /\ Same(host, g) /\ g.applied = host.applied /\ g.ctlSent = host.ctlSent
          /\ g.sizeSent = [host.sizeSent EXCEPT ![c] = host.applied]
          /\ host.sizeSent \in [Conns -> Sizes] /\ host.clients \subseteq Conns
      BY <1>1, <2>2 DEF WriteReplay, Same, HostOK, HostState
    <3> HIDE DEF g
    <3> QED  BY <1>1, <3>1 DEF Drops, Fewer, SizesTold, Reached
  <2> QED  BY <2>1, <2>2
<1> HIDE DEF g
<1>3. Informed(host) => Informed(g)
  <2> SUFFICES ASSUME Informed(host) PROVE Informed(g)
    OBVIOUS
  <2>1. SizeMatches(g) /\ SizesTold(g) /\ (ControllerSize(g) # None => ControllerSize(host) # None)
    BY <1>1, <1>2, DropsInformed DEF Informed, Drops
  <2>2. Reached(g) \ g.dead \subseteq Reached(host) \ host.dead
    BY <1>2 DEF Drops, Fewer, Reached
  <2> QED  BY <1>2, <2>1, <2>2 DEF Informed, ControlTold, Same
<1>4. Connected(g, conn) /\ Identified(g, conn)
  BY <1>2, DropsConnected, DropsIdentified DEF Views, Same
<1>5. Present(host, conn) => Present(g, conn)
  BY <1>2, DropsPresent DEF Same
<1>6. g.exited = host.exited
  BY <1>2 DEF Drops, Fewer
<1> QED  BY <1>1, <1>3, <1>4, <1>5, <1>6 DEF Views

\* Output drops the clients whose writers have died.
LEMMA OutputViews ==
    ASSUME HostInv, Views(host, conn), Output
    PROVE  Views(host', conn')
<1> DEFINE g == Broadcast(host)
<1>1. host' = g /\ conn' = conn /\ HostOK(host)
  BY DEF Output, HostInv
<1>2. /\ Drops(host, g) /\ Same(host, g) /\ g.applied = host.applied
      /\ g.sizeSent = host.sizeSent /\ g.ctlSent = host.ctlSent
  BY <1>1, BroadcastDrops
<1> HIDE DEF g
<1>3. Informed(host) => Informed(g)
  BY <1>1, <1>2, DropsInformed DEF Drops
<1>4. Connected(g, conn) /\ Identified(g, conn)
  BY <1>2, DropsConnected, DropsIdentified DEF Views, Same
<1>5. Present(host, conn) => Present(g, conn)
  BY <1>2, DropsPresent DEF Same
<1>6. g.exited = host.exited
  BY <1>2 DEF Drops, Fewer
<1> QED  BY <1>1, <1>3, <1>4, <1>5, <1>6 DEF Views

\* The id of the local terminal is in use only where there is one.
LEMMA LocalIdentified ==
    ASSUME NEW h, NEW g, NEW k, Drops(h, g), Identified(h, k), LocalAttached,
           g.controller \in {h.controller, Local}
    PROVE  Identified(g, k)
BY SessionHostAssumption DEF Drops, Fewer, Identified, Ids

\* The local terminal resizes: its size is recorded, and the grid's if it controls.
LEMMA LocalResizeViews ==
    ASSUME HostInv, Views(host, conn), NEW n \in Sizes, LocalResize(n)
    PROVE  Views(host', conn')
<1> DEFINE g == ApplyResize(host, Local, n)
<1>1. host' = g /\ conn' = conn /\ HostOK(host) /\ LocalAttached /\ Local \in Ids
  BY DEF LocalResize, HostInv, Ids
<1>2. /\ Drops(host, g)
      /\ g.controller \in {host.controller, Local}
      /\ \A c \in Conns : g.size[c] = host.size[c] \/ g.size[c] # 0
      /\ Distinct(host) /\ SizesTold(host) /\ SizeMatches(host) => Informed(g)
  BY <1>1, ResizeInforms
<1> HIDE DEF g
<1>3. Connected(g, conn) /\ Identified(g, conn)
  BY <1>1, <1>2, DropsConnected, LocalIdentified DEF Views
<1>4. OneEach /\ ~g.exited => Informed(g)
  BY <1>2, IdsDistinct DEF Views, Informed, Drops, Fewer
<1>5. Present(host, conn) => Present(g, conn)
  BY <1>2, DropsPresent
<1> QED  BY <1>1, <1>3, <1>4, <1>5 DEF Views

\* The local terminal takes control back.
LEMMA LocalSpaceViews ==
    ASSUME HostInv, Views(host, conn), LocalSpace
    PROVE  Views(host', conn')
<1> DEFINE g == TakeControlBy(host, Local)
<1>1. host' = g /\ conn' = conn /\ HostOK(host) /\ LocalAttached /\ Local \in Ids
  BY DEF LocalSpace, HostInv, Ids
<1>2. /\ Drops(host, g) /\ g.controller = Local /\ g.size = host.size
      /\ Distinct(host) /\ SizesTold(host) => Informed(g)
  BY <1>1, TakeInforms
<1> HIDE DEF g
<1>3. Connected(g, conn) /\ Identified(g, conn)
  BY <1>1, <1>2, DropsConnected, LocalIdentified DEF Views
<1>4. OneEach /\ ~g.exited => Informed(g)
  BY <1>2, IdsDistinct DEF Views, Informed, Drops, Fewer
<1>5. Present(host, conn) => Present(g, conn)
  BY <1>2, DropsPresent
<1> QED  BY <1>1, <1>3, <1>4, <1>5 DEF Views

\* The exit: everybody who joined and can be reached is told, and everybody dropped.
LEMMA ExitViews ==
    ASSUME HostInv, Views(host, conn), Exit
    PROVE  Views(host', conn')
<1>1. host \in HostState /\ conn' = conn /\ ~host.exited
  BY DEF HostInv, HostOK, Exit
<1>2. /\ host'.clients = {} /\ host'.exited /\ host'.joined = host.joined /\ host'.dead = host.dead
      /\ host'.vid = host.vid /\ host'.size = host.size
      /\ host'.exitSent = host.exitSent \cup (Reached(host) \ host.dead)
      /\ host'.controller = IF LocalAttached /\ host.suppressed THEN Local ELSE host.controller
  BY <1>1 DEF Exit, HostState
<1>3. Connected(host', conn)
  BY <1>1, <1>2 DEF Views, Connected, Reached
<1>4. Identified(host', conn)
  BY <1>2, SessionHostAssumption DEF Views, Identified, Ids
<1>5. Present(host, conn) => Present(host', conn)
  BY <1>2 DEF Present
<1> QED  BY <1>1, <1>2, <1>3, <1>4, <1>5 DEF Views

\* The restore thread changes nothing of this.
LEMMA RestoreViews ==
    ASSUME HostInv, Views(host, conn), Restore
    PROVE  Views(host', conn')
<1>1. host \in HostState
  BY DEF HostInv, HostOK
<1>2. CASE JiggleResize
  <2>1. Still(host, host') /\ conn' = conn
    BY <1>1, <1>2 DEF JiggleResize, Still, Same, HostState
  <2> QED  BY <2>1, StillViews
<1>3. ASSUME NEW due \in BOOLEAN, RestoreTick(due)
      PROVE  Views(host', conn')
  <2> DEFINE h == IF due THEN RestoreDue(host) ELSE host
             j == IF h.jiggle = "away" THEN "back" ELSE "none"
             o == [host EXCEPT !.restore = FALSE]
             g == [host EXCEPT !.suppressed = FALSE, !.restore = FALSE, !.notice = 0]
             q == [g EXCEPT !.jiggle = IF g.jiggle = "none" THEN "away" ELSE g.jiggle]
  <2>1. h \in {host, o, q}
    BY DEF RestoreDue, RequestJiggle
  <2>2. host' = [h EXCEPT !.jiggle = j] /\ conn' = conn
    BY <1>3 DEF RestoreTick
  <2> HIDE DEF j
  <2>3. \A i : Still(host, [o EXCEPT !.jiggle = i])
    BY <1>1 DEF Still, Same, HostState
  <2>4. \A i : Still(host, [q EXCEPT !.jiggle = i])
    BY <1>1 DEF Still, Same, HostState
  <2>5. \A i : Still(host, [host EXCEPT !.jiggle = i])
    BY <1>1 DEF Still, Same, HostState
  <2> HIDE DEF h, o, q
  <2> QED  BY <2>1, <2>2, <2>3, <2>4, <2>5, StillViews
<1> QED  BY <1>2, <1>3 DEF Restore

\* A Resize frame: the client takes its viewer id, its size is recorded, and it joins.
LEMMA ResizeFrameViews ==
    ASSUME HostInv, Views(host, conn), NEW c \in Conns, NEW n \in Sizes, ResizeFrame(c, n)
    PROVE  Views(host', conn')
<1> DEFINE v == ViewerOf[c]
           h == IF c \in host.clients
                  THEN [host EXCEPT !.kind[c] = KindOf[c], !.vid[c] = ViewerOf[c]] ELSE host
           g == ApplyResize(h, v, n)
<1>1. /\ conn' = conn /\ conn[c] = "open" /\ HostOK(host)
      /\ v \in Viewers /\ v \in Ids /\ Viewers \cap (Conns \cup {None, Local}) = {}
  BY SessionHostAssumption DEF ResizeFrame, HostInv, Ids
<1>2. /\ HostOK(h)
      /\ h.clients = host.clients /\ h.joined = host.joined /\ h.dead = host.dead
      /\ h.exited = host.exited /\ h.exitSent = host.exitSent /\ Same(host, h)
      /\ h.applied = host.applied /\ h.sizeSent = host.sizeSent
      /\ c \in host.clients => h.vid[c] = v
      /\ c \notin host.clients => h.vid[c] = host.vid[c]
      /\ \A d \in Conns \ {c} : h.vid[d] = host.vid[d]
  <2>1. CASE c \in host.clients
    <3>1. h.vid = [host.vid EXCEPT ![c] = v] /\ h.kind = [host.kind EXCEPT ![c] = KindOf[c]]
      BY <1>1, <2>1 DEF HostOK, HostState
    <3>2. h.vid \in [Conns -> Conns \cup Viewers] /\ h.kind \in [Conns -> 1..3]
      BY <1>1, <3>1, SessionHostAssumption DEF HostOK, HostState
    <3>3. HostOK(h)
      BY <1>1, <2>1, <3>1, <3>2, ZenonT(60) DEF HostOK, HostState
    <3> QED  BY <1>1, <2>1, <3>1, <3>3 DEF HostOK, HostState, Same
  <2>2. CASE c \notin host.clients
    BY <1>1, <2>2 DEF Same
  <2> QED  BY <2>1, <2>2
<1>3. host' = WriteInitialFrames(g, c)
  <2>1. host' = WriteInitialFrames(ApplyResize(h, IF c \in host.clients THEN h.vid[c] ELSE v, n), c)
    BY DEF ResizeFrame
  <2> QED  BY <1>2, <2>1
<1> HIDE DEF h, v
<1>4. /\ Drops(h, g)
      /\ g.controller = IF h.controller = None THEN v ELSE h.controller
      /\ \A d \in Conns : g.size[d] = h.size[d] \/ g.size[d] # 0
      /\ Distinct(h) => \A d \in Named(h, v) : g.size[d] # 0
      /\ Distinct(h) /\ SizesTold(h) /\ (h.controller = v \/ SizeMatches(h)) => Informed(g)
  BY <1>1, <1>2, ResizeInforms
<1> HIDE DEF g
<1>5. Connected(h, conn) /\ Identified(h, conn)
  BY <1>1, <1>2 DEF Views, Connected, Identified, Reached, Same, v
<1>6. Connected(g, conn) /\ Identified(g, conn)
  BY <1>1, <1>4, <1>5, DropsConnected, DropsIdentified
<1>7. OneEach /\ ~g.exited => Informed(g)
  <2> SUFFICES ASSUME OneEach, ~g.exited PROVE Informed(g)
    OBVIOUS
  <2>1. Informed(host)
    BY <1>2, <1>4 DEF Views, Drops, Fewer
  <2>2. SizesTold(h)
    BY <1>2, <2>1 DEF Informed, SizesTold, Reached
  <2>3. h.controller = v \/ SizeMatches(h)
    <3>1. ASSUME h.controller # v, NEW d \in h.clients, h.vid[d] = h.controller
          PROVE  AtLeastOne(h.size[d]) = h.applied
      <4>1. d # c /\ d \in Conns /\ h.vid[d] = host.vid[d]
        BY <1>2, <3>1 DEF HostOK, HostState
      <4> QED  BY <1>2, <2>1, <3>1, <4>1 DEF Informed, SizeMatches, Same
    <3> QED  BY <1>2, <2>1, <3>1 DEF Informed, SizeMatches, Same
  <2> QED  BY <1>4, <1>5, <2>2, <2>3, IdsDistinct
<1>8. OneEach /\ SizedFirst => Present(g, conn)
  <2> SUFFICES ASSUME OneEach, SizedFirst PROVE Present(g, conn)
    OBVIOUS
  <2>1. /\ g.vid = h.vid /\ g.joined = host.joined /\ g.clients \subseteq host.clients
        /\ g.exited = host.exited /\ host.joined \subseteq Conns /\ host.clients \subseteq Conns
    BY <1>1, <1>2, <1>4 DEF Drops, Fewer, HostOK, HostState
  <2>2. \A d \in Conns : host.vid[d] = ViewerOf[d] => g.vid[d] = ViewerOf[d]
    BY <1>2, <2>1 DEF v
  <2>3. \A d \in g.joined : g.vid[d] = ViewerOf[d]
    BY <2>1, <2>2 DEF Views, Present
  <2>4. ASSUME NEW d \in g.clients, g.vid[d] = ViewerOf[d] PROVE g.size[d] # 0
    <3>1. CASE d = c
      <4>1. c \in Named(h, v)
        BY <1>2, <2>1, <3>1 DEF Named
      <4> QED  BY <1>4, <1>5, <3>1, <4>1, IdsDistinct
    <3>2. CASE d # c
      <4>1. host.size[d] # 0
        BY <1>2, <2>1, <2>4, <3>2 DEF Views, Present
      <4> QED  BY <1>2, <1>4, <2>1, <4>1 DEF Same
    <3> QED  BY <3>1, <3>2
  <2>5. g.controller \in {v, host.controller}
    BY <1>2, <1>4 DEF Same
  <2>6. g.controller \in Viewers \cup {Local, None}
    BY <1>1, <2>5 DEF Views, Present
  <2>7. ASSUME g.controller \in Viewers, ~g.exited
        PROVE  \E d \in Conns : /\ conn[d] = "open" /\ ViewerOf[d] = g.controller
                                /\ d \in g.clients => g.vid[d] = ViewerOf[d]
    <3>1. CASE g.controller = v
      BY <1>1, <1>2, <2>1, <3>1 DEF v
    <3>2. CASE g.controller = host.controller
      BY <2>1, <2>2, <2>7, <3>2 DEF Views, Present
    <3> QED  BY <2>5, <3>1, <3>2
  <2> QED  BY <2>3, <2>4, <2>6, <2>7 DEF Present
<1>9. SizedFirst /\ c \in g.clients => g.vid[c] = ViewerOf[c]
  BY <1>2, <1>4 DEF Drops, Fewer, v
<1>10. HostOK(g) /\ Views(g, conn) /\ conn[c] # "new"
  BY <1>1, <1>4, <1>6, <1>7, <1>8 DEF Views, Drops, Fewer
<1> QED  BY <1>1, <1>3, <1>9, <1>10, InitialViews

\* At the start there is nobody to tell.
LEMMA ViewInit == Init => ViewInv
<1> SUFFICES ASSUME Init PROVE ViewInv
  OBVIOUS
<1>1. HostInv
  BY HostInit
<1>2. /\ host.clients = {} /\ host.joined = {} /\ ~host.exited
      /\ host.vid = [c \in Conns |-> c] /\ host.applied = host.local
      /\ host.controller = IF LocalAttached THEN Local ELSE None
  BY DEF Init
<1>3. Connected(host, conn)
  BY <1>2 DEF Connected
<1>4. Identified(host, conn)
  BY <1>2, SessionHostAssumption DEF Identified, Ids
<1>5. Informed(host)
  BY <1>2 DEF Informed, SizeMatches, SizesTold, ControlTold, Reached
<1>6. Present(host, conn)
  BY <1>2, SessionHostAssumption DEF Present, Ids
<1> QED  BY <1>1, <1>3, <1>4, <1>5, <1>6 DEF ViewInv

\* Every step keeps the clients told, and the controller connected.
LEMMA ViewStep == ViewInv /\ [Next]_vars => ViewInv'
<1> SUFFICES ASSUME ViewInv, [Next]_vars PROVE ViewInv'
  OBVIOUS
<1>1. HostInv /\ Views(host, conn)
  BY DEF ViewInv, Views
<1>2. HostInv'
  BY <1>1, HostStep
<1>3. ASSUME NEW c \in Conns, ClientStep(c) PROVE Views(host', conn')
  BY <1>1, <1>3, AcceptViews, JoinTimerViews, TakeControlViews, ReplayViews, DisconnectViews,
     WriterDiesViews, ResizeFrameViews DEF ClientStep
<1>4. ASSUME \E n \in Sizes : LocalResize(n) PROVE Views(host', conn')
  BY <1>1, <1>4, LocalResizeViews
<1>5. ASSUME LocalSpace PROVE Views(host', conn')
  BY <1>1, <1>5, LocalSpaceViews
<1>6. ASSUME Output PROVE Views(host', conn')
  BY <1>1, <1>6, OutputViews
<1>7. ASSUME Restore PROVE Views(host', conn')
  BY <1>1, <1>7, RestoreViews
<1>8. ASSUME Exit PROVE Views(host', conn')
  BY <1>1, <1>8, ExitViews
<1>9. ASSUME UNCHANGED vars PROVE Views(host', conn')
  BY <1>1, <1>9 DEF vars
<1>10. Views(host', conn')
  BY <1>3, <1>4, <1>5, <1>6, <1>7, <1>8, <1>9 DEF Next
<1> QED  BY <1>2, <1>10 DEF ViewInv, Views

\* A client whose writer works learns of the exit, whether it joined before the command
\* ended (the broadcast of the Exit frame) or after (write_initial_frames).
THEOREM ExitsDelivered == Spec => []ExitDelivered
<1>1. ViewInv => ExitDelivered
  BY DEF ViewInv, Connected, ExitDelivered
<1> QED  BY <1>1, ViewInit, ViewStep, PTL DEF Spec

\* Every client that takes part in the broadcasts was told the grid and the controller
\* last, in whatever order clients join, resize, take control and leave (broadcast,
\* broadcast_control, write_replay), if no viewer has two connections.
THEOREM ViewersAreInformed ==
    ASSUME OneEach
    PROVE  Spec => []ViewersInformed
<1>1. ViewInv => ViewersInformed
  <2> SUFFICES ASSUME ViewInv PROVE ViewersInformed
    OBVIOUS
  <2>1. Reached(host) # {} => Informed(host)
    BY DEF ViewInv, Connected
  <2> QED  BY <2>1 DEF ViewersInformed, Informed, SizesTold, ControlTold
<1> QED  BY <1>1, ViewInit, ViewStep, PTL DEF Spec

\* The grid has the size that the controller sent last, if no viewer has two
\* connections and sizes come before the join timer (set_pty_size).
THEOREM GridFollows ==
    ASSUME OneEach, SizedFirst
    PROVE  Spec => []GridFollowsController
<1>1. ViewInv => GridFollowsController
  <2> SUFFICES ASSUME ViewInv, host.controller # None, ~host.exited
               PROVE  \/ host.controller = Local /\ LocalAttached /\ host.applied = host.local
                      \/ \E c \in Conns :
                           /\ conn[c] = "open"
                           /\ IF c \in host.clients
                              THEN host.vid[c] = host.controller /\ host.size[c] = host.applied
                              ELSE ViewerOf[c] = host.controller
    BY DEF GridFollowsController
  <2>1. Present(host, conn) /\ SizeMatches(host) /\ Identified(host, conn) /\ HostOK(host)
    BY DEF ViewInv, HostInv, Informed
  <2>2. CASE host.controller = Local
    BY <2>1, <2>2 DEF Identified, SizeMatches
  <2>3. CASE host.controller \in Viewers
    <3>1. PICK c \in Conns : /\ conn[c] = "open" /\ ViewerOf[c] = host.controller
                             /\ c \in host.clients => host.vid[c] = ViewerOf[c]
      BY <2>1, <2>3 DEF Present
    <3>2. ASSUME c \in host.clients PROVE host.size[c] = host.applied
      <4>1. host.size[c] # 0 /\ AtLeastOne(host.size[c]) = host.applied /\ host.size[c] \in Sizes
        BY <2>1, <3>1, <3>2 DEF Present, SizeMatches, HostOK, HostState
      <4> QED  BY <4>1, SessionHostAssumption DEF AtLeastOne, Sizes
    <3> QED  BY <3>1, <3>2
  <2> QED  BY <2>1, <2>2, <2>3 DEF Present
<1> QED  BY <1>1, ViewInit, ViewStep, PTL DEF Spec

=============================================================================
