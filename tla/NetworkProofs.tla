--------------------------- MODULE NetworkProofs ---------------------------
(***************************************************************************)
(* Proofs about the parts that link this machine to another one, for any   *)
(* tunnels, ports, daemons, viewers and bounds:                            *)
(*   - TunnelCorrect: a port that was mapped and recorded stays mapped;    *)
(*   - UplinkCorrect: the uplink's children and its beacon are true;       *)
(*   - DaemonCorrect: ingest daemons keep what they own apart;             *)
(*   - BridgeCorrect: links are as reported, and bridged sessions have an  *)
(*     uplink;                                                             *)
(*   - ChannelCorrect: a bridged session streams to its viewers and to no  *)
(*     one else, and AnswersTrue: spawn requests are told the truth.       *)
(* Each has an inductive invariant (...IInv) and one lemma for the actions *)
(* of one stage.                                                           *)
(***************************************************************************)
EXTENDS UplinkSupervisor, TunnelPort, IngestDaemon, PeerBridge, RemoteChannel, TLAPS

----------------------------------------------------------------------------
(* The tunnel's port *)

\* What an operation under way knows: which steps follow a record that was found, or a
\* tunnel that was created, and that a mapping which it has made and nobody has taken
\* away is still there.
Sound(op, ports) ==
    /\ op.at # "idle" /\ op.at \notin {"delete", "remove"} => op.port \in Ports
    /\ op.at \in {"unmap", "remap", "delete"} => op.read.canHost
    /\ op.at \in {"create", "unmap", "remap", "record"} => op.new = NoTunnel
    /\ op.at = "record" => op.read # NoState
    /\ op.at \in {"map", "recordNew"} => op.new \in TunnelIds
    /\ op.why = "mapped" => op.at \in {"record", "recordNew"} /\ op.port \in ports[Target(op)]

TunnelIInv == TunnelInv /\ \A c \in Callers : Sound(tpOp[c], tpPorts)

LEMMA RestFacts ==
    /\ Rest \in Operations
    /\ \A ports : Sound(Rest, ports)
    /\ \A r \in Records : ~Took(Rest, r)
    /\ NoState \in Records /\ ~NoState.canHost
    /\ \A r \in Records : r # NoState => r \in [id : TunnelIds, port : Ports, canHost : BOOLEAN]
BY DEF Rest, Operations, Steps, Records, Causes, NoState, Sound, Took

LEMMA TunnelInitial == TunnelInit => TunnelIInv
BY RestFacts, TunnelAssumption
   DEF TunnelInit, TunnelIInv, TunnelInv, TunnelTypeOK, RecordedMapped, Causes

\* The facts about one operation that its next step starts from.
LEMMA OperationFacts ==
    ASSUME TunnelIInv, NEW c \in Callers
    PROVE  /\ tpOp[c] \in Operations
           /\ Sound(tpOp[c], tpPorts)
           /\ tpOp[c].read # NoState =>
                tpOp[c].read \in [id : TunnelIds, port : Ports, canHost : BOOLEAN]
           /\ tpOp[c].read.canHost => tpOp[c].read # NoState
BY RestFacts DEF TunnelIInv, TunnelInv, TunnelTypeOK, Operations

\* A step of one operation: the others are as they were, or raced, and the record keeps
\* its mapping or is in the hands of whoever takes it away.
LEMMA OperationStep ==
    ASSUME TunnelIInv, NEW c \in Callers, NEW op,
           op \in Operations,
           tpOp' = [tpOp EXCEPT ![c] = op],
           tpMade' \subseteq TunnelIds, tpPorts' \in [TunnelIds -> SUBSET Ports],
           \A t \in TunnelIds : tpPorts[t] \subseteq tpPorts'[t],
           tpState' \in Records, tpWhy' \in Causes, tpOps' \in 0 .. MaxOps,
           Sound(op, tpPorts'),
           \/ UNCHANGED record /\ (Took(tpOp[c], tpState) => Took(op, tpState))
           \/ tpWhy' # "mapped"
           \/ Mapped'
    PROVE  TunnelIInv'
<1>1. /\ tpOp'[c] = op
      /\ \A x \in Callers : x # c => tpOp'[x] = tpOp[x]
  BY DEF TunnelIInv, TunnelInv, TunnelTypeOK
<1>2. TunnelTypeOK'
  BY DEF TunnelIInv, TunnelInv, TunnelTypeOK
<1>3. \A x \in Callers : Sound(tpOp'[x], tpPorts')
  <2> SUFFICES ASSUME NEW x \in Callers, x # c PROVE Sound(tpOp'[x], tpPorts')
    BY <1>1 DEF Sound, Target
  <2>1. Sound(tpOp[x], tpPorts) /\ tpOp'[x] = tpOp[x]
    BY <1>1 DEF TunnelIInv
  <2>2. tpOp[x].why = "mapped" => Target(tpOp[x]) \in TunnelIds
    BY <2>1, OperationFacts, TunnelAssumption DEF Operations, Sound, Target
  <2> QED  BY <2>1, <2>2 DEF Sound, Target
<1>4. RecordedMapped'
  <2> SUFFICES ASSUME tpState'.canHost, tpWhy' = "mapped", ~Mapped'
               PROVE  \E x \in Callers : Took(tpOp'[x], tpState')
    BY DEF RecordedMapped
  <2>1. UNCHANGED record /\ (Took(tpOp[c], tpState) => Took(op, tpState))
    OBVIOUS
  <2>2. ~Mapped
    <3>1. tpState \in Records /\ tpState # NoState
      BY <2>1, RestFacts DEF record, TunnelIInv, TunnelInv, TunnelTypeOK
    <3> QED  BY <2>1, <3>1, RestFacts DEF record, Mapped
  <2>3. PICK x \in Callers : Took(tpOp[x], tpState)
    BY <2>1, <2>2 DEF record, TunnelIInv, TunnelInv, RecordedMapped
  <2>4. Took(tpOp'[x], tpState)
    BY <1>1, <2>1, <2>3
  <2> QED  BY <2>1, <2>4 DEF record
<1> QED  BY <1>2, <1>3, <1>4 DEF TunnelIInv, TunnelInv

\* A reconcile or create is refused: it records the port all the same, or ends.
LEMMA CreateRefused ==
    ASSUME TunnelIInv, NEW c \in Callers, tpOp[c].at \in {"create", "map", "recordNew"},
           CreateFails(c), UNCHANGED <<tpPorts, record, tpOps>>, tpMade' \subseteq TunnelIds
    PROVE  TunnelIInv'
<1>1. CASE tpOp[c].read = NoState
  <2>1. tpOp' = [tpOp EXCEPT ![c] = Rest] /\ ~Took(tpOp[c], tpState)
    BY <1>1, RestFacts DEF CreateFails, OpEnds, Took
  <2> QED  BY <2>1, RestFacts, OperationStep DEF record, TunnelIInv, TunnelInv, TunnelTypeOK, Sound, Rest
<1>2. CASE tpOp[c].read # NoState
  <2> PICK op : op = [tpOp[c] EXCEPT !.at = "record", !.new = NoTunnel, !.why = "refused"]
    OBVIOUS
  <2>1. tpOp' = [tpOp EXCEPT ![c] = op]
    BY <1>2 DEF CreateFails, TunnelIInv, TunnelInv, TunnelTypeOK
  <2>2. /\ op \in Operations
        /\ op.at = "record" /\ op.new = NoTunnel /\ op.why = "refused"
        /\ op.read = tpOp[c].read /\ op.port = tpOp[c].port /\ op.port \in Ports
    BY OperationFacts DEF Operations, Steps, Causes, Sound
  <2>3. Sound(op, tpPorts')
    BY <1>2, <2>2 DEF Sound
  <2>4. Took(tpOp[c], tpState) => Took(op, tpState)
    BY <2>2 DEF Took
  <2> QED  BY <2>1, <2>2, <2>3, <2>4, OperationStep DEF record, TunnelIInv, TunnelInv, TunnelTypeOK
<1> QED  BY <1>1, <1>2

LEMMA TunnelStarts ==
    ASSUME TunnelIInv, NEW c \in Callers,
           StartDelete(c) \/ \E port \in Ports : StartCreate(c, port) \/ StartReconcile(c, port)
    PROVE  TunnelIInv'
<1>1. PICK op \in Operations : Start(c, op) /\ Sound(op, tpPorts')
  <2>1. tpState \in Records /\ (tpState.canHost => tpState # NoState)
    BY RestFacts DEF TunnelIInv, TunnelInv, TunnelTypeOK
  <2>2. ASSUME StartDelete(c)
        PROVE  \E op \in Operations : Start(c, op) /\ Sound(op, tpPorts')
    <3>1. PICK op : op = [Rest EXCEPT !.at = IF tpState.canHost THEN "delete" ELSE "remove", !.read = tpState]
      OBVIOUS
    <3>2. Start(c, op)
      BY <2>2, <3>1 DEF StartDelete
    <3>3. op \in Operations
      BY <2>1, <3>1, RestFacts DEF Rest, Operations, Steps
    <3>4. Sound(op, tpPorts')
      BY <2>1, <2>2, <3>1 DEF StartDelete, Rest, Sound
    <3> QED  BY <3>2, <3>3, <3>4
  <2>3. ASSUME NEW port \in Ports, StartCreate(c, port)
        PROVE  \E op \in Operations : Start(c, op) /\ Sound(op, tpPorts')
    <3>1. PICK op : op = [Rest EXCEPT !.at = "create", !.port = port]
      OBVIOUS
    <3>2. Start(c, op)
      BY <2>3, <3>1 DEF StartCreate
    <3>3. op \in Operations
      BY <2>1, <3>1, RestFacts DEF Rest, Operations, Steps
    <3>4. Sound(op, tpPorts')
      BY <2>1, <2>3, <3>1 DEF StartCreate, Rest, Sound
    <3> QED  BY <3>2, <3>3, <3>4
  <2>4. ASSUME NEW port \in Ports, StartReconcile(c, port)
        PROVE  \E op \in Operations : Start(c, op) /\ Sound(op, tpPorts')
    <3>1. PICK op : op = [Rest EXCEPT !.at = IF tpState.canHost THEN "unmap" ELSE "record",
                                   !.read = tpState, !.port = port]
      OBVIOUS
    <3>2. Start(c, op)
      BY <2>4, <3>1 DEF StartReconcile
    <3>3. op \in Operations
      BY <2>1, <3>1, RestFacts DEF Rest, Operations, Steps
    <3>4. Sound(op, tpPorts')
      BY <2>1, <2>4, <3>1 DEF StartReconcile, Rest, Sound
    <3> QED  BY <3>2, <3>3, <3>4
  <2> QED  BY <2>2, <2>3, <2>4
<1>2. /\ tpOp[c] = Rest /\ UNCHANGED <<service, record>> /\ tpOps' \in 0 .. MaxOps
      /\ tpOp' = [tpOp EXCEPT ![c] = op]
  BY <1>1, TunnelAssumption DEF Start, Count, TunnelIInv, TunnelInv, TunnelTypeOK
<1>3. ~Took(tpOp[c], tpState)
  BY <1>2, RestFacts DEF TunnelIInv, TunnelInv, TunnelTypeOK
<1> QED  BY <1>1, <1>2, <1>3, OperationStep
         DEF service, record, TunnelIInv, TunnelInv, TunnelTypeOK

LEMMA TunnelCreates ==
    ASSUME TunnelIInv, NEW c \in Callers, Create(c) \/ MapNew(c) \/ RecordNew(c)
    PROVE  TunnelIInv'
<1> USE DEF TunnelIInv, TunnelInv, TunnelTypeOK
<1>1. CASE CreateFails(c) /\ tpMade' \subseteq TunnelIds /\ UNCHANGED <<tpPorts, record, tpOps>>
  BY <1>1, CreateRefused DEF Create, MapNew, RecordNew
<1>2. ASSUME NEW t \in TunnelIds \ tpMade, tpOp[c].at = "create", tpMade' = tpMade \cup {t},
             tpOp' = [tpOp EXCEPT ![c].at = "map", ![c].new = t],
             UNCHANGED <<tpPorts, record, tpOps>>
      PROVE  TunnelIInv'
  <2>1. PICK op : op = [tpOp[c] EXCEPT !.at = "map", !.new = t]
    OBVIOUS
  <2>2. op \in Operations
    BY <1>2, <2>1, OperationFacts DEF Operations, Steps
  <2>3. op.at = "map" /\ op.new = t /\ op.port \in Ports /\ op.why # "mapped"
    BY <1>2, <2>1, OperationFacts DEF Operations, Sound
  <2>4. Sound(op, tpPorts')
    BY <2>3 DEF Sound
  <2>5. tpOp' = [tpOp EXCEPT ![c] = op] /\ (Took(tpOp[c], tpState) => Took(op, tpState))
    BY <1>2, <2>1, OperationFacts DEF Took, Operations
  <2> QED  BY <1>2, <2>2, <2>4, <2>5, OperationStep DEF record
<1>3. CASE /\ tpOp[c].at = "map" /\ tpOp[c].new \in tpMade
           /\ tpPorts' = [tpPorts EXCEPT ![tpOp[c].new] = @ \cup {tpOp[c].port}]
           /\ tpOp' = [tpOp EXCEPT ![c].at = "recordNew", ![c].why = "mapped"]
           /\ UNCHANGED <<tpMade, record, tpOps>>
  <2>1. PICK op : op = [tpOp[c] EXCEPT !.at = "recordNew", !.why = "mapped"]
    OBVIOUS
  <2>2. op \in Operations /\ op.new \in TunnelIds /\ op.port \in Ports
    BY <1>3, <2>1, OperationFacts DEF Operations, Steps, Causes, Sound
  <2>3. tpPorts' \in [TunnelIds -> SUBSET Ports] /\ \A t \in TunnelIds : tpPorts[t] \subseteq tpPorts'[t]
    BY <1>3, <2>1, <2>2, OperationFacts DEF Operations
  <2>4. Sound(op, tpPorts')
    BY <1>3, <2>1, <2>2, OperationFacts, TunnelAssumption DEF Operations, Sound, Target
  <2>5. tpOp' = [tpOp EXCEPT ![c] = op] /\ (Took(tpOp[c], tpState) => Took(op, tpState))
    BY <1>3, <2>1, OperationFacts DEF Took, Operations
  <2> QED  BY <1>3, <2>2, <2>3, <2>4, <2>5, OperationStep DEF record
<1>4. CASE /\ tpOp[c].at = "recordNew" /\ OpEnds(c) /\ tpWhy' = tpOp[c].why
           /\ tpState' = [id |-> tpOp[c].new, port |-> tpOp[c].port, canHost |-> TRUE]
           /\ UNCHANGED <<service, tpOps>>
  <2>1. tpState' \in Records /\ tpWhy' \in Causes
    BY <1>4, OperationFacts DEF Operations, Sound, Records
  <2>2. tpWhy' # "mapped" \/ Mapped'
    BY <1>4, OperationFacts, TunnelAssumption DEF Sound, Target, Mapped, service
  <2> QED  BY <1>4, <2>1, <2>2, RestFacts, OperationStep DEF service, OpEnds, Operations
<1> QED  BY <1>1, <1>2, <1>3, <1>4 DEF Create, MapNew, RecordNew, service

\* What is taken away: whoever made the mapping and has yet to record it is raced, and
\* a record that names it is in the hands of c.
LEMMA TunnelTaken ==
    ASSUME TunnelIInv, NEW c \in Callers, NEW mappings, NEW at \in {"remap", "remove"},
           Takes(c, mappings, at), tpOp[c].why # "mapped",
           ~Took(tpOp[c], tpState), <<tpState.id, tpState.port>> \in mappings => Took(tpOp'[c], tpState),
           at = "remap" => tpOp[c].at = "unmap",
           tpMade' \subseteq TunnelIds, tpPorts' \in [TunnelIds -> SUBSET Ports],
           \A t \in TunnelIds : \A n \in tpPorts[t] : <<t, n>> \notin mappings => n \in tpPorts'[t],
           UNCHANGED <<record, tpOps>>
    PROVE  TunnelIInv'
<1> USE DEF TunnelIInv, TunnelInv, TunnelTypeOK
<1>1. /\ tpOp'[c] = [tpOp[c] EXCEPT !.at = at]
      /\ \A x \in Callers : x # c =>
           tpOp'[x] = IF tpOp[x].why = "mapped" /\ <<Target(tpOp[x]), tpOp[x].port>> \in mappings
                      THEN [tpOp[x] EXCEPT !.why = "raced"] ELSE tpOp[x]
  BY DEF Takes
<1>2. ASSUME NEW x \in Callers
      PROVE  /\ tpOp'[x] \in Operations
             /\ x # c => tpOp'[x].at = tpOp[x].at /\ tpOp'[x].read = tpOp[x].read
  <2>1. tpOp[x] \in Operations /\ at \in Steps /\ "raced" \in Causes
    BY DEF Steps, Causes
  <2>2. tpOp'[x] \in {tpOp[x], [tpOp[x] EXCEPT !.why = "raced"], [tpOp[x] EXCEPT !.at = at]}
        /\ (x # c => tpOp'[x] \in {tpOp[x], [tpOp[x] EXCEPT !.why = "raced"]})
    BY <1>1
  <2> QED  BY <2>1, <2>2 DEF Operations
<1>3. TunnelTypeOK'
  BY <1>2 DEF Takes, record
<1>4. \A x \in Callers : Sound(tpOp'[x], tpPorts')
  <2> SUFFICES ASSUME NEW x \in Callers PROVE Sound(tpOp'[x], tpPorts')
    OBVIOUS
  <2>1. CASE x = c
    BY <1>1, <2>1, OperationFacts DEF Sound, Operations
  <2>2. CASE x # c /\ tpOp[x].why = "mapped" /\ <<Target(tpOp[x]), tpOp[x].port>> \in mappings
    <3>1. tpOp'[x] = [tpOp[x] EXCEPT !.why = "raced"]
      BY <1>1, <2>2
    <3> QED  BY <3>1, OperationFacts DEF Sound, Operations
  <2>3. CASE x # c /\ ~(tpOp[x].why = "mapped" /\ <<Target(tpOp[x]), tpOp[x].port>> \in mappings)
    <3>1. tpOp'[x] = tpOp[x]
      BY <1>1, <2>3
    <3>2. tpOp[x].why = "mapped" => Target(tpOp[x]) \in TunnelIds
      BY OperationFacts, TunnelAssumption DEF Operations, Sound, Target
    <3> QED  BY <2>3, <3>1, <3>2, OperationFacts DEF Sound
  <2> QED  BY <2>1, <2>2, <2>3
<1>5. RecordedMapped'
  <2> SUFFICES ASSUME tpState.canHost, tpWhy = "mapped", ~Mapped'
               PROVE  \E x \in Callers : Took(tpOp'[x], tpState)
    BY DEF RecordedMapped, record
  <2>1. tpState \in [id : TunnelIds, port : Ports, canHost : BOOLEAN]
    BY RestFacts
  <2>2. CASE Mapped
    <3>1. <<tpState.id, tpState.port>> \in mappings
      BY <2>1, <2>2 DEF Mapped, record
    <3> QED  BY <1>1, <3>1
  <2>3. CASE ~Mapped
    <3>1. PICK x \in Callers : Took(tpOp[x], tpState)
      BY <2>3 DEF RecordedMapped
    <3>2. CASE x = c
      BY <1>1, <3>1, <3>2
    <3>3. CASE x # c
      <4>1. tpOp'[x].at = tpOp[x].at /\ tpOp'[x].read = tpOp[x].read
        BY <1>2, <3>3
      <4> QED  BY <3>1, <4>1 DEF Took
    <3> QED  BY <3>2, <3>3
  <2> QED  BY <2>2, <2>3
<1> QED  BY <1>3, <1>4, <1>5

LEMMA TunnelUnmaps ==
    ASSUME TunnelIInv, NEW c \in Callers, Unmap(c) \/ RunDelete(c)
    PROVE  TunnelIInv'
<1>1. /\ tpOp[c].read \in [id : TunnelIds, port : Ports, canHost : BOOLEAN] /\ tpOp[c].read.canHost
      /\ tpOp[c].why # "mapped"
  BY OperationFacts DEF Unmap, RunDelete, Sound
<1>2. CASE Unmap(c)
  <2> DEFINE read == tpOp[c].read
  <2> PICK mappings : mappings = {<<read.id, read.port>>}
    OBVIOUS
  <2>1. /\ tpPorts' \in [TunnelIds -> SUBSET Ports]
        /\ \A t \in TunnelIds : \A n \in tpPorts[t] : <<t, n>> \notin mappings => n \in tpPorts'[t]
    BY <1>1, <1>2 DEF Unmap, TunnelIInv, TunnelInv, TunnelTypeOK
  <2>2. ~Took(tpOp[c], tpState)
    BY <1>2 DEF Unmap, Took
  <2>3. /\ Takes(c, mappings, "remap") /\ tpOp[c].at = "unmap"
        /\ tpMade' \subseteq TunnelIds /\ UNCHANGED <<record, tpOps>>
    BY <1>2 DEF Unmap, TunnelIInv, TunnelInv, TunnelTypeOK
  <2>4. <<tpState.id, tpState.port>> \in mappings => Took(tpOp'[c], tpState)
    BY <1>1, <2>3, OperationFacts DEF Took, Takes, Operations, TunnelIInv, TunnelInv, TunnelTypeOK
  <2> QED  BY <1>1, <2>1, <2>2, <2>3, <2>4, TunnelTaken
<1>3. CASE RunDelete(c)
  <2> DEFINE id == tpOp[c].read.id
  <2> PICK mappings : mappings = {id} \X Ports
    OBVIOUS
  <2>1. /\ tpPorts' \in [TunnelIds -> SUBSET Ports] /\ tpMade' \subseteq TunnelIds
        /\ \A t \in TunnelIds : \A n \in tpPorts[t] : <<t, n>> \notin mappings => n \in tpPorts'[t]
    BY <1>1, <1>3 DEF RunDelete, service, TunnelIInv, TunnelInv, TunnelTypeOK
  <2>2. ~Took(tpOp[c], tpState)
    BY <1>3 DEF RunDelete, Took
  <2>3. Takes(c, mappings, "remove") /\ UNCHANGED <<record, tpOps>>
    BY <1>3 DEF RunDelete
  <2>4. <<tpState.id, tpState.port>> \in mappings => Took(tpOp'[c], tpState)
    BY <1>1, <2>3, OperationFacts DEF Took, Takes, Operations, TunnelIInv, TunnelInv, TunnelTypeOK
  <2> QED  BY <1>1, <2>1, <2>2, <2>3, <2>4, TunnelTaken
<1> QED  BY <1>2, <1>3

LEMMA TunnelRemaps ==
    ASSUME TunnelIInv, NEW c \in Callers, Remap(c) \/ Record(c) \/ RemoveFile(c) \/ Interrupted(c)
    PROVE  TunnelIInv'
<1> USE DEF TunnelIInv, TunnelInv, TunnelTypeOK
<1>1. CASE tpOp[c].at = "remap" /\ OpGoes(c, "create") /\ UNCHANGED <<tpMade, tpPorts, record, tpOps>>
  <2>1. PICK op : op = [tpOp[c] EXCEPT !.at = "create"]
    OBVIOUS
  <2>2. op \in Operations /\ Sound(op, tpPorts')
    BY <1>1, <2>1, OperationFacts DEF Operations, Steps, Sound
  <2>3. tpOp' = [tpOp EXCEPT ![c] = op] /\ (Took(tpOp[c], tpState) => Took(op, tpState))
    BY <1>1, <2>1, OperationFacts DEF OpGoes, Took, Operations
  <2> QED  BY <1>1, <2>2, <2>3, OperationStep DEF record
<1>2. CASE /\ tpOp[c].at = "remap" /\ tpOp[c].read.id \in tpMade
           /\ tpPorts' = [tpPorts EXCEPT ![tpOp[c].read.id] = @ \cup {tpOp[c].port}]
           /\ tpOp' = [tpOp EXCEPT ![c].at = "record", ![c].why = "mapped"]
           /\ UNCHANGED <<tpMade, record, tpOps>>
  <2>1. PICK op : op = [tpOp[c] EXCEPT !.at = "record", !.why = "mapped"]
    OBVIOUS
  <2>2. op \in Operations /\ op.port \in Ports /\ op.read # NoState /\ op.new = NoTunnel
    BY <1>2, <2>1, OperationFacts DEF Operations, Steps, Causes, Sound
  <2>3. tpPorts' \in [TunnelIds -> SUBSET Ports] /\ \A t \in TunnelIds : tpPorts[t] \subseteq tpPorts'[t]
    BY <1>2, <2>1, <2>2, OperationFacts DEF Operations
  <2>4. Sound(op, tpPorts')
    BY <1>2, <2>1, <2>2, OperationFacts DEF Operations, Sound, Target
  <2>5. tpOp' = [tpOp EXCEPT ![c] = op] /\ (Took(tpOp[c], tpState) => Took(op, tpState))
    BY <1>2, <2>1, OperationFacts DEF Took, Operations
  <2> QED  BY <1>2, <2>2, <2>3, <2>4, <2>5, OperationStep DEF record
<1>3. CASE Record(c)
  <2>1. tpState' \in Records /\ tpWhy' \in Causes
    BY <1>3, OperationFacts DEF Record, Operations, Sound, Records
  <2>2. tpWhy' # "mapped" \/ Mapped'
    BY <1>3, OperationFacts DEF Record, Sound, Target, Mapped, service
  <2> QED  BY <1>3, <2>1, <2>2, RestFacts, OperationStep DEF Record, service, OpEnds
<1>4. CASE RemoveFile(c)
  BY <1>4, RestFacts, OperationStep DEF RemoveFile, service, OpEnds, Causes
<1>5. CASE Interrupted(c)
  BY <1>5, RestFacts, OperationStep DEF Interrupted, service, record, OpEnds, Causes
<1> QED  BY <1>1, <1>2, <1>3, <1>4, <1>5 DEF Remap

LEMMA TunnelAdopted ==
    ASSUME TunnelIInv, UseManualTunnel
    PROVE  TunnelIInv'
<1>1. tpState' \in Records /\ tpWhy' = "given" /\ UNCHANGED <<service, tpOp>> /\ tpOps' \in 0 .. MaxOps
  BY TunnelAssumption DEF UseManualTunnel, Records, Count, TunnelIInv, TunnelInv, TunnelTypeOK
<1> QED  BY <1>1 DEF service, Causes, RecordedMapped, TunnelIInv, TunnelInv, TunnelTypeOK

\* In whatever order operations overlap, fail and die: a mapping that was made and then
\* recorded is there, or is being taken away by an operation that replaces the record,
\* for any tunnels, ports, callers and number of operations.
THEOREM TunnelCorrect == TunnelSpec => []TunnelInv
<1>1. TunnelIInv /\ [TunnelNext]_tunnelVars => TunnelIInv'
  <2> SUFFICES ASSUME TunnelIInv, [TunnelNext]_tunnelVars PROVE TunnelIInv'
    OBVIOUS
  <2>1. ASSUME NEW c \in Callers, Creates(c) \/ Reconciles(c) \/ Deletes(c) \/ Interrupted(c)
        PROVE  TunnelIInv'
    BY <2>1, TunnelStarts, TunnelCreates, TunnelUnmaps, TunnelRemaps DEF Creates, Reconciles, Deletes
  <2>2. CASE UNCHANGED tunnelVars
    BY <2>2 DEF tunnelVars, TunnelIInv, TunnelInv, TunnelTypeOK, RecordedMapped, Mapped
  <2> QED  BY <2>1, <2>2, TunnelAdopted DEF TunnelNext
<1> QED  BY <1>1, TunnelInitial, PTL DEF TunnelSpec, TunnelIInv

----------------------------------------------------------------------------
(* The uplink supervisor *)

\* A task belongs to a target that is active, or is still being cancelled; a poll
\* starts with no cancelled task left; a "connected" beacon names a target.
TasksOwned ==
    /\ \A t \in Targets : t \notin upActive \cup upCancelled => upTask[t] = "none"
    /\ upSup # "asleep" => upCancelled = {}
    /\ upStatus.mine /\ upStatus.state = "connected" => upStatus.target \in Targets

UplinkIInv == UplinkInv /\ TasksOwned

LEMMA ComputeTargetsType ==
    ASSUME NEW c \in Configs, NEW l \in SUBSET Tunnels
    PROVE  ComputeTargets(c, l) \subseteq Targets
BY UplinkAssumption DEF ComputeTargets, Configs, Targets

\* What a task writes to the beacon.
LEMMA StatusFacts ==
    ASSUME NEW t \in Targets \cup {NoTarget},
           NEW s \in {"connecting", "connected", "reconnecting", "disconnected"}
    PROVE  /\ Status(s, t) \in [state : {"connecting", "connected", "reconnecting", "disconnected"},
                                target : Targets \cup {NoTarget}, mine : BOOLEAN]
           /\ Status(s, t).state = s /\ Status(s, t).target = t /\ Status(s, t).mine
           /\ s # "disconnected" => Status(s, t) # Disconnected
           /\ Disconnected.state = "disconnected"
           /\ Disconnected \in [state : {"connecting", "connected", "reconnecting", "disconnected"},
                                target : Targets \cup {NoTarget}, mine : BOOLEAN]
BY DEF Status, Disconnected

LEMMA UplinkInitial == UplinkInit => UplinkIInv
<1> SUFFICES ASSUME UplinkInit PROVE UplinkIInv
  OBVIOUS
<1>1. UplinkTypeOK
  <2>1. upConfig \in Configs
    BY UplinkAssumption DEF UplinkInit, Configs
  <2>2. upStatus \in [state : {"connecting", "connected", "reconnecting", "disconnected"},
                      target : Targets \cup {NoTarget}, mine : BOOLEAN]
    BY DEF UplinkInit, Disconnected, Status
  <2> QED  BY <2>1, <2>2, UplinkAssumption DEF UplinkInit, UplinkTypeOK
<1>2. ChildrenAccounted /\ ConnectedTrue /\ DisconnectedTrue /\ TasksOwned
  BY DEF UplinkInit, ChildrenAccounted, ConnectedTrue, DisconnectedTrue, TasksOwned,
         Disconnected, Status, Targets
<1> QED  BY <1>1, <1>2 DEF UplinkIInv, UplinkInv

\* Every part but the supervisor's own is left alone.
LEMMA SupervisorPolls ==
    ASSUME UplinkIInv, StartUplink \/ PollTargets
    PROVE  UplinkIInv'
BY DEF StartUplink, PollTargets, upWorld, UplinkIInv, UplinkInv, UplinkTypeOK, ChildrenAccounted,
       ConnectedTrue, DisconnectedTrue, TasksOwned

\* The end of the process: what its children were is abandoned, its beacon is dead.
LEMMA UplinkVanishes ==
    ASSUME UplinkIInv, NEW s \in [state : {"connecting", "connected", "reconnecting", "disconnected"},
                                  target : Targets \cup {NoTarget}, mine : BOOLEAN],
           Vanish(s), UNCHANGED <<upRead, upChildren>>,
           upConfig' \in Configs, upListed' \subseteq Tunnels, upChanges' \in 0 .. MaxChanges
    PROVE  UplinkIInv'
<1> USE DEF UplinkIInv, UplinkInv
<1>1. UplinkTypeOK'
  BY DEF Vanish, UplinkTypeOK
<1>2. ~upStatus'.mine
  BY DEF Vanish
<1>3. ChildrenAccounted'
  <2> SUFFICES ASSUME NEW t \in Tunnels
               PROVE  upChildren'[t] = upAbandoned'[t] + (IF upTask'[t] \in {"wait", "linked"} THEN 1 ELSE 0)
    BY DEF ChildrenAccounted
  <2>1. upTask'[t] = "none" /\ upAbandoned'[t] = upChildren'[t] /\ upChildren'[t] \in Nat
    BY DEF Vanish, Targets, UplinkTypeOK
  <2> QED  BY <2>1
<1>4. ConnectedTrue' /\ DisconnectedTrue' /\ TasksOwned'
  BY <1>2 DEF Vanish, ConnectedTrue, DisconnectedTrue, TasksOwned, Disconnected, Status
<1> QED  BY <1>1, <1>3, <1>4

LEMMA UplinkStops ==
    ASSUME UplinkIInv, StopUplink \/ CrashUplink
    PROVE  UplinkIInv'
<1> USE DEF UplinkIInv, UplinkInv
<1>1. CASE StopUplink
  BY <1>1, UplinkVanishes, StatusFacts DEF StopUplink, upWorld, UplinkTypeOK
<1>2. CASE CrashUplink
  <2>1. upChanges' \in 0 .. MaxChanges
    BY <1>2, UplinkAssumption DEF CrashUplink, Change, UplinkTypeOK
  <2> QED  BY <1>2, <2>1, UplinkVanishes DEF CrashUplink, UplinkTypeOK
<1> QED  BY <1>1, <1>2

\* A poll: no cancelled task is left from the one before, so that a target which is
\* new has no task.
LEMMA TargetsReconciled ==
    ASSUME UplinkIInv, ReconcileTargets
    PROVE  UplinkIInv'
<1> USE DEF UplinkIInv, UplinkInv
<1> DEFINE desired == ComputeTargets(upRead, upListed)
           stale == upActive \ desired
<1>1. desired \subseteq Targets
  BY ComputeTargetsType DEF UplinkTypeOK
<1>2. /\ upSup = "gathering" /\ upSup' = "asleep" /\ upCancelled = {}
      /\ upActive' = desired
      /\ upCancelled' = {t \in stale : upTask[t] # "ended"}
      /\ upTask' = [t \in Targets |->
             IF t \in desired \ upActive THEN "port"
             ELSE IF t \in stale /\ upTask[t] = "ended" THEN "none" ELSE upTask[t]]
      /\ upStatus' = IF desired = {} THEN Disconnected ELSE upStatus
      /\ UNCHANGED <<upConfig, upListed, upChanges, upRead, upChildren, upAbandoned, upRejected, upGhosts>>
  BY DEF ReconcileTargets, TasksOwned, upWorld
<1> HIDE DEF desired
<1>3. \A t \in Targets : t \in desired \ upActive => upTask[t] = "none"
  BY <1>2 DEF TasksOwned
<1>4. UplinkTypeOK'
  BY <1>1, <1>2, StatusFacts DEF UplinkTypeOK
<1>5. ChildrenAccounted'
  BY <1>2, <1>3 DEF ChildrenAccounted, Targets
<1>6. ConnectedTrue'
  BY <1>2, <1>3, StatusFacts DEF ConnectedTrue, TasksOwned
<1>7. DisconnectedTrue'
  BY <1>1, <1>2, <1>3 DEF DisconnectedTrue
<1>8. TasksOwned'
  BY <1>2, <1>3, StatusFacts DEF TasksOwned
<1> QED  BY <1>4, <1>5, <1>6, <1>7, <1>8

\* The child of a task that has one can be killed: it is counted.
LEMMA KillConnectFacts ==
    ASSUME UplinkIInv, NEW t \in Targets, upTask[t] \in {"wait", "linked"}
    PROVE  /\ KillConnect(t) \in [Targets -> Nat]
           /\ t \in Tunnels => KillConnect(t)[t] = upAbandoned[t]
           /\ \A s \in Targets : s # t => KillConnect(t)[s] = upChildren[s]
<1>1. t \in Tunnels => upChildren[t] = upAbandoned[t] + 1
  BY DEF UplinkIInv, UplinkInv, ChildrenAccounted
<1>2. upChildren \in [Targets -> Nat] /\ upAbandoned \in [Targets -> Nat]
  BY DEF UplinkIInv, UplinkInv, UplinkTypeOK
<1> QED  BY <1>1, <1>2 DEF KillConnect

\* The stages of a task before its bridge.
LEMMA TaskTries ==
    ASSUME UplinkIInv, NEW t \in Targets, NoPort(t) \/ Connecting(t) \/ Retry(t) \/ AuthRejected(t)
    PROVE  UplinkIInv'
<1> USE DEF UplinkIInv, UplinkInv, Runs, upWorld, upSupervisor
<1>1. CASE NoPort(t)
  <2>1. UplinkTypeOK' /\ TasksOwned'
    BY <1>1, StatusFacts DEF NoPort, UplinkTypeOK, TasksOwned
  <2>2. ChildrenAccounted'
    BY <1>1 DEF NoPort, ChildrenAccounted, UplinkTypeOK, Targets
  <2>3. ConnectedTrue' /\ DisconnectedTrue'
    BY <1>1, StatusFacts DEF NoPort, ConnectedTrue, DisconnectedTrue
  <2> QED  BY <2>1, <2>2, <2>3
<1>2. CASE Connecting(t)
  <2>1. upChildren' \in [Targets -> Nat]
    BY <1>2 DEF Connecting, UplinkTypeOK
  <2>2. UplinkTypeOK' /\ TasksOwned'
    BY <1>2, <2>1, StatusFacts DEF Connecting, UplinkTypeOK, TasksOwned
  <2>3. ChildrenAccounted'
    <3> SUFFICES ASSUME NEW s \in Tunnels
                 PROVE  upChildren'[s] = upAbandoned'[s] + (IF upTask'[s] \in {"wait", "linked"} THEN 1 ELSE 0)
      BY DEF ChildrenAccounted
    <3>1. s \in Targets /\ upAbandoned[s] \in Nat /\ upAbandoned' = upAbandoned
      BY <1>2 DEF Connecting, UplinkTypeOK, Targets
    <3>2. upChildren[s] = upAbandoned[s] + (IF upTask[s] \in {"wait", "linked"} THEN 1 ELSE 0)
      BY DEF ChildrenAccounted
    <3>3. CASE s = t
      BY <1>2, <3>1, <3>2, <3>3 DEF Connecting, UplinkTypeOK
    <3>4. CASE s # t
      BY <1>2, <3>1, <3>2, <3>4 DEF Connecting, UplinkTypeOK
    <3> QED  BY <3>3, <3>4
  <2>4. ConnectedTrue' /\ DisconnectedTrue'
    BY <1>2, StatusFacts DEF Connecting, ConnectedTrue, DisconnectedTrue
  <2> QED  BY <2>2, <2>3, <2>4
<1>3. CASE Retry(t)
  <2>1. UplinkTypeOK' /\ TasksOwned'
    BY <1>3 DEF Retry, UplinkTypeOK, TasksOwned
  <2>2. ChildrenAccounted'
    BY <1>3 DEF Retry, ChildrenAccounted, UplinkTypeOK, Targets
  <2>3. ConnectedTrue' /\ DisconnectedTrue'
    BY <1>3 DEF Retry, ConnectedTrue, DisconnectedTrue, UplinkTypeOK, TasksOwned
  <2> QED  BY <2>1, <2>2, <2>3
<1>4. CASE AuthRejected(t)
  <2>1. UplinkTypeOK' /\ TasksOwned'
    BY <1>4 DEF AuthRejected, UplinkTypeOK, TasksOwned
  <2>2. ChildrenAccounted' /\ ConnectedTrue' /\ DisconnectedTrue'
    BY <1>4 DEF AuthRejected, ChildrenAccounted, ConnectedTrue, DisconnectedTrue
  <2> QED  BY <2>1, <2>2
<1> QED  BY <1>1, <1>2, <1>3, <1>4

\* The bridge comes up, and its heartbeat writes the beacon.
LEMMA BridgeRuns ==
    ASSUME UplinkIInv, NEW t \in Targets, BridgeUp(t) \/ Heartbeat(t)
    PROVE  UplinkIInv'
<1> USE DEF UplinkIInv, UplinkInv, Runs, upWorld, upSupervisor
<1>1. CASE BridgeUp(t)
  <2>1. UplinkTypeOK' /\ TasksOwned'
    BY <1>1, StatusFacts DEF BridgeUp, UplinkTypeOK, TasksOwned
  <2>2. ChildrenAccounted'
    BY <1>1 DEF BridgeUp, ChildrenAccounted, UplinkTypeOK, Targets
  <2>3. ConnectedTrue' /\ DisconnectedTrue'
    BY <1>1, StatusFacts DEF BridgeUp, ConnectedTrue, DisconnectedTrue, UplinkTypeOK
  <2> QED  BY <2>1, <2>2, <2>3
<1>2. CASE Heartbeat(t)
  <2>1. UplinkTypeOK' /\ TasksOwned'
    BY <1>2, StatusFacts DEF Heartbeat, UplinkTypeOK, TasksOwned
  <2>2. ChildrenAccounted' /\ ConnectedTrue' /\ DisconnectedTrue'
    BY <1>2, StatusFacts DEF Heartbeat, ChildrenAccounted, ConnectedTrue, DisconnectedTrue
  <2> QED  BY <2>1, <2>2
<1> QED  BY <1>1, <1>2

\* The child is killed as its task leaves "wait" or "linked", and the count holds.
LEMMA ChildKilled ==
    ASSUME UplinkIInv, NEW t \in Targets, upTask[t] \in {"wait", "linked"},
           NEW stage \in {"none", "backoff", "ended"},
           upTask' = [upTask EXCEPT ![t] = stage],
           upChildren' = KillConnect(t), UNCHANGED upAbandoned
    PROVE  ChildrenAccounted' /\ upChildren' \in [Targets -> Nat]
<1> SUFFICES ASSUME NEW s \in Tunnels
             PROVE  upChildren'[s] = upAbandoned'[s] + (IF upTask'[s] \in {"wait", "linked"} THEN 1 ELSE 0)
  BY KillConnectFacts DEF ChildrenAccounted
<1>1. s \in Targets /\ upAbandoned[s] \in Nat /\ upTask \in [Targets -> {"none", "port", "wait", "linked", "backoff", "ended"}]
  BY DEF Targets, UplinkIInv, UplinkInv, UplinkTypeOK
<1>2. upChildren[s] = upAbandoned[s] + (IF upTask[s] \in {"wait", "linked"} THEN 1 ELSE 0)
  BY DEF UplinkIInv, UplinkInv, ChildrenAccounted
<1>3. CASE s = t
  BY <1>1, <1>3, KillConnectFacts
<1>4. CASE s # t
  BY <1>1, <1>2, <1>4, KillConnectFacts
<1> QED  BY <1>3, <1>4

\* A bridge that ends, or never came up, says so; the verdict "disconnected" is
\* written for a rejected target alone.
LEMMA BridgeLost ==
    ASSUME UplinkIInv, NEW t \in Targets, Unreachable(t) \/ BridgeEnds(t)
    PROVE  UplinkIInv'
<1> USE DEF UplinkIInv, UplinkInv, Runs, upWorld, upSupervisor
<1> DEFINE stage == IF t \in upRejected THEN "ended" ELSE "backoff"
<1>1. /\ upTask[t] \in {"wait", "linked"} /\ t \notin upCancelled
      /\ upTask' = [upTask EXCEPT ![t] = stage] /\ upChildren' = KillConnect(t)
      /\ upStatus' = IF t \in upRejected THEN Disconnected ELSE Status("reconnecting", t)
      /\ UNCHANGED <<upConfig, upListed, upChanges, upSup, upRead, upActive, upCancelled,
                     upAbandoned, upRejected, upGhosts>>
  BY DEF Unreachable, BridgeEnds
<1>2. stage \in {"none", "backoff", "ended"}
  OBVIOUS
<1> HIDE DEF stage
<1>3. ChildrenAccounted' /\ upChildren' \in [Targets -> Nat]
  BY <1>1, <1>2, ChildKilled
<1>4. UplinkTypeOK' /\ TasksOwned'
  <2>1. /\ upStatus' \in [state : {"connecting", "connected", "reconnecting", "disconnected"},
                          target : Targets \cup {NoTarget}, mine : BOOLEAN]
        /\ upStatus'.state # "connected"
    BY <1>1, StatusFacts
  <2>2. upTask' \in [Targets -> {"none", "port", "wait", "linked", "backoff", "ended"}]
    BY <1>1, <1>2 DEF UplinkTypeOK
  <2>3. UplinkTypeOK'
    BY <1>1, <1>3, <2>1, <2>2 DEF UplinkTypeOK
  <2>4. TasksOwned'
    BY <1>1, <2>1 DEF UplinkTypeOK, TasksOwned
  <2> QED  BY <2>3, <2>4
<1>5. ConnectedTrue' /\ DisconnectedTrue'
  BY <1>1, StatusFacts DEF ConnectedTrue, DisconnectedTrue
<1> QED  BY <1>3, <1>4, <1>5

\* A cancelled task goes; a bridge it had leaves its heartbeat behind.
LEMMA TaskCancelled ==
    ASSUME UplinkIInv, NEW t \in Targets, Dropped(t) \/ Honoured(t)
    PROVE  UplinkIInv'
<1> USE DEF UplinkIInv, UplinkInv, upWorld, upSupervisor
<1>1. /\ t \in upCancelled /\ upTask' = [upTask EXCEPT ![t] = "none"]
      /\ upCancelled' = upCancelled \ {t} /\ upGhosts' = LeftBehind(t)
      /\ UNCHANGED <<upConfig, upListed, upChanges, upSup, upRead, upActive, upRejected>>
  BY DEF Dropped, Honoured
<1>2. /\ upGhosts' \subseteq Targets /\ upGhosts \subseteq upGhosts'
      /\ upTask[t] = "linked" => t \in upGhosts'
  BY <1>1 DEF LeftBehind, UplinkTypeOK
<1>3. TasksOwned' \/ ~(upStatus'.mine /\ upStatus'.state = "connected" => upStatus'.target \in Targets)
  BY <1>1 DEF TasksOwned, UplinkTypeOK
<1>4. CASE Dropped(t)
  <2>1. UplinkTypeOK'
    BY <1>1, <1>2, <1>4 DEF Dropped, UplinkTypeOK
  <2>2. ChildrenAccounted'
    <3> SUFFICES ASSUME NEW s \in Tunnels
                 PROVE  upChildren'[s] = upAbandoned'[s] + (IF upTask'[s] \in {"wait", "linked"} THEN 1 ELSE 0)
      BY DEF ChildrenAccounted
    <3>1. s \in Targets /\ upChildren[s] \in Nat
      BY DEF UplinkTypeOK, Targets
    <3>2. upChildren[s] = upAbandoned[s] + (IF upTask[s] \in {"wait", "linked"} THEN 1 ELSE 0)
      BY DEF ChildrenAccounted
    <3>3. CASE s = t
      BY <1>1, <1>4, <3>1, <3>3 DEF Dropped, UplinkTypeOK
    <3>4. CASE s # t
      BY <1>1, <1>4, <3>1, <3>2, <3>4 DEF Dropped, UplinkTypeOK
    <3> QED  BY <3>3, <3>4
  <2>3. ConnectedTrue' /\ DisconnectedTrue' /\ TasksOwned'
    BY <1>1, <1>2, <1>3, <1>4 DEF Dropped, ConnectedTrue, DisconnectedTrue, TasksOwned, UplinkTypeOK
  <2> QED  BY <2>1, <2>2, <2>3
<1>5. CASE Honoured(t)
  <2>1. ChildrenAccounted' /\ upChildren' \in [Targets -> Nat]
    BY <1>5, ChildKilled DEF Honoured
  <2>2. UplinkTypeOK'
    <3>1. upStatus' \in [state : {"connecting", "connected", "reconnecting", "disconnected"},
                         target : Targets \cup {NoTarget}, mine : BOOLEAN]
      BY <1>5, StatusFacts DEF Honoured, UplinkTypeOK
    <3>2. upTask' \in [Targets -> {"none", "port", "wait", "linked", "backoff", "ended"}]
      BY <1>1 DEF UplinkTypeOK
    <3> QED  BY <1>1, <1>2, <1>5, <2>1, <3>1, <3>2 DEF Honoured, UplinkTypeOK
  <2>3. ConnectedTrue' /\ DisconnectedTrue' /\ TasksOwned'
    BY <1>1, <1>2, <1>3, <1>5, StatusFacts
       DEF Honoured, ConnectedTrue, DisconnectedTrue, TasksOwned, UplinkTypeOK
  <2> QED  BY <2>1, <2>2, <2>3
<1> QED  BY <1>4, <1>5

\* The configuration and the account's tunnels change under the supervisor.
LEMMA WorldChanges ==
    ASSUME UplinkIInv, SetConfig \/ HostTunnels
    PROVE  UplinkIInv'
<1> USE DEF UplinkIInv, UplinkInv, upSupervisor
<1>1. upChanges' \in 0 .. MaxChanges
  <2>1. Change /\ upChanges \in 0 .. MaxChanges
    BY DEF SetConfig, HostTunnels, UplinkTypeOK
  <2> QED  BY <2>1, UplinkAssumption DEF Change
<1>2. UplinkTypeOK'
  <2>1. CASE SetConfig
    <3>1. upConfig' \in Configs
      BY <2>1 DEF SetConfig, UplinkTypeOK, Configs
    <3>2. UNCHANGED <<upListed, upSupervisor, upTask, upCancelled, upChildren, upAbandoned, upRejected,
                      upGhosts, upStatus>>
      BY <2>1 DEF SetConfig
    <3> QED  BY <1>1, <3>1, <3>2 DEF UplinkTypeOK
  <2>2. CASE HostTunnels
    <3>1. upListed' \subseteq Tunnels
      BY <2>2 DEF HostTunnels
    <3>2. UNCHANGED <<upConfig, upSupervisor, upTask, upCancelled, upChildren, upAbandoned, upRejected,
                      upGhosts, upStatus>>
      BY <2>2 DEF HostTunnels
    <3> QED  BY <1>1, <3>1, <3>2 DEF UplinkTypeOK
  <2> QED  BY <2>1, <2>2
<1>3. ChildrenAccounted' /\ ConnectedTrue' /\ DisconnectedTrue' /\ TasksOwned'
  BY DEF SetConfig, HostTunnels, ChildrenAccounted, ConnectedTrue, DisconnectedTrue, TasksOwned
<1> QED  BY <1>2, <1>3

\* What the uplink (uplink.rs) has running and what uplink-status.json says agree,
\* in whatever order its tasks, their heartbeats and the supervisor take their steps.
THEOREM UplinkCorrect == UplinkSpec => []UplinkInv
<1>1. UplinkIInv /\ [UplinkNext]_uplinkVars => UplinkIInv'
  <2> SUFFICES ASSUME UplinkIInv, [UplinkNext]_uplinkVars PROVE UplinkIInv'
    OBVIOUS
  <2>1. CASE StartUplink \/ PollTargets \/ StopUplink \/ ReconcileTargets
             \/ SetConfig \/ HostTunnels \/ CrashUplink
    BY <2>1, SupervisorPolls, UplinkStops, TargetsReconciled, WorldChanges
  <2>2. ASSUME NEW t \in Targets, TaskStep(t) PROVE UplinkIInv'
    BY <2>2, TaskTries, BridgeRuns, BridgeLost, TaskCancelled DEF TaskStep
  <2>3. CASE UNCHANGED uplinkVars
    BY <2>3 DEF uplinkVars, UplinkIInv, UplinkInv, UplinkTypeOK, ChildrenAccounted, ConnectedTrue,
                DisconnectedTrue, TasksOwned
  <2> QED  BY <2>1, <2>2, <2>3 DEF UplinkNext
<1> QED  BY <1>1, UplinkInitial, PTL DEF UplinkSpec, UplinkIInv

----------------------------------------------------------------------------
(* The ingest daemon *)

CleanProcs == [stage : CleanStages, pid : Holders, dead : BOOLEAN, server : 0 .. MaxServers,
               spared : BOOLEAN, raced : SUBSET Daemons]

\* The lock is held by the one daemon that runs.
LockHeld == \A d \in Daemons : Alive(d) => dmLock = d

\* The pidfile names a daemon from its start to the end of its loop, a cleanup that
\* has read it goes after that daemon, and one that could not kill it spares its
\* files; all this but for a daemon that started behind the cleanup's back.
PidFound ==
    \A d \in Daemons :
        dmStage[d] \in {"locked", "bound", "watching", "serving"} /\ d \notin clean.raced =>
            /\ dmFiles.pid = d
            /\ clean.stage \in {"kill", "wait"} => clean.pid = d
            /\ clean.stage \in {"state", "pid"} => clean.pid = d /\ ~clean.dead

StateFound == \A d \in Daemons : dmStage[d] = "serving" /\ d \notin clean.raced => dmFiles.state = d

\* A request that a watcher can see was written while its daemon held the lock.
RequestFresh ==
    \A d \in Daemons :
        dmStage[d] \in {"watching", "serving"} => dmFiles.request \in {Absent, Malformed, d}

\* A daemon that removes its beacons has stopped its child.
HostStopped ==
    \A d \in Daemons :
        dmStage[d] \in {"state", "pid", "request", "server", "release"} => d \notin dmHosts

DaemonIInv ==
    /\ DaemonTypeOK
    /\ clean \in CleanProcs
    /\ clean.stage \in {"kill", "wait"} => clean.pid \in Daemons
    /\ LockHeld
    /\ PidFound
    /\ StateFound
    /\ RequestFresh
    /\ NoReplay
    /\ HostStopped
    /\ HostsOwned

LEMMA DaemonInitial == DaemonInit => DaemonIInv
<1> SUFFICES ASSUME DaemonInit PROVE DaemonIInv
  OBVIOUS
<1>1. DaemonTypeOK
  <2>1. 0 \in 0 .. MaxServers /\ 0 \in 0 .. MaxRequests
    BY DaemonAssumption
  <2>2. dmFiles \in [pid : Holders, state : Holders, request : Holders \cup {Absent, Malformed},
                     server : 0 .. MaxServers]
    BY <2>1 DEF DaemonInit, Holders
  <2> QED  BY <2>1, <2>2 DEF DaemonInit, DaemonTypeOK, Holders, CleanStages
<1>2. clean \in CleanProcs /\ clean.stage \notin {"kill", "wait"}
  BY DaemonAssumption DEF DaemonInit, CleanProcs, Holders, CleanStages
<1>3. LockHeld /\ PidFound /\ StateFound /\ RequestFresh /\ NoReplay /\ HostStopped /\ HostsOwned
  BY DEF DaemonInit, LockHeld, PidFound, StateFound, RequestFresh, NoReplay, HostStopped,
         HostsOwned, Alive
<1> QED  BY <1>1, <1>2, <1>3 DEF DaemonIInv

\* Two daemons never run at a time.
LEMMA OneDaemon ==
    ASSUME DaemonIInv, NEW d \in Daemons, NEW e \in Daemons, Alive(d), Alive(e)
    PROVE  d = e
BY DEF DaemonIInv, LockHeld

LEMMA Acquired ==
    ASSUME DaemonIInv, NEW d \in Daemons, AcquireSingleton(d)
    PROVE  DaemonIInv'
<1> USE DaemonAssumption DEF DaemonIInv, dmPeer
<1>1. CASE dmLock = Nobody
  <2>1. /\ dmStage[d] = "new" /\ dmStage' = [dmStage EXCEPT ![d] = "locked"] /\ dmLock' = d
        /\ dmFiles' = [dmFiles EXCEPT !.pid = d]
        /\ clean' = [clean EXCEPT !.raced =
                       IF clean.stage \in {"idle", "server", "read"} THEN @ ELSE @ \cup {d}]
        /\ UNCHANGED <<dmStop, dmDemote, dmHosts, dmLost, dmUplink, dmWanted, dmRequests, dmServer, dmServers>>
    BY <1>1 DEF AcquireSingleton, Goes
  <2>2. \A e \in Daemons : ~Alive(e)
    BY <1>1 DEF LockHeld
  <2>3. DaemonTypeOK' /\ clean' \in CleanProcs /\ (clean'.stage \in {"kill", "wait"} => clean'.pid \in Daemons)
    <3>1. clean' \in CleanProcs /\ clean'.stage = clean.stage /\ clean'.pid = clean.pid
      BY <2>1 DEF CleanProcs
    <3>2. dmFiles' \in [pid : Holders, state : Holders, request : Holders \cup {Absent, Malformed},
                        server : 0 .. MaxServers]
      BY <2>1 DEF DaemonTypeOK, Holders
    <3> QED  BY <2>1, <3>1, <3>2 DEF DaemonTypeOK, CleanProcs, Holders
  <2>4. LockHeld'
    BY <2>1, <2>2 DEF LockHeld, Alive, DaemonTypeOK
  <2>5. PidFound' /\ StateFound' /\ RequestFresh'
    BY <2>1, <2>2 DEF PidFound, StateFound, RequestFresh, Alive, DaemonTypeOK, CleanProcs, CleanStages
  <2>6. NoReplay' /\ HostStopped' /\ HostsOwned'
    BY <2>1 DEF NoReplay, HostStopped, HostsOwned, Alive, DaemonTypeOK
  <2> QED  BY <2>3, <2>4, <2>5, <2>6
<1>2. CASE dmLock # Nobody
  <2>1. /\ dmStage[d] = "new" /\ dmStage' = [dmStage EXCEPT ![d] = "gone"]
        /\ UNCHANGED <<dmLock, dmFiles, clean, dmStop, dmDemote, dmHosts, dmLost, dmUplink,
                       dmWanted, dmRequests, dmServer, dmServers>>
    BY <1>2 DEF AcquireSingleton, Goes
  <2>2. DaemonTypeOK'
    BY <2>1 DEF DaemonTypeOK
  <2>3. LockHeld' /\ PidFound' /\ StateFound' /\ RequestFresh' /\ NoReplay' /\ HostStopped' /\ HostsOwned'
    BY <2>1 DEF LockHeld, PidFound, StateFound, RequestFresh, NoReplay, HostStopped, HostsOwned, Alive,
                DaemonTypeOK
  <2> QED  BY <2>1, <2>2, <2>3
<1> QED  BY <1>1, <1>2

\* The steps of a daemon that serves, or is about to.
LEMMA DaemonServes ==
    ASSUME DaemonIInv, NEW d \in Daemons,
           Bind(d) \/ WatchRequests(d) \/ Publish(d) \/ ReconcileHost(d) \/ LeaveLoop(d)
    PROVE  DaemonIInv'
<1> USE DaemonAssumption DEF DaemonIInv, dmPeer, Goes
<1>0. clean' = clean
  BY DEF Bind, WatchRequests, Publish, ReconcileHost, LeaveLoop
<1>1. CASE Bind(d)
  <2>1. DaemonTypeOK'
    BY <1>1 DEF Bind, DaemonTypeOK
  <2>2. LockHeld' /\ PidFound' /\ StateFound' /\ RequestFresh' /\ NoReplay' /\ HostStopped' /\ HostsOwned'
    BY <1>1 DEF Bind, LockHeld, PidFound, StateFound, RequestFresh, NoReplay, HostStopped, HostsOwned,
                Alive, DaemonTypeOK
  <2> QED  BY <1>0, <2>1, <2>2
<1>2. CASE WatchRequests(d)
  <2>1. DaemonTypeOK'
    BY <1>2 DEF WatchRequests, DaemonTypeOK
  <2>2. LockHeld' /\ PidFound' /\ StateFound' /\ RequestFresh' /\ NoReplay' /\ HostStopped' /\ HostsOwned'
    BY <1>2 DEF WatchRequests, LockHeld, PidFound, StateFound, RequestFresh, NoReplay, HostStopped,
                HostsOwned, Alive, DaemonTypeOK
  <2> QED  BY <1>0, <2>1, <2>2
<1>3. CASE Publish(d)
  <2>1. DaemonTypeOK'
    BY <1>3 DEF Publish, WriteIngestState, DaemonTypeOK, Holders
  <2>2. \A e \in Daemons : e # d => ~Alive(e)
    BY <1>3, OneDaemon DEF Publish, Alive
  <2>3. LockHeld' /\ PidFound' /\ RequestFresh' /\ NoReplay' /\ HostStopped' /\ HostsOwned'
    BY <1>3 DEF Publish, WriteIngestState, LockHeld, PidFound, RequestFresh, NoReplay, HostStopped,
                HostsOwned, Alive, DaemonTypeOK
  <2>4. StateFound'
    BY <1>3, <2>2 DEF Publish, WriteIngestState, StateFound, Alive, DaemonTypeOK
  <2> QED  BY <1>0, <2>1, <2>3, <2>4
<1>4. CASE ReconcileHost(d)
  <2>1. DaemonTypeOK'
    BY <1>4 DEF ReconcileHost, DaemonTypeOK
  <2>2. LockHeld' /\ PidFound' /\ StateFound' /\ RequestFresh' /\ NoReplay' /\ HostStopped' /\ HostsOwned'
    BY <1>4 DEF ReconcileHost, LockHeld, PidFound, StateFound, RequestFresh, NoReplay, HostStopped,
                HostsOwned, Alive, DaemonTypeOK
  <2> QED  BY <1>0, <2>1, <2>2
<1>5. CASE LeaveLoop(d)
  <2>1. DaemonTypeOK'
    BY <1>5 DEF LeaveLoop, SignalStops, Demote, DaemonTypeOK
  <2>2. LockHeld' /\ PidFound' /\ StateFound' /\ RequestFresh' /\ NoReplay' /\ HostStopped' /\ HostsOwned'
    BY <1>5 DEF LeaveLoop, LockHeld, PidFound, StateFound, RequestFresh, NoReplay, HostStopped,
                HostsOwned, Alive, DaemonTypeOK
  <2> QED  BY <1>0, <2>1, <2>2
<1> QED  BY <1>1, <1>2, <1>3, <1>4, <1>5

\* A request is consumed by the daemon it was written for.
LEMMA RequestConsumed ==
    ASSUME DaemonIInv, NEW d \in Daemons, WatchTick(d)
    PROVE  DaemonIInv'
<1> USE DEF DaemonIInv, dmPeer
<1>1. dmFiles.request \in {Malformed, d}
  BY DEF WatchTick, RequestFresh
<1>2. DaemonTypeOK'
  BY <1>1 DEF WatchTick, DaemonTypeOK, Holders
<1>3. LockHeld' /\ PidFound' /\ StateFound' /\ RequestFresh' /\ HostStopped' /\ HostsOwned'
  BY DEF WatchTick, LockHeld, PidFound, StateFound, RequestFresh, HostStopped, HostsOwned, Alive, DaemonTypeOK
<1>4. NoReplay'
  BY <1>1 DEF WatchTick, NoReplay, DaemonTypeOK
<1> QED  BY <1>2, <1>3, <1>4 DEF WatchTick

\* The end of a process that ran: no other one ran beside it.
LEMMA DaemonGone ==
    ASSUME DaemonIInv, NEW d \in Daemons, Alive(d), Goes(d, "gone"), dmLock' \in {dmLock, Nobody},
           UNCHANGED <<dmStop, dmDemote, dmHosts, dmUplink, dmWanted, dmRequests, dmServer, dmServers>>,
           dmFiles' \in [pid : Holders, state : Holders, request : Holders \cup {Absent, Malformed},
                         server : 0 .. MaxServers],
           dmLost' = dmLost \/ dmLost' = dmLost \cup {d},
           d \in dmHosts => d \in dmLost',
           clean' \in CleanProcs, clean'.stage \notin {"kill", "wait"} \/ clean' = clean
    PROVE  DaemonIInv'
<1> USE DEF DaemonIInv
<1>1. \A e \in Daemons : e # d => ~Alive(e)
  BY OneDaemon
<1>2. dmStage' \in [Daemons -> {"new", "locked", "bound", "watching", "serving",
                                "state", "pid", "request", "server", "release", "gone"}]
      /\ \A e \in Daemons : dmStage'[e] \in {"new", "gone"}
  BY <1>1 DEF Goes, Alive, DaemonTypeOK
<1>3. DaemonTypeOK'
  BY <1>2 DEF DaemonTypeOK, Holders, CleanProcs
<1>4. LockHeld' /\ PidFound' /\ StateFound' /\ RequestFresh' /\ HostStopped'
  BY <1>2 DEF LockHeld, PidFound, StateFound, RequestFresh, HostStopped, Alive
<1>5. NoReplay' /\ HostsOwned'
  BY <1>2, <1>1 DEF NoReplay, HostsOwned, Alive, Goes, DaemonTypeOK
<1> QED  BY <1>3, <1>4, <1>5

LEMMA DaemonEnds ==
    ASSUME DaemonIInv, NEW d \in Daemons, StartFails(d) \/ Release(d) \/ CrashDaemon(d)
    PROVE  DaemonIInv'
<1> USE DEF DaemonIInv, dmPeer
<1>1. CASE StartFails(d) \/ Release(d)
  <2>1. Alive(d) /\ DropGuard(d) /\ clean' = clean
    BY <1>1 DEF StartFails, Release, Alive
  <2>2. dmFiles' \in [pid : Holders, state : Holders, request : Holders \cup {Absent, Malformed},
                      server : 0 .. MaxServers]
    BY <2>1 DEF DropGuard, DaemonTypeOK, Holders
  <2>3. /\ dmLost' = dmLost \/ dmLost' = dmLost \cup {d}
        /\ d \in dmHosts => d \in dmLost'
    BY <1>1 DEF StartFails, Release, HostStopped
  <2>4. UNCHANGED <<dmStop, dmDemote, dmHosts, dmUplink, dmWanted, dmRequests, dmServer, dmServers>>
    BY <1>1 DEF StartFails, Release
  <2> QED  BY <2>1, <2>2, <2>3, <2>4, DaemonGone DEF DropGuard
<1>2. CASE CrashDaemon(d)
  BY <1>2, DaemonGone DEF CrashDaemon, Dies, DaemonTypeOK
<1> QED  BY <1>1, <1>2

\* Erasing a file leaves one that names nobody.
LEMMA BeaconErased ==
    ASSUME DaemonIInv, NEW f \in {"state", "pid", "request", "server"}
    PROVE  LET files == [dmFiles EXCEPT ![f] = Erased(f)] IN
             /\ files \in [pid : Holders, state : Holders, request : Holders \cup {Absent, Malformed},
                           server : 0 .. MaxServers]
             /\ f # "pid" => files.pid = dmFiles.pid
             /\ f # "state" => files.state = dmFiles.state
             /\ files.request \in {dmFiles.request, Absent}
<1> USE DaemonAssumption DEF DaemonIInv, DaemonTypeOK, Holders, Erased
<1>1. CASE f = "state"    BY <1>1
<1>2. CASE f = "pid"      BY <1>2
<1>3. CASE f = "request"  BY <1>3
<1>4. CASE f = "server"   BY <1>4
<1> QED  BY <1>1, <1>2, <1>3, <1>4

\* remove_beacons runs under the lock: the files are no other daemon's.
LEMMA BeaconRemoved ==
    ASSUME DaemonIInv, NEW d \in Daemons, RemoveBeacon(d)
    PROVE  DaemonIInv'
<1> USE DEF DaemonIInv, dmPeer
<1> DEFINE next == AfterBeacon(dmStage[d])
<1>1. Alive(d) /\ \A e \in Daemons : e # d => ~Alive(e)
  BY OneDaemon DEF RemoveBeacon, Alive
<1>2. next \in {"pid", "request", "server", "release"}
  BY DEF RemoveBeacon, AfterBeacon
<1>3. dmFiles' \in [pid : Holders, state : Holders, request : Holders \cup {Absent, Malformed},
                    server : 0 .. MaxServers]
  BY BeaconErased DEF RemoveBeacon
<1>4. dmStage' = [dmStage EXCEPT ![d] = next] /\ clean' = clean
      /\ UNCHANGED <<dmLock, dmStop, dmDemote, dmHosts, dmLost, dmUplink, dmWanted, dmRequests,
                     dmServer, dmServers>>
  BY DEF RemoveBeacon, Goes
<1>5. d \notin dmHosts
  BY DEF RemoveBeacon, HostStopped
<1> HIDE DEF next
<1>6. DaemonTypeOK'
  BY <1>2, <1>3, <1>4 DEF DaemonTypeOK
<1>7. \A e \in Daemons : dmStage'[e] \notin {"locked", "bound", "watching", "serving"}
  BY <1>1, <1>2, <1>4 DEF Alive, DaemonTypeOK
<1>8. LockHeld' /\ NoReplay' /\ HostStopped' /\ HostsOwned'
  BY <1>1, <1>2, <1>4, <1>5 DEF LockHeld, NoReplay, HostStopped, HostsOwned, Alive, DaemonTypeOK
<1>9. PidFound' /\ StateFound' /\ RequestFresh'
  BY <1>7 DEF PidFound, StateFound, RequestFresh
<1> QED  BY <1>4, <1>6, <1>8, <1>9

\* The record of the cleanup as it goes on to another stage.
LEMMA CleanupAt ==
    ASSUME NEW c \in CleanProcs, NEW stage \in CleanStages, NEW server \in 0 .. MaxServers
    PROVE  LET a == [c EXCEPT !.stage = stage]
               b == [c EXCEPT !.stage = stage, !.server = server]
               s == [c EXCEPT !.stage = stage, !.spared = TRUE]
           IN {a, b, s} \subseteq CleanProcs /\ a.stage = stage /\ b.stage = stage /\ s.stage = stage
  BY DEF CleanProcs

\* `climon cleanup` up to the signal.
LEMMA CleanupReads ==
    ASSUME DaemonIInv, StartCleanup \/ StopServer \/ ReadPid \/ KillDaemon
    PROVE  DaemonIInv'
<1> USE DEF DaemonIInv, dmPeer
<1>0. /\ clean'.raced = clean.raced
      /\ UNCHANGED <<dmStage, dmLock, dmFiles, dmDemote, dmHosts, dmLost, dmUplink, dmWanted, dmRequests, dmServers>>
  BY DEF StartCleanup, StopServer, ReadPid, KillDaemon, CleanProcs
<1>1. LockHeld' /\ StateFound' /\ RequestFresh' /\ NoReplay' /\ HostStopped' /\ HostsOwned'
  BY <1>0 DEF LockHeld, StateFound, RequestFresh, NoReplay, HostStopped, HostsOwned, Alive
<1>2. CASE StartCleanup
  <2>1. clean' \in CleanProcs /\ clean'.stage = "server"
    <3>1. dmFiles.server \in 0 .. MaxServers /\ "server" \in CleanStages /\ clean \in CleanProcs
      BY DEF DaemonTypeOK, CleanStages
    <3>2. clean' = [clean EXCEPT !.stage = "server", !.server = dmFiles.server]
      BY <1>2 DEF StartCleanup
    <3> QED  BY ONLY <3>1, <3>2, CleanupAt
  <2>2. UNCHANGED <<dmStop, dmServer>>
    BY <1>2 DEF StartCleanup
  <2>3. DaemonTypeOK' /\ PidFound'
    BY <1>0, <2>1, <2>2 DEF DaemonTypeOK, PidFound, CleanProcs
  <2> QED  BY <1>1, <2>1, <2>3
<1>3. CASE StopServer
  <2>1. clean' \in CleanProcs /\ clean'.stage = "read"
    <3>1. 0 \in 0 .. MaxServers /\ "read" \in CleanStages /\ clean \in CleanProcs
      BY DaemonAssumption DEF CleanStages
    <3>2. \/ clean' = [clean EXCEPT !.stage = "read"]
          \/ clean' = [clean EXCEPT !.stage = "read", !.spared = TRUE]
      BY <1>3 DEF StopServer
    <3>3. /\ [clean EXCEPT !.stage = "read"] \in CleanProcs
          /\ [clean EXCEPT !.stage = "read", !.spared = TRUE] \in CleanProcs
          /\ [clean EXCEPT !.stage = "read"].stage = "read"
          /\ [clean EXCEPT !.stage = "read", !.spared = TRUE].stage = "read"
      BY ONLY <3>1, CleanupAt
    <3> QED  BY ONLY <3>2, <3>3
  <2>2. dmServer' \in {dmServer, 0} /\ dmStop' = dmStop
    BY <1>3 DEF StopServer
  <2>3. DaemonTypeOK' /\ PidFound'
    BY <1>0, <2>1, <2>2, DaemonAssumption DEF DaemonTypeOK, PidFound, CleanProcs
  <2> QED  BY <1>1, <2>1, <2>3
<1>4. CASE ReadPid
  <2>1. clean' \in CleanProcs /\ clean'.pid = dmFiles.pid
        /\ clean'.stage = IF dmFiles.pid # Nobody /\ Alive(dmFiles.pid) THEN "kill" ELSE "state"
    BY <1>4 DEF ReadPid, CleanProcs, CleanStages, DaemonTypeOK
  <2>2. DaemonTypeOK'
    <3>1. UNCHANGED <<dmStop, dmServer>>
      BY <1>4 DEF ReadPid
    <3> QED  BY <1>0, <2>1, <3>1 DEF DaemonTypeOK, CleanProcs
  <2>3. PidFound'
    BY <1>0, <2>1, DaemonAssumption DEF PidFound, Alive
  <2>4. clean'.stage \in {"kill", "wait"} => clean'.pid \in Daemons
    BY <2>1 DEF DaemonTypeOK, Holders
  <2> QED  BY <1>1, <2>1, <2>2, <2>3, <2>4
<1>5. CASE KillDaemon
  <2>1. /\ clean' \in CleanProcs /\ clean'.pid = clean.pid /\ clean.pid \in Daemons
        /\ clean.stage = "kill"
        /\ \/ clean'.stage = "wait"
           \/ clean'.stage = "state" /\ ~clean'.dead
    BY <1>5 DEF KillDaemon, CleanProcs, CleanStages
  <2>2. DaemonTypeOK'
    BY <1>0, <1>5, <2>1 DEF KillDaemon, DaemonTypeOK, CleanProcs
  <2>3. PidFound'
    BY <1>0, <2>1 DEF PidFound
  <2> QED  BY <1>1, <2>1, <2>2, <2>3
<1> QED  BY <1>2, <1>3, <1>4, <1>5

\* The daemon whose pid was read is dead: either it was the one that ran, or one
\* that has started since is raced.
LEMMA CleanupSeesDeath ==
    ASSUME DaemonIInv, SeeDeath \/ ForceKill
    PROVE  DaemonIInv'
<1> USE DEF DaemonIInv, dmPeer
<1>1. /\ clean.stage = "wait" /\ clean.pid \in Daemons /\ clean' \in CleanProcs /\ clean'.stage = "state"
      /\ clean'.pid = clean.pid /\ clean'.raced = clean.raced
  BY DEF SeeDeath, ForceKill, CleanProcs, CleanStages
<1>2. CASE SeeDeath
  <2>1. DaemonTypeOK'
    BY <1>1, <1>2 DEF SeeDeath, DaemonTypeOK, CleanProcs
  <2>2. LockHeld' /\ StateFound' /\ RequestFresh' /\ NoReplay' /\ HostStopped' /\ HostsOwned'
    BY <1>1, <1>2 DEF SeeDeath, LockHeld, StateFound, RequestFresh, NoReplay, HostStopped, HostsOwned, Alive
  <2>3. PidFound'
    BY <1>1, <1>2 DEF SeeDeath, PidFound, Alive
  <2> QED  BY <1>1, <2>1, <2>2, <2>3
<1>3. CASE ForceKill
  BY <1>1, <1>3, DaemonGone DEF ForceKill, Dies, DaemonTypeOK
<1> QED  BY <1>2, <1>3

\* The cleanup spares what belongs to a daemon it could not kill.
LEMMA CleanupRemoves ==
    ASSUME DaemonIInv, CleanBeacon
    PROVE  DaemonIInv'
<1> USE DEF DaemonIInv, dmPeer
<1> DEFINE spared == ~clean.dead /\ clean.pid # Nobody /\ clean.stage # "request"
           files == [dmFiles EXCEPT ![clean.stage] = IF spared THEN @ ELSE Erased(clean.stage)]
<1>1. /\ clean.stage \in {"state", "pid", "request"}
      /\ dmFiles' = [files EXCEPT !.server = IF clean.stage = "state" /\ ~clean.spared THEN 0 ELSE @]
      /\ UNCHANGED <<dmStage, dmLock, dmStop, dmDemote, dmHosts, dmLost, dmUplink, dmWanted, dmRequests,
                     dmServer, dmServers>>
  BY DEF CleanBeacon
<1>2. /\ clean' \in CleanProcs /\ clean'.pid = clean.pid /\ clean'.raced = clean.raced
      /\ clean'.dead = clean.dead
      /\ clean'.stage \in {"pid", "request", "done"}
      /\ clean'.stage = "pid" => clean.stage = "state"
  BY <1>1 DEF CleanBeacon, CleanAfter, CleanProcs, CleanStages
<1>3. /\ files \in [pid : Holders, state : Holders, request : Holders \cup {Absent, Malformed},
                    server : 0 .. MaxServers]
      /\ spared \/ clean.stage = "request" => files.pid = dmFiles.pid /\ files.state = dmFiles.state
      /\ clean.stage = "pid" => files.state = dmFiles.state
      /\ clean.stage = "state" => files.pid = dmFiles.pid
      /\ files.request \in {dmFiles.request, Absent}
  <2>1. CASE spared
    <3>1. files = dmFiles
      BY <1>1, <2>1 DEF DaemonTypeOK
    <3> HIDE DEF files
    <3> QED  BY <3>1 DEF DaemonTypeOK
  <2>2. CASE ~spared
    <3>1. files = [dmFiles EXCEPT ![clean.stage] = Erased(clean.stage)]
      BY <2>2
    <3> HIDE DEF files
    <3> QED  BY <1>1, <2>2, <3>1, BeaconErased
  <2> QED  BY <2>1, <2>2
<1> HIDE DEF files
<1>4. /\ dmFiles' \in [pid : Holders, state : Holders, request : Holders \cup {Absent, Malformed},
                       server : 0 .. MaxServers]
      /\ dmFiles'.pid = files.pid /\ dmFiles'.state = files.state /\ dmFiles'.request = files.request
  BY <1>1, <1>3, DaemonAssumption
<1>5. DaemonTypeOK'
  BY <1>1, <1>2, <1>4 DEF DaemonTypeOK, CleanProcs
<1>6. ASSUME NEW d \in Daemons, dmStage[d] \in {"locked", "bound", "watching", "serving"}, d \notin clean.raced
      PROVE  /\ clean.stage # "request" => spared /\ clean.pid = d
             /\ dmFiles'.pid = dmFiles.pid /\ dmFiles'.state = dmFiles.state
  BY <1>1, <1>3, <1>4, <1>6, DaemonAssumption DEF PidFound
<1> HIDE DEF spared
<1>7. PidFound' /\ StateFound'
  BY <1>1, <1>2, <1>6 DEF PidFound, StateFound
<1>8. LockHeld' /\ RequestFresh' /\ NoReplay' /\ HostStopped' /\ HostsOwned'
  BY <1>1, <1>3, <1>4 DEF LockHeld, RequestFresh, NoReplay, HostStopped, HostsOwned, Alive
<1> QED  BY <1>2, <1>5, <1>7, <1>8

\* The peer and the dashboard server write their files.
LEMMA OthersWrite ==
    ASSUME DaemonIInv, WriteRequest \/ ServerStarts \/ WantTunnel
    PROVE  DaemonIInv'
<1> USE DaemonAssumption DEF DaemonIInv
<1>1. CASE WriteRequest
  <2>1. PICK r \in {dmLock, Malformed} : dmFiles' = [dmFiles EXCEPT !.request = r]
    BY <1>1 DEF WriteRequest
  <2>2. DaemonTypeOK'
    <3>1. dmRequests' \in 0 .. MaxRequests
      BY <1>1 DEF WriteRequest, DaemonTypeOK
    <3> QED  BY <1>1, <2>1, <3>1 DEF WriteRequest, DaemonTypeOK
  <2>3. RequestFresh'
    BY <1>1, <2>1 DEF WriteRequest, RequestFresh, LockHeld, Alive, DaemonTypeOK
  <2>4. LockHeld' /\ PidFound' /\ StateFound' /\ NoReplay' /\ HostStopped' /\ HostsOwned'
    BY <1>1, <2>1 DEF WriteRequest, LockHeld, PidFound, StateFound, NoReplay, HostStopped, HostsOwned, Alive, DaemonTypeOK
  <2> QED  BY <1>1, <2>2, <2>3, <2>4 DEF WriteRequest
<1>2. CASE ServerStarts
  <2>1. dmServers + 1 \in 0 .. MaxServers
    BY <1>2 DEF ServerStarts, DaemonTypeOK
  <2>2. DaemonTypeOK'
    BY <1>2, <2>1 DEF ServerStarts, DaemonTypeOK
  <2>3. LockHeld' /\ PidFound' /\ StateFound' /\ RequestFresh' /\ NoReplay' /\ HostStopped' /\ HostsOwned'
    BY <1>2 DEF ServerStarts, LockHeld, PidFound, StateFound, RequestFresh, NoReplay, HostStopped,
                HostsOwned, Alive, DaemonTypeOK
  <2> QED  BY <1>2, <2>2, <2>3 DEF ServerStarts
<1>3. CASE WantTunnel
  <2>1. dmRequests' \in 0 .. MaxRequests /\ dmWanted' \in BOOLEAN
    BY <1>3 DEF WantTunnel, DaemonTypeOK
  <2>2. DaemonTypeOK'
    BY <1>3, <2>1 DEF WantTunnel, DaemonTypeOK
  <2>3. LockHeld' /\ PidFound' /\ StateFound' /\ RequestFresh' /\ NoReplay' /\ HostStopped' /\ HostsOwned'
    BY <1>3 DEF WantTunnel, LockHeld, PidFound, StateFound, RequestFresh, NoReplay, HostStopped,
                HostsOwned, Alive
  <2> QED  BY <1>3, <2>2, <2>3 DEF WantTunnel
<1> QED  BY <1>1, <1>2, <1>3

\* Ingest daemons that start, stop, die, are demoted or cleaned up in any order
\* (ingest.rs, shutdown_watch.rs, teardown.rs) keep what they own apart: the beacons
\* name the one that serves, a request demotes the daemon it was written for and no
\* later one, and a `devtunnel host` child outlives only a daemon that was killed.
THEOREM DaemonCorrect == DaemonSpec => []DaemonInv
<1>1. DaemonIInv => DaemonInv
  BY DEF DaemonIInv, DaemonInv, PidFound, StateFound, ServingFound
<1>2. DaemonIInv /\ [DaemonNext]_daemonVars => DaemonIInv'
  <2> SUFFICES ASSUME DaemonIInv, [DaemonNext]_daemonVars PROVE DaemonIInv'
    OBVIOUS
  <2>1. ASSUME NEW d \in Daemons, DaemonStep(d) PROVE DaemonIInv'
    BY <2>1, Acquired, DaemonServes, RequestConsumed, DaemonEnds, BeaconRemoved DEF DaemonStep
  <2>2. CASE CleanupStep
    BY <2>2, CleanupReads, CleanupSeesDeath, CleanupRemoves DEF CleanupStep
  <2>3. CASE WriteRequest \/ ServerStarts \/ WantTunnel
    BY <2>3, OthersWrite
  <2>4. CASE UNCHANGED daemonVars
    BY <2>4 DEF daemonVars, DaemonIInv, DaemonTypeOK, LockHeld, PidFound, StateFound, RequestFresh,
                NoReplay, HostStopped, HostsOwned, Alive
  <2> QED  BY <2>1, <2>2, <2>3, <2>4 DEF DaemonNext
<1> QED  BY <1>1, <1>2, DaemonInitial, PTL DEF DaemonSpec

----------------------------------------------------------------------------
(* Linking WSL and Windows, and starting the uplink *)

Worlds == [wsl : BOOLEAN, winHome : BOOLEAN, uncPath : BOOLEAN,
           devtunnel : BOOLEAN, dashboard : BOOLEAN, peerIngest : BOOLEAN]
Jobs == [kind : {"none", "link", "launch"},
         at : {"idle", "autoLink", "pointer", "bridge", "reverse", "peerBridge", "read", "done", "failed"},
         bridge : BOOLEAN, fresh : BOOLEAN, reverse : BOOLEAN, linked : BOOLEAN, spawn : BOOLEAN]
Uplinks == [at : {"off", "running", "leaving"}, pointer : BOOLEAN]

\* What the process at work has written so far, by the stage it is in.
JobSound ==
    /\ world \in Worlds /\ job \in Jobs /\ uplink \in Uplinks
    /\ job.at \in {"autoLink", "pointer", "bridge", "reverse"} => ~job.linked /\ ~job.reverse
    /\ job.at \in {"bridge", "peerBridge"} => job.bridge
    /\ job.bridge => {"here", "there"} \subseteq chosen
    /\ job.at \in {"bridge", "reverse", "peerBridge"} /\ job.fresh => settings.pointer
    /\ job.at \in {"reverse", "peerBridge"} /\ job.fresh /\ job.bridge => settings.bridge
    /\ job.at = "peerBridge" =>
         ~job.linked /\ job.reverse /\ other.pointer /\ world.wsl /\ world.uncPath

UplinkWanted == PeerWanted \/ (UsableTarget(settings.remote) /\ ~Shadowed(settings.remote))

\* The uplink that a launch counts on does not end at its next poll.
UplinkStays ==
    job.kind = "launch" /\ job.at = "done" /\ job.fresh /\ ~missed /\ UplinkWanted
        => starter \/ (uplink.at = "running" /\ (settings.remote.enabled \/ uplink.pointer))

BridgeIInv == BridgeTypeOK /\ LinkTrue /\ BridgeByChoice /\ JobSound /\ UplinkStays

LEMMA BridgeInitial == BridgeInit => BridgeIInv
<1> SUFFICES ASSUME BridgeInit PROVE BridgeIInv
  OBVIOUS
<1>1. BridgeTypeOK
  <2>1. other \in [pointer : BOOLEAN, bridge : BOOLEAN] /\ chosen \subseteq {"here", "there"}
    BY DEF BridgeInit
  <2>2. job.at = "idle" /\ uplink.at = "off" /\ ~uplink.pointer
    BY DEF BridgeInit, NoJob, NoUplink
  <2>3. edits \in 0 .. MaxEdits
    BY MaxEditsAssumption DEF BridgeInit
  <2>4. /\ settings \in [remote : Remotes, pointer : BOOLEAN, bridge : BOOLEAN, autoLink : BOOLEAN]
        /\ starter \in BOOLEAN /\ missed \in BOOLEAN
    BY DEF BridgeInit
  <2> QED  BY <2>1, <2>2, <2>3, <2>4 DEF BridgeTypeOK
<1>2. JobSound
  BY DEF BridgeInit, JobSound, Worlds, Jobs, Uplinks, NoJob, NoUplink
<1>3. LinkTrue /\ BridgeByChoice /\ UplinkStays
  BY DEF BridgeInit, LinkTrue, BridgeByChoice, UplinkStays, NoJob
<1> QED  BY <1>1, <1>2, <1>3 DEF BridgeIInv

\* A usable target that nothing shadows is one the launcher starts the uplink for.
LEMMA WantedIsPlanned ==
    ASSUME BridgeIInv, UplinkWanted
    PROVE  /\ PeerWanted \/ PlanUplinkStart(settings.remote)
           /\ settings.pointer \/ settings.remote.enabled
BY DEF BridgeIInv, BridgeTypeOK, JobSound, Worlds, Remotes, UplinkWanted, PeerWanted, UsableTarget,
       Shadowed, PlanUplinkStart, Detected

\* A link or a launch begins or ends.
LEMMA JobBegins ==
    ASSUME BridgeIInv, (\E given, bridge \in BOOLEAN : RunLink(given, bridge)) \/ LaunchSession \/ Finish
    PROVE  BridgeIInv'
<1> USE DEF BridgeIInv
<1>1. ASSUME NEW given \in BOOLEAN, NEW bridge \in BOOLEAN, RunLink(given, bridge)
      PROVE  BridgeIInv'
  <2>1. BridgeTypeOK'
    BY <1>1 DEF RunLink, BridgeTypeOK, NoJob
  <2>2. JobSound'
    <3>1. UNCHANGED <<settings, other, world, uplink>> /\ world \in Worlds /\ uplink \in Uplinks
      BY <1>1 DEF RunLink, JobSound
    <3> HIDE DEF BridgeIInv
    <3>2. ASSUME job' = [NoJob EXCEPT !.kind = "link", !.at = "pointer", !.bridge = bridge, !.fresh = TRUE]
          PROVE  job' \in Jobs /\ job'.at = "pointer" /\ job'.bridge = bridge /\ ~job'.linked /\ ~job'.reverse
      <4>1. NoJob \in Jobs /\ ~NoJob.linked /\ ~NoJob.reverse
        BY DEF NoJob, Jobs
      <4>2. job' \in Jobs
        BY <3>2, <4>1 DEF Jobs
      <4>3. job'.at = "pointer" /\ job'.bridge = bridge /\ ~job'.linked /\ ~job'.reverse
        BY <3>2, <4>1 DEF Jobs
      <4> QED  BY <4>2, <4>3
    <3>3. ASSUME job' = [NoJob EXCEPT !.kind = "link", !.at = "failed"]
          PROVE  job' \in Jobs /\ job'.at = "failed" /\ ~job'.bridge /\ ~job'.linked /\ ~job'.reverse
      <4>1. NoJob \in Jobs /\ ~NoJob.linked /\ ~NoJob.reverse /\ ~NoJob.bridge
        BY DEF NoJob, Jobs
      <4>2. job' \in Jobs
        BY <3>3, <4>1 DEF Jobs
      <4>3. job'.at = "failed" /\ ~job'.bridge /\ ~job'.linked /\ ~job'.reverse
        BY <3>3, <4>1 DEF Jobs
      <4> QED  BY <4>2, <4>3
    <3>4. bridge => {"here", "there"} \subseteq chosen'
      BY <1>1 DEF RunLink
    <3>5. \/ job' = [NoJob EXCEPT !.kind = "link", !.at = "pointer", !.bridge = bridge, !.fresh = TRUE]
          \/ job' = [NoJob EXCEPT !.kind = "link", !.at = "failed"]
      BY <1>1 DEF RunLink
    <3>6. job' \in Jobs /\ job'.at \in {"pointer", "failed"} /\ ~job'.linked /\ ~job'.reverse
          /\ (job'.bridge => bridge)
      BY <3>2, <3>3, <3>5
    <3> QED  BY <3>1, <3>4, <3>6 DEF JobSound
  <2>3. LinkTrue' /\ BridgeByChoice' /\ UplinkStays'
    BY <1>1 DEF RunLink, LinkTrue, BridgeByChoice, UplinkStays, NoJob
  <2> QED  BY <2>1, <2>2, <2>3
<1>2. CASE LaunchSession
  <2>1. BridgeTypeOK'
    BY <1>2 DEF LaunchSession, BridgeTypeOK, NoJob
  <2>2. JobSound'
    BY <1>2 DEF LaunchSession, JobSound, Jobs, NoJob
  <2>3. LinkTrue' /\ BridgeByChoice' /\ UplinkStays'
    BY <1>2 DEF LaunchSession, LinkTrue, BridgeByChoice, UplinkStays, NoJob
  <2> QED  BY <2>1, <2>2, <2>3
<1>3. CASE Finish
  <2>1. BridgeTypeOK'
    BY <1>3 DEF Finish, BridgeTypeOK, NoJob
  <2>2. JobSound'
    BY <1>3 DEF Finish, JobSound, Jobs, NoJob
  <2>3. LinkTrue' /\ BridgeByChoice' /\ UplinkStays'
    BY <1>3 DEF Finish, LinkTrue, BridgeByChoice, UplinkStays, NoJob
  <2> QED  BY <2>1, <2>2, <2>3
<1> QED  BY <1>1, <1>2, <1>3

\* The settings of a link are written, each on what was written before.
LEMMA LinkWrites ==
    ASSUME BridgeIInv, AutoLink \/ WritePointer \/ WriteBridge
    PROVE  BridgeIInv'
<1> USE DEF BridgeIInv
<1>1. CASE AutoLink
  <2>1. BridgeTypeOK'
    BY <1>1 DEF AutoLink, BridgeTypeOK, JobSound, Jobs
  <2>2. JobSound'
    BY <1>1 DEF AutoLink, JobSound, Jobs
  <2>3. LinkTrue' /\ BridgeByChoice' /\ UplinkStays'
    BY <1>1 DEF AutoLink, LinkTrue, BridgeByChoice, UplinkStays, JobSound, Jobs
  <2> QED  BY <2>1, <2>2, <2>3
<1>2. CASE WritePointer
  <2>1. BridgeTypeOK'
    BY <1>2 DEF WritePointer, BridgeTypeOK, JobSound, Jobs
  <2>2. JobSound'
    BY <1>2 DEF WritePointer, JobSound, Jobs, BridgeTypeOK
  <2>3. LinkTrue' /\ BridgeByChoice' /\ UplinkStays'
    BY <1>2 DEF WritePointer, LinkTrue, BridgeByChoice, UplinkStays, JobSound, Jobs, BridgeTypeOK
  <2> QED  BY <2>1, <2>2, <2>3
<1>3. CASE WriteBridge
  <2>1. BridgeTypeOK'
    BY <1>3 DEF WriteBridge, BridgeTypeOK, JobSound, Jobs
  <2>2. JobSound'
    BY <1>3 DEF WriteBridge, JobSound, Jobs, BridgeTypeOK
  <2>3. LinkTrue' /\ BridgeByChoice' /\ UplinkStays'
    BY <1>3 DEF WriteBridge, LinkTrue, BridgeByChoice, UplinkStays, JobSound, Jobs, BridgeTypeOK
  <2> QED  BY <2>1, <2>2, <2>3
<1> QED  BY <1>1, <1>2, <1>3

\* The peer's settings are written, or there are none, or a write fails.
LEMMA LinkEnds ==
    ASSUME BridgeIInv, NoReverse \/ WriteReverse \/ WritePeerBridge \/ WriteFails
    PROVE  BridgeIInv'
<1> USE DEF BridgeIInv
<1>0. AfterLink \in {"read", "done"} /\ (job.kind = "launch" => AfterLink = "read")
  BY DEF AfterLink
<1>1. CASE NoReverse
  <2>1. BridgeTypeOK'
    BY <1>0, <1>1 DEF NoReverse, BridgeTypeOK, JobSound, Jobs
  <2>2. JobSound'
    BY <1>0, <1>1 DEF NoReverse, JobSound, Jobs
  <2>3. LinkTrue' /\ BridgeByChoice' /\ UplinkStays'
    BY <1>0, <1>1 DEF NoReverse, LinkTrue, BridgeByChoice, UplinkStays, JobSound, Jobs
  <2> QED  BY <2>1, <2>2, <2>3
<1>2. CASE WriteReverse
  <2>1. BridgeTypeOK'
    BY <1>0, <1>2 DEF WriteReverse, BridgeTypeOK, JobSound, Jobs
  <2>2. JobSound'
    BY <1>0, <1>2 DEF WriteReverse, JobSound, Jobs, BridgeTypeOK
  <2>3. LinkTrue' /\ BridgeByChoice' /\ UplinkStays'
    BY <1>0, <1>2 DEF WriteReverse, LinkTrue, BridgeByChoice, UplinkStays, JobSound, Jobs, BridgeTypeOK
  <2> QED  BY <2>1, <2>2, <2>3
<1>3. CASE WritePeerBridge
  <2>1. BridgeTypeOK'
    BY <1>0, <1>3 DEF WritePeerBridge, BridgeTypeOK, JobSound, Jobs
  <2>2. JobSound'
    BY <1>0, <1>3 DEF WritePeerBridge, JobSound, Jobs, BridgeTypeOK
  <2>3. LinkTrue' /\ BridgeByChoice' /\ UplinkStays'
    BY <1>0, <1>3 DEF WritePeerBridge, LinkTrue, BridgeByChoice, UplinkStays, JobSound, Jobs, BridgeTypeOK
  <2> QED  BY <2>1, <2>2, <2>3
<1>4. CASE WriteFails
  <2>1. BridgeTypeOK'
    BY <1>4 DEF WriteFails, BridgeTypeOK, JobSound, Jobs
  <2>2. JobSound'
    BY <1>4 DEF WriteFails, JobSound, Jobs
  <2>3. LinkTrue' /\ BridgeByChoice' /\ UplinkStays'
    BY <1>4 DEF WriteFails, LinkTrue, BridgeByChoice, UplinkStays, JobSound, Jobs
  <2> QED  BY <2>1, <2>2, <2>3
<1> QED  BY <1>1, <1>2, <1>3, <1>4

\* The launcher decides, and the uplink it starts decides again.
LEMMA UplinkStarts ==
    ASSUME BridgeIInv, EnsureUplink \/ RunUplink
    PROVE  BridgeIInv'
<1> USE DEF BridgeIInv
<1>1. CASE EnsureUplink
  <2> DEFINE s == PeerWanted \/ PlanUplinkStart(settings.remote)
  <2>1. /\ job' = [job EXCEPT !.at = "done", !.spawn = s] /\ starter' = (starter \/ s)
        /\ s \in BOOLEAN /\ job.at = "read"
        /\ UNCHANGED <<settings, other, world, uplink, missed, chosen, edits>>
    <3>1. s \in BOOLEAN
      BY DEF PeerWanted, PlanUplinkStart
    <3> HIDE DEF s
    <3>2. job' = [job EXCEPT !.at = "done", !.spawn = s] /\ starter' = (starter \/ job'.spawn)
      BY <1>1 DEF EnsureUplink, s
    <3>3. job'.spawn = s
      BY <3>2 DEF JobSound, Jobs
    <3> QED  BY <1>1, <3>1, <3>2, <3>3 DEF EnsureUplink
  <2>2. UplinkWanted => s
    BY WantedIsPlanned
  <2>3. UplinkWanted' <=> UplinkWanted
    BY <2>1 DEF UplinkWanted, PeerWanted, PeerFound, UsableTarget, Shadowed
  <2> HIDE DEF s
  <2>4. BridgeTypeOK'
    BY <2>1 DEF BridgeTypeOK, JobSound, Jobs
  <2>5. JobSound'
    BY <2>1 DEF JobSound, Jobs
  <2>6. LinkTrue' /\ BridgeByChoice'
    BY <2>1 DEF LinkTrue, BridgeByChoice, JobSound, Jobs
  <2>7. UplinkStays'
    BY <2>1, <2>2, <2>3 DEF UplinkStays
  <2> QED  BY <2>4, <2>5, <2>6, <2>7
<1>2. CASE RunUplink
  <2>1. UplinkWanted' <=> UplinkWanted
    BY <1>2 DEF RunUplink, UplinkWanted, PeerWanted, PeerFound, UsableTarget, Shadowed
  <2>2. BridgeTypeOK'
    BY <1>2 DEF RunUplink, BridgeTypeOK, Doomed
  <2>3. JobSound'
    BY <1>2 DEF RunUplink, JobSound, Uplinks, BridgeTypeOK
  <2>4. LinkTrue' /\ BridgeByChoice'
    BY <1>2 DEF RunUplink, LinkTrue, BridgeByChoice
  <2>5. UplinkStays'
    BY <1>2, <2>1, WantedIsPlanned DEF RunUplink, UplinkStays, Doomed, JobSound, Uplinks
  <2> QED  BY <2>2, <2>3, <2>4, <2>5
<1> QED  BY <1>1, <1>2

\* An uplink leaves at a poll that finds nothing to do.
LEMMA UplinkLeaves ==
    ASSUME BridgeIInv, PollLeaves \/ UplinkEnds
    PROVE  BridgeIInv'
<1> USE DEF BridgeIInv
<1>1. UplinkWanted' <=> UplinkWanted
  BY DEF PollLeaves, UplinkEnds, UplinkWanted, PeerWanted, PeerFound, UsableTarget, Shadowed
<1>2. BridgeTypeOK'
  BY DEF PollLeaves, UplinkEnds, BridgeTypeOK, NoUplink, JobSound, Uplinks
<1>3. JobSound'
  <2>1. uplink' \in Uplinks
    <3>1. CASE PollLeaves
      <4>1. uplink' = [uplink EXCEPT !.at = "leaving"]
        BY <3>1 DEF PollLeaves
      <4> QED  BY <4>1 DEF JobSound, Uplinks
    <3>2. CASE UplinkEnds
      BY <3>2 DEF UplinkEnds, Uplinks, NoUplink
    <3> QED  BY <3>1, <3>2
  <2> QED  BY <2>1 DEF PollLeaves, UplinkEnds, JobSound
<1>4. LinkTrue' /\ BridgeByChoice'
  BY DEF PollLeaves, UplinkEnds, LinkTrue, BridgeByChoice
<1>5. UplinkStays'
  BY <1>1 DEF PollLeaves, UplinkEnds, UplinkStays, JobSound, Uplinks
<1> QED  BY <1>2, <1>3, <1>4, <1>5

\* After a change nothing is claimed of the job under way, but that the bridge was
\* asked for.
LEMMA UserEdits ==
    ASSUME BridgeIInv, SetRemote \/ SetBridge \/ ForgetPeer \/ DashboardChanges
    PROVE  BridgeIInv'
<1> USE DEF BridgeIInv
<1>1. /\ job' = [job EXCEPT !.fresh = FALSE] /\ edits' \in 0 .. MaxEdits
      /\ UNCHANGED <<starter, uplink, missed, other>>
  BY MaxEditsAssumption DEF SetRemote, SetBridge, ForgetPeer, DashboardChanges, Edit, BridgeTypeOK
<1>2. settings' \in [remote : Remotes, pointer : BOOLEAN, bridge : BOOLEAN, autoLink : BOOLEAN]
  BY DEF SetRemote, SetBridge, ForgetPeer, DashboardChanges, BridgeTypeOK
<1>3. /\ chosen \subseteq chosen' /\ chosen' \subseteq {"here", "there"}
      /\ settings'.bridge => settings.bridge \/ "here" \in chosen'
  BY DEF SetRemote, SetBridge, ForgetPeer, DashboardChanges, BridgeTypeOK
<1>4. world' \in Worlds /\ world'.wsl = world.wsl /\ world'.uncPath = world.uncPath
  BY DEF SetRemote, SetBridge, ForgetPeer, DashboardChanges, JobSound, Worlds
<1>5. BridgeTypeOK'
  BY <1>1, <1>2, <1>3 DEF BridgeTypeOK, JobSound, Jobs
<1>6. JobSound'
  BY <1>1, <1>3, <1>4 DEF JobSound, Jobs
<1>7. LinkTrue' /\ BridgeByChoice' /\ UplinkStays'
  BY <1>1, <1>3 DEF LinkTrue, BridgeByChoice, UplinkStays, JobSound, Jobs
<1> QED  BY <1>5, <1>6, <1>7

\* Links between WSL and Windows are as reported, the bridge is on only where it was
\* asked for, and a session that can be bridged has an uplink (link.rs, launcher.rs,
\* uplink.rs), whichever write fails and whatever is changed in between.
THEOREM BridgeCorrect == BridgeSpec => []BridgeInv
<1>1. BridgeIInv => BridgeInv
  BY DEF BridgeIInv, BridgeInv, UplinkStays, UplinkStarted, UplinkWanted
<1>2. BridgeIInv /\ [BridgeNext]_bridgeVars => BridgeIInv'
  <2> SUFFICES ASSUME BridgeIInv, [BridgeNext]_bridgeVars PROVE BridgeIInv'
    OBVIOUS
  <2>1. CASE BridgeNext
    BY <2>1, JobBegins, LinkWrites, LinkEnds, UplinkStarts, UplinkLeaves, UserEdits DEF BridgeNext
  <2>2. CASE UNCHANGED bridgeVars
    BY <2>2 DEF bridgeVars, BridgeIInv, BridgeTypeOK, LinkTrue, BridgeByChoice, JobSound, UplinkStays,
                UplinkWanted, PeerWanted, PeerFound, UsableTarget, Shadowed
  <2> QED  BY <2>1, <2>2
<1> QED  BY <1>1, <1>2, BridgeInitial, PTL DEF BridgeSpec

----------------------------------------------------------------------------
(* The channel of one bridged session *)

Frames == {f \in [kind : {"attach", "detach", "spawn"}, id : Requests \cup {None}, signed : BOOLEAN] :
             f.kind = "spawn" => f.id \in Requests}
Results == [id : Requests, ok : BOOLEAN]

\* What the loop is in the middle of is a thread, or a request.
LoopSound ==
    /\ wire \in Seq(Frames) /\ replies \in Seq(Results)
    /\ loop.at = "attaching" => loop.id \in Readers /\ entry = None
    /\ loop.at = "spawning" => loop.id \in Requests
    /\ loop.at = "idle" => loop = Idle

ChannelTyped == ChannelTypeOK /\ LoopSound

Asks(i, q) == wire[i].kind = "spawn" /\ wire[i].id = q
Asked(q) == \E i \in 1 .. Len(wire) : Asks(i, q)
Unanswered(q) == request[q] \in {"pending", "timeout"}

\* A request is at one place at most: on its way, being spawned, or answered.
SpawnsOnce ==
    \A q \in Requests :
        /\ \A i, j \in 1 .. Len(wire) : Asks(i, q) /\ Asks(j, q) => i = j
        /\ Asked(q) => ~Spawning(q)
        /\ Asked(q) \/ Spawning(q) => Unanswered(q) /\ q \notin spawned
        /\ \A i \in 1 .. Len(replies) : replies[i].id = q =>
             /\ Unanswered(q) /\ ~Asked(q) /\ ~Spawning(q)
             /\ replies[i].ok <=> q \in spawned
             /\ \A j \in 1 .. Len(replies) : replies[j].id = q => i = j

\* A request that was not forwarded, or whose failure was told, has no session.
AnswersSound == AnswerTrue /\ \A q \in Requests : request[q] = "new" => q \notin spawned

SpawnsIInv == ChannelTyped /\ SpawnsOnce /\ AnswersSound

\* Without a secret nothing is signed and nothing spawned.
Plain ==
    /\ loop.at # "spawning"
    /\ \A i \in 1 .. Len(wire) : wire[i].kind # "spawn" /\ ~wire[i].signed

\* One viewer at a time is between the map and its Attach, and none while the
\* Detach of the last one is outstanding.
ViewersSound ==
    \A v, w \in Viewers :
        /\ sock[v] = "inserted" /\ sock[w] = "inserted" => v = w
        /\ sock[v] = "last" => sock[w] # "inserted" /\ sock[w] # "open"
        /\ sock[v] = "last" /\ sock[w] = "last" => v = w

Entering == \E v \in Viewers : sock[v] = "inserted"
\* A viewer has sent its Attach, and no Detach took it back.
Wanted == \E v \in Viewers : sock[v] \in {"open", "last"}
Attached == entry # None \/ loop.at = "attaching"

\* A live session has at most one thread, and it is that of the entry or, before
\* that is in the map, the loop's own.
ThreadSound ==
    \A r \in Readers :
        /\ reader[r] = "running" <=> r = entry \/ (loop.at = "attaching" /\ r = loop.id)
        /\ reader[r] \in {"detached", "ending"} => ~Attached

\* What is decided last is right: the frame that is read last, or the entry.
LastWordRight ==
    ~Entering => IF wire = <<>> THEN Attached <=> Wanted
                 ELSE wire[Len(wire)].kind = "attach" <=> Wanted

Bridging == ~secret => Plain /\ ViewersSound
Following == ~secret /\ host /\ Open => ThreadSound /\ LastWordRight

ChannelIInv == SpawnsIInv /\ Bridging /\ Following

\* Reading a frame, and sending one.
LEMMA FrameRead ==
    ASSUME NEW T, NEW s \in Seq(T), s # <<>>
    PROVE  /\ Tail(s) \in Seq(T) /\ Len(Tail(s)) = Len(s) - 1 /\ Len(s) \in Nat \ {0}
           /\ Head(s) = s[1] /\ Head(s) \in T
           /\ \A i \in 1 .. Len(Tail(s)) : Tail(s)[i] = s[i + 1] /\ i + 1 \in 1 .. Len(s)
OBVIOUS

LEMMA FrameSent ==
    ASSUME NEW T, NEW s \in Seq(T), NEW e \in T
    PROVE  /\ Append(s, e) \in Seq(T) /\ Len(Append(s, e)) = Len(s) + 1 /\ Len(s) \in Nat
           /\ Append(s, e)[Len(s) + 1] = e /\ Append(s, e) # <<>>
           /\ \A i \in 1 .. Len(s) : Append(s, e)[i] = s[i]
OBVIOUS

\* Queues of frames and results have the types of the model.
LEMMA QueueTypes ==
    /\ \A s \in Seq(Frames) : \A i \in 1 .. Len(s) :
         s[i] \in [kind : {"attach", "detach", "spawn"}, id : Requests \cup {None}, signed : BOOLEAN]
    /\ \A s \in Seq(Results) : \A i \in 1 .. Len(s) : s[i] \in [id : Requests, ok : BOOLEAN]
<1>1. \A s \in Seq(Frames) : \A i \in 1 .. Len(s) : s[i] \in Frames
  OBVIOUS
<1>2. \A s \in Seq(Results) : \A i \in 1 .. Len(s) : s[i] \in Results
  OBVIOUS
<1> QED  BY <1>1, <1>2 DEF Frames, Results

LEMMA ChannelInitial == ChannelInit => ChannelIInv
<1> SUFFICES ASSUME ChannelInit PROVE ChannelIInv
  OBVIOUS
<1> USE RemoteChannelAssumption DEF ChannelInit, Idle
<1>1. ChannelTyped
  BY DEF ChannelTyped, ChannelTypeOK, LoopSound, Frames, Results
<1>2. SpawnsOnce /\ AnswersSound
  BY DEF SpawnsOnce, AnswersSound, AnswerTrue, Asks, Asked, Spawning
<1>3. Bridging /\ Following
  BY DEF Bridging, Following, Plain, ViewersSound, ThreadSound, LastWordRight, Wanted, Attached, Entering
<1> QED  BY <1>1, <1>2, <1>3 DEF ChannelIInv, SpawnsIInv

\* Steps of viewers, threads and the attach map leave every request where it is,
\* unless they drop its frame.
LEMMA SpawnsUntouched ==
    ASSUME SpawnsIInv, UNCHANGED spawnVars, loop' = loop \/ loop'.at # "spawning",
           \/ wire' = wire
           \/ wire # <<>> /\ wire' = Tail(wire)
           \/ \E f \in Frames : f.kind # "spawn" /\ wire' = Append(wire, f)
    PROVE  wire' \in Seq(Frames) /\ SpawnsOnce' /\ AnswersSound'
<1>1. wire \in Seq(Frames)
  BY DEF SpawnsIInv, ChannelTyped, LoopSound
<1>2. /\ wire' \in Seq(Frames)
      /\ \A q \in Requests :
           /\ Asked(q)' => Asked(q)
           /\ \A i, j \in 1 .. Len(wire') : Asks(i, q)' /\ Asks(j, q)' => i = j
  <2>1. CASE wire' = wire
    BY <1>1, <2>1 DEF SpawnsIInv, SpawnsOnce, Asked, Asks
  <2>2. CASE wire # <<>> /\ wire' = Tail(wire)
    <3>1. /\ wire' \in Seq(Frames) /\ Len(wire') = Len(wire) - 1 /\ Len(wire) \in Nat \ {0}
          /\ \A i \in 1 .. Len(wire') : wire'[i] = wire[i + 1] /\ i + 1 \in 1 .. Len(wire)
      BY <1>1, <2>2, FrameRead
    <3>2. \A q \in Requests : \A i \in 1 .. Len(wire') :
            i + 1 \in 1 .. Len(wire) /\ (Asks(i, q)' => Asks(i + 1, q))
      BY <3>1 DEF Asks
    <3>3. \A q \in Requests : Asked(q)' => Asked(q)
      BY <3>2 DEF Asked
    <3>4. ASSUME NEW q \in Requests, NEW i \in 1 .. Len(wire'), NEW j \in 1 .. Len(wire'),
                 Asks(i, q)', Asks(j, q)'
          PROVE  i = j
      <4>1. i + 1 = j + 1
        BY <3>2, <3>4 DEF SpawnsIInv, SpawnsOnce
      <4> QED  BY <4>1
    <3> QED  BY <3>1, <3>3, <3>4
  <2>3. ASSUME NEW f \in Frames, f.kind # "spawn", wire' = Append(wire, f)
        PROVE  <1>2!1 /\ <1>2!2
    <3>1. /\ wire' \in Seq(Frames) /\ Len(wire') = Len(wire) + 1 /\ Len(wire) \in Nat
          /\ wire'[Len(wire) + 1] = f
          /\ \A i \in 1 .. Len(wire) : wire'[i] = wire[i]
      BY <1>1, <2>3, FrameSent
    <3>2. \A q \in Requests : \A i \in 1 .. Len(wire') :
            Asks(i, q)' => i \in 1 .. Len(wire) /\ Asks(i, q)
      BY <2>3, <3>1 DEF Asks
    <3> QED  BY <3>1, <3>2 DEF SpawnsIInv, SpawnsOnce, Asked
  <2> QED  BY <2>1, <2>2, <2>3
<1>3. \A q \in Requests : Spawning(q)' => Spawning(q)
  BY DEF Spawning
<1>4. SpawnsOnce'
  BY <1>2, <1>3 DEF SpawnsIInv, SpawnsOnce, Unanswered, spawnVars
<1>5. AnswersSound'
  BY DEF SpawnsIInv, AnswersSound, AnswerTrue, spawnVars
<1> QED  BY <1>2, <1>4, <1>5

----------------------------------------------------------------------------
(* Types and requests *)

ViewerActs == \E v \in Viewers : ViewerAccepted(v) \/ ViewerLeaves(v) \/ ViewerStep(v)

LEMMA ViewersType ==
    ASSUME SpawnsIInv, ViewerActs
    PROVE  SpawnsIInv'
<1> USE RemoteChannelAssumption
<1>1. PICK v \in Viewers : ViewerAccepted(v) \/ ViewerLeaves(v) \/ SendAttach(v) \/ SendDetach(v)
  BY DEF ViewerActs, ViewerStep
<1>2. UNCHANGED <<secret, upVars, spawnVars>>
  BY <1>1 DEF ViewerAccepted, ViewerLeaves, SendAttach, SendDetach
<1>3. \/ wire' = wire
      \/ \E f \in Frames : f.kind # "spawn" /\ wire' = Append(wire, f)
  BY <1>1 DEF ViewerAccepted, ViewerLeaves, SendAttach, SendDetach, Frame, Frames
<1>4. sock' \in [Viewers -> {"idle", "inserted", "open", "leaving", "last", "gone"}]
  <2>1. sock \in [Viewers -> {"idle", "inserted", "open", "leaving", "last", "gone"}]
    BY DEF SpawnsIInv, ChannelTyped, ChannelTypeOK
  <2>2. \E at \in {"inserted", "open", "leaving", "last", "gone"} : sock' = [sock EXCEPT ![v] = at]
    BY <1>1 DEF ViewerAccepted, ViewerLeaves, SendAttach, SendDetach
  <2> QED  BY <2>1, <2>2
<1>5. wire' \in Seq(Frames) /\ SpawnsOnce' /\ AnswersSound'
  BY <1>2, <1>3, SpawnsUntouched DEF upVars
<1>6. ChannelTyped'
  BY <1>2, <1>4, <1>5, QueueTypes
     DEF SpawnsIInv, ChannelTyped, ChannelTypeOK, LoopSound, upVars, spawnVars
<1> QED  BY <1>5, <1>6 DEF SpawnsIInv

AttachActs ==
    \/ Ignore \/ AttachInserts \/ Detach \/ HostEnds
    \/ \E r \in Readers : Attach(r) \/ ReaderEnds(r) \/ ReaderCleans(r)

LEMMA AttachType ==
    ASSUME SpawnsIInv, AttachActs
    PROVE  SpawnsIInv'
<1> USE RemoteChannelAssumption
<1>1. UNCHANGED <<secret, sock, spawnVars>>
  BY DEF AttachActs, Ignore, AttachInserts, Detach, HostEnds, Attach, ReaderEnds, ReaderCleans
<1>2. wire' = wire \/ (wire # <<>> /\ wire' = Tail(wire))
  BY DEF AttachActs, Ignore, AttachInserts, Detach, HostEnds, Attach, ReaderEnds, ReaderCleans, Reads, upVars
<1>3. /\ loop' = loop \/ loop'.at # "spawning"
      /\ loop' \in [at : {"idle", "attaching", "spawning", "closed"}, id : Readers \cup Requests \cup {None}]
      /\ entry' \in Readers \cup {None}
      /\ loop'.at = "attaching" => loop'.id \in Readers /\ entry' = None
      /\ loop'.at = "idle" => loop' = Idle
      /\ host' \in BOOLEAN
      /\ reader' \in [Readers -> {"unused", "running", "detached", "ending", "gone"}]
  <2> USE DEF SpawnsIInv, ChannelTyped, ChannelTypeOK, LoopSound, Idle
  <2>1. CASE Ignore
    BY <2>1 DEF Ignore, upVars
  <2>2. CASE AttachInserts
    BY <2>2 DEF AttachInserts
  <2>3. CASE Detach
    BY <2>3 DEF Detach, Reads
  <2>4. CASE HostEnds
    BY <2>4 DEF HostEnds
  <2>5. CASE \E r \in Readers : Attach(r)
    BY <2>5 DEF Attach, Reads
  <2>6. CASE \E r \in Readers : ReaderEnds(r)
    BY <2>6 DEF ReaderEnds
  <2>7. CASE \E r \in Readers : ReaderCleans(r)
    BY <2>7 DEF ReaderCleans
  <2> QED  BY <2>1, <2>2, <2>3, <2>4, <2>5, <2>6, <2>7 DEF AttachActs
<1>4. wire' \in Seq(Frames) /\ SpawnsOnce' /\ AnswersSound'
  BY <1>1, <1>2, <1>3, SpawnsUntouched
<1>5. loop'.at = "spawning" => loop'.id \in Requests
  BY <1>3 DEF SpawnsIInv, ChannelTyped, LoopSound
<1>6. ChannelTyped'
  BY <1>1, <1>3, <1>4, <1>5, QueueTypes
     DEF SpawnsIInv, ChannelTyped, ChannelTypeOK, LoopSound, Idle, spawnVars
<1> QED  BY <1>4, <1>6 DEF SpawnsIInv

\* A request is refused, or its frame is sent: it is at no other place yet.
LEMMA RequestType ==
    ASSUME SpawnsIInv, NEW q \in Requests, NEW authorized \in BOOLEAN, Request(q, authorized)
    PROVE  SpawnsIInv'
<1> USE RemoteChannelAssumption
<1> DEFINE f == Frame("spawn", q, TRUE)
<1>0. /\ ChannelTypeOK /\ LoopSound /\ SpawnsOnce /\ AnswersSound /\ request[q] = "new"
      /\ ~Asked(q) /\ ~Spawning(q) /\ q \notin spawned
      /\ \A i \in 1 .. Len(replies) : replies[i].id # q
  BY DEF SpawnsIInv, ChannelTyped, Request, SpawnsOnce, Unanswered, AnswersSound
<1>1. UNCHANGED <<secret, sock, upVars, replies, spawned>>
  BY DEF Request
<1>2. CASE request' = [request EXCEPT ![q] = "refused"] /\ wire' = wire
  <2>1. ChannelTyped'
    BY <1>0, <1>1, <1>2 DEF ChannelTyped, ChannelTypeOK, LoopSound, upVars, Idle
  <2>2. SpawnsOnce'
    BY <1>0, <1>1, <1>2 DEF ChannelTypeOK, SpawnsOnce, Asked, Asks, Spawning, Unanswered, upVars
  <2>3. AnswersSound'
    BY <1>0, <1>1, <1>2 DEF ChannelTypeOK, AnswersSound, AnswerTrue
  <2> QED  BY <2>1, <2>2, <2>3 DEF SpawnsIInv
<1>3. CASE request' = [request EXCEPT ![q] = "pending"] /\ wire' = Append(wire, f)
  <2>1. f \in Frames /\ f.kind = "spawn" /\ f.id = q
    BY DEF Frame, Frames
  <2> HIDE DEF f
  <2>2. /\ wire' \in Seq(Frames) /\ Len(wire') = Len(wire) + 1 /\ Len(wire) \in Nat
        /\ wire'[Len(wire) + 1] = f
        /\ \A i \in 1 .. Len(wire) : wire'[i] = wire[i]
    BY <1>0, <1>3, <2>1, FrameSent DEF LoopSound
  <2>3. ChannelTyped'
    BY <1>0, <1>1, <1>3, <2>2, QueueTypes DEF ChannelTyped, ChannelTypeOK, LoopSound, upVars, Idle
  <2>4. \A i \in 1 .. Len(wire') : \A p \in Requests :
          Asks(i, p)' <=> \/ i \in 1 .. Len(wire) /\ Asks(i, p)
                          \/ i = Len(wire) + 1 /\ p = q
    BY <2>1, <2>2 DEF Asks
  <2>5. \A p \in Requests : /\ Asked(p)' <=> Asked(p) \/ p = q
                            /\ Spawning(p)' <=> Spawning(p)
    BY <1>1, <2>2, <2>4 DEF Asked, Spawning, upVars
  <2>6. SpawnsOnce'
    <3> SUFFICES ASSUME NEW p \in Requests PROVE SpawnsOnce!(p)'
      BY DEF SpawnsOnce
    <3>1. CASE p = q
      BY <1>0, <1>1, <1>3, <2>2, <2>4, <2>5, <3>1 DEF ChannelTypeOK, Unanswered, Asked
    <3>2. CASE p # q
      BY <1>0, <1>1, <1>3, <2>2, <2>4, <2>5, <3>2 DEF ChannelTypeOK, SpawnsOnce, Unanswered
    <3> QED  BY <3>1, <3>2
  <2>7. AnswersSound'
    BY <1>0, <1>1, <1>3 DEF ChannelTypeOK, AnswersSound, AnswerTrue
  <2> QED  BY <2>3, <2>6, <2>7 DEF SpawnsIInv
<1> QED  BY <1>2, <1>3 DEF Request

\* The loop takes a spawn: its frame was the only one.
LEMMA SpawnType ==
    ASSUME SpawnsIInv, Spawn
    PROVE  SpawnsIInv'
<1> USE RemoteChannelAssumption
<1> DEFINE p == wire[1].id
<1>1. /\ wire' \in Seq(Frames) /\ Len(wire') = Len(wire) - 1 /\ Len(wire) \in Nat \ {0}
      /\ Head(wire) = wire[1] /\ wire[1] \in Frames /\ wire[1].kind = "spawn"
      /\ \A i \in 1 .. Len(wire') : wire'[i] = wire[i + 1] /\ i + 1 \in 1 .. Len(wire)
  BY FrameRead DEF Spawn, Reads, SpawnsIInv, ChannelTyped, LoopSound
<1>2. /\ UNCHANGED <<secret, sock, entry, reader, host, spawnVars>>
      /\ loop' = [at |-> "spawning", id |-> p] /\ loop.at = "idle"
  BY <1>1 DEF Spawn, Reads, Idle
<1>3. \A q \in Requests : \A i \in 1 .. Len(wire') :
        i + 1 \in 1 .. Len(wire) /\ (Asks(i, q)' => Asks(i + 1, q))
  BY <1>1 DEF Asks
<1>4. \A q \in Requests : q = p => Asks(1, q) /\ Asked(q)
  BY <1>1 DEF Asks, Asked
<1>5. \A q \in Requests : (Asked(q)' => Asked(q) /\ q # p) /\ (Spawning(q)' <=> q = p)
  <2> SUFFICES ASSUME NEW q \in Requests
               PROVE  (Asked(q)' => Asked(q) /\ q # p) /\ (Spawning(q)' <=> q = p)
    OBVIOUS
  <2>1. Spawning(q)' <=> q = p
    BY <1>2 DEF Spawning
  <2>2. ASSUME NEW i \in 1 .. Len(wire'), Asks(i, q)' PROVE Asked(q) /\ q # p
    <3>1. i + 1 \in 1 .. Len(wire) /\ Asks(i + 1, q)
      BY <1>3, <2>2
    <3>2. CASE q = p
      <4>1. Asks(1, q) /\ 1 \in 1 .. Len(wire)
        BY <1>1, <1>4, <3>2
      <4>2. i + 1 = 1
        BY <3>1, <4>1 DEF SpawnsIInv, SpawnsOnce
      <4> QED  BY <4>2
    <3> QED  BY <3>1, <3>2 DEF Asked
  <2> QED  BY <2>1, <2>2 DEF Asked
<1>6. SpawnsOnce'
  <2> SUFFICES ASSUME NEW q \in Requests PROVE SpawnsOnce!(q)'
    BY DEF SpawnsOnce
  <2>1. ASSUME NEW i \in 1 .. Len(wire'), NEW j \in 1 .. Len(wire'), Asks(i, q)', Asks(j, q)'
        PROVE  i = j
    <3>1. i + 1 = j + 1
      BY <1>3, <2>1 DEF SpawnsIInv, SpawnsOnce
    <3> QED  BY <3>1
  <2>2. (Asked(q) \/ Spawning(q))' => Asked(q)
    BY <1>4, <1>5
  <2>3. UNCHANGED <<request, replies, spawned>>
    BY <1>2 DEF spawnVars
  <2> QED  BY <1>5, <2>1, <2>2, <2>3 DEF SpawnsIInv, SpawnsOnce, Unanswered
<1>7. ChannelTyped'
  <2>1. p \in Requests
    BY <1>1 DEF Frames
  <2> QED  BY <1>1, <1>2, <2>1, QueueTypes
           DEF SpawnsIInv, ChannelTyped, ChannelTypeOK, LoopSound, spawnVars, Idle
<1>8. AnswersSound'
  BY <1>2 DEF SpawnsIInv, AnswersSound, AnswerTrue, spawnVars
<1> QED  BY <1>6, <1>7, <1>8 DEF SpawnsIInv

\* The result of a spawn is what happened, and the only one of its request.
LEMMA SpawnEndsType ==
    ASSUME SpawnsIInv, SpawnEnds
    PROVE  SpawnsIInv'
<1> USE RemoteChannelAssumption
<1> DEFINE p == loop.id
<1>0. /\ ChannelTypeOK /\ LoopSound /\ SpawnsOnce /\ AnswersSound
      /\ p \in Requests /\ Spawning(p) /\ ~Asked(p) /\ Unanswered(p) /\ p \notin spawned
      /\ \A i \in 1 .. Len(replies) : replies[i].id # p
  BY DEF SpawnsIInv, ChannelTyped, SpawnEnds, LoopSound, SpawnsOnce, Spawning
<1>1. PICK ok \in BOOLEAN :
        /\ spawned' = IF ok THEN spawned \cup {p} ELSE spawned
        /\ replies' = Append(replies, [id |-> p, ok |-> ok])
  BY DEF SpawnEnds
<1>2. loop' = Idle /\ UNCHANGED <<secret, sock, wire, entry, reader, host, request>>
  BY DEF SpawnEnds
<1>3. /\ replies' \in Seq(Results) /\ Len(replies') = Len(replies) + 1 /\ Len(replies) \in Nat
      /\ replies'[Len(replies) + 1] = [id |-> p, ok |-> ok]
      /\ \A i \in 1 .. Len(replies) : replies'[i] = replies[i]
  <2>1. [id |-> p, ok |-> ok] \in Results /\ replies \in Seq(Results)
    BY <1>0 DEF Results, LoopSound
  <2> QED  BY <1>1, <2>1, FrameSent
<1>4. \A q \in Requests : /\ ~Spawning(q)' /\ (Asked(q)' <=> Asked(q))
                          /\ \A i \in 1 .. Len(wire) : Asks(i, q)' <=> Asks(i, q)
                          /\ Unanswered(q)' <=> Unanswered(q)
                          /\ q \in spawned' <=> q \in spawned \/ (q = p /\ ok)
  BY <1>1, <1>2 DEF Spawning, Asked, Asks, Idle, Unanswered
<1>5. SpawnsOnce'
  <2> SUFFICES ASSUME NEW q \in Requests PROVE SpawnsOnce!(q)'
    BY DEF SpawnsOnce
  <2>1. CASE q = p
    <3>1. \A i \in 1 .. Len(replies') : replies'[i].id = q =>
            i = Len(replies) + 1 /\ replies'[i].ok = ok
      BY <1>0, <1>3, <2>1
    <3>2. ASSUME NEW i \in 1 .. Len(replies'), replies'[i].id = q
          PROVE  /\ Unanswered(q)' /\ ~Asked(q)' /\ ~Spawning(q)'
                 /\ replies'[i].ok <=> q \in spawned'
                 /\ \A j \in 1 .. Len(replies') : replies'[j].id = q => i = j
      BY <1>0, <1>4, <2>1, <3>1, <3>2
    <3>3. SpawnsOnce!(q)
      BY <1>0 DEF SpawnsOnce
    <3> QED  BY <1>0, <1>2, <1>4, <2>1, <3>2, <3>3
  <2>2. CASE q # p
    <3>1. \A i \in 1 .. Len(replies') : replies'[i].id = q =>
            i \in 1 .. Len(replies) /\ replies[i].id = q /\ replies'[i].ok = replies[i].ok
      BY <1>3, <2>2
    <3>2. SpawnsOnce!(q)
      BY <1>0 DEF SpawnsOnce
    <3> QED  BY <1>2, <1>4, <2>2, <3>1, <3>2
  <2> QED  BY <2>1, <2>2
<1>6. ChannelTyped'
  BY <1>0, <1>1, <1>2, <1>3, QueueTypes DEF ChannelTyped, ChannelTypeOK, LoopSound, Idle
<1>7. AnswersSound'
  BY <1>0, <1>2, <1>4 DEF AnswersSound, AnswerTrue, Unanswered
<1> QED  BY <1>5, <1>6, <1>7 DEF SpawnsIInv

\* A result reaches its request once, if that still waits.
LEMMA ResolveType ==
    ASSUME SpawnsIInv, Resolve
    PROVE  SpawnsIInv'
<1> USE RemoteChannelAssumption
<1> DEFINE p == replies[1].id
           told == IF replies[1].ok THEN "done" ELSE "failed"
<1>0. /\ ChannelTypeOK /\ LoopSound /\ SpawnsOnce /\ AnswersSound
  BY DEF SpawnsIInv, ChannelTyped
<1>1. /\ replies' \in Seq(Results) /\ Len(replies') = Len(replies) - 1 /\ Len(replies) \in Nat \ {0}
      /\ Head(replies) = replies[1] /\ p \in Requests /\ replies[1].ok \in BOOLEAN
      /\ \A i \in 1 .. Len(replies') : replies'[i] = replies[i + 1] /\ i + 1 \in 1 .. Len(replies)
  <2>1. replies \in Seq(Results) /\ replies # <<>> /\ replies' = Tail(replies)
    BY <1>0 DEF Resolve, LoopSound
  <2>2. replies[1] \in Results
    BY <2>1, FrameRead
  <2> QED  BY <2>1, <2>2, FrameRead DEF Results
<1>2. UNCHANGED <<secret, sock, wire, upVars, spawned>>
  BY DEF Resolve
<1>3. /\ request' \in [Requests -> {"new", "pending", "refused", "timeout", "done", "failed"}]
      /\ \A q \in Requests : q # p => request'[q] = request[q]
      /\ request'[p] = request[p] \/ (request[p] = "pending" /\ request'[p] = told)
  <2>1. \/ request' = request
        \/ request' = [request EXCEPT ![p] = IF @ # "pending" THEN @ ELSE told]
    BY <1>1 DEF Resolve
  <2> QED  BY <1>0, <1>1, <2>1 DEF ChannelTypeOK
<1>4. /\ ~Asked(p) /\ ~Spawning(p) /\ (replies[1].ok <=> p \in spawned) /\ Unanswered(p)
      /\ \A i \in 1 .. Len(replies') : replies'[i].id # p
  <2>1. 1 \in 1 .. Len(replies)
    BY <1>1
  <2>2. /\ ~Asked(p) /\ ~Spawning(p) /\ (replies[1].ok <=> p \in spawned) /\ Unanswered(p)
        /\ \A j \in 1 .. Len(replies) : replies[j].id = p => j = 1
    BY <1>0, <1>1, <2>1 DEF SpawnsOnce
  <2> QED  BY <1>1, <2>2
<1>5. \A q \in Requests : /\ Spawning(q)' <=> Spawning(q)
                          /\ Asked(q)' <=> Asked(q)
                          /\ \A i \in 1 .. Len(wire) : Asks(i, q)' <=> Asks(i, q)
  BY <1>2 DEF Spawning, Asked, Asks, upVars
<1>6. SpawnsOnce'
  <2> SUFFICES ASSUME NEW q \in Requests PROVE SpawnsOnce!(q)'
    BY DEF SpawnsOnce
  <2>0. SpawnsOnce!(q)
    BY <1>0 DEF SpawnsOnce
  <2>1. CASE q = p
    BY <1>2, <1>4, <1>5, <2>0, <2>1
  <2>2. CASE q # p
    <3>1. Unanswered(q)' <=> Unanswered(q)
      BY <1>3, <2>2 DEF Unanswered
    <3>2. ASSUME NEW i \in 1 .. Len(replies'), NEW j \in 1 .. Len(replies'),
                 replies'[i].id = q, replies'[j].id = q
          PROVE  i = j
      <4>1. i + 1 = j + 1
        BY <1>1, <2>0, <3>2
      <4> QED  BY <4>1
    <3>3. ASSUME NEW i \in 1 .. Len(replies'), replies'[i].id = q
          PROVE  Unanswered(q) /\ ~Asked(q) /\ ~Spawning(q) /\ (replies'[i].ok <=> q \in spawned)
      BY <1>1, <2>0, <3>3
    <3> QED  BY <1>2, <1>5, <2>0, <3>1, <3>2, <3>3
  <2> QED  BY <2>1, <2>2
<1>7. ChannelTyped'
  BY <1>0, <1>1, <1>2, <1>3, QueueTypes DEF ChannelTyped, ChannelTypeOK, LoopSound, upVars, Idle
<1>8. AnswersSound'
  BY <1>0, <1>2, <1>3, <1>4 DEF AnswersSound, AnswerTrue
<1> QED  BY <1>6, <1>7, <1>8 DEF SpawnsIInv

\* A request that times out may still be under way.
LEMMA TimeOutType ==
    ASSUME SpawnsIInv, NEW q \in Requests, TimeOut(q)
    PROVE  SpawnsIInv'
<1> USE RemoteChannelAssumption
<1>0. ChannelTypeOK /\ LoopSound /\ SpawnsOnce /\ AnswersSound
  BY DEF SpawnsIInv, ChannelTyped
<1>1. /\ request[q] = "pending" /\ request' = [request EXCEPT ![q] = "timeout"]
      /\ UNCHANGED <<secret, sock, wire, upVars, replies, spawned>>
  BY DEF TimeOut
<1>2. \A p \in Requests : /\ Spawning(p)' <=> Spawning(p)
                          /\ Asked(p)' <=> Asked(p)
                          /\ \A i \in 1 .. Len(wire) : Asks(i, p)' <=> Asks(i, p)
                          /\ Unanswered(p)' <=> Unanswered(p)
  BY <1>0, <1>1 DEF Spawning, Asked, Asks, Unanswered, upVars, ChannelTypeOK
<1>3. SpawnsOnce'
  BY <1>0, <1>1, <1>2 DEF SpawnsOnce
<1>4. ChannelTyped'
  BY <1>0, <1>1 DEF ChannelTyped, ChannelTypeOK, LoopSound, upVars, Idle
<1>5. AnswersSound'
  BY <1>0, <1>1 DEF AnswersSound, AnswerTrue, ChannelTypeOK
<1> QED  BY <1>3, <1>4, <1>5 DEF SpawnsIInv

\* The end of the connection takes frames and results along; a spawn under way
\* was not answered yet.
LEMMA CloseType ==
    ASSUME SpawnsIInv, Close
    PROVE  SpawnsIInv'
<1> USE RemoteChannelAssumption
<1>0. ChannelTypeOK /\ LoopSound /\ SpawnsOnce /\ AnswersSound
  BY DEF SpawnsIInv, ChannelTyped
<1>1. /\ loop' = [at |-> "closed", id |-> None] /\ entry' = None
      /\ wire' = <<>> /\ replies' = <<>> /\ UNCHANGED <<secret, host, request>>
      /\ sock' = [v \in Viewers |-> IF sock[v] = "idle" THEN "idle" ELSE "gone"]
      /\ reader' = [r \in Readers |-> IF r = entry /\ reader[r] = "running" THEN "detached" ELSE reader[r]]
      /\ spawned \subseteq spawned'
      /\ \A q \in Requests : q \in spawned' => q \in spawned \/ Spawning(q)
      /\ spawned' \subseteq Requests
  BY <1>0 DEF Close, ChannelTypeOK
<1>2. ChannelTyped'
  BY <1>0, <1>1 DEF ChannelTyped, ChannelTypeOK, LoopSound, Idle, Frames, Results
<1>3. SpawnsOnce'
  BY <1>0, <1>1 DEF SpawnsOnce, Asked, Asks, Spawning
<1>4. AnswersSound'
  BY <1>0, <1>1 DEF AnswersSound, AnswerTrue, SpawnsOnce, Unanswered
<1> QED  BY <1>2, <1>3, <1>4 DEF SpawnsIInv

LEMMA SpawnsStep == SpawnsIInv /\ [ChannelNext]_channelVars => SpawnsIInv'
<1> SUFFICES ASSUME SpawnsIInv, [ChannelNext]_channelVars PROVE SpawnsIInv'
  OBVIOUS
<1>1. CASE ViewerActs \/ AttachActs
  BY <1>1, ViewersType, AttachType
<1>2. CASE Spawn \/ SpawnEnds \/ Resolve \/ Close
  BY <1>2, SpawnType, SpawnEndsType, ResolveType, CloseType
<1>3. CASE \E q \in Requests : (\E authorized \in BOOLEAN : Request(q, authorized)) \/ TimeOut(q)
  BY <1>3, RequestType, TimeOutType
<1>4. CASE UNCHANGED channelVars
  BY <1>4 DEF channelVars, SpawnsIInv, ChannelTyped, ChannelTypeOK, LoopSound, SpawnsOnce, Asked,
              Asks, Spawning, Unanswered, AnswersSound, AnswerTrue
<1> QED  BY <1>1, <1>2, <1>3, <1>4 DEF ChannelNext, LoopStep, ThreadStep, ViewerActs, AttachActs

\* No request that was told "failed" or "refused" has a session on the devbox, and
\* every one that was told "done" has, whatever is late, dropped or cut off.
THEOREM AnswersTrue == ChannelSpec => []AnswerTrue
<1>1. ChannelInit => SpawnsIInv
  BY ChannelInitial DEF ChannelIInv
<1>2. SpawnsIInv => AnswerTrue
  BY DEF SpawnsIInv, AnswersSound
<1> QED  BY <1>1, <1>2, SpawnsStep, PTL DEF ChannelSpec

----------------------------------------------------------------------------
(* Viewers, attach and detach, without a secret *)

\* What a read leaves on the wire, and which frame is the last one then.
LEMMA LastFrameRead ==
    ASSUME SpawnsIInv, Plain, wire # <<>>, wire' = Tail(wire)
    PROVE  /\ \A i \in 1 .. Len(wire') : wire'[i].kind # "spawn" /\ ~wire'[i].signed
           /\ wire' # <<>> => wire'[Len(wire')].kind = wire[Len(wire)].kind
           /\ wire' = <<>> => Head(wire).kind = wire[Len(wire)].kind
           /\ Head(wire).kind \in {"attach", "detach"} /\ ~Head(wire).signed
<1>1. wire \in Seq(Frames)
  BY DEF SpawnsIInv, ChannelTyped, LoopSound
<1>2. /\ wire' \in Seq(Frames) /\ Len(wire') = Len(wire) - 1 /\ Len(wire) \in Nat \ {0}
      /\ Head(wire) = wire[1] /\ Head(wire) \in Frames
      /\ \A i \in 1 .. Len(wire') : wire'[i] = wire[i + 1] /\ i + 1 \in 1 .. Len(wire)
  BY <1>1, FrameRead
<1>3. \A i \in 1 .. Len(wire') : wire'[i].kind # "spawn" /\ ~wire'[i].signed
  BY <1>2 DEF Plain
<1>4. wire' # <<>> => wire'[Len(wire')] = wire[Len(wire)]
  <2> SUFFICES ASSUME wire' # <<>> PROVE wire'[Len(wire')] = wire[Len(wire)]
    OBVIOUS
  <2>1. Len(wire') \in 1 .. Len(wire') /\ Len(wire') + 1 = Len(wire)
    BY <1>2
  <2> QED  BY <1>2, <2>1
<1>5. wire' = <<>> => wire[1] = wire[Len(wire)]
  <2>1. wire' = <<>> => Len(wire') = 0
    OBVIOUS
  <2> QED  BY <1>2, <2>1
<1>6. Head(wire).kind \in {"attach", "detach"} /\ ~Head(wire).signed
  <2>1. 1 \in 1 .. Len(wire)
    BY <1>2
  <2> QED  BY <1>2, <2>1 DEF Plain, Frames
<1> QED  BY <1>2, <1>3, <1>4, <1>5, <1>6

\* A viewer's frame becomes the last one.
LEMMA LastFrameSent ==
    ASSUME SpawnsIInv, Plain, NEW f \in Frames, f.kind # "spawn", ~f.signed, wire' = Append(wire, f)
    PROVE  /\ \A i \in 1 .. Len(wire') : wire'[i].kind # "spawn" /\ ~wire'[i].signed
           /\ wire' # <<>> /\ wire'[Len(wire')].kind = f.kind
<1>1. wire \in Seq(Frames)
  BY DEF SpawnsIInv, ChannelTyped, LoopSound
<1>2. /\ Len(wire') = Len(wire) + 1 /\ Len(wire) \in Nat /\ wire' # <<>>
      /\ wire'[Len(wire) + 1] = f
      /\ \A i \in 1 .. Len(wire) : wire'[i] = wire[i]
  BY <1>1, FrameSent
<1>3. \A i \in 1 .. Len(wire') : i \in 1 .. Len(wire) \/ i = Len(wire) + 1
  BY <1>2
<1>4. \A i \in 1 .. Len(wire') : wire'[i].kind # "spawn" /\ ~wire'[i].signed
  BY <1>2, <1>3 DEF Plain
<1> QED  BY <1>2, <1>4

\* A viewer comes or goes: one Attach follows, and a Detach if it was the last.
LEMMA ViewersBridge ==
    ASSUME ~Quick, ChannelIInv, ViewerActs
    PROVE  Bridging' /\ Following'
<1> USE RemoteChannelAssumption
<1>1. PICK v \in Viewers : ViewerAccepted(v) \/ ViewerLeaves(v) \/ SendAttach(v) \/ SendDetach(v)
  BY DEF ViewerActs, ViewerStep
<1>2. UNCHANGED <<secret, upVars>>
  BY <1>1 DEF ViewerAccepted, ViewerLeaves, SendAttach, SendDetach
<1> SUFFICES ASSUME ~secret
             PROVE  /\ Plain' /\ ViewersSound'
                    /\ host /\ Open => LastWordRight'
  <2>1. ThreadSound' <=> ThreadSound
    BY <1>2 DEF ThreadSound, Attached, upVars
  <2>2. (host /\ Open)' <=> host /\ Open
    BY <1>2 DEF Open, upVars
  <2> QED  BY <1>2, <2>1, <2>2 DEF Bridging, Following, ChannelIInv
<1>3. /\ SpawnsIInv /\ Plain /\ ViewersSound
      /\ host /\ Open => LastWordRight
      /\ sock \in [Viewers -> {"idle", "inserted", "open", "leaving", "last", "gone"}]
      /\ loop' = loop /\ entry' = entry /\ (Attached' <=> Attached)
  BY <1>2 DEF ChannelIInv, Bridging, Following, SpawnsIInv, ChannelTyped, ChannelTypeOK, upVars, Attached
<1>4. CASE ViewerAccepted(v)
  <2>1. /\ wire' = wire /\ sock' = [sock EXCEPT ![v] = "inserted"]
        /\ \A w \in Viewers : sock[w] \notin {"inserted", "leaving", "last"}
    BY <1>4 DEF ViewerAccepted
  <2>2. Entering'
    BY <1>3, <2>1 DEF Entering
  <2>3. Plain'
    BY <1>3, <2>1 DEF Plain
  <2>4. ViewersSound'
    BY <1>3, <2>1 DEF ViewersSound
  <2> QED  BY <2>2, <2>3, <2>4 DEF LastWordRight
<1>5. CASE SendAttach(v)
  <2>1. /\ sock[v] = "inserted" /\ sock' = [sock EXCEPT ![v] = "open"]
        /\ \E f \in Frames : f.kind = "attach" /\ ~f.signed /\ wire' = Append(wire, f)
    BY <1>5 DEF SendAttach, Frame, Frames
  <2>2. /\ \A i \in 1 .. Len(wire') : wire'[i].kind # "spawn" /\ ~wire'[i].signed
        /\ wire' # <<>> /\ wire'[Len(wire')].kind = "attach"
    BY <1>3, <2>1, LastFrameSent
  <2>3. Wanted'
    BY <1>3, <2>1 DEF Wanted
  <2>4. Plain'
    BY <1>3, <2>2 DEF Plain
  <2>5. ViewersSound'
    BY <1>3, <2>1 DEF ViewersSound
  <2> QED  BY <2>2, <2>3, <2>4, <2>5 DEF LastWordRight
<1>6. CASE ViewerLeaves(v)
  <2>1. /\ wire' = wire /\ sock[v] = "open"
        /\ sock' = [sock EXCEPT ![v] = IF InMap = {v} THEN "last" ELSE "leaving"]
    BY <1>6 DEF ViewerLeaves
  <2>2. Plain'
    BY <1>3, <2>1 DEF Plain
  <2>3. CASE InMap = {v}
    <3>1. \A w \in Viewers : w # v => sock[w] \notin {"inserted", "open"}
      BY <2>3 DEF InMap
    <3>2. ViewersSound'
      BY <1>3, <2>1, <2>3, <3>1 DEF ViewersSound
    <3>3. Wanted' /\ Wanted /\ ~Entering
      BY <1>3, <2>1, <2>3, <3>1 DEF Wanted, Entering
    <3> QED  BY <1>3, <2>1, <2>2, <3>2, <3>3 DEF LastWordRight
  <2>4. CASE InMap # {v}
    <3>1. PICK w \in Viewers : w # v /\ sock[w] \in {"inserted", "open"}
      BY <2>1, <2>4 DEF InMap
    <3>2. ViewersSound'
      BY <1>3, <2>1, <2>4 DEF ViewersSound
    <3>3. Entering' <=> Entering
      BY <1>3, <2>1, <2>4 DEF Entering
    <3>4. ~Entering => Wanted' /\ Wanted
      BY <1>3, <2>1, <2>4, <3>1 DEF Wanted, Entering
    <3> QED  BY <1>3, <2>1, <2>2, <3>2, <3>3, <3>4 DEF LastWordRight
  <2> QED  BY <2>3, <2>4
<1>7. CASE SendDetach(v) /\ sock[v] = "leaving"
  <2>1. wire' = wire /\ sock' = [sock EXCEPT ![v] = "gone"]
    BY <1>7 DEF SendDetach
  <2>2. Plain' /\ ViewersSound'
    BY <1>3, <2>1 DEF Plain, ViewersSound
  <2>3. (Entering' <=> Entering) /\ (Wanted' <=> Wanted)
    BY <1>3, <1>7, <2>1 DEF Entering, Wanted
  <2> QED  BY <1>3, <2>1, <2>2, <2>3 DEF LastWordRight
<1>8. CASE SendDetach(v) /\ sock[v] = "last"
  <2>1. /\ sock' = [sock EXCEPT ![v] = "gone"]
        /\ \E f \in Frames : f.kind = "detach" /\ ~f.signed /\ wire' = Append(wire, f)
    BY <1>8 DEF SendDetach, Frame, Frames
  <2>2. /\ \A i \in 1 .. Len(wire') : wire'[i].kind # "spawn" /\ ~wire'[i].signed
        /\ wire' # <<>> /\ wire'[Len(wire')].kind = "detach"
    BY <1>3, <2>1, LastFrameSent
  <2>3. ~Wanted'
    BY <1>3, <1>8, <2>1 DEF Wanted, ViewersSound
  <2>4. Plain' /\ ViewersSound'
    BY <1>3, <2>1, <2>2 DEF Plain, ViewersSound
  <2> QED  BY <2>2, <2>3, <2>4 DEF LastWordRight
<1> QED  BY <1>1, <1>4, <1>5, <1>6, <1>7, <1>8 DEF SendDetach

\* The loop reads a frame or finishes an attach, and threads end.
LEMMA AttachBridge ==
    ASSUME ~Quick, ChannelIInv, AttachActs
    PROVE  Bridging' /\ Following'
<1> USE RemoteChannelAssumption
<1>1. UNCHANGED <<secret, sock>>
  BY DEF AttachActs, Ignore, AttachInserts, Detach, HostEnds, Attach, ReaderEnds, ReaderCleans
<1> SUFFICES ASSUME ~secret
             PROVE  Plain' /\ (host' /\ Open' => ThreadSound' /\ LastWordRight')
  BY <1>1 DEF ChannelIInv, Bridging, Following, ViewersSound
<1>2. /\ SpawnsIInv /\ Plain
      /\ host /\ Open => ThreadSound /\ LastWordRight
      /\ reader \in [Readers -> {"unused", "running", "detached", "ending", "gone"}]
      /\ entry \in Readers \cup {None}
      /\ loop.at = "attaching" => loop.id \in Readers /\ entry = None
      /\ (Entering' <=> Entering) /\ (Wanted' <=> Wanted)
  BY <1>1 DEF ChannelIInv, Bridging, Following, SpawnsIInv, ChannelTyped, ChannelTypeOK, LoopSound,
              Entering, Wanted
<1>3. CASE Ignore
  <2>1. wire # <<>> /\ wire' = Tail(wire) /\ UNCHANGED upVars /\ loop = Idle
    BY <1>3 DEF Ignore
  <2>2. /\ \A i \in 1 .. Len(wire') : wire'[i].kind # "spawn" /\ ~wire'[i].signed
        /\ wire' # <<>> => wire'[Len(wire')].kind = wire[Len(wire)].kind
        /\ wire' = <<>> => Head(wire).kind = wire[Len(wire)].kind
        /\ Head(wire).kind \in {"attach", "detach"} /\ ~Head(wire).signed
    BY <1>2, <2>1, LastFrameRead
  <2>3. host => (Head(wire).kind = "attach" <=> Attached)
    BY <1>3, <2>1, <2>2 DEF Ignore, Accepted, Attached, Idle
  <2>4. Plain' /\ (ThreadSound' <=> ThreadSound) /\ (Attached' <=> Attached)
        /\ host' = host /\ (Open' <=> Open)
    BY <1>2, <2>1, <2>2 DEF Plain, ThreadSound, Attached, upVars, Open
  <2> QED  BY <1>2, <2>1, <2>2, <2>3, <2>4 DEF LastWordRight
<1>4. CASE \E r \in Readers : Attach(r)
  <2>1. PICK r \in Readers :
          /\ wire # <<>> /\ wire' = Tail(wire) /\ loop = Idle /\ Head(wire).kind = "attach"
          /\ entry = None /\ entry' = None /\ host /\ reader[r] = "unused" /\ Threads = {}
          /\ reader' = [reader EXCEPT ![r] = "running"]
          /\ loop' = [at |-> "attaching", id |-> r]
    BY <1>4 DEF Attach, Reads
  <2>2. /\ \A i \in 1 .. Len(wire') : wire'[i].kind # "spawn" /\ ~wire'[i].signed
        /\ wire' # <<>> => wire'[Len(wire')].kind = wire[Len(wire)].kind
        /\ wire' = <<>> => Head(wire).kind = wire[Len(wire)].kind
    BY <1>2, <2>1, LastFrameRead
  <2>3. Plain' /\ Attached' /\ Open
    BY <2>1, <2>2 DEF Plain, Attached, Open, Idle
  <2>4. ThreadSound'
    <3>1. \A x \in Readers : reader[x] \notin {"running", "detached", "ending"}
      BY <2>1 DEF Threads
    <3> QED  BY <1>2, <2>1, <3>1 DEF ThreadSound
  <2>5. LastWordRight'
    BY <1>2, <2>1, <2>2, <2>3 DEF LastWordRight
  <2> QED  BY <2>3, <2>4, <2>5
<1>5. CASE AttachInserts
  <2>1. /\ loop.at = "attaching" /\ entry' = loop.id /\ loop' = Idle /\ UNCHANGED <<wire, reader, host>>
        /\ entry' # None /\ Attached' /\ Attached /\ Open
    BY <1>2, <1>5 DEF AttachInserts, Attached, Open
  <2>2. Plain'
    BY <1>2, <2>1 DEF Plain, Idle
  <2>3. ThreadSound => ThreadSound'
    BY <1>2, <2>1 DEF ThreadSound, Idle
  <2>4. LastWordRight => LastWordRight'
    BY <1>2, <2>1 DEF LastWordRight
  <2> QED  BY <1>2, <2>1, <2>2, <2>3, <2>4
<1>6. CASE Detach
  <2>1. /\ wire # <<>> /\ wire' = Tail(wire) /\ loop = Idle /\ loop' = loop /\ Head(wire).kind = "detach"
        /\ entry # None /\ entry' = None /\ host' = host
        /\ reader' = [reader EXCEPT ![entry] = IF @ = "running" THEN "detached" ELSE @]
    BY <1>6 DEF Detach, Reads
  <2>2. /\ \A i \in 1 .. Len(wire') : wire'[i].kind # "spawn" /\ ~wire'[i].signed
        /\ wire' # <<>> => wire'[Len(wire')].kind = wire[Len(wire)].kind
        /\ wire' = <<>> => Head(wire).kind = wire[Len(wire)].kind
    BY <1>2, <2>1, LastFrameRead
  <2>3. Plain' /\ ~Attached' /\ Open
    BY <2>1, <2>2 DEF Plain, Attached, Open, Idle
  <2>4. ThreadSound => ThreadSound'
    BY <1>2, <2>1, <2>3 DEF ThreadSound, Idle
  <2>5. LastWordRight => LastWordRight'
    BY <1>2, <2>1, <2>2, <2>3 DEF LastWordRight
  <2> QED  BY <1>2, <2>1, <2>3, <2>4, <2>5
<1>7. CASE \E r \in Readers : ReaderEnds(r)
  <2>1. PICK r \in Readers :
          /\ reader[r] = "detached" \/ (reader[r] = "running" /\ ~host)
          /\ reader' = [reader EXCEPT ![r] = "ending"]
          /\ UNCHANGED <<wire, loop, entry, host>>
    BY <1>7 DEF ReaderEnds
  <2>2. Plain' /\ (LastWordRight' <=> LastWordRight) /\ (Open' <=> Open)
    BY <1>2, <2>1 DEF Plain, LastWordRight, Attached, Open
  <2>3. host /\ ThreadSound => ThreadSound'
    BY <1>2, <2>1 DEF ThreadSound, Attached
  <2> QED  BY <1>2, <2>1, <2>2, <2>3
<1>8. CASE \E r \in Readers : ReaderCleans(r)
  <2>1. PICK r \in Readers :
          /\ reader[r] = "ending" /\ reader' = [reader EXCEPT ![r] = "gone"]
          /\ entry' \in {None, entry} /\ UNCHANGED <<wire, loop, host>>
    BY <1>8 DEF ReaderCleans
  <2>2. Plain' /\ (Open' <=> Open)
    BY <1>2, <2>1 DEF Plain, Open
  <2>3. ThreadSound => ~Attached /\ entry' = entry
    BY <2>1 DEF ThreadSound, Attached
  <2>4. ThreadSound => ThreadSound'
    BY <1>2, <2>1, <2>3 DEF ThreadSound, Attached
  <2>5. ThreadSound /\ LastWordRight => LastWordRight'
    BY <1>2, <2>1, <2>3 DEF LastWordRight, Attached
  <2> QED  BY <1>2, <2>1, <2>2, <2>4, <2>5
<1>9. CASE HostEnds
  BY <1>2, <1>9 DEF HostEnds, Plain
<1> QED  BY <1>3, <1>4, <1>5, <1>6, <1>7, <1>8, <1>9 DEF AttachActs

LEMMA ChannelStep ==
    ASSUME ~Quick
    PROVE  ChannelIInv /\ [ChannelNext]_channelVars => ChannelIInv'
<1> SUFFICES ASSUME ChannelIInv, [ChannelNext]_channelVars PROVE Bridging' /\ Following'
  BY SpawnsStep DEF ChannelIInv
<1> USE DEF ChannelIInv, Bridging, Following
<1>1. CASE ViewerActs \/ AttachActs
  BY <1>1, ViewersBridge, AttachBridge
<1>2. CASE Spawn \/ SpawnEnds
  BY <1>2 DEF Spawn, SpawnEnds, Plain
<1>3. CASE Close
  BY <1>3 DEF Close, Open, Plain, ViewersSound
<1>4. ASSUME \/ UNCHANGED channelVars \/ Resolve
             \/ \E q \in Requests : (\E authorized \in BOOLEAN : Request(q, authorized)) \/ TimeOut(q)
      PROVE  Bridging' /\ Following'
  <2>1. UNCHANGED <<secret, sock, loop, entry, reader, host>> /\ (~secret => wire' = wire)
    BY <1>4 DEF channelVars, Resolve, Request, TimeOut, upVars
  <2> QED  BY <2>1 DEF Plain, ViewersSound, Open, ThreadSound, LastWordRight, Attached, Entering, Wanted
<1> QED  BY <1>1, <1>2, <1>3, <1>4 DEF ChannelNext, LoopStep, ThreadStep, ViewerActs, AttachActs

LEMMA ChannelImplies == ChannelIInv => ChannelInv
<1> SUFFICES ASSUME ChannelIInv PROVE BridgedAtRest
  BY DEF ChannelIInv, SpawnsIInv, ChannelTyped, AnswersSound, ChannelInv
<1> SUFFICES ASSUME ~secret, host, ~Busy
             PROVE  (InMap # {} => Streams) /\ (InMap = {} => Threads = {})
  BY DEF BridgedAtRest
<1>1. ThreadSound /\ LastWordRight /\ wire = <<>> /\ loop = Idle
  BY DEF ChannelIInv, Following, Busy, Open, Idle
<1>2. /\ \A v \in Viewers : sock[v] \notin {"inserted", "leaving", "last"}
      /\ \A r \in Readers : reader[r] \notin {"detached", "ending"}
      /\ entry \in Readers \cup {None}
  BY DEF Busy, ChannelIInv, SpawnsIInv, ChannelTyped, ChannelTypeOK
<1>3. entry # None <=> InMap # {}
  BY <1>1, <1>2 DEF LastWordRight, Attached, Entering, Wanted, InMap, Idle
<1>4. \A r \in Readers : reader[r] = "running" <=> r = entry
  BY <1>1 DEF ThreadSound, Idle
<1> QED  BY <1>2, <1>3, <1>4, RemoteChannelAssumption DEF Streams, Threads

\* When viewers do not overtake a Detach and a thread: a live session with viewers
\* streams to them once all is quiet, one without viewers costs no thread, and
\* requests were told the truth, for any viewers, readers and room on the wire.
THEOREM ChannelCorrect == ASSUME ~Quick PROVE ChannelSpec => []ChannelInv
<1>1. ChannelIInv /\ [ChannelNext]_channelVars => ChannelIInv'
  BY ChannelStep
<1> QED  BY <1>1, ChannelInitial, ChannelImplies, PTL DEF ChannelSpec
=============================================================================
