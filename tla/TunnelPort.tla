----------------------------- MODULE TunnelPort -----------------------------
(***************************************************************************)
(* The dev tunnel that leads to the ingest daemon (tunnel.rs): the desired  *)
(* state in remote-host.json, and the operations that create, adopt, delete *)
(* and re-map it.  Each runs several `devtunnel` commands, any of which may *)
(* fail, its process may die between two of them, and no lock keeps two of  *)
(* them apart: each writes what follows from the record it read at first.   *)
(***************************************************************************)
EXTENDS Naturals, FiniteSets

CONSTANTS
    TunnelIds,    \* ids of tunnels
    Ports,        \* ports the ingest daemon may be bound to
    NoTunnel,
    Callers,      \* operations that may be under way at one time
    MaxOps        \* bound: operations started

ASSUME TunnelAssumption == NoTunnel \notin TunnelIds /\ MaxOps \in Nat

VARIABLES
    tpMade,       \* tunnels that exist at the service
    tpPorts,      \* tpPorts[t]: ports mapped by tunnel t
    tpState,      \* remote-host.json
    tpOp,         \* tpOp[c]: the operation that c runs
    tpOps,        \* operations started so far
    tpWhy         \* how the mapping on record came about (see Causes)

tunnelVars == <<tpMade, tpPorts, tpState, tpOp, tpOps, tpWhy>>
service == <<tpMade, tpPorts>>
record == <<tpState, tpWhy>>

NoState == [id |-> NoTunnel, port |-> 0, canHost |-> FALSE]
Records == [id : TunnelIds, port : Ports, canHost : BOOLEAN] \cup {NoState}

\* History only, the code keeps none of it. given: nobody here has mapped the port;
\* mapped: `devtunnel port create` succeeded; refused: it failed, and so did a new
\* tunnel; raced: it succeeded, and another operation took the mapping away before
\* it was recorded; cut: an operation took it away and died.
Causes == {"given", "mapped", "refused", "raced", "cut"}

\* at: the next step; read: the record found at the start; new: the tunnel being
\* created; port: the ingest's port, as the caller was told; why: as tpWhy.
Rest == [at |-> "idle", read |-> NoState, new |-> NoTunnel, port |-> 0, why |-> "given"]
Steps == {"idle", "create", "map", "recordNew", "unmap", "remap", "record", "delete", "remove"}
Operations == [at : Steps, read : Records, new : TunnelIds \cup {NoTunnel},
               port : Ports \cup {0}, why : Causes]

TunnelTypeOK ==
    /\ tpMade \subseteq TunnelIds /\ tpPorts \in [TunnelIds -> SUBSET Ports]
    /\ tpState \in Records /\ tpWhy \in Causes /\ tpOps \in 0 .. MaxOps
    /\ tpOp \in [Callers -> Operations]

\* Tunnels may exist before: those of another machine, which map what their owner likes.
TunnelInit ==
    /\ tpMade \in SUBSET TunnelIds /\ tpPorts \in [TunnelIds -> SUBSET Ports]
    /\ \A t \in TunnelIds \ tpMade : tpPorts[t] = {}
    /\ tpState = NoState /\ tpWhy = "given"
    /\ tpOp = [c \in Callers |-> Rest] /\ tpOps = 0

Count == tpOps < MaxOps /\ tpOps' = tpOps + 1

Start(c, op) ==
    /\ tpOp[c] = Rest /\ Count /\ tpOp' = [tpOp EXCEPT ![c] = op]
    /\ UNCHANGED <<service, record>>

StartCreate(c, port) == Start(c, [Rest EXCEPT !.at = "create", !.port = port])

\* reconcile_tunnel_port goes on only where a record is found that has another port.
StartReconcile(c, port) ==
    /\ tpState # NoState /\ tpState.port # port
    /\ Start(c, [Rest EXCEPT !.at = IF tpState.canHost THEN "unmap" ELSE "record",
                             !.read = tpState, !.port = port])

StartDelete(c) ==
    Start(c, [Rest EXCEPT !.at = IF tpState.canHost THEN "delete" ELSE "remove", !.read = tpState])

\* Any id and port, recorded as given; nothing is mapped.
UseManualTunnel ==
    /\ Count
    /\ tpState' \in [id : TunnelIds, port : Ports, canHost : BOOLEAN] /\ tpWhy' = "given"
    /\ UNCHANGED <<service, tpOp>>

OpGoes(c, at) == tpOp' = [tpOp EXCEPT ![c].at = at]
OpEnds(c) == tpOp' = [tpOp EXCEPT ![c] = Rest]

\* The tunnel whose mapping an operation is about to record.
Target(op) == IF op.new = NoTunnel THEN op.read.id ELSE op.new

\* c goes on, having asked the service to take these mappings away, from under
\* whoever has made one of them and has yet to record it.
Takes(c, mappings, at) ==
    tpOp' = [x \in Callers |->
        IF x = c THEN [tpOp[c] EXCEPT !.at = at]
        ELSE IF tpOp[x].why = "mapped" /\ <<Target(tpOp[x]), tpOp[x].port>> \in mappings
             THEN [tpOp[x] EXCEPT !.why = "raced"]
        ELSE tpOp[x]]

\* A create that fails ends; within a reconcile, the latter records its port all the same.
CreateFails(c) ==
    IF tpOp[c].read = NoState THEN OpEnds(c)
    ELSE tpOp' = [tpOp EXCEPT ![c].at = "record", ![c].new = NoTunnel, ![c].why = "refused"]

\* `devtunnel create`: it fails, or makes a tunnel, the id of which its output may not tell.
Create(c) ==
    /\ tpOp[c].at = "create"
    /\ \/ \E t \in TunnelIds \ tpMade :
            /\ tpMade' = tpMade \cup {t}
            /\ tpOp' = [tpOp EXCEPT ![c].at = "map", ![c].new = t] \/ CreateFails(c)
       \/ CreateFails(c) /\ UNCHANGED tpMade
    /\ UNCHANGED <<tpPorts, record, tpOps>>

\* `devtunnel port create` of the new tunnel.
MapNew(c) ==
    /\ tpOp[c].at = "map"
    /\ \/ /\ tpOp[c].new \in tpMade
          /\ tpPorts' = [tpPorts EXCEPT ![tpOp[c].new] = @ \cup {tpOp[c].port}]
          /\ tpOp' = [tpOp EXCEPT ![c].at = "recordNew", ![c].why = "mapped"]
       \/ CreateFails(c) /\ UNCHANGED tpPorts
    /\ UNCHANGED <<tpMade, record, tpOps>>

\* The new tunnel is recorded, or the file cannot be written.
RecordNew(c) ==
    /\ tpOp[c].at = "recordNew"
    /\ \/ /\ tpState' = [id |-> tpOp[c].new, port |-> tpOp[c].port, canHost |-> TRUE]
          /\ tpWhy' = tpOp[c].why /\ OpEnds(c)
       \/ CreateFails(c) /\ UNCHANGED record
    /\ UNCHANGED <<service, tpOps>>

\* `devtunnel port delete` of the port that was read; its answer is not looked at.
Unmap(c) ==
    LET read == tpOp[c].read IN
    /\ tpOp[c].at = "unmap"
    /\ tpPorts' \in {tpPorts, [tpPorts EXCEPT ![read.id] = @ \ {read.port}]}
    /\ Takes(c, {<<read.id, read.port>>}, "remap")
    /\ UNCHANGED <<tpMade, record, tpOps>>

\* Mutant of Remap: a mapping that was refused is recorded without a new tunnel.
RemapUnchecked(c) ==
    LET id == tpOp[c].read.id IN
    /\ tpOp[c].at = "remap"
    /\ tpPorts' \in {tpPorts, [tpPorts EXCEPT ![id] = @ \cup {tpOp[c].port}]}
    /\ tpOp' = [tpOp EXCEPT ![c].at = "record", ![c].why = "mapped"]
    /\ UNCHANGED <<tpMade, record, tpOps>>

\* `devtunnel port create` of the actual port, or else a tunnel anew.
Remap(c) ==
    LET id == tpOp[c].read.id IN
    /\ tpOp[c].at = "remap"
    /\ \/ /\ id \in tpMade
          /\ tpPorts' = [tpPorts EXCEPT ![id] = @ \cup {tpOp[c].port}]
          /\ tpOp' = [tpOp EXCEPT ![c].at = "record", ![c].why = "mapped"]
       \/ OpGoes(c, "create") /\ UNCHANGED tpPorts
    /\ UNCHANGED <<tpMade, record, tpOps>>

\* The record as it was read, with the actual port, over whatever is there by now.
Record(c) ==
    /\ tpOp[c].at = "record"
    /\ tpState' = [tpOp[c].read EXCEPT !.port = tpOp[c].port]
    /\ tpWhy' = tpOp[c].why /\ OpEnds(c)
    /\ UNCHANGED <<service, tpOps>>

\* `devtunnel delete`; its answer is not looked at.
RunDelete(c) ==
    LET id == tpOp[c].read.id IN
    /\ tpOp[c].at = "delete"
    /\ \/ UNCHANGED service
       \/ tpMade' = tpMade \ {id} /\ tpPorts' = [tpPorts EXCEPT ![id] = {}]
    /\ Takes(c, {id} \X Ports, "remove")
    /\ UNCHANGED <<record, tpOps>>

\* Whatever is recorded by now is removed.
RemoveFile(c) ==
    /\ tpOp[c].at = "remove"
    /\ tpState' = NoState /\ tpWhy' = "given" /\ OpEnds(c)
    /\ UNCHANGED <<service, tpOps>>

\* The operation has asked the service to take away a mapping, and has yet to
\* replace the record that names it.
Took(op, mapping) ==
    /\ op.read.canHost /\ op.read.id = mapping.id
    /\ \/ op.at \in {"remap", "create", "map", "recordNew", "record"} /\ op.read.port = mapping.port
       \/ op.at = "remove"

\* The process that runs the operation dies, or its last write fails.
Interrupted(c) ==
    /\ tpOp[c] # Rest /\ OpEnds(c)
    /\ tpWhy' = IF tpWhy = "mapped" /\ Took(tpOp[c], tpState) THEN "cut" ELSE tpWhy
    /\ UNCHANGED <<service, tpState, tpOps>>

Creates(c) == Create(c) \/ MapNew(c) \/ RecordNew(c) \/ \E port \in Ports : StartCreate(c, port)
Reconciles(c) == Unmap(c) \/ Remap(c) \/ Record(c) \/ \E port \in Ports : StartReconcile(c, port)
Deletes(c) == StartDelete(c) \/ RunDelete(c) \/ RemoveFile(c)

TunnelNext ==
    \/ \E c \in Callers : Creates(c) \/ Reconciles(c) \/ Deletes(c) \/ Interrupted(c)
    \/ UseManualTunnel

TunnelSpec == TunnelInit /\ [][TunnelNext]_tunnelVars

Mapped == tpState.port \in tpPorts[tpState.id]

\* What create_tunnel or reconcile_tunnel_port has recorded after a `port create` that
\* succeeded is mapped (tunnel.rs:253), whatever record, refusal or debris of other
\* operations it started from.  It stays so until an operation takes the mapping away,
\* which then replaces the record, unless it dies.
RecordedMapped ==
    tpState.canHost /\ tpWhy = "mapped" => Mapped \/ \E c \in Callers : Took(tpOp[c], tpState)

\* RecordedMapped, and the files and the service hold only ids and ports that exist.
TunnelInv ==
    /\ TunnelTypeOK
    /\ RecordedMapped

\* Not so: "ensures the tunnel's port mapping matches the ingest's actual bound port"
\* (tunnel.rs:253).  A reconcile that is refused twice, cut short or raced leaves a record
\* without its mapping, and one for the recorded port returns at once (tunnel.rs:270).
NeverSkipped ==
    tpState.canHost /\ tpWhy # "given" /\ (\A c \in Callers : tpOp[c] = Rest) => Mapped

\* Not so: a reconcile replaces only the record that it has read (tunnel.rs:312).
OwnRecordReplaced == [][\A c \in Callers : Record(c) => tpState = tpOp[c].read]_tunnelVars
=============================================================================
