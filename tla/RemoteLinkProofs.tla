-------------------------- MODULE RemoteLinkProofs --------------------------
(***************************************************************************)
(* Proofs about RemoteLink, for any connections and sessions, any bounds on *)
(* the channels and the restarts, any room and any setting of the secrets   *)
(* and the bridge.  RemoteCorrect: what the ingest shows of the devbox is   *)
(* right, when one uplink target leads to it, no hello overtakes another,   *)
(* the watcher starts in time and the poll is prompt.  OneBridgeAlways: one *)
(* connection bridges a session, of which only the second is needed.        *)
(*                                                                         *)
(* The heart of the invariant is InOrder: of two advertisements the one the *)
(* ingest reads later is the newer, so what it lacks is gone for good.      *)
(***************************************************************************)
EXTENDS RemoteLink, FiniteSetTheorems, TLAPS

----------------------------------------------------------------------------
(* Channels as sequences *)

\* Reading an entry leaves the ones behind it.
LEMMA TailFacts ==
    ASSUME NEW T, NEW q \in Seq(T), q # <<>>
    PROVE  /\ Tail(q) \in Seq(T) /\ Len(Tail(q)) = Len(q) - 1 /\ Len(q) >= 1
           /\ \A i \in 1 .. Len(Tail(q)) : Tail(q)[i] = q[i + 1]
OBVIOUS

\* Reading a frame of the first entry leaves the others as they are.
LEMMA HeadFacts ==
    ASSUME NEW T, NEW q \in Seq(T), q # <<>>, NEW e \in T
    PROVE  /\ <<e>> \o Tail(q) \in Seq(T) /\ Len(<<e>> \o Tail(q)) = Len(q)
           /\ (<<e>> \o Tail(q))[1] = e
           /\ \A i \in 2 .. Len(q) : (<<e>> \o Tail(q))[i] = q[i]
           /\ Head(q) = q[1] /\ Head(q) \in T /\ Len(q) >= 1
OBVIOUS

\* Sending appends an entry.
LEMMA AppendFacts ==
    ASSUME NEW T, NEW q \in Seq(T), NEW e \in T
    PROVE  /\ q \o <<>> \o <<e>> \in Seq(T)
           /\ Len(q \o <<>> \o <<e>>) = Len(q) + 1
           /\ (q \o <<>> \o <<e>>)[Len(q) + 1] = e
           /\ \A i \in 1 .. Len(q) : (q \o <<>> \o <<e>>)[i] = q[i]
OBVIOUS

\* The first advertisement follows the hello.
LEMMA GreetFacts ==
    ASSUME NEW T, NEW h \in T, NEW e \in T
    PROVE  /\ <<>> \o <<h>> \o <<e>> \in Seq(T)
           /\ Len(<<>> \o <<h>> \o <<e>>) = 2
           /\ (<<>> \o <<h>> \o <<e>>)[1] = h
           /\ (<<>> \o <<h>> \o <<e>>)[2] = e
OBVIOUS

----------------------------------------------------------------------------
(* Types *)

UpType == [phase : {"idle", "greeted", "open", "closed"},
           advertised : SUBSET Sessions, dirty : BOOLEAN]
ConnType == [phase : {"none", "reading", "hello", "tearing", "closed"},
             label : BOOLEAN, waits : Conns \cup {None},
             sessions : SUBSET Sessions, shutdown : BOOLEAN, done : BOOLEAN]
RegistryType == [active : Conns \cup {None}, count : 0 .. MaxSessions,
                 dismissed : SUBSET Sessions]
PollType == [prev : SUBSET Sessions, gone : SUBSET Sessions]
DaemonType == [running : BOOLEAN, stops : 0 .. MaxStops]

TypeInv == TypeOK /\ chan \in [Conns -> Seq(AdvertType)]

\* What a connection holds fits in its room.
Sized == \A c \in Conns : /\ IsFiniteSet(ing[c].sessions)
                          /\ Cardinality(ing[c].sessions) =< MaxSessions

\* The types by name, so that they need not be expanded.
LEMMA Types ==
    ASSUME TypeInv
    PROVE  /\ local \in [Sessions -> Locals]
           /\ up \in [Conns -> UpType]
           /\ chan \in [Conns -> Seq(AdvertType)]
           /\ \A c \in Conns : Len(chan[c]) =< MaxQueue + 1
           /\ ing \in [Conns -> ConnType]
           /\ registry \in RegistryType
           /\ file \in [Sessions -> Statuses \cup {"none"}]
           /\ poll \in PollType /\ daemon \in DaemonType /\ removed \in SUBSET Sessions
BY DEF TypeInv, TypeOK, UpType, ConnType, RegistryType, PollType, DaemonType

\* And back, after a step.
LEMMA TypesAgain ==
    ASSUME local' \in [Sessions -> Locals],
           up' \in [Conns -> UpType],
           chan' \in [Conns -> Seq(AdvertType)],
           \A c \in Conns : Len(chan'[c]) =< MaxQueue + 1,
           ing' \in [Conns -> ConnType],
           registry' \in RegistryType,
           file' \in [Sessions -> Statuses \cup {"none"}],
           poll' \in PollType, daemon' \in DaemonType, removed' \in SUBSET Sessions
    PROVE  TypeInv'
<1>1. \A c \in Conns : \A i \in 1 .. Len(chan'[c]) : chan'[c][i] \in AdvertType
  OBVIOUS
<1> QED  BY <1>1 DEF TypeInv, TypeOK, UpType, ConnType, RegistryType, PollType, DaemonType

\* An entry has its type, and its head is its first.
LEMMA EntryType ==
    ASSUME TypeInv, NEW c \in Conns
    PROVE  \A i \in 1 .. Len(chan[c]) : chan[c][i] \in AdvertType
BY DEF TypeInv, TypeOK

\* A status as it is shown.
LEMMA ShownType == \A st \in Locals : /\ Shown(st) \in Locals
                                      /\ st \notin {"fresh", "deleted"} => Shown(st) \in Statuses
BY DEF Shown, Locals, Statuses

\* What reconcile sends.
LEMMA AdvertIsEntry ==
    ASSUME local \in [Sessions -> Locals], NEW gone \in SUBSET Sessions
    PROVE  /\ Hello \in AdvertType
           /\ Advert(OnDevbox, gone) \in AdvertType
           /\ Advert(OnDevbox, gone).kind = "advert"
           /\ Advert(OnDevbox, gone).list = OnDevbox
           /\ Advert(OnDevbox, gone).removed = gone
           /\ Advert(OnDevbox, gone).added = {[id |-> s, status |-> Shown(local[s])] : s \in OnDevbox}
<1>1. Hello \in AdvertType
  BY DEF Hello, AdvertType
<1>2. {[id |-> s, status |-> Shown(local[s])] : s \in OnDevbox} \in SUBSET [id : Sessions, status : Statuses]
  BY ShownType DEF OnDevbox
<1>3. OnDevbox \in SUBSET Sessions
  BY DEF OnDevbox
<1> QED  BY <1>1, <1>2, <1>3 DEF Advert, AdvertType

\* What the two frames that name one session leave of their entry.
LEMMA LeftType ==
    ASSUME NEW e \in AdvertType, NEW x
    PROVE  /\ Added(e, x) \in AdvertType /\ Added(e, x).kind = e.kind
           /\ Added(e, x).added = e.added \ {x}
           /\ Added(e, x).removed = e.removed /\ Added(e, x).list = e.list
           /\ Retracted(e, x) \in AdvertType /\ Retracted(e, x).kind = e.kind
           /\ Retracted(e, x).added = e.added
           /\ Retracted(e, x).removed = e.removed \ {x} /\ Retracted(e, x).list = e.list
BY DEF Added, Retracted, AdvertType

\* update_session_count touches the count only.
LEMMA CountedFacts ==
    ASSUME registry \in RegistryType, NEW n \in 0 .. MaxSessions
    PROVE  /\ Counted(n) \in RegistryType
           /\ Counted(n).active = registry.active /\ Counted(n).dismissed = registry.dismissed
           /\ registry.active # None => Counted(n).count = n
BY DEF Counted, RegistryType

\* add_session keeps to the room there is.
LEMMA HoldsSized ==
    ASSUME TypeInv, Sized, NEW c \in Conns, NEW m \in [id : Sessions, status : Statuses]
    PROVE  /\ Holds(c, m) \in SUBSET Sessions
           /\ IsFiniteSet(Holds(c, m)) /\ Cardinality(Holds(c, m)) \in 0 .. MaxSessions
<1> DEFINE S == ing[c].sessions
<1>1. S \in SUBSET Sessions /\ IsFiniteSet(S) /\ Cardinality(S) =< MaxSessions /\ m.id \in Sessions
  BY Types DEF Sized, ConnType
<1> HIDE DEF S
<1>2. Cardinality(S) \in Nat
  BY <1>1, FS_CardinalityType
<1>3. IsFiniteSet(S \ {m.id}) /\ Cardinality(S \ {m.id}) \in Nat /\ Cardinality(S \ {m.id}) =< Cardinality(S)
  <2>1. /\ IsFiniteSet(S \ {m.id})
        /\ Cardinality(S \ {m.id}) = IF m.id \in S THEN Cardinality(S) - 1 ELSE Cardinality(S)
    BY <1>1, FS_RemoveElement
  <2>2. Cardinality(S \ {m.id}) \in Nat
    BY <2>1, FS_CardinalityType
  <2> QED  BY <1>2, <2>1, <2>2
<1>4. IsFiniteSet(S \cup {m.id}) /\ Cardinality(S \cup {m.id}) \in Nat
      /\ Cardinality(S \cup {m.id}) =< Cardinality(S) + 1
  <2>1. /\ IsFiniteSet(S \cup {m.id})
        /\ Cardinality(S \cup {m.id}) = IF m.id \in S THEN Cardinality(S) ELSE Cardinality(S) + 1
    BY <1>1, FS_AddElement
  <2> QED  BY <1>2, <2>1
<1> QED  BY <1>1, <1>2, <1>3, <1>4, RemoteLinkAssumption DEF Holds, S

\* add_session writes statuses.
LEMMA FileTypes ==
    ASSUME TypeInv
    PROVE  /\ \A S : Deleted(S) \in [Sessions -> Statuses \cup {"none"}]
           /\ \A S : \A st \in Statuses : StatusPatched(S, st) \in [Sessions -> Statuses \cup {"none"}]
           /\ \A c : \A m \in [id : Sessions, status : Statuses] :
                AddSession(c, m) \in [Sessions -> Statuses \cup {"none"}]
           /\ ReconcileStale \in [Sessions -> Statuses \cup {"none"}]
BY Types DEF Deleted, StatusPatched, AddSession, ReconcileStale, Statuses

----------------------------------------------------------------------------
(* What the steps do, field by field *)

\* A connection after a step (its shutdown permit matters to no other part).
Becomes(c, phase, label, waits, sessions, done) ==
    /\ ing'[c].phase = phase /\ (ing'[c].label <=> label) /\ ing'[c].waits = waits
    /\ ing'[c].sessions = sessions /\ (ing'[c].done <=> done)

\* What other connections than c keep, and what none reads.
OthersKeep(c) == \A d \in Conns : d # c =>
    Becomes(d, ing[d].phase, ing[d].label, ing[d].waits, ing[d].sessions, ing[d].done)
OthersUnread(c) == \A d \in Conns : d # c => chan'[d] = chan[d]

\* The first entry of c is read.
Popped(c) ==
    /\ Len(chan[c]) >= 1 /\ Len(chan'[c]) = Len(chan[c]) - 1
    /\ \A i \in 1 .. Len(chan'[c]) : chan'[c][i] = chan[c][i + 1]

\* Records of connections, as the steps change them.
LEMMA ConnFields ==
    ASSUME NEW r \in ConnType
    PROVE  /\ LET q == [r EXCEPT !.shutdown = TRUE] IN
                /\ q \in ConnType /\ q.phase = r.phase /\ (q.label <=> r.label)
                /\ q.waits = r.waits /\ q.sessions = r.sessions /\ (q.done <=> r.done)
           /\ LET q == [r EXCEPT !.done = FALSE] IN
                /\ q \in ConnType /\ q.phase = r.phase /\ (q.label <=> r.label)
                /\ q.waits = r.waits /\ q.sessions = r.sessions /\ ~q.done
           /\ LET q == [r EXCEPT !.phase = "closed", !.done = TRUE] IN
                /\ q \in ConnType /\ q.phase = "closed" /\ (q.label <=> r.label)
                /\ q.waits = r.waits /\ q.sessions = r.sessions /\ q.done
           /\ LET q == [r EXCEPT !.phase = "tearing", !.sessions = {}] IN
                /\ q \in ConnType /\ q.phase = "tearing" /\ (q.label <=> r.label)
                /\ q.waits = r.waits /\ q.sessions = {} /\ (q.done <=> r.done)
           /\ LET q == [r EXCEPT !.phase = "reading", !.waits = None] IN
                /\ q \in ConnType /\ q.phase = "reading" /\ (q.label <=> r.label)
                /\ q.waits = None /\ q.sessions = r.sessions /\ (q.done <=> r.done)
BY DEF ConnType

\* One connection changes.
LEMMA ConnStep ==
    ASSUME TypeInv, NEW c \in Conns, NEW q \in ConnType, ing' = [ing EXCEPT ![c] = q]
    PROVE  /\ ing' \in [Conns -> ConnType] /\ OthersKeep(c)
           /\ Becomes(c, q.phase, q.label, q.waits, q.sessions, q.done)
BY Types DEF OthersKeep, Becomes

\* Its phase only.
LEMMA PhaseStep ==
    ASSUME TypeInv, NEW c \in Conns, NEW p \in {"none", "reading", "hello", "tearing", "closed"},
           ing' = [ing EXCEPT ![c].phase = p]
    PROVE  /\ ing' \in [Conns -> ConnType] /\ OthersKeep(c)
           /\ Becomes(c, p, ing[c].label, ing[c].waits, ing[c].sessions, ing[c].done)
<1> DEFINE q == [ing[c] EXCEPT !.phase = p]
<1>1. ing[c] \in ConnType
  BY Types
<1>2. /\ q \in ConnType /\ q.phase = p /\ (q.label <=> ing[c].label) /\ q.waits = ing[c].waits
      /\ q.sessions = ing[c].sessions /\ (q.done <=> ing[c].done)
  BY <1>1 DEF ConnType
<1>3. ing' = [ing EXCEPT ![c] = q]
  OBVIOUS
<1> HIDE DEF q
<1> QED  BY <1>2, <1>3, ConnStep DEF Becomes

\* Its sessions only.
LEMMA SessionsStep ==
    ASSUME TypeInv, NEW c \in Conns, NEW S \in SUBSET Sessions,
           ing' = [ing EXCEPT ![c].sessions = S]
    PROVE  /\ ing' \in [Conns -> ConnType] /\ OthersKeep(c)
           /\ Becomes(c, ing[c].phase, ing[c].label, ing[c].waits, S, ing[c].done)
<1> DEFINE q == [ing[c] EXCEPT !.sessions = S]
<1>1. ing[c] \in ConnType
  BY Types
<1>2. /\ q \in ConnType /\ q.phase = ing[c].phase /\ (q.label <=> ing[c].label)
      /\ q.waits = ing[c].waits /\ q.sessions = S /\ (q.done <=> ing[c].done)
  BY <1>1 DEF ConnType
<1>3. ing' = [ing EXCEPT ![c] = q]
  OBVIOUS
<1> HIDE DEF q
<1> QED  BY <1>2, <1>3, ConnStep DEF Becomes

\* Sessions leave connections: there is room still.
LEMMA SizedStays ==
    ASSUME Sized, \A d \in Conns : ing'[d].sessions \subseteq ing[d].sessions
    PROVE  Sized'
<1> SUFFICES ASSUME NEW d \in Conns
             PROVE  IsFiniteSet(ing'[d].sessions) /\ Cardinality(ing'[d].sessions) =< MaxSessions
  BY DEF Sized
<1>1. IsFiniteSet(ing[d].sessions) /\ Cardinality(ing[d].sessions) =< MaxSessions
  BY DEF Sized
<1>2. IsFiniteSet(ing'[d].sessions) /\ Cardinality(ing'[d].sessions) =< Cardinality(ing[d].sessions)
  BY <1>1, FS_Subset
<1>3. Cardinality(ing'[d].sessions) \in Nat /\ Cardinality(ing[d].sessions) \in Nat
  BY <1>1, <1>2, FS_CardinalityType
<1> QED  BY <1>1, <1>2, <1>3, RemoteLinkAssumption

\* The channel of c is gone.
LEMMA ClearedStep ==
    ASSUME TypeInv, NEW c \in Conns, chan' = [chan EXCEPT ![c] = <<>>]
    PROVE  /\ chan' \in [Conns -> Seq(AdvertType)] /\ chan'[c] = <<>> /\ OthersUnread(c)
           /\ \A d \in Conns : Len(chan'[d]) =< MaxQueue + 1
BY Types, RemoteLinkAssumption DEF OthersUnread

\* An entry of c is read.
LEMMA PoppedStep ==
    ASSUME TypeInv, NEW c \in Conns, chan[c] # <<>>, chan' = [chan EXCEPT ![c] = Tail(@)]
    PROVE  /\ chan' \in [Conns -> Seq(AdvertType)] /\ Popped(c) /\ OthersUnread(c)
           /\ \A d \in Conns : Len(chan'[d]) =< MaxQueue + 1
<1>1. chan \in [Conns -> Seq(AdvertType)] /\ \A d \in Conns : Len(chan[d]) =< MaxQueue + 1
  BY Types
<1> DEFINE q == Tail(chan[c])
<1>2. /\ q \in Seq(AdvertType) /\ Len(q) = Len(chan[c]) - 1 /\ Len(chan[c]) >= 1
      /\ \A i \in 1 .. Len(q) : q[i] = chan[c][i + 1]
  BY <1>1, TailFacts
<1>3. chan' = [chan EXCEPT ![c] = q]
  OBVIOUS
<1> HIDE DEF q
<1> QED  BY <1>1, <1>2, <1>3, RemoteLinkAssumption DEF Popped, OthersUnread

\* A frame of the first entry of c is read: e is what it leaves.
HeadLeft(c, e) ==
    /\ Len(chan[c]) >= 1 /\ Len(chan'[c]) = Len(chan[c]) /\ chan'[c][1] = e
    /\ \A i \in 2 .. Len(chan[c]) : chan'[c][i] = chan[c][i]

\* The step that reads it.
LEMMA HeadStep ==
    ASSUME TypeInv, NEW c \in Conns, chan[c] # <<>>, NEW e \in AdvertType,
           chan' = [chan EXCEPT ![c] = <<e>> \o Tail(@)]
    PROVE  /\ chan' \in [Conns -> Seq(AdvertType)] /\ HeadLeft(c, e) /\ OthersUnread(c)
           /\ \A d \in Conns : Len(chan'[d]) =< MaxQueue + 1
<1>1. chan \in [Conns -> Seq(AdvertType)] /\ \A d \in Conns : Len(chan[d]) =< MaxQueue + 1
  BY Types
<1> DEFINE q == <<e>> \o Tail(chan[c])
<1>2. /\ q \in Seq(AdvertType) /\ Len(q) = Len(chan[c]) /\ Len(chan[c]) >= 1
      /\ q[1] = e /\ \A i \in 2 .. Len(chan[c]) : q[i] = chan[c][i]
  BY <1>1, HeadFacts
<1>3. chan' = [chan EXCEPT ![c] = q]
  OBVIOUS
<1> HIDE DEF q
<1> QED  BY <1>1, <1>2, <1>3 DEF HeadLeft, OthersUnread

\* The frame loop reads the first entry.
LEMMA ReadsFacts ==
    ASSUME TypeInv, NEW c \in Conns, NEW k, Reads(c, k)
    PROVE  /\ daemon.running /\ ing[c].phase = "reading" /\ chan[c] # <<>> /\ Len(chan[c]) >= 1
           /\ chan[c][1].kind = k /\ Head(chan[c]) = chan[c][1] /\ chan[c][1] \in AdvertType
<1>1. chan[c] \in Seq(AdvertType) /\ chan[c] # <<>>
  BY Types DEF Reads
<1>2. Len(chan[c]) >= 1 /\ Head(chan[c]) = chan[c][1] /\ chan[c][1] \in AdvertType
  BY <1>1
<1> QED  BY <1>2 DEF Reads

----------------------------------------------------------------------------
(* The steps of the ingest *)

\* Accept reads what the connection brings, or drops it.
LEMMA AcceptShape ==
    ASSUME TypeInv, Sized, NEW c \in Conns, Accept(c)
    PROVE  /\ TypeInv' /\ Sized' /\ UNCHANGED <<devVars, registry, file, poll, daemon, removed>>
           /\ OthersKeep(c) /\ OthersUnread(c)
           /\ daemon.running /\ up[c].phase # "idle" /\ ing[c].phase = "none"
           /\ \/ /\ Becomes(c, "reading", ing[c].label, ing[c].waits, ing[c].sessions, ing[c].done)
                 /\ chan'[c] = chan[c]
              \/ /\ Becomes(c, "closed", ing[c].label, ing[c].waits, ing[c].sessions, ing[c].done)
                 /\ chan'[c] = <<>>
<1>1. CASE ing' = [ing EXCEPT ![c].phase = "reading"] /\ chan' = chan
  <2>1. ing' \in [Conns -> ConnType] /\ OthersKeep(c)
        /\ Becomes(c, "reading", ing[c].label, ing[c].waits, ing[c].sessions, ing[c].done)
    BY <1>1, PhaseStep
  <2>2. TypeInv'
    BY <1>1, <2>1, Types, TypesAgain DEF Accept, devVars
  <2>3. Sized'
    BY <2>1 DEF Sized, OthersKeep, Becomes
  <2> QED  BY <1>1, <2>1, <2>2, <2>3 DEF Accept, devVars, OthersUnread
<1>2. CASE ing' = [ing EXCEPT ![c].phase = "closed"] /\ chan' = [chan EXCEPT ![c] = <<>>]
  <2>1. ing' \in [Conns -> ConnType] /\ OthersKeep(c)
        /\ Becomes(c, "closed", ing[c].label, ing[c].waits, ing[c].sessions, ing[c].done)
    BY <1>2, PhaseStep
  <2>2. /\ chan' \in [Conns -> Seq(AdvertType)] /\ chan'[c] = <<>> /\ OthersUnread(c)
        /\ \A d \in Conns : Len(chan'[d]) =< MaxQueue + 1
    BY <1>2, ClearedStep
  <2>3. TypeInv'
    BY <2>1, <2>2, Types, TypesAgain DEF Accept, devVars
  <2>4. Sized'
    BY <2>1 DEF Sized, OthersKeep, Becomes
  <2> QED  BY <2>1, <2>2, <2>3, <2>4 DEF Accept, devVars
<1> QED  BY <1>1, <1>2 DEF Accept

\* A refused hello closes the connection.
LEMMA HelloRefusedShape ==
    ASSUME TypeInv, Sized, NEW c \in Conns, HelloRefused(c)
    PROVE  /\ TypeInv' /\ Sized' /\ UNCHANGED <<devVars, registry, file, poll, daemon, removed>>
           /\ OthersKeep(c) /\ OthersUnread(c) /\ Reads(c, "hello")
           /\ Becomes(c, "closed", ing[c].label, ing[c].waits, ing[c].sessions, ing[c].done)
           /\ chan'[c] = <<>>
<1>1. ing' \in [Conns -> ConnType] /\ OthersKeep(c)
      /\ Becomes(c, "closed", ing[c].label, ing[c].waits, ing[c].sessions, ing[c].done)
  BY PhaseStep DEF HelloRefused
<1>2. /\ chan' \in [Conns -> Seq(AdvertType)] /\ chan'[c] = <<>> /\ OthersUnread(c)
      /\ \A d \in Conns : Len(chan'[d]) =< MaxQueue + 1
  BY ClearedStep DEF HelloRefused
<1>3. TypeInv'
  BY <1>1, <1>2, Types, TypesAgain DEF HelloRefused, devVars
<1>4. Sized'
  BY <1>1 DEF Sized, OthersKeep, Becomes
<1> QED  BY <1>1, <1>2, <1>3, <1>4 DEF HelloRefused

\* An honoured hello waits for the registered connection.
LEMMA HelloEvictsShape ==
    ASSUME TypeInv, Sized, NEW c \in Conns, HelloEvicts(c)
    PROVE  /\ TypeInv' /\ Sized' /\ UNCHANGED <<devVars, registry, file, poll, daemon, removed>>
           /\ OthersKeep(c) /\ OthersUnread(c) /\ Reads(c, "hello")
           /\ Becomes(c, "hello", TRUE, registry.active, ing[c].sessions, ing[c].done)
           /\ Popped(c)
<1> DEFINE q == [ing[c] EXCEPT !.phase = "hello", !.label = TRUE, !.waits = registry.active]
           r(d) == [ing[d] EXCEPT !.shutdown = TRUE]
<1>t. \A d \in Conns : ing[d] \in ConnType
  BY Types
<1>w. registry.active \in Conns \cup {None}
  BY Types DEF RegistryType
<1>1. /\ q \in ConnType /\ q.phase = "hello" /\ q.label /\ q.waits = registry.active
      /\ q.sessions = ing[c].sessions /\ (q.done <=> ing[c].done)
  BY <1>t, <1>w DEF ConnType
<1>2. \A d \in Conns : /\ r(d) \in ConnType /\ r(d).phase = ing[d].phase
                       /\ (r(d).label <=> ing[d].label) /\ r(d).waits = ing[d].waits
                       /\ r(d).sessions = ing[d].sessions /\ (r(d).done <=> ing[d].done)
  BY <1>t, ConnFields
<1>3. ing' = [d \in Conns |-> IF d = c THEN q ELSE IF d = registry.active THEN r(d) ELSE ing[d]]
  BY DEF HelloEvicts
<1> HIDE DEF q, r
<1>4. ing' \in [Conns -> ConnType] /\ OthersKeep(c)
  BY <1>1, <1>2, <1>3, <1>t DEF OthersKeep, Becomes
<1>5. Becomes(c, "hello", TRUE, registry.active, ing[c].sessions, ing[c].done)
  BY <1>1, <1>3 DEF Becomes
<1>6. /\ chan' \in [Conns -> Seq(AdvertType)] /\ Popped(c) /\ OthersUnread(c)
      /\ \A d \in Conns : Len(chan'[d]) =< MaxQueue + 1
  BY PoppedStep DEF HelloEvicts, Reads
<1>7. TypeInv'
  BY <1>4, <1>6, Types, TypesAgain DEF HelloEvicts, devVars
<1>8. Sized'
  BY <1>4, <1>5 DEF Sized, OthersKeep, Becomes
<1> QED  BY <1>4, <1>5, <1>6, <1>7, <1>8 DEF HelloEvicts

\* It takes the permit of the one it waited for, and is the registered one.
LEMMA HelloRegistersShape ==
    ASSUME TypeInv, Sized, NEW c \in Conns, HelloRegisters(c)
    PROVE  /\ TypeInv' /\ Sized' /\ UNCHANGED <<devVars, chan, file, poll, daemon, removed>>
           /\ ing[c].phase = "hello"
           /\ ing[c].waits # None => ing[ing[c].waits].done
           /\ Becomes(c, "reading", ing[c].label, None, ing[c].sessions, ing[c].done)
           /\ \A d \in Conns : d # c =>
                Becomes(d, ing[d].phase, ing[d].label, ing[d].waits, ing[d].sessions,
                        d # ing[c].waits /\ ing[d].done)
           /\ registry'.active = c /\ registry'.count = 0
           /\ registry'.dismissed = registry.dismissed
<1> DEFINE q == [ing[c] EXCEPT !.phase = "reading", !.waits = None]
           r(d) == [ing[d] EXCEPT !.done = FALSE]
<1>t. \A d \in Conns : ing[d] \in ConnType
  BY Types
<1>1. /\ q \in ConnType /\ q.phase = "reading" /\ (q.label <=> ing[c].label) /\ q.waits = None
      /\ q.sessions = ing[c].sessions /\ (q.done <=> ing[c].done)
  BY <1>t, ConnFields
<1>2. \A d \in Conns : /\ r(d) \in ConnType /\ r(d).phase = ing[d].phase
                       /\ (r(d).label <=> ing[d].label) /\ r(d).waits = ing[d].waits
                       /\ r(d).sessions = ing[d].sessions /\ ~r(d).done
  BY <1>t, ConnFields
<1>3. ing' = [d \in Conns |-> IF d = c THEN q ELSE IF d = ing[c].waits THEN r(d) ELSE ing[d]]
  BY DEF HelloRegisters
<1> HIDE DEF q, r
<1>4. ing' \in [Conns -> ConnType]
  BY <1>1, <1>2, <1>3, <1>t
<1>5. Becomes(c, "reading", ing[c].label, None, ing[c].sessions, ing[c].done)
  BY <1>1, <1>3 DEF Becomes
<1>6. \A d \in Conns : d # c =>
        Becomes(d, ing[d].phase, ing[d].label, ing[d].waits, ing[d].sessions,
                d # ing[c].waits /\ ing[d].done)
  BY <1>2, <1>3 DEF Becomes
<1>7. /\ registry' \in RegistryType
      /\ registry'.active = c /\ registry'.count = 0 /\ registry'.dismissed = registry.dismissed
  <2>1. registry \in RegistryType /\ 0 \in 0 .. MaxSessions
    BY Types, RemoteLinkAssumption
  <2>2. registry' = [registry EXCEPT !.active = c, !.count = 0]
    BY DEF HelloRegisters
  <2> QED  BY <2>1, <2>2 DEF RegistryType
<1>8. TypeInv'
  BY <1>4, <1>7, Types, TypesAgain DEF HelloRegisters, devVars
<1>9. Sized'
  BY <1>5, <1>6 DEF Sized, Becomes
<1> QED  BY <1>5, <1>6, <1>7, <1>8, <1>9 DEF HelloRegisters

----------------------------------------------------------------------------
(* The stages of a connection *)

\* The ingest may still read what the connection brings, and has not registered
\* it yet; the uplink still serves it.
Readable(c) == up[c].phase # "idle" /\ ing[c].phase \in {"none", "reading", "hello"}
Greeting(c) == Readable(c) /\ (ing[c].phase = "hello" \/ ~ing[c].label)
Linked(c) == up[c].phase \in {"greeted", "open"}

\* What goes with a phase.
Phases(c) ==
    /\ up[c].phase = "idle" => ing[c].phase = "none"
    /\ ing[c].phase = "none" => ~ing[c].label
    /\ ing[c].phase = "hello" => ing[c].label /\ registry.active \in {ing[c].waits, None}
    /\ ing[c].sessions # {} => ing[c].phase = "reading" /\ ing[c].label
    /\ ing[c].done => ing[c].phase = "closed"
    /\ ~daemon.running => up[c].phase = "idle" \/ ing[c].phase = "closed"

\* The hello comes first, then advertisements, one at least.
Queued(c) ==
    /\ up[c].phase = "idle" \/ ing[c].phase = "closed" => Len(chan[c]) = 0
    /\ ing[c].phase = "hello" => Len(chan[c]) >= 1
    /\ Readable(c) /\ ing[c].label => \A i \in 1 .. Len(chan[c]) : chan[c][i].kind = "advert"
    /\ Readable(c) /\ ~ing[c].label =>
         /\ Len(chan[c]) >= 2 /\ chan[c][1].kind = "hello"
         /\ \A i \in 2 .. Len(chan[c]) : chan[c][i].kind = "advert"

\* The registry names the connection that is served.
Active(c) == registry.active = c <=> ing[c].label /\ ing[c].phase \in {"reading", "tearing"}

Stages == \A c \in Conns : Phases(c) /\ Queued(c) /\ Active(c)

\* A connection whose advertisements are read is the registered one; the others
\* that may be read have their hello before them.
LEMMA ReaderFacts ==
    ASSUME TypeInv, Stages, NEW c \in Conns, Reads(c, "advert")
    PROVE  /\ ing[c].label /\ registry.active = c /\ Readable(c) /\ ~Greeting(c)
           /\ \A i \in 1 .. Len(chan[c]) : chan[c][i].kind = "advert"
           /\ \A d \in Conns : d # c => /\ ing[d].sessions = {}
                                        /\ Readable(d) => Greeting(d)
<1>1. /\ ing[c].phase = "reading" /\ Len(chan[c]) >= 1 /\ chan[c][1].kind = "advert"
  BY ReadsFacts
<1>2. up[c].phase # "idle"
  BY <1>1 DEF Stages, Phases
<1>3. ing[c].label
  BY <1>1, <1>2 DEF Stages, Queued, Readable
<1>4. registry.active = c /\ Readable(c) /\ ~Greeting(c)
  BY <1>1, <1>2, <1>3 DEF Stages, Active, Readable, Greeting
<1>5. \A i \in 1 .. Len(chan[c]) : chan[c][i].kind = "advert"
  BY <1>3, <1>4 DEF Stages, Queued
<1>6. ASSUME NEW d \in Conns, d # c
      PROVE  ing[d].sessions = {} /\ (Readable(d) => Greeting(d))
  <2>1. ~(ing[d].label /\ ing[d].phase \in {"reading", "tearing"})
    BY <1>4, <1>6 DEF Stages, Active
  <2>2. Phases(d)
    BY DEF Stages
  <2> QED  BY <2>1, <2>2 DEF Phases, Readable, Greeting
<1> QED  BY <1>3, <1>4, <1>5, <1>6

\* A connection whose hello is read has no label yet.
LEMMA GreeterFacts ==
    ASSUME TypeInv, Stages, NEW c \in Conns, Reads(c, "hello")
    PROVE  ~ing[c].label /\ Readable(c) /\ Greeting(c) /\ Len(chan[c]) >= 2
<1>1. /\ ing[c].phase = "reading" /\ Len(chan[c]) >= 1 /\ chan[c][1].kind = "hello"
  BY ReadsFacts
<1>2. up[c].phase # "idle"
  BY <1>1 DEF Stages, Phases
<1>3. ~ing[c].label
  BY <1>1, <1>2 DEF Stages, Queued, Readable
<1> QED  BY <1>1, <1>2, <1>3 DEF Stages, Queued, Readable, Greeting

\* session-added: one session is taken on as add_session does.
LEMMA HandleAddedShape ==
    ASSUME TypeInv, Sized, Stages, NEW c \in Conns, HandleAdded(c)
    PROVE  /\ TypeInv' /\ Sized' /\ UNCHANGED <<devVars, poll, daemon, removed>>
           /\ OthersKeep(c) /\ OthersUnread(c) /\ Reads(c, "advert")
           /\ \E m \in chan[c][1].added :
                /\ m \in [id : Sessions, status : Statuses]
                /\ HeadLeft(c, Added(chan[c][1], m))
                /\ Becomes(c, "reading", TRUE, ing[c].waits, Holds(c, m), ing[c].done)
                /\ file' = AddSession(c, m)
                /\ registry'.active = c /\ registry'.dismissed = registry.dismissed
                /\ registry'.count = Cardinality(Holds(c, m))
<1>r. Reads(c, "advert")
  BY DEF HandleAdded
<1>e. /\ ing[c].phase = "reading" /\ chan[c] # <<>>
      /\ Head(chan[c]) = chan[c][1] /\ chan[c][1] \in AdvertType
  BY <1>r, ReadsFacts
<1>l. ing[c].label /\ registry.active = c
  BY <1>r, ReaderFacts
<1>1. PICK m \in chan[c][1].added :
        /\ chan' = [chan EXCEPT ![c] = <<Added(Head(@), m)>> \o Tail(@)]
        /\ ing' = [ing EXCEPT ![c].sessions = Holds(c, m)]
        /\ file' = AddSession(c, m)
        /\ registry' = Counted(Cardinality(Holds(c, m)))
  BY <1>e, <1>l DEF HandleAdded
<1>2. m \in [id : Sessions, status : Statuses]
  BY <1>e DEF AdvertType
<1>3. chan' = [chan EXCEPT ![c] = <<Added(chan[c][1], m)>> \o Tail(@)]
  BY <1>1, <1>e
<1>4. /\ chan' \in [Conns -> Seq(AdvertType)] /\ HeadLeft(c, Added(chan[c][1], m)) /\ OthersUnread(c)
      /\ \A d \in Conns : Len(chan'[d]) =< MaxQueue + 1
  BY <1>3, <1>e, HeadStep, LeftType
<1>5. /\ Holds(c, m) \in SUBSET Sessions
      /\ IsFiniteSet(Holds(c, m)) /\ Cardinality(Holds(c, m)) \in 0 .. MaxSessions
  BY <1>2, HoldsSized
<1>6. /\ ing' \in [Conns -> ConnType] /\ OthersKeep(c)
      /\ Becomes(c, ing[c].phase, ing[c].label, ing[c].waits, Holds(c, m), ing[c].done)
  BY <1>1, <1>5, SessionsStep
<1>7. /\ registry' \in RegistryType /\ registry'.active = c
      /\ registry'.dismissed = registry.dismissed
      /\ registry'.count = Cardinality(Holds(c, m))
  <2>1. registry \in RegistryType /\ c # None
    BY Types, RemoteLinkAssumption
  <2> QED  BY <1>1, <1>5, <1>l, <2>1, CountedFacts
<1>8. file' \in [Sessions -> Statuses \cup {"none"}]
  BY <1>1, <1>2, FileTypes
<1>9. UNCHANGED <<devVars, poll, daemon, removed>>
  BY DEF HandleAdded
<1>10. TypeInv'
  BY <1>4, <1>6, <1>7, <1>8, <1>9, Types, TypesAgain DEF devVars
<1>11. Sized'
  BY <1>5, <1>6 DEF Sized, OthersKeep, Becomes
<1>12. Becomes(c, "reading", TRUE, ing[c].waits, Holds(c, m), ing[c].done)
  BY <1>6, <1>e, <1>l DEF Becomes
<1> QED  BY <1>1, <1>2, <1>4, <1>6, <1>7, <1>9, <1>10, <1>11, <1>12, <1>r

\* session-removed: one session goes.
LEMMA HandleRemovedShape ==
    ASSUME TypeInv, Sized, Stages, NEW c \in Conns, HandleRemoved(c)
    PROVE  /\ TypeInv' /\ Sized' /\ UNCHANGED <<devVars, poll, daemon, removed>>
           /\ OthersKeep(c) /\ OthersUnread(c) /\ Reads(c, "advert")
           /\ chan[c][1].added = {}
           /\ \E s \in chan[c][1].removed :
                /\ s \in Sessions
                /\ HeadLeft(c, Retracted(chan[c][1], s))
                /\ Becomes(c, "reading", TRUE, ing[c].waits, ing[c].sessions \ {s}, ing[c].done)
                /\ file' = Deleted({s} \cap ing[c].sessions)
                /\ registry'.active = c /\ registry'.dismissed = registry.dismissed
                /\ registry'.count = Cardinality(ing[c].sessions \ {s})
<1>r. Reads(c, "advert")
  BY DEF HandleRemoved
<1>e. /\ ing[c].phase = "reading" /\ chan[c] # <<>>
      /\ Head(chan[c]) = chan[c][1] /\ chan[c][1] \in AdvertType
  BY <1>r, ReadsFacts
<1>l. ing[c].label /\ registry.active = c
  BY <1>r, ReaderFacts
<1>1. PICK s \in chan[c][1].removed :
        /\ chan' = [chan EXCEPT ![c] = <<Retracted(Head(@), s)>> \o Tail(@)]
        /\ ing' = [ing EXCEPT ![c].sessions = @ \ {s}]
        /\ file' = Deleted({s} \cap ing[c].sessions)
        /\ registry' = Counted(Cardinality(ing[c].sessions \ {s}))
  BY <1>e, <1>l DEF HandleRemoved
<1>2. s \in Sessions
  BY <1>e DEF AdvertType
<1>3. chan' = [chan EXCEPT ![c] = <<Retracted(chan[c][1], s)>> \o Tail(@)]
  BY <1>1, <1>e
<1>4. /\ chan' \in [Conns -> Seq(AdvertType)] /\ HeadLeft(c, Retracted(chan[c][1], s))
      /\ OthersUnread(c) /\ \A d \in Conns : Len(chan'[d]) =< MaxQueue + 1
  BY <1>3, <1>e, HeadStep, LeftType
<1> DEFINE S == ing[c].sessions \ {s}
<1>5. S \in SUBSET Sessions
  BY Types DEF ConnType
<1>6. /\ ing' \in [Conns -> ConnType] /\ OthersKeep(c)
      /\ Becomes(c, ing[c].phase, ing[c].label, ing[c].waits, S, ing[c].done)
  <2>1. ing' = [ing EXCEPT ![c].sessions = S]
    BY <1>1
  <2> HIDE DEF S
  <2> QED  BY <1>5, <2>1, SessionsStep
<1>7. Sized'
  BY <1>6, SizedStays DEF OthersKeep, Becomes
<1>8. Cardinality(S) \in 0 .. MaxSessions
  <2>1. IsFiniteSet(S) /\ Cardinality(S) =< MaxSessions
    BY <1>6, <1>7 DEF Sized, Becomes
  <2> QED  BY <2>1, FS_CardinalityType, RemoteLinkAssumption
<1>9. /\ registry' \in RegistryType /\ registry'.active = c
      /\ registry'.dismissed = registry.dismissed
      /\ registry'.count = Cardinality(S)
  <2>1. registry \in RegistryType /\ c # None
    BY Types, RemoteLinkAssumption
  <2>2. registry' = Counted(Cardinality(S))
    BY <1>1
  <2> HIDE DEF S
  <2> QED  BY <1>8, <1>l, <2>1, <2>2, CountedFacts
<1>10. file' \in [Sessions -> Statuses \cup {"none"}]
  BY <1>1, FileTypes
<1>11. UNCHANGED <<devVars, poll, daemon, removed>> /\ chan[c][1].added = {}
  BY <1>e DEF HandleRemoved
<1>12. TypeInv'
  BY <1>4, <1>6, <1>9, <1>10, <1>11, Types, TypesAgain DEF devVars
<1>13. Becomes(c, "reading", TRUE, ing[c].waits, S, ing[c].done)
  BY <1>6, <1>e, <1>l DEF Becomes
<1> QED  BY <1>1, <1>2, <1>4, <1>6, <1>7, <1>9, <1>11, <1>12, <1>13, <1>r

\* session-list: when it is honoured, what it lacks goes.
LEMMA HandleListShape ==
    ASSUME TypeInv, Sized, Stages, NEW c \in Conns, HandleList(c)
    PROVE  /\ TypeInv' /\ Sized' /\ UNCHANGED <<devVars, poll, daemon, removed>>
           /\ OthersKeep(c) /\ OthersUnread(c) /\ Reads(c, "advert") /\ Popped(c)
           /\ chan[c][1].added = {}
           /\ \/ /\ UplinkSecret = IngestSecret
                 /\ Becomes(c, "reading", TRUE, ing[c].waits,
                            ing[c].sessions \cap chan[c][1].list, ing[c].done)
                 /\ file' = Deleted((Sessions \ chan[c][1].list) \cup registry.dismissed)
                 /\ registry'.active = c /\ registry'.dismissed = registry.dismissed
                 /\ registry'.count = Cardinality(ing[c].sessions \cap chan[c][1].list)
              \/ /\ UplinkSecret # IngestSecret
                 /\ UNCHANGED <<ing, file, registry>>
<1>r. Reads(c, "advert")
  BY DEF HandleList
<1>e. /\ ing[c].phase = "reading" /\ chan[c] # <<>>
      /\ Head(chan[c]) = chan[c][1] /\ chan[c][1] \in AdvertType
  BY <1>r, ReadsFacts
<1>l. ing[c].label /\ registry.active = c
  BY <1>r, ReaderFacts
<1>1. /\ chan' \in [Conns -> Seq(AdvertType)] /\ Popped(c) /\ OthersUnread(c)
      /\ \A d \in Conns : Len(chan'[d]) =< MaxQueue + 1
  BY <1>e, PoppedStep DEF HandleList
<1>2. UNCHANGED <<devVars, poll, daemon, removed>> /\ chan[c][1].added = {}
  BY <1>e DEF HandleList
<1>3. CASE UplinkSecret # IngestSecret
  <2>1. UNCHANGED <<ing, file, registry>>
    BY <1>3 DEF HandleList, Honoured
  <2>2. TypeInv'
    BY <1>1, <1>2, <2>1, Types, TypesAgain DEF devVars
  <2>3. Sized' /\ OthersKeep(c)
    BY <2>1 DEF Sized, OthersKeep, Becomes
  <2> QED  BY <1>1, <1>2, <1>3, <1>r, <2>1, <2>2, <2>3
<1>4. CASE UplinkSecret = IngestSecret
  <2> DEFINE S == ing[c].sessions \cap chan[c][1].list
  <2>1. S \in SUBSET Sessions
    BY Types DEF ConnType
  <2>2. /\ ing' = [ing EXCEPT ![c].sessions = S]
        /\ file' = Deleted((Sessions \ chan[c][1].list) \cup registry.dismissed)
        /\ registry' = Counted(Cardinality(S))
    BY <1>4, <1>l, <1>e DEF HandleList, Honoured
  <2>s. S \subseteq ing[c].sessions
    OBVIOUS
  <2> HIDE DEF S
  <2>3. /\ ing' \in [Conns -> ConnType] /\ OthersKeep(c)
        /\ Becomes(c, ing[c].phase, ing[c].label, ing[c].waits, S, ing[c].done)
    BY <2>1, <2>2, SessionsStep
  <2>4. Sized'
    BY <2>3, <2>s, SizedStays DEF OthersKeep, Becomes
  <2>5. Cardinality(S) \in 0 .. MaxSessions
    <3>1. IsFiniteSet(S) /\ Cardinality(S) =< MaxSessions
      BY <2>3, <2>4 DEF Sized, Becomes
    <3> QED  BY <3>1, FS_CardinalityType, RemoteLinkAssumption
  <2>6. /\ registry' \in RegistryType /\ registry'.active = c
        /\ registry'.dismissed = registry.dismissed
        /\ registry'.count = Cardinality(S)
    <3>1. registry \in RegistryType /\ c # None
      BY Types, RemoteLinkAssumption
    <3> QED  BY <1>l, <2>2, <2>5, <3>1, CountedFacts
  <2>7. file' \in [Sessions -> Statuses \cup {"none"}]
    BY <2>2, FileTypes
  <2>8. TypeInv'
    BY <1>1, <1>2, <2>3, <2>6, <2>7, Types, TypesAgain DEF devVars
  <2>9. Becomes(c, "reading", TRUE, ing[c].waits, S, ing[c].done)
    BY <2>3, <1>e, <1>l DEF Becomes
  <2> QED  BY <1>1, <1>2, <1>4, <1>r, <2>2, <2>3, <2>4, <2>6, <2>8, <2>9 DEF S
<1> QED  BY <1>3, <1>4

\* The end of a connection: its files are patched.
LEMMA TeardownShape ==
    ASSUME TypeInv, Sized, NEW c \in Conns, Teardown(c)
    PROVE  /\ TypeInv' /\ Sized' /\ UNCHANGED <<devVars, chan, registry, poll, daemon, removed>>
           /\ OthersKeep(c) /\ daemon.running /\ ing[c].phase = "reading"
           /\ Becomes(c, "tearing", ing[c].label, ing[c].waits, {}, ing[c].done)
           /\ file' = StatusPatched(ing[c].sessions, "disconnected")
<1> DEFINE q == [ing[c] EXCEPT !.phase = "tearing", !.sessions = {}]
<1>1. ing[c] \in ConnType
  BY Types
<1>2. /\ q \in ConnType /\ q.phase = "tearing" /\ (q.label <=> ing[c].label)
      /\ q.waits = ing[c].waits /\ q.sessions = {} /\ (q.done <=> ing[c].done)
  BY <1>1, ConnFields
<1>3. ing' = [ing EXCEPT ![c] = q]
  BY DEF Teardown
<1> HIDE DEF q
<1>4. /\ ing' \in [Conns -> ConnType] /\ OthersKeep(c)
      /\ Becomes(c, "tearing", ing[c].label, ing[c].waits, {}, ing[c].done)
  BY <1>2, <1>3, ConnStep DEF Becomes
<1>5. /\ file' = StatusPatched(ing[c].sessions, "disconnected")
      /\ file' \in [Sessions -> Statuses \cup {"none"}]
  BY FileTypes DEF Teardown, Statuses
<1>6. UNCHANGED <<devVars, chan, registry, poll, daemon, removed>>
      /\ daemon.running /\ ing[c].phase = "reading"
  BY DEF Teardown
<1>7. TypeInv'
  BY <1>4, <1>5, <1>6, Types, TypesAgain DEF devVars
<1>8. Sized'
  BY <1>4, SizedStays DEF OthersKeep, Becomes
<1> QED  BY <1>4, <1>5, <1>6, <1>7, <1>8

\* mark_torn_down: only the registered connection leaves the registry.
LEMMA MarkTornDownShape ==
    ASSUME TypeInv, Sized, NEW c \in Conns, MarkTornDown(c)
    PROVE  /\ TypeInv' /\ Sized' /\ UNCHANGED <<devVars, file, poll, daemon, removed>>
           /\ OthersKeep(c) /\ OthersUnread(c) /\ chan'[c] = <<>>
           /\ daemon.running /\ ing[c].phase = "tearing"
           /\ registry'.dismissed = registry.dismissed
           /\ \/ /\ registry.active = c /\ registry'.active = None
                 /\ Becomes(c, "closed", ing[c].label, ing[c].waits, ing[c].sessions, TRUE)
              \/ /\ registry.active # c /\ registry' = registry
                 /\ Becomes(c, "closed", ing[c].label, ing[c].waits, ing[c].sessions, ing[c].done)
<1>1. /\ chan' \in [Conns -> Seq(AdvertType)] /\ chan'[c] = <<>> /\ OthersUnread(c)
      /\ \A d \in Conns : Len(chan'[d]) =< MaxQueue + 1
  BY ClearedStep DEF MarkTornDown
<1>2. UNCHANGED <<devVars, file, poll, daemon, removed>>
      /\ daemon.running /\ ing[c].phase = "tearing"
  BY DEF MarkTornDown
<1>3. CASE registry.active = c
  <2> DEFINE q == [ing[c] EXCEPT !.phase = "closed", !.done = TRUE]
  <2>1. ing[c] \in ConnType /\ registry \in RegistryType
    BY Types
  <2>2. /\ q \in ConnType /\ q.phase = "closed" /\ (q.label <=> ing[c].label)
        /\ q.waits = ing[c].waits /\ q.sessions = ing[c].sessions /\ q.done
    BY <2>1, ConnFields
  <2>3. ing' = [ing EXCEPT ![c] = q] /\ registry' = [registry EXCEPT !.active = None, !.count = 0]
    BY <1>3 DEF MarkTornDown
  <2> HIDE DEF q
  <2>4. /\ ing' \in [Conns -> ConnType] /\ OthersKeep(c)
        /\ Becomes(c, "closed", ing[c].label, ing[c].waits, ing[c].sessions, TRUE)
    BY <2>2, <2>3, ConnStep DEF Becomes
  <2>5. /\ registry' \in RegistryType /\ registry'.active = None
        /\ registry'.dismissed = registry.dismissed
    <3>1. 0 \in 0 .. MaxSessions
      BY RemoteLinkAssumption
    <3> QED  BY <2>1, <2>3, <3>1 DEF RegistryType
  <2>6. TypeInv'
    BY <1>1, <1>2, <2>4, <2>5, Types, TypesAgain DEF devVars
  <2>7. Sized'
    BY <2>4, SizedStays DEF OthersKeep, Becomes
  <2> QED  BY <1>1, <1>2, <1>3, <2>4, <2>5, <2>6, <2>7
<1>4. CASE registry.active # c
  <2>1. ing' = [ing EXCEPT ![c].phase = "closed"] /\ registry' = registry
    BY <1>4 DEF MarkTornDown
  <2>2. /\ ing' \in [Conns -> ConnType] /\ OthersKeep(c)
        /\ Becomes(c, "closed", ing[c].label, ing[c].waits, ing[c].sessions, ing[c].done)
    BY <2>1, PhaseStep
  <2>3. TypeInv'
    BY <1>1, <1>2, <2>1, <2>2, Types, TypesAgain DEF devVars
  <2>4. Sized'
    BY <2>2, SizedStays DEF OthersKeep, Becomes
  <2> QED  BY <1>1, <1>2, <1>4, <2>1, <2>2, <2>3, <2>4
<1> QED  BY <1>3, <1>4

----------------------------------------------------------------------------
(* The steps of the devbox *)

\* The watchers whose directory was touched; the rest of the bridges is as it was.
TouchedFrom(u) == \A d \in Conns :
    /\ up'[d].phase = u[d].phase /\ up'[d].advertised = u[d].advertised
    /\ u[d].phase = "open" => up'[d].dirty
    /\ u[d].phase # "open" => (up'[d].dirty <=> u[d].dirty)

\* Touched changes nothing else.
LEMMA TouchedFacts ==
    ASSUME NEW u \in [Conns -> UpType], up' = Touched(u)
    PROVE  up' \in [Conns -> UpType] /\ TouchedFrom(u)
<1> DEFINE r(d) == [u[d] EXCEPT !.dirty = TRUE]
<1>1. \A d \in Conns : /\ r(d) \in UpType /\ r(d).phase = u[d].phase
                       /\ r(d).advertised = u[d].advertised /\ r(d).dirty
  BY DEF UpType
<1>2. up' = [d \in Conns |-> IF u[d].phase = "open" THEN r(d) ELSE u[d]]
  BY DEF Touched
<1> HIDE DEF r
<1> QED  BY <1>1, <1>2 DEF TouchedFrom

\* A session of the devbox changes, and every watcher's signature.
Changes(s) == NewSession(s) \/ Finish(s) \/ Delete(s)

\* It is no deleted one, and no connection is greeted while it does.
LEMMA ChangeShape ==
    ASSUME TypeInv, Sized, NEW s \in Sessions, Changes(s)
    PROVE  /\ TypeInv' /\ Sized' /\ UNCHANGED <<chan, ingVars>>
           /\ local[s] # "deleted" /\ local'[s] # "fresh"
           /\ \A t \in Sessions : t # s => local'[t] = local[t]
           /\ TouchedFrom(up) /\ (~Gap => \A d \in Conns : up[d].phase # "greeted")
<1>0. PICK from, to : /\ Change(s, from, to)
                      /\ to \in Locals \ {"fresh"} /\ "deleted" \notin from
  BY DEF Changes, NewSession, Finish, Delete, Locals
<1>1. local' \in [Sessions -> Locals] /\ local'[s] = to
      /\ \A t \in Sessions : t # s => local'[t] = local[t]
  BY <1>0, Types DEF Change
<1>2. up' \in [Conns -> UpType] /\ TouchedFrom(up)
  BY <1>0, Types, TouchedFacts DEF Change
<1>3. /\ UNCHANGED <<chan, ingVars>> /\ local[s] \in from
      /\ ~Gap => \A d \in Conns : up[d].phase # "greeted"
  BY <1>0 DEF Change
<1>4. TypeInv'
  BY <1>1, <1>2, <1>3, Types, TypesAgain DEF ingVars
<1> QED  BY <1>0, <1>1, <1>2, <1>3, <1>4 DEF Sized, ingVars

\* A daemon on the devbox dies.
LEMMA DaemonDiesShape ==
    ASSUME TypeInv, Sized, NEW s \in Sessions, DaemonDies(s)
    PROVE  /\ TypeInv' /\ Sized' /\ UNCHANGED <<up, chan, ingVars>>
           /\ local[s] = "running" /\ local'[s] = "dead"
           /\ \A t \in Sessions : t # s => local'[t] = local[t]
<1>1. local' \in [Sessions -> Locals] /\ local'[s] = "dead" /\ local[s] = "running"
      /\ \A t \in Sessions : t # s => local'[t] = local[t]
  BY Types DEF DaemonDies, Locals
<1>2. TypeInv'
  BY <1>1, Types, TypesAgain DEF DaemonDies, ingVars
<1> QED  BY <1>1, <1>2 DEF Sized, DaemonDies, ingVars

\* The watcher takes its first signature.
LEMMA StartWatchShape ==
    ASSUME TypeInv, Sized, NEW c \in Conns, StartWatch(c)
    PROVE  /\ TypeInv' /\ Sized' /\ UNCHANGED <<local, chan, ingVars>>
           /\ up[c].phase = "greeted" /\ up'[c].phase = "open"
           /\ up'[c].advertised = up[c].advertised /\ (up'[c].dirty <=> up[c].dirty)
           /\ \A d \in Conns : d # c => up'[d] = up[d]
<1> DEFINE q == [up[c] EXCEPT !.phase = "open"]
<1>1. up \in [Conns -> UpType]
  BY Types
<1>2. /\ q \in UpType /\ q.phase = "open" /\ q.advertised = up[c].advertised
      /\ (q.dirty <=> up[c].dirty)
  BY <1>1 DEF UpType
<1>3. up' = [up EXCEPT ![c] = q] /\ up[c].phase = "greeted" /\ UNCHANGED <<local, chan, ingVars>>
  BY DEF StartWatch
<1> HIDE DEF q
<1>4. up' \in [Conns -> UpType] /\ up'[c] = q /\ \A d \in Conns : d # c => up'[d] = up[d]
  BY <1>1, <1>2, <1>3
<1>5. TypeInv'
  BY <1>3, <1>4, Types, TypesAgain DEF ingVars
<1> QED  BY <1>2, <1>3, <1>4, <1>5 DEF Sized, ingVars

\* The bridge ends.
LEMMA HangupShape ==
    ASSUME TypeInv, Sized, NEW c \in Conns, Hangup(c)
    PROVE  /\ TypeInv' /\ Sized' /\ UNCHANGED <<local, chan, ingVars>>
           /\ Linked(c) /\ up'[c].phase = "closed" /\ up'[c].advertised = {}
           /\ \A d \in Conns : d # c => up'[d] = up[d]
<1>1. /\ up' \in [Conns -> UpType] /\ up'[c].phase = "closed" /\ up'[c].advertised = {}
      /\ \A d \in Conns : d # c => up'[d] = up[d]
  BY Types DEF Hangup, UpType
<1>2. UNCHANGED <<local, chan, ingVars>> /\ Linked(c)
  BY DEF Hangup, Linked
<1>3. TypeInv'
  BY <1>1, <1>2, Types, TypesAgain DEF ingVars
<1> QED  BY <1>1, <1>2, <1>3 DEF Sized, ingVars

\* What reconcile does but for the place its entry takes in the channel.
Sent(c, phase) ==
    /\ local' = [s \in Sessions |-> Shown(local[s])]
    /\ up'[c].phase = phase /\ up'[c].advertised = OnDevbox
    /\ phase = "greeted" => ~up'[c].dirty
    /\ \A d \in Conns : d # c =>
         /\ up'[d].phase = up[d].phase /\ up'[d].advertised = up[d].advertised
         /\ up[d].phase = "greeted" => (up'[d].dirty <=> up[d].dirty)
    /\ LET e == chan'[c][Len(chan'[c])] IN
         /\ e.kind = "advert" /\ e.list = OnDevbox
         /\ e.removed = up[c].advertised \ OnDevbox
         /\ e.added = {[id |-> s, status |-> Shown(local[s])] : s \in OnDevbox}

\* Reconcile sends.
LEMMA ReconcileShape ==
    ASSUME TypeInv, NEW c \in Conns, NEW phase \in {"greeted", "open"}, NEW before,
           Reconcile(c, phase, before),
           chan'[c][Len(chan'[c])] = Advert(OnDevbox, up[c].advertised \ OnDevbox)
    PROVE  local' \in [Sessions -> Locals] /\ up' \in [Conns -> UpType] /\ Sent(c, phase)
<1>t. local \in [Sessions -> Locals] /\ up \in [Conns -> UpType]
  BY Types
<1>1. local' = [s \in Sessions |-> Shown(local[s])]
  BY DEF Reconcile
<1>2. local' \in [Sessions -> Locals]
  BY <1>1, <1>t, ShownType
<1> DEFINE q == [phase |-> phase, advertised |-> OnDevbox, dirty |-> FALSE]
           mine == [up EXCEPT ![c] = q]
<1>3. /\ q \in UpType /\ q.phase = phase /\ q.advertised = OnDevbox /\ ~q.dirty
  BY DEF UpType, OnDevbox
<1>4. up' = mine \/ up' = Touched(mine)
  BY DEF Reconcile
<1> HIDE DEF q
<1>5. /\ mine \in [Conns -> UpType] /\ mine[c] = q /\ \A d \in Conns : d # c => mine[d] = up[d]
  BY <1>t, <1>3
<1> HIDE DEF mine
<1>6. up' \in [Conns -> UpType] /\ (up' = mine \/ TouchedFrom(mine))
  BY <1>4, <1>5, TouchedFacts
<1>7. /\ up'[c].phase = phase /\ up'[c].advertised = OnDevbox
      /\ phase = "greeted" => ~up'[c].dirty
      /\ \A d \in Conns : d # c =>
           /\ up'[d].phase = up[d].phase /\ up'[d].advertised = up[d].advertised
           /\ up[d].phase = "greeted" => (up'[d].dirty <=> up[d].dirty)
  BY <1>3, <1>5, <1>6 DEF TouchedFrom
<1>8. up[c].advertised \ OnDevbox \in SUBSET Sessions
  BY <1>t DEF UpType
<1>9. LET e == chan'[c][Len(chan'[c])] IN
         /\ e.kind = "advert" /\ e.list = OnDevbox
         /\ e.removed = up[c].advertised \ OnDevbox
         /\ e.added = {[id |-> s, status |-> Shown(local[s])] : s \in OnDevbox}
  BY <1>t, <1>8, AdvertIsEntry
<1> QED  BY <1>1, <1>2, <1>6, <1>7, <1>9 DEF Sent

\* The bridge connects: hello and the first advertisement.
LEMMA ConnectShape ==
    ASSUME TypeInv, Sized, Stages, NEW c \in Conns, Connect(c)
    PROVE  /\ TypeInv' /\ Sized' /\ UNCHANGED ingVars /\ OthersUnread(c)
           /\ daemon.running /\ up[c].phase = "idle" /\ Sent(c, "greeted")
           /\ Len(chan[c]) = 0 /\ Len(chan'[c]) = 2 /\ chan'[c][1].kind = "hello"
<1>t. local \in [Sessions -> Locals] /\ chan \in [Conns -> Seq(AdvertType)] /\ up \in [Conns -> UpType]
  BY Types
<1>1. daemon.running /\ up[c].phase = "idle" /\ UNCHANGED ingVars
      /\ Reconcile(c, "greeted", <<Hello>>)
  BY DEF Connect
<1>2. chan[c] = <<>>
  BY <1>1, <1>t DEF Stages, Queued
<1> DEFINE a == Advert(OnDevbox, up[c].advertised \ OnDevbox)
<1>3. a \in AdvertType /\ Hello \in AdvertType /\ Hello.kind = "hello"
  <2>1. up[c].advertised \ OnDevbox \in SUBSET Sessions
    BY <1>t DEF UpType
  <2> QED  BY <1>t, <2>1, AdvertIsEntry DEF Hello
<1>4. chan' = [chan EXCEPT ![c] = <<>> \o <<Hello>> \o <<a>>]
  BY <1>1, <1>2 DEF Reconcile
<1> DEFINE q == <<>> \o <<Hello>> \o <<a>>
<1> HIDE DEF a
<1>5. q \in Seq(AdvertType) /\ Len(q) = 2 /\ q[1] = Hello /\ q[2] = a
  BY <1>3, GreetFacts
<1> HIDE DEF q
<1>6. /\ chan' \in [Conns -> Seq(AdvertType)] /\ OthersUnread(c) /\ chan'[c] = q
  BY <1>4, <1>5, <1>t DEF q, OthersUnread
<1>7. \A d \in Conns : Len(chan'[d]) =< MaxQueue + 1
  <2>1. MaxQueue \in Nat \ {0} /\ \A d \in Conns : Len(chan[d]) =< MaxQueue + 1
    BY Types, RemoteLinkAssumption
  <2>2. Len(chan'[c]) =< MaxQueue + 1
    <3>1. Len(chan'[c]) = 2
      BY <1>5, <1>6
    <3>2. MaxQueue >= 1 /\ MaxQueue \in Nat
      BY <2>1
    <3> QED  BY <3>1, <3>2
  <2>3. ASSUME NEW d \in Conns, d # c
        PROVE  Len(chan'[d]) =< MaxQueue + 1
    BY <1>6, <2>1, <2>3 DEF OthersUnread
  <2> QED  BY <2>2, <2>3
<1>8. local' \in [Sessions -> Locals] /\ up' \in [Conns -> UpType] /\ Sent(c, "greeted")
  BY <1>1, <1>5, <1>6, ReconcileShape DEF a
<1>9. TypeInv'
  BY <1>1, <1>6, <1>7, <1>8, Types, TypesAgain DEF ingVars
<1> QED  BY <1>1, <1>2, <1>3, <1>5, <1>6, <1>8, <1>9 DEF Sized, ingVars

\* The bridge advertises again.
LEMMA ReadvertiseShape ==
    ASSUME TypeInv, Sized, NEW c \in Conns, Readvertise(c)
    PROVE  /\ TypeInv' /\ Sized' /\ UNCHANGED ingVars /\ OthersUnread(c)
           /\ up[c].phase = "open" /\ ing[c].phase # "closed" /\ Sent(c, "open")
           /\ Len(chan'[c]) = Len(chan[c]) + 1
           /\ \A i \in 1 .. Len(chan[c]) : chan'[c][i] = chan[c][i]
<1>t. local \in [Sessions -> Locals] /\ chan \in [Conns -> Seq(AdvertType)] /\ up \in [Conns -> UpType]
  BY Types
<1>1. up[c].phase = "open" /\ ing[c].phase # "closed" /\ UNCHANGED ingVars
      /\ Reconcile(c, "open", <<>>) /\ Len(chan[c]) < MaxQueue
  BY DEF Readvertise
<1> DEFINE a == Advert(OnDevbox, up[c].advertised \ OnDevbox)
<1>2. a \in AdvertType
  <2>1. up[c].advertised \ OnDevbox \in SUBSET Sessions
    BY <1>t DEF UpType
  <2> QED  BY <1>t, <2>1, AdvertIsEntry
<1> DEFINE q == chan[c] \o <<>> \o <<a>>
<1>3. chan' = [chan EXCEPT ![c] = q]
  BY <1>1 DEF Reconcile
<1> HIDE DEF a
<1>4. /\ q \in Seq(AdvertType) /\ Len(q) = Len(chan[c]) + 1 /\ q[Len(chan[c]) + 1] = a
      /\ \A i \in 1 .. Len(chan[c]) : q[i] = chan[c][i]
  BY <1>2, <1>t, AppendFacts
<1> HIDE DEF q
<1>5. /\ chan' \in [Conns -> Seq(AdvertType)] /\ OthersUnread(c) /\ chan'[c] = q
  BY <1>3, <1>4, <1>t DEF OthersUnread
<1>6. \A d \in Conns : Len(chan'[d]) =< MaxQueue + 1
  <2>1. Len(chan[c]) \in Nat
    BY <1>t
  <2>2. MaxQueue \in Nat \ {0} /\ \A d \in Conns : Len(chan[d]) =< MaxQueue + 1
    BY Types, RemoteLinkAssumption
  <2> QED  BY <1>1, <1>4, <1>5, <2>1, <2>2 DEF OthersUnread
<1>7. local' \in [Sessions -> Locals] /\ up' \in [Conns -> UpType] /\ Sent(c, "open")
  BY <1>1, <1>4, <1>5, ReconcileShape DEF a
<1>8. TypeInv'
  BY <1>1, <1>5, <1>6, <1>7, Types, TypesAgain DEF ingVars
<1> QED  BY <1>1, <1>4, <1>5, <1>7, <1>8 DEF Sized, ingVars

----------------------------------------------------------------------------
(* The steps of the user and of the daemon *)

\* The user removes a file.
LEMMA UserRemoveShape ==
    ASSUME TypeInv, Sized, NEW s \in Sessions, UserRemove(s)
    PROVE  /\ TypeInv' /\ Sized' /\ UNCHANGED <<devVars, chan, ing, registry, poll, daemon>>
           /\ file[s] # "none" /\ file' = Deleted({s}) /\ removed' = removed \cup {s}
<1>1. file' = Deleted({s}) /\ file' \in [Sessions -> Statuses \cup {"none"}]
  BY FileTypes DEF UserRemove
<1>2. TypeInv'
  BY <1>1, Types, TypesAgain DEF UserRemove, devVars
<1> QED  BY <1>1, <1>2 DEF UserRemove, Sized

\* The poll looks at the files.
LEMMA ScanShape ==
    ASSUME TypeInv, Sized, Scan
    PROVE  /\ TypeInv' /\ Sized' /\ UNCHANGED <<devVars, chan, ing, registry, file, daemon, removed>>
           /\ poll.gone = {} /\ poll'.prev = Files /\ poll'.gone = poll.prev \ Files
<1>1. poll \in PollType
  BY Types
<1>2. poll' \in PollType /\ poll'.prev = Files /\ poll'.gone = poll.prev \ Files
  BY <1>1 DEF Scan, PollType, Files
<1>3. TypeInv'
  BY <1>2, Types, TypesAgain DEF Scan, devVars
<1> QED  BY <1>2, <1>3 DEF Scan, Sized

\* The poll dismisses what it found gone.
LEMMA DismissShape ==
    ASSUME TypeInv, Sized, Dismiss
    PROVE  /\ TypeInv' /\ Sized' /\ UNCHANGED <<devVars, chan, ing, file, daemon, removed>>
           /\ daemon.running /\ poll'.prev = poll.prev /\ poll'.gone = {}
           /\ registry'.active = registry.active /\ registry'.count = registry.count
           /\ registry'.dismissed = registry.dismissed \cup poll.gone
<1>1. poll \in PollType /\ registry \in RegistryType
  BY Types
<1>2. poll' \in PollType /\ poll'.prev = poll.prev /\ poll'.gone = {}
  BY <1>1 DEF Dismiss, PollType
<1>3. /\ registry' \in RegistryType
      /\ registry'.active = registry.active /\ registry'.count = registry.count
      /\ registry'.dismissed = registry.dismissed \cup poll.gone
  BY <1>1 DEF Dismiss, PollType, RegistryType
<1>4. TypeInv'
  BY <1>2, <1>3, Types, TypesAgain DEF Dismiss, devVars
<1> QED  BY <1>2, <1>3, <1>4 DEF Dismiss, Sized

\* The daemon ends: every connection made is closed, and nothing is kept out.
LEMMA IngestStopShape ==
    ASSUME TypeInv, Sized, IngestStop
    PROVE  /\ TypeInv' /\ Sized' /\ UNCHANGED <<devVars, file, poll, removed>>
           /\ ~daemon'.running
           /\ \A d \in Conns :
                /\ Len(chan'[d]) = 0
                /\ up[d].phase = "idle" =>
                     Becomes(d, ing[d].phase, ing[d].label, ing[d].waits, ing[d].sessions, ing[d].done)
                /\ up[d].phase # "idle" => Becomes(d, "closed", FALSE, None, {}, FALSE)
           /\ registry'.active = None /\ registry'.dismissed = {}
<1> DEFINE q == [NewConn EXCEPT !.phase = "closed"]
<1>1. /\ q \in ConnType /\ q.phase = "closed" /\ ~q.label /\ q.waits = None
      /\ q.sessions = {} /\ ~q.done
  BY DEF NewConn, ConnType
<1>2. ing' = [d \in Conns |-> IF up[d].phase = "idle" THEN ing[d] ELSE q]
  BY DEF IngestStop
<1> HIDE DEF q
<1>3. /\ ing' \in [Conns -> ConnType]
      /\ \A d \in Conns :
           /\ up[d].phase = "idle" =>
                Becomes(d, ing[d].phase, ing[d].label, ing[d].waits, ing[d].sessions, ing[d].done)
           /\ up[d].phase # "idle" => Becomes(d, "closed", FALSE, None, {}, FALSE)
  BY <1>1, <1>2, Types DEF Becomes
<1>4. chan' \in [Conns -> Seq(AdvertType)] /\ \A d \in Conns : Len(chan'[d]) = 0
  BY DEF IngestStop
<1>5. registry' \in RegistryType /\ registry'.active = None /\ registry'.dismissed = {}
  <2>1. 0 \in 0 .. MaxSessions
    BY RemoteLinkAssumption
  <2> QED  BY <2>1 DEF IngestStop, RegistryType
<1>6. daemon' \in DaemonType /\ ~daemon'.running
  BY Types, RemoteLinkAssumption DEF IngestStop, DaemonType
<1>7. \A d \in Conns : Len(chan'[d]) =< MaxQueue + 1
  BY <1>4, RemoteLinkAssumption
<1>8. TypeInv'
  BY <1>3, <1>4, <1>5, <1>6, <1>7, Types, TypesAgain DEF IngestStop, devVars
<1>9. Sized'
  BY <1>3, SizedStays DEF Becomes
<1> QED  BY <1>3, <1>4, <1>5, <1>6, <1>8, <1>9 DEF IngestStop

\* The daemon starts: the sweep, and the first scan after it.
LEMMA IngestStartShape ==
    ASSUME TypeInv, Sized, IngestStart
    PROVE  /\ TypeInv' /\ Sized' /\ UNCHANGED <<devVars, chan, ing, registry>>
           /\ ~daemon.running /\ daemon'.running
           /\ file' = ReconcileStale /\ removed' = {}
           /\ poll'.prev = Files' /\ poll'.gone = {}
<1>1. daemon' \in DaemonType /\ daemon'.running /\ ~daemon.running
  BY Types DEF IngestStart, DaemonType
<1>2. file' = ReconcileStale /\ file' \in [Sessions -> Statuses \cup {"none"}]
  BY FileTypes DEF IngestStart
<1>3. poll' \in PollType /\ poll'.prev = Files' /\ poll'.gone = {}
  BY DEF IngestStart, PollType, Files
<1>4. TypeInv'
  BY <1>1, <1>2, <1>3, Types, TypesAgain DEF IngestStart, devVars
<1> QED  BY <1>1, <1>2, <1>3, <1>4 DEF IngestStart, Sized

----------------------------------------------------------------------------
(* The stages are kept *)

\* What a step leaves alone of a connection.
Untouched(d) ==
    /\ Becomes(d, ing[d].phase, ing[d].label, ing[d].waits, ing[d].sessions, ing[d].done)
    /\ Len(chan'[d]) = Len(chan[d])
    /\ \A i \in 1 .. Len(chan[d]) : chan'[d][i].kind = chan[d][i].kind
    /\ up'[d].phase = "idle" <=> up[d].phase = "idle"

\* A connection left alone stays at its stage.
LEMMA StageStays ==
    ASSUME TypeInv, Stages, NEW d \in Conns, Untouched(d),
           daemon'.running <=> daemon.running, registry'.active = registry.active
    PROVE  Phases(d)' /\ Queued(d)' /\ Active(d)'
<1>0. Phases(d) /\ Queued(d) /\ Active(d)
  BY DEF Stages
<1>1. Phases(d)'
  BY <1>0 DEF Untouched, Becomes, Phases
<1>2. Readable(d)' <=> Readable(d)
  BY DEF Untouched, Becomes, Readable
<1>3. Len(chan[d]) \in Nat
  BY Types
<1>4. Queued(d)'
  BY <1>0, <1>2, <1>3 DEF Untouched, Becomes, Queued
<1>5. Active(d)'
  BY <1>0 DEF Untouched, Becomes, Active
<1> QED  BY <1>1, <1>4, <1>5

\* So do all, when all are left alone.
LEMMA AllUntouched ==
    ASSUME TypeInv, Stages, \A d \in Conns : Untouched(d),
           daemon'.running <=> daemon.running, registry'.active = registry.active
    PROVE  Stages'
BY StageStays DEF Stages

\* An accepted connection brings its hello first.
LEMMA AcceptStages ==
    ASSUME TypeInv, Sized, Stages, NEW c \in Conns, Accept(c)
    PROVE  Stages'
<1>s. /\ UNCHANGED <<up, registry, daemon>> /\ OthersKeep(c) /\ OthersUnread(c)
      /\ up[c].phase # "idle" /\ ing[c].phase = "none" /\ daemon.running
      /\ \/ /\ Becomes(c, "reading", ing[c].label, ing[c].waits, ing[c].sessions, ing[c].done)
            /\ chan'[c] = chan[c]
         \/ /\ Becomes(c, "closed", ing[c].label, ing[c].waits, ing[c].sessions, ing[c].done)
            /\ chan'[c] = <<>>
  BY AcceptShape DEF devVars
<1>1. ASSUME NEW d \in Conns, d # c
      PROVE  Phases(d)' /\ Queued(d)' /\ Active(d)'
  <2>1. Untouched(d)
    BY <1>1, <1>s DEF OthersKeep, OthersUnread, Untouched
  <2> QED  BY <1>s, <2>1, StageStays
<1>0. Phases(c) /\ Queued(c) /\ Active(c)
  BY DEF Stages
<1>2. Phases(c)' /\ Active(c)'
  BY <1>0, <1>s DEF Becomes, Phases, Active
<1>3. Queued(c)'
  BY <1>0, <1>s DEF Becomes, Queued, Readable, Phases
<1> QED  BY <1>1, <1>2, <1>3 DEF Stages

\* A refused one is over.
LEMMA HelloRefusedStages ==
    ASSUME TypeInv, Sized, Stages, NEW c \in Conns, HelloRefused(c)
    PROVE  Stages'
<1>s. /\ UNCHANGED <<up, registry, daemon>> /\ OthersKeep(c) /\ OthersUnread(c) /\ Reads(c, "hello")
      /\ Becomes(c, "closed", ing[c].label, ing[c].waits, ing[c].sessions, ing[c].done)
      /\ chan'[c] = <<>>
  BY HelloRefusedShape DEF devVars
<1>g. ~ing[c].label /\ Readable(c) /\ ing[c].phase = "reading"
  BY <1>s, GreeterFacts, ReadsFacts
<1>1. ASSUME NEW d \in Conns, d # c
      PROVE  Phases(d)' /\ Queued(d)' /\ Active(d)'
  <2>1. Untouched(d)
    BY <1>1, <1>s DEF OthersKeep, OthersUnread, Untouched
  <2> QED  BY <1>s, <2>1, StageStays
<1>0. Phases(c) /\ Queued(c) /\ Active(c)
  BY DEF Stages
<1>2. Phases(c)' /\ Active(c)'
  BY <1>0, <1>s, <1>g DEF Becomes, Phases, Active
<1>3. Queued(c)'
  BY <1>0, <1>s DEF Becomes, Queued, Readable
<1> QED  BY <1>1, <1>2, <1>3 DEF Stages

\* One connection only brings a hello that is not registered yet, one only is
\* served by the uplink, and a greeting one comes after those that were closed.
OneGreets == \A c, d \in Conns : Greeting(c) /\ Greeting(d) => c = d
OneAtATime ==
    /\ OneGreets
    /\ \A c, d \in Conns : Linked(c) /\ Linked(d) => c = d
    /\ \A c, d \in Conns : Greeting(d) /\ Readable(c) /\ c # d => up[c].phase = "closed"

\* Behind the hello are advertisements.
LEMMA HelloEvictsStages ==
    ASSUME TypeInv, Sized, Stages, NEW c \in Conns, HelloEvicts(c)
    PROVE  Stages'
<1>s. /\ UNCHANGED <<up, registry, daemon>> /\ OthersKeep(c) /\ OthersUnread(c) /\ Reads(c, "hello")
      /\ Becomes(c, "hello", TRUE, registry.active, ing[c].sessions, ing[c].done)
      /\ Popped(c)
  BY HelloEvictsShape DEF devVars
<1>g. ~ing[c].label /\ Readable(c) /\ ing[c].phase = "reading" /\ Len(chan[c]) >= 2 /\ daemon.running
  BY <1>s, GreeterFacts, ReadsFacts
<1>1. ASSUME NEW d \in Conns, d # c
      PROVE  Phases(d)' /\ Queued(d)' /\ Active(d)'
  <2>1. Untouched(d)
    BY <1>1, <1>s DEF OthersKeep, OthersUnread, Untouched
  <2> QED  BY <1>s, <2>1, StageStays
<1>0. Phases(c) /\ Queued(c) /\ Active(c)
  BY DEF Stages
<1>2. Phases(c)' /\ Active(c)'
  BY <1>0, <1>s, <1>g DEF Becomes, Phases, Active
<1>l. Len(chan[c]) \in Nat
  BY Types
<1>3. \A i \in 1 .. Len(chan'[c]) : chan'[c][i].kind = "advert"
  <2>1. Len(chan'[c]) = Len(chan[c]) - 1 /\ \A i \in 1 .. Len(chan'[c]) : chan'[c][i] = chan[c][i + 1]
    BY <1>s DEF Popped
  <2>2. \A i \in 2 .. Len(chan[c]) : chan[c][i].kind = "advert"
    BY <1>0, <1>g DEF Queued
  <2>3. \A i \in 1 .. Len(chan'[c]) : i + 1 \in 2 .. Len(chan[c])
    BY <1>l, <2>1
  <2> QED  BY <2>1, <2>2, <2>3
<1>4. Queued(c)'
  BY <1>0, <1>s, <1>g, <1>l, <1>3 DEF Becomes, Queued, Readable, Popped
<1> QED  BY <1>1, <1>2, <1>4 DEF Stages

\* Who registers is the only registered one: the other is torn down.
LEMMA HelloRegistersStages ==
    ASSUME TypeInv, Sized, Stages, OneGreets, NEW c \in Conns, HelloRegisters(c)
    PROVE  Stages'
<1>s. /\ UNCHANGED <<up, chan, daemon>> /\ ing[c].phase = "hello"
      /\ ing[c].waits # None => ing[ing[c].waits].done
      /\ Becomes(c, "reading", ing[c].label, None, ing[c].sessions, ing[c].done)
      /\ \A d \in Conns : d # c =>
           Becomes(d, ing[d].phase, ing[d].label, ing[d].waits, ing[d].sessions,
                   d # ing[c].waits /\ ing[d].done)
      /\ registry'.active = c
  BY HelloRegistersShape DEF devVars
<1>0. \A d \in Conns : Phases(d) /\ Queued(d) /\ Active(d)
  BY DEF Stages
<1>g. Readable(c) /\ Greeting(c) /\ ing[c].label
  BY <1>0, <1>s DEF Phases, Readable, Greeting
<1>w. registry.active = None
  <2>1. ing[c].waits \in Conns \cup {None}
    BY Types DEF ConnType
  <2>2. ing[c].waits # None => ing[ing[c].waits].phase = "closed"
    BY <1>0, <1>s, <2>1 DEF Phases
  <2>3. registry.active = ing[c].waits => ing[c].waits = None
    BY <1>0, <2>1, <2>2 DEF Active
  <2> QED  BY <1>0, <1>s, <2>3 DEF Phases
<1>1. ASSUME NEW d \in Conns, d # c
      PROVE  Phases(d)' /\ Queued(d)' /\ Active(d)'
  <2>1. /\ ing'[d].phase = ing[d].phase /\ (ing'[d].label <=> ing[d].label)
        /\ ing'[d].waits = ing[d].waits /\ ing'[d].sessions = ing[d].sessions
        /\ ing'[d].done => ing[d].done
    BY <1>1, <1>s DEF Becomes
  <2>2. ~(ing[d].label /\ ing[d].phase \in {"reading", "tearing"})
    BY <1>0, <1>w, RemoteLinkAssumption DEF Active
  <2>3. ing[d].phase # "hello"
    BY <1>0, <1>1, <1>g DEF OneGreets, Greeting, Readable, Phases
  <2>4. Phases(d)'
    BY <1>0, <1>s, <2>1, <2>3 DEF Phases
  <2>5. Active(d)'
    BY <1>1, <1>s, <2>1, <2>2 DEF Active
  <2>6. Queued(d)'
    BY <1>0, <1>s, <2>1 DEF Queued, Readable
  <2> QED  BY <2>4, <2>5, <2>6
<1>2. Phases(c)' /\ Active(c)'
  BY <1>0, <1>s, <1>g DEF Becomes, Phases, Active
<1>3. Queued(c)'
  BY <1>0, <1>s, <1>g DEF Becomes, Queued, Readable
<1> QED  BY <1>1, <1>2, <1>3 DEF Stages

\* The frames of an advertisement, read.
LEMMA FramesStages ==
    ASSUME TypeInv, Sized, Stages, NEW c \in Conns,
           HandleAdded(c) \/ HandleRemoved(c) \/ HandleList(c)
    PROVE  Stages'
<1>r. Reads(c, "advert")
  BY DEF HandleAdded, HandleRemoved, HandleList
<1>g. ing[c].phase = "reading" /\ ing[c].label /\ registry.active = c /\ chan[c][1] \in AdvertType
  BY <1>r, ReaderFacts, ReadsFacts
<1>l. Len(chan[c]) \in Nat
  BY Types
<1>0. Phases(c) /\ Queued(c) /\ Active(c)
  BY DEF Stages
<1>1. /\ UNCHANGED <<up, daemon>> /\ OthersKeep(c) /\ OthersUnread(c)
      /\ registry'.active = registry.active
      /\ ing'[c].phase = "reading" /\ ing'[c].label /\ ing'[c].waits = ing[c].waits
      /\ ing'[c].done <=> ing[c].done
  <2>1. CASE HandleAdded(c)
    BY <2>1, <1>g, HandleAddedShape DEF Becomes, devVars
  <2>2. CASE HandleRemoved(c)
    BY <2>2, <1>g, HandleRemovedShape, ZenonT(60) DEF Becomes, devVars
  <2>3. CASE HandleList(c)
    BY <2>3, <1>g, HandleListShape DEF Becomes, devVars
  <2> QED  BY <2>1, <2>2, <2>3
<1>2. \A i \in 1 .. Len(chan'[c]) : chan'[c][i].kind = "advert"
  <2>1. \A i \in 1 .. Len(chan[c]) : chan[c][i].kind = "advert"
    BY <1>r, ReaderFacts
  <2>2. ASSUME NEW e, HeadLeft(c, e), e.kind = "advert"
        PROVE  \A i \in 1 .. Len(chan'[c]) : chan'[c][i].kind = "advert"
    BY <2>1, <2>2, <1>l DEF HeadLeft
  <2>3. CASE HandleAdded(c)
    <3>1. PICK x : HeadLeft(c, Added(chan[c][1], x))
      BY <2>3, HandleAddedShape
    <3>2. Added(chan[c][1], x).kind = "advert"
      BY <2>1, <3>1, <1>g, LeftType DEF HeadLeft
    <3> QED  BY <2>2, <3>1, <3>2
  <2>4. CASE HandleRemoved(c)
    <3>1. PICK x : HeadLeft(c, Retracted(chan[c][1], x))
      BY <2>4, HandleRemovedShape
    <3>2. Retracted(chan[c][1], x).kind = "advert"
      BY <2>1, <3>1, <1>g, LeftType DEF HeadLeft
    <3> QED  BY <2>2, <3>1, <3>2
  <2>5. CASE HandleList(c)
    <3>1. Popped(c)
      BY <2>5, HandleListShape
    <3> QED  BY <2>1, <3>1, <1>l DEF Popped
  <2> QED  BY <2>3, <2>4, <2>5
<1>3. ASSUME NEW d \in Conns, d # c
      PROVE  Phases(d)' /\ Queued(d)' /\ Active(d)'
  <2>1. Untouched(d)
    BY <1>1, <1>3 DEF OthersKeep, OthersUnread, Untouched
  <2> QED  BY <1>1, <2>1, StageStays
<1>4. Phases(c)' /\ Active(c)'
  BY <1>0, <1>1, <1>g DEF Phases, Active
<1>5. Queued(c)'
  BY <1>0, <1>1, <1>2, <1>g DEF Queued, Readable, Phases
<1> QED  BY <1>3, <1>4, <1>5 DEF Stages

\* A connection torn down bridges nothing.
LEMMA TeardownStages ==
    ASSUME TypeInv, Sized, Stages, NEW c \in Conns, Teardown(c)
    PROVE  Stages'
<1>s. /\ UNCHANGED <<up, chan, registry, daemon>> /\ OthersKeep(c) /\ ing[c].phase = "reading"
      /\ Becomes(c, "tearing", ing[c].label, ing[c].waits, {}, ing[c].done) /\ daemon.running
  BY TeardownShape DEF devVars
<1>1. ASSUME NEW d \in Conns, d # c
      PROVE  Phases(d)' /\ Queued(d)' /\ Active(d)'
  <2>1. Untouched(d)
    BY <1>1, <1>s DEF OthersKeep, Untouched
  <2> QED  BY <1>s, <2>1, StageStays
<1>0. Phases(c) /\ Queued(c) /\ Active(c)
  BY DEF Stages
<1>2. Phases(c)' /\ Active(c)'
  BY <1>0, <1>s DEF Becomes, Phases, Active
<1>3. Queued(c)'
  BY <1>0, <1>s DEF Becomes, Queued, Readable, Phases
<1> QED  BY <1>1, <1>2, <1>3 DEF Stages

\* The registry forgets the one that was registered.
LEMMA MarkTornDownStages ==
    ASSUME TypeInv, Sized, Stages, NEW c \in Conns, MarkTornDown(c)
    PROVE  Stages'
<1>s. /\ UNCHANGED <<up, daemon>> /\ OthersKeep(c) /\ OthersUnread(c) /\ chan'[c] = <<>>
      /\ ing[c].phase = "tearing" /\ daemon.running
      /\ ing'[c].phase = "closed" /\ (ing'[c].label <=> ing[c].label)
      /\ ing'[c].sessions = ing[c].sessions
      /\ \/ registry.active = c /\ registry'.active = None
         \/ registry.active # c /\ registry' = registry
  BY MarkTornDownShape DEF devVars, Becomes
<1>0. \A d \in Conns : Phases(d) /\ Queued(d) /\ Active(d)
  BY DEF Stages
<1>1. ASSUME NEW d \in Conns, d # c
      PROVE  Phases(d)' /\ Queued(d)' /\ Active(d)'
  <2>1. /\ ing'[d].phase = ing[d].phase /\ (ing'[d].label <=> ing[d].label)
        /\ ing'[d].waits = ing[d].waits /\ ing'[d].sessions = ing[d].sessions
        /\ (ing'[d].done <=> ing[d].done) /\ chan'[d] = chan[d]
    BY <1>1, <1>s DEF OthersKeep, OthersUnread, Becomes
  <2>2. Phases(d)'
    BY <1>0, <1>s, <2>1 DEF Phases
  <2>3. Active(d)'
    BY <1>0, <1>1, <1>s, <2>1, RemoteLinkAssumption DEF Active
  <2>4. Queued(d)'
    BY <1>0, <1>s, <2>1 DEF Queued, Readable
  <2> QED  BY <2>2, <2>3, <2>4
<1>2. Phases(c)' /\ Active(c)'
  BY <1>0, <1>s, RemoteLinkAssumption DEF Phases, Active
<1>3. Queued(c)'
  BY <1>0, <1>s DEF Queued, Readable
<1> QED  BY <1>1, <1>2, <1>3 DEF Stages

\* A new connection sends a hello and an advertisement.
LEMMA ConnectStages ==
    ASSUME TypeInv, Sized, Stages, NEW c \in Conns, Connect(c)
    PROVE  Stages'
<1>s. /\ UNCHANGED ingVars /\ OthersUnread(c) /\ up[c].phase = "idle" /\ Sent(c, "greeted")
      /\ Len(chan'[c]) = 2 /\ chan'[c][1].kind = "hello" /\ daemon.running
  BY ConnectShape
<1>0. Phases(c) /\ Queued(c) /\ Active(c)
  BY DEF Stages
<1>1. ASSUME NEW d \in Conns, d # c
      PROVE  Phases(d)' /\ Queued(d)' /\ Active(d)'
  <2>1. Untouched(d)
    BY <1>1, <1>s DEF OthersUnread, Untouched, Becomes, Sent, ingVars
  <2> QED  BY <1>s, <2>1, StageStays DEF ingVars
<1>2. Phases(c)' /\ Active(c)'
  BY <1>0, <1>s DEF Phases, Active, Sent, ingVars
<1>3. \A i \in 2 .. Len(chan'[c]) : chan'[c][i].kind = "advert"
  BY <1>s DEF Sent
<1>4. ing[c].phase = "none" /\ ~ing[c].label /\ up'[c].phase = "greeted"
  BY <1>0, <1>s DEF Phases, Sent
<1>5. Queued(c)'
  BY <1>0, <1>s, <1>3, <1>4 DEF Queued, Readable, ingVars
<1> QED  BY <1>1, <1>2, <1>5 DEF Stages

\* An open one sends another advertisement.
LEMMA ReadvertiseStages ==
    ASSUME TypeInv, Sized, Stages, NEW c \in Conns, Readvertise(c)
    PROVE  Stages'
<1>s. /\ UNCHANGED ingVars /\ OthersUnread(c) /\ up[c].phase = "open" /\ Sent(c, "open")
      /\ Len(chan'[c]) = Len(chan[c]) + 1 /\ ing[c].phase # "closed"
      /\ \A i \in 1 .. Len(chan[c]) : chan'[c][i] = chan[c][i]
  BY ReadvertiseShape
<1>0. Phases(c) /\ Queued(c) /\ Active(c)
  BY DEF Stages
<1>1. ASSUME NEW d \in Conns, d # c
      PROVE  Phases(d)' /\ Queued(d)' /\ Active(d)'
  <2>1. Untouched(d)
    BY <1>1, <1>s DEF OthersUnread, Untouched, Becomes, Sent, ingVars
  <2> QED  BY <1>s, <2>1, StageStays DEF ingVars
<1>2. Phases(c)' /\ Active(c)'
  BY <1>0, <1>s DEF Phases, Active, Sent, ingVars
<1>3. /\ Len(chan[c]) \in Nat /\ chan'[c][Len(chan[c]) + 1].kind = "advert"
      /\ Readable(c)' <=> Readable(c)
  BY <1>s, Types DEF Sent, Readable, ingVars
<1>4. \A i \in 1 .. Len(chan'[c]) : i \in 1 .. Len(chan[c]) \/ i = Len(chan[c]) + 1
  BY <1>s, <1>3
<1>5. Queued(c)'
  <2>1. up'[c].phase # "idle" /\ ing' = ing
    BY <1>s DEF Sent, ingVars
  <2>2. Len(chan'[c]) >= 1
    BY <1>s, <1>3
  <2>3. ASSUME Readable(c), ing[c].label
        PROVE  \A i \in 1 .. Len(chan'[c]) : chan'[c][i].kind = "advert"
    BY <1>0, <1>s, <1>3, <1>4, <2>3 DEF Queued
  <2>4. ASSUME Readable(c), ~ing[c].label
        PROVE  /\ Len(chan'[c]) >= 2 /\ chan'[c][1].kind = "hello"
               /\ \A i \in 2 .. Len(chan'[c]) : chan'[c][i].kind = "advert"
    <3>1. /\ Len(chan[c]) >= 2 /\ chan[c][1].kind = "hello"
          /\ \A i \in 2 .. Len(chan[c]) : chan[c][i].kind = "advert"
      BY <1>0, <2>4 DEF Queued
    <3>2. \A i \in 2 .. Len(chan'[c]) : i \in 2 .. Len(chan[c]) \/ i = Len(chan[c]) + 1
      BY <1>s, <1>3
    <3>3. Len(chan'[c]) >= 2 /\ chan'[c][1] = chan[c][1]
      BY <1>s, <1>3, <3>1
    <3>4. \A i \in 2 .. Len(chan[c]) : chan'[c][i] = chan[c][i]
      BY <1>s, <1>3
    <3> QED  BY <1>3, <3>1, <3>2, <3>3, <3>4
  <2> QED  BY <1>s, <1>3, <2>1, <2>2, <2>3, <2>4 DEF Queued
<1> QED  BY <1>1, <1>2, <1>5 DEF Stages

\* No connection outlives the daemon.
LEMMA IngestStopStages ==
    ASSUME TypeInv, Sized, Stages, IngestStop
    PROVE  Stages'
<1>s. /\ UNCHANGED up
      /\ ~daemon'.running
      /\ \A d \in Conns :
           /\ Len(chan'[d]) = 0
           /\ up[d].phase = "idle" =>
                Becomes(d, ing[d].phase, ing[d].label, ing[d].waits, ing[d].sessions, ing[d].done)
           /\ up[d].phase # "idle" => Becomes(d, "closed", FALSE, None, {}, FALSE)
      /\ registry'.active = None
  BY IngestStopShape DEF devVars
<1> SUFFICES ASSUME NEW d \in Conns
             PROVE  Phases(d)' /\ Queued(d)' /\ Active(d)'
  BY DEF Stages
<1>0. Phases(d) /\ Queued(d) /\ Active(d)
  BY DEF Stages
<1>1. CASE up[d].phase = "idle"
  <2>1. /\ ing'[d].phase = "none" /\ ~ing'[d].label /\ ing'[d].sessions = {} /\ ~ing'[d].done
    BY <1>0, <1>1, <1>s DEF Becomes, Phases
  <2> QED  BY <1>1, <1>s, <2>1, RemoteLinkAssumption DEF Phases, Queued, Active, Readable
<1>2. CASE up[d].phase # "idle"
  <2>1. /\ ing'[d].phase = "closed" /\ ~ing'[d].label /\ ing'[d].sessions = {} /\ ~ing'[d].done
    BY <1>2, <1>s DEF Becomes
  <2> QED  BY <1>2, <1>s, <2>1, RemoteLinkAssumption DEF Phases, Queued, Active, Readable
<1> QED  BY <1>1, <1>2

\* Every step but a stuttering one is one of these.
LEMMA NextCases ==
    ASSUME Next
    PROVE  \/ \E s \in Sessions : Changes(s) \/ DaemonDies(s) \/ UserRemove(s)
           \/ \E c \in Conns : \/ Connect(c) \/ StartWatch(c) \/ Readvertise(c) \/ Hangup(c)
                               \/ Accept(c) \/ HelloRefused(c) \/ HelloEvicts(c)
                               \/ HelloRegisters(c) \/ HandleAdded(c) \/ HandleRemoved(c)
                               \/ HandleList(c) \/ Teardown(c) \/ MarkTornDown(c)
           \/ Scan \/ Dismiss \/ IngestStop \/ IngestStart
BY DEF Next, IngestStep, Changes

\* Every step keeps the stages.
LEMMA StagesStep ==
    ASSUME TypeInv, Sized, Stages, OneGreets, Next
    PROVE  Stages'
<1>1. ASSUME NEW s \in Sessions, Changes(s)
      PROVE  Stages'
  <2>1. UNCHANGED <<chan, ingVars>> /\ TouchedFrom(up)
    BY <1>1, ChangeShape
  <2>2. \A d \in Conns : Untouched(d)
    BY <2>1 DEF TouchedFrom, Untouched, Becomes, ingVars
  <2> QED  BY <2>1, <2>2, AllUntouched DEF ingVars
<1>2. ASSUME NEW s \in Sessions, DaemonDies(s)
      PROVE  Stages'
  BY <1>2, AllUntouched DEF DaemonDies, Untouched, Becomes, ingVars
<1>3. ASSUME NEW s \in Sessions, UserRemove(s)
      PROVE  Stages'
  BY <1>3, AllUntouched DEF UserRemove, Untouched, Becomes, devVars
<1>4. ASSUME NEW c \in Conns, StartWatch(c) \/ Hangup(c)
      PROVE  Stages'
  <2>1. /\ UNCHANGED <<local, chan, ingVars>> /\ up[c].phase # "idle" /\ up'[c].phase # "idle"
        /\ \A d \in Conns : d # c => up'[d] = up[d]
    BY <1>4, StartWatchShape, HangupShape DEF Linked
  <2>2. \A d \in Conns : Untouched(d)
    BY <2>1 DEF Untouched, Becomes, ingVars
  <2> QED  BY <2>1, <2>2, AllUntouched DEF ingVars
<1>5. CASE Scan
  BY <1>5, AllUntouched DEF Scan, Untouched, Becomes, devVars
<1>6. CASE Dismiss
  <2>1. \A d \in Conns : Untouched(d)
    BY <1>6 DEF Dismiss, Untouched, Becomes, devVars
  <2> QED  BY <1>6, <2>1, DismissShape, AllUntouched
<1>7. CASE IngestStart
  <2>1. UNCHANGED <<devVars, chan, ing, registry>> /\ daemon'.running
    BY <1>7, IngestStartShape
  <2> QED  BY <2>1 DEF Stages, Phases, Queued, Active, Readable, devVars
<1>8. ASSUME NEW c \in Conns, Connect(c) \/ Readvertise(c) \/ Accept(c) \/ HelloRefused(c)
      PROVE  Stages'
  BY <1>8, ConnectStages, ReadvertiseStages, AcceptStages, HelloRefusedStages
<1>9. ASSUME NEW c \in Conns, HelloEvicts(c) \/ HelloRegisters(c) \/ Teardown(c) \/ MarkTornDown(c)
      PROVE  Stages'
  BY <1>9, HelloEvictsStages, HelloRegistersStages, TeardownStages, MarkTornDownStages
<1>10. ASSUME NEW c \in Conns, HandleAdded(c) \/ HandleRemoved(c) \/ HandleList(c)
       PROVE  Stages'
  BY <1>10, FramesStages
<1> QED  BY <1>1, <1>2, <1>3, <1>4, <1>5, <1>6, <1>7, <1>8, <1>9, <1>10, IngestStopStages, NextCases

\* The types and the room are kept.
LEMMA TypeStep ==
    ASSUME TypeInv, Sized, Stages, Next
    PROVE  TypeInv' /\ Sized'
<1>1. ASSUME NEW s \in Sessions, Changes(s) \/ DaemonDies(s) \/ UserRemove(s)
      PROVE  TypeInv' /\ Sized'
  BY <1>1, ChangeShape, DaemonDiesShape, UserRemoveShape
<1>2. ASSUME NEW c \in Conns, Connect(c) \/ StartWatch(c) \/ Readvertise(c) \/ Hangup(c)
      PROVE  TypeInv' /\ Sized'
  BY <1>2, ConnectShape, StartWatchShape, ReadvertiseShape, HangupShape
<1>3. ASSUME NEW c \in Conns, Accept(c) \/ HelloRefused(c) \/ HelloEvicts(c) \/ HelloRegisters(c)
      PROVE  TypeInv' /\ Sized'
  BY <1>3, AcceptShape, HelloRefusedShape, HelloEvictsShape, HelloRegistersShape
<1>4. ASSUME NEW c \in Conns, HandleAdded(c) \/ HandleRemoved(c) \/ HandleList(c)
      PROVE  TypeInv' /\ Sized'
  BY <1>4, HandleAddedShape, HandleRemovedShape, HandleListShape
<1>5. ASSUME NEW c \in Conns, Teardown(c) \/ MarkTornDown(c)
      PROVE  TypeInv' /\ Sized'
  BY <1>5, TeardownShape, MarkTornDownShape
<1>6. CASE Scan \/ Dismiss \/ IngestStop \/ IngestStart
  BY <1>6, ScanShape, DismissShape, IngestStopShape, IngestStartShape
<1> QED  BY <1>1, <1>2, <1>3, <1>4, <1>5, <1>6, NextCases

----------------------------------------------------------------------------
(* The order in which advertisements are read *)

List(c, i) == chan[c][i].list
Retracts(c, i) == chan[c][i].removed
Adds(c, i) == chan[c][i].added
\* The advertisements of c that may have an effect still.
Adverts(c) == {i \in 1 .. Len(chan[c]) : Readable(c) /\ chan[c][i].kind = "advert"}

\* The j-th entry of d is read after the i-th of c, or is that one.
Follows(c, i, d, j) == (c = d /\ i =< j) \/ (c # d /\ Greeting(d))

\* The session was deleted before the i-th entry of c was written, and no
\* advertisement read from there on has it.
EndedBy(s, c, i) ==
    /\ local[s] = "deleted"
    /\ \A d \in Conns : \A j \in Adverts(d) : Follows(c, i, d, j) => s \notin List(d, j)
\* No advertisement has it at all.
Lost(s) == local[s] = "deleted" /\ \A c \in Conns : \A i \in Adverts(c) : s \notin List(c, i)
\* The ingest knows the session.
Seen(s) == file[s] # "none" \/ \E c \in Conns : s \in ing[c].sessions

\* A session an entry lacks, though one read before it has it or the ingest knows
\* it, is gone for good, and so is what the entry retracts.
Newer(d, j) ==
    /\ \A c \in Conns : \A i \in Adverts(c) : Follows(c, i, d, j) =>
         \A s \in List(c, i) : s \in List(d, j) \/ EndedBy(s, d, j)
    /\ \A s \in Sessions : Seen(s) => s \in List(d, j) \/ EndedBy(s, d, j)
    /\ \A s \in Retracts(d, j) : EndedBy(s, d, j)
InOrder == \A d \in Conns : \A j \in Adverts(d) : Newer(d, j)

\* A step after which every entry that may have an effect is one from before, n
\* places further ahead.
Shifted(n) ==
    /\ n \in [Conns -> Nat]
    /\ \A d \in Conns : /\ Greeting(d)' => Greeting(d)
                        /\ Readable(d)' => Readable(d)
                        /\ Linked(d)' => Linked(d)
                        /\ up[d].phase = "closed" => up'[d].phase = "closed"
    /\ \A d \in Conns : \A i \in Adverts(d)' :
         /\ i + n[d] \in Adverts(d) /\ List(d, i)' = List(d, i + n[d])
         /\ Retracts(d, i)' \subseteq Retracts(d, i + n[d])
         /\ Adds(d, i)' \subseteq Adds(d, i + n[d])
    /\ \A d \in Conns : Readable(d)' => Len(chan'[d]) + n[d] = Len(chan[d])
    /\ \A s \in Sessions : local[s] = "deleted" => local'[s] = "deleted"

\* What the advertisements name are sessions.
LEMMA AdvertsType ==
    ASSUME TypeInv, NEW c \in Conns
    PROVE  /\ Adverts(c) \subseteq Nat
           /\ \A i \in Adverts(c) : List(c, i) \subseteq Sessions /\ Retracts(c, i) \subseteq Sessions
<1>1. \A i \in 1 .. Len(chan[c]) : chan[c][i] \in AdvertType
  BY EntryType
<1>2. Len(chan[c]) \in Nat
  BY Types
<1> QED  BY <1>1, <1>2 DEF Adverts, List, Retracts, AdvertType

\* And after a step.
LEMMA AdvertsTypeNext ==
    ASSUME TypeInv', NEW c \in Conns
    PROVE  /\ Adverts(c)' \subseteq Nat
           /\ \A i \in Adverts(c)' : List(c, i)' \subseteq Sessions /\ Retracts(c, i)' \subseteq Sessions
<1>1. chan'[c] \in Seq(AdvertType)
  BY DEF TypeInv
<1>2. Len(chan'[c]) \in Nat /\ \A i \in 1 .. Len(chan'[c]) : chan'[c][i] \in AdvertType
  BY <1>1
<1> QED  BY <1>2 DEF Adverts, List, Retracts, AdvertType

\* Entries that follow each other did so before.
LEMMA FollowsBefore ==
    ASSUME TypeInv', NEW n, Shifted(n), NEW c \in Conns, NEW d \in Conns,
           NEW i \in Adverts(c)', NEW j \in Adverts(d)', Follows(c, i, d, j)'
    PROVE  Follows(c, i + n[c], d, j + n[d])
<1>1. Adverts(c)' \subseteq Nat /\ Adverts(d)' \subseteq Nat
  BY AdvertsTypeNext
<1>2. i \in Nat /\ j \in Nat /\ n[c] \in Nat /\ n[d] \in Nat
  BY <1>1 DEF Shifted
<1>3. CASE c = d /\ i =< j
  BY <1>2, <1>3 DEF Follows
<1>4. CASE c # d /\ Greeting(d)'
  BY <1>4 DEF Shifted, Follows
<1> QED  BY <1>3, <1>4 DEF Follows

\* What ended before an entry did so before it in its new place.
LEMMA EndedByStays ==
    ASSUME TypeInv', NEW n, Shifted(n), NEW s \in Sessions, NEW d \in Conns, NEW j \in Adverts(d)',
           EndedBy(s, d, j + n[d])
    PROVE  EndedBy(s, d, j)'
<1>1. local'[s] = "deleted"
  BY DEF Shifted, EndedBy
<1>2. ASSUME NEW e \in Conns, NEW k \in Adverts(e)', Follows(d, j, e, k)'
      PROVE  s \notin List(e, k)'
  <2>1. Follows(d, j + n[d], e, k + n[e])
    BY <1>2, FollowsBefore
  <2>2. k + n[e] \in Adverts(e) /\ List(e, k)' = List(e, k + n[e])
    BY DEF Shifted
  <2> QED  BY <2>1, <2>2 DEF EndedBy
<1> QED  BY <1>1, <1>2 DEF EndedBy

\* What is lost stays lost when entries are read.
LEMMA LostStays ==
    ASSUME NEW n, Shifted(n), NEW s \in Sessions, Lost(s)
    PROVE  Lost(s)'
BY DEF Shifted, Lost

\* When the ingest reads, the order is kept, if what it comes to know is in order.
LEMMA OrderRead ==
    ASSUME TypeInv', NEW n, Shifted(n), InOrder,
           \A s \in Sessions : Seen(s)' => \A d \in Conns : \A j \in Adverts(d) :
                                             s \in List(d, j) \/ EndedBy(s, d, j)
    PROVE  InOrder'
<1> SUFFICES ASSUME NEW d \in Conns, NEW j \in Adverts(d)'
             PROVE  Newer(d, j)'
  BY DEF InOrder
<1>1. j + n[d] \in Adverts(d) /\ List(d, j)' = List(d, j + n[d])
      /\ Retracts(d, j)' \subseteq Retracts(d, j + n[d])
  BY DEF Shifted
<1>2. Newer(d, j + n[d])
  BY <1>1 DEF InOrder
<1>t. \A c \in Conns : \A i \in Adverts(c)' : List(c, i)' \subseteq Sessions /\ Retracts(c, i)' \subseteq Sessions
  BY AdvertsTypeNext
<1>3. ASSUME NEW c \in Conns, NEW i \in Adverts(c)', Follows(c, i, d, j)', NEW s \in List(c, i)'
      PROVE  s \in List(d, j)' \/ EndedBy(s, d, j)'
  <2>1. i + n[c] \in Adverts(c) /\ List(c, i)' = List(c, i + n[c]) /\ s \in Sessions
    BY <1>t DEF Shifted
  <2>2. Follows(c, i + n[c], d, j + n[d])
    BY <1>3, FollowsBefore
  <2>3. s \in List(d, j + n[d]) \/ EndedBy(s, d, j + n[d])
    BY <1>2, <2>1, <2>2 DEF Newer
  <2> QED  BY <1>1, <2>1, <2>3, EndedByStays
<1>4. ASSUME NEW s \in Sessions, Seen(s)'
      PROVE  s \in List(d, j)' \/ EndedBy(s, d, j)'
  BY <1>1, <1>4, EndedByStays
<1>5. ASSUME NEW s \in Retracts(d, j)'
      PROVE  EndedBy(s, d, j)'
  <2>1. s \in Sessions /\ EndedBy(s, d, j + n[d])
    BY <1>1, <1>2, <1>t DEF Newer
  <2> QED  BY <2>1, EndedByStays
<1> QED  BY <1>3, <1>4, <1>5 DEF Newer

\* A session not started yet is nowhere, and what is sent is what there is.
NothingFresh ==
    \A s \in Sessions : local[s] = "fresh" =>
        /\ ~Seen(s)
        /\ \A c \in Conns : s \notin up[c].advertised /\ \A i \in Adverts(c) : s \notin List(c, i)

\* The step that sends an advertisement on c, at the end of its channel, while no
\* other hello is on its way and no other bridge is linked.
Sending(c) ==
    /\ Sent(c, up'[c].phase) /\ UNCHANGED ingVars /\ OthersUnread(c)
    /\ up'[c].phase \in {"greeted", "open"}
    /\ Len(chan'[c]) >= 1
    /\ \A i \in Adverts(c)' : i # Len(chan'[c]) =>
         /\ i \in Adverts(c) /\ i < Len(chan'[c]) /\ chan'[c][i] = chan[c][i]
         /\ (Greeting(c)' => Greeting(c))
    /\ \A d \in Conns : d # c => ~Linked(d) /\ (Readable(c)' => ~Greeting(d))
    /\ Greeting(c)' => \A d \in Conns : d # c => ~Greeting(d)

\* With one target, no bridge is linked when another is made.
LEMMA OnlyLink ==
    ASSUME TypeInv, OneAtATime, MaxTargets =< 1,
           Cardinality({d \in Conns : up[d].phase \in {"greeted", "open"}}) < MaxTargets
    PROVE  \A d \in Conns : ~Linked(d)
<1> DEFINE L == {d \in Conns : up[d].phase \in {"greeted", "open"}}
<1>1. ASSUME NEW d \in Conns, Linked(d)
      PROVE  FALSE
  <2>1. L = {d}
    BY <1>1 DEF OneAtATime, Linked
  <2>2. Cardinality(L) = 1
    BY <2>1, FS_Singleton
  <2> QED  BY <2>2, RemoteLinkAssumption
<1> QED  BY <1>1

\* A new connection sends.
LEMMA ConnectSends ==
    ASSUME TypeInv, Sized, Stages, OneAtATime, ~Overlap, MaxTargets =< 1, NEW c \in Conns, Connect(c)
    PROVE  Sending(c)
<1>1. /\ UNCHANGED ingVars /\ OthersUnread(c) /\ Sent(c, "greeted")
      /\ Len(chan'[c]) = 2 /\ chan'[c][1].kind = "hello"
  BY ConnectShape
<1>2. up'[c].phase = "greeted"
  BY <1>1 DEF Sent
<1>3. \A i \in Adverts(c)' : i = Len(chan'[c])
  BY <1>1 DEF Adverts
<1>4. \A d \in Conns : ~Linked(d)
  BY OnlyLink DEF Connect
<1>5. \A d \in Conns : ~Greeting(d)
  BY DEF Connect, Greeting, Readable
<1> QED  BY <1>1, <1>2, <1>3, <1>4, <1>5 DEF Sending

\* And so does an open one.
LEMMA ReadvertiseSends ==
    ASSUME TypeInv, Sized, Stages, OneAtATime, NEW c \in Conns, Readvertise(c)
    PROVE  Sending(c)
<1>1. /\ UNCHANGED ingVars /\ OthersUnread(c) /\ Sent(c, "open") /\ up[c].phase = "open"
      /\ Len(chan'[c]) = Len(chan[c]) + 1
      /\ \A i \in 1 .. Len(chan[c]) : chan'[c][i] = chan[c][i]
  BY ReadvertiseShape
<1>2. up'[c].phase = "open" /\ Len(chan[c]) \in Nat
  BY <1>1, Types DEF Sent
<1>3. (Readable(c)' <=> Readable(c)) /\ (Greeting(c)' <=> Greeting(c))
  BY <1>1, <1>2 DEF Readable, Greeting, ingVars
<1>4. ASSUME NEW i \in Adverts(c)', i # Len(chan'[c])
      PROVE  /\ i \in Adverts(c) /\ i < Len(chan'[c]) /\ chan'[c][i] = chan[c][i]
  <2>1. i \in 1 .. Len(chan'[c]) /\ chan'[c][i].kind = "advert" /\ Readable(c)'
    BY DEF Adverts
  <2>2. i \in 1 .. Len(chan[c]) /\ i < Len(chan'[c])
    BY <1>1, <1>2, <1>4, <2>1
  <2> QED  BY <1>1, <1>3, <2>1, <2>2 DEF Adverts
<1>5. \A d \in Conns : d # c => ~Linked(d) /\ (Readable(c) => ~Greeting(d))
  BY <1>1 DEF OneAtATime, Linked
<1>6. Greeting(c) => \A d \in Conns : d # c => ~Greeting(d)
  BY DEF OneAtATime, OneGreets
<1> QED  BY <1>1, <1>2, <1>3, <1>4, <1>5, <1>6 DEF Sending

\* The other connections do not take part in it.
LEMMA SendingOthers ==
    ASSUME NEW c \in Conns, Sending(c)
    PROVE  /\ \A d \in Conns : d # c =>
                /\ Readable(d)' <=> Readable(d)
                /\ Greeting(d)' <=> Greeting(d)
                /\ ~Linked(d)'
                /\ up'[d].phase = up[d].phase
                /\ Adverts(d)' = Adverts(d)
                /\ \A i \in Adverts(d) : List(d, i)' = List(d, i) /\ Retracts(d, i)' = Retracts(d, i)
           /\ \A s \in Sessions : Seen(s)' <=> Seen(s)
<1>1. \A d \in Conns : d # c => /\ up'[d].phase = up[d].phase /\ ing' = ing
                                /\ chan'[d] = chan[d] /\ ~Linked(d)
  BY DEF Sending, Sent, OthersUnread, ingVars
<1>2. \A s \in Sessions : Seen(s)' <=> Seen(s)
  BY DEF Sending, Seen, ingVars
<1>3. ASSUME NEW d \in Conns, d # c
      PROVE  /\ Readable(d)' <=> Readable(d)
             /\ Greeting(d)' <=> Greeting(d)
             /\ ~Linked(d)'
  BY <1>1, <1>3 DEF Readable, Greeting, Linked
<1>4. ASSUME NEW d \in Conns, d # c
      PROVE  /\ Adverts(d)' = Adverts(d)
             /\ \A i \in Adverts(d) : List(d, i)' = List(d, i) /\ Retracts(d, i)' = Retracts(d, i)
  BY <1>1, <1>3, <1>4 DEF Adverts, List, Retracts
<1> QED  BY <1>1, <1>2, <1>3, <1>4

\* What it says of the devbox.
LEMMA SendingDevbox ==
    ASSUME TypeInv, NEW c \in Conns, Sending(c)
    PROVE  /\ \A s \in Sessions : /\ local'[s] = "deleted" <=> local[s] = "deleted"
                                  /\ local'[s] = "fresh" <=> local[s] = "fresh"
           /\ OnDevbox' = OnDevbox
           /\ \A l : l = Len(chan'[c]) => /\ List(c, l)' = OnDevbox
                                          /\ Retracts(c, l)' = up[c].advertised \ OnDevbox
           /\ up'[c].advertised = OnDevbox
<1>1. local \in [Sessions -> Locals] /\ local' = [s \in Sessions |-> Shown(local[s])]
  BY Types DEF Sending, Sent
<1>2. \A s \in Sessions : /\ local'[s] = "deleted" <=> local[s] = "deleted"
                          /\ local'[s] = "fresh" <=> local[s] = "fresh"
  BY <1>1 DEF Shown
<1>3. OnDevbox' = OnDevbox
  BY <1>2 DEF OnDevbox
<1> QED  BY <1>2, <1>3 DEF Sending, Sent, List, Retracts

\* What was gone is gone for the new entry too.
LEMMA SendingEnds ==
    ASSUME TypeInv, NEW c \in Conns, Sending(c), NEW s \in Sessions, NEW d \in Conns,
           NEW j \in Adverts(d)', d = c => j # Len(chan'[c]), EndedBy(s, d, j)
    PROVE  EndedBy(s, d, j)'
<1>1. local'[s] = "deleted" /\ s \notin OnDevbox
  BY SendingDevbox DEF EndedBy, OnDevbox
<1>2. ASSUME NEW e \in Conns, NEW k \in Adverts(e)', Follows(d, j, e, k)'
      PROVE  s \notin List(e, k)'
  <2>1. CASE e = c /\ k = Len(chan'[c])
    BY <1>1, <2>1, SendingDevbox
  <2>2. CASE e = c /\ k # Len(chan'[c])
    <3>1. k \in Adverts(c) /\ List(c, k)' = List(c, k) /\ (Greeting(c)' => Greeting(c))
      BY <2>2 DEF Sending, List
    <3>2. Follows(d, j, e, k)
      BY <1>2, <2>2, <3>1 DEF Follows
    <3> QED  BY <2>2, <3>1, <3>2 DEF EndedBy
  <2>3. CASE e # c
    <3>1. k \in Adverts(e) /\ List(e, k)' = List(e, k) /\ (Greeting(e)' => Greeting(e))
      BY <2>3, SendingOthers
    <3>2. Follows(d, j, e, k)
      BY <1>2, <3>1 DEF Follows
    <3> QED  BY <3>1, <3>2 DEF EndedBy
  <2> QED  BY <2>1, <2>2, <2>3
<1> QED  BY <1>1, <1>2 DEF EndedBy

\* What the new entry lacks and had started is gone.
LEMMA SendingLacks ==
    ASSUME TypeInv, TypeInv', NEW c \in Conns, Sending(c),
           NEW l \in Adverts(c)', l = Len(chan'[c]),
           NEW s \in Sessions \ OnDevbox, local[s] # "fresh"
    PROVE  EndedBy(s, c, l)'
<1>1. local'[s] = "deleted"
  BY SendingDevbox DEF OnDevbox
<1>2. ASSUME NEW e \in Conns, NEW k \in Adverts(e)', Follows(c, l, e, k)'
      PROVE  s \notin List(e, k)'
  <2>1. CASE e = c
    <3>1. k = l
      <4>1. l \in Nat /\ k \in Nat
        BY <2>1, AdvertsTypeNext
      <4>2. k =< l
        BY <2>1, <4>1 DEF Adverts
      <4>3. l =< k
        BY <1>2, <2>1 DEF Follows
      <4> QED  BY <4>1, <4>2, <4>3
    <3> QED  BY <2>1, <3>1, SendingDevbox
  <2>2. CASE e # c
    <3>1. Readable(c)'
      BY DEF Adverts
    <3>2. Greeting(e)'
      BY <1>2, <2>2 DEF Follows
    <3> QED  BY <2>2, <3>1, <3>2, SendingOthers DEF Sending
  <2> QED  BY <2>1, <2>2
<1> QED  BY <1>1, <1>2 DEF EndedBy

\* When the uplink sends, the order is kept.
LEMMA OrderSent ==
    ASSUME TypeInv, TypeInv', NEW c \in Conns, Sending(c), InOrder, NothingFresh
    PROVE  InOrder'
<1> SUFFICES ASSUME NEW d \in Conns, NEW j \in Adverts(d)'
             PROVE  Newer(d, j)'
  BY DEF InOrder
<1>t. \A e \in Conns : \A i \in Adverts(e)' : List(e, i)' \subseteq Sessions /\ Retracts(e, i)' \subseteq Sessions
  BY AdvertsTypeNext
<1>u. up[c].advertised \subseteq Sessions
  BY Types DEF UpType
\* An entry from before is as it was.
<1>o. ASSUME NEW e \in Conns, NEW i \in Adverts(e)', e = c => i # Len(chan'[c])
      PROVE  /\ i \in Adverts(e) /\ List(e, i)' = List(e, i) /\ Retracts(e, i)' = Retracts(e, i)
             /\ e = c => i < Len(chan'[c])
             /\ Greeting(e)' => Greeting(e)
  <2>1. CASE e = c
    BY <1>o, <2>1 DEF Sending, List, Retracts
  <2>2. CASE e # c
    BY <2>2, SendingOthers
  <2> QED  BY <2>1, <2>2
<1>1. CASE d = c /\ j = Len(chan'[c])
  <2>1. List(d, j)' = OnDevbox /\ Retracts(d, j)' = up[c].advertised \ OnDevbox
    BY <1>1, SendingDevbox
  <2>2. ASSUME NEW s \in Sessions, local[s] # "fresh"
        PROVE  s \in List(d, j)' \/ EndedBy(s, d, j)'
    BY <1>1, <2>1, <2>2, SendingLacks
  <2>3. ASSUME NEW e \in Conns, NEW i \in Adverts(e)', NEW s \in List(e, i)'
        PROVE  s \in List(d, j)' \/ EndedBy(s, d, j)'
    <3>1. CASE e = c /\ i = Len(chan'[c])
      BY <1>1, <2>3, <3>1
    <3>2. CASE ~(e = c /\ i = Len(chan'[c]))
      <4>1. i \in Adverts(e) /\ s \in List(e, i) /\ s \in Sessions
        BY <1>o, <1>t, <2>3, <3>2
      <4>2. local[s] # "fresh"
        BY <4>1 DEF NothingFresh
      <4> QED  BY <2>2, <4>1, <4>2
    <3> QED  BY <3>1, <3>2
  <2>4. ASSUME NEW s \in Sessions, Seen(s)'
        PROVE  s \in List(d, j)' \/ EndedBy(s, d, j)'
    <3>1. local[s] # "fresh"
      BY <2>4, SendingOthers DEF NothingFresh
    <3> QED  BY <2>2, <3>1
  <2>5. ASSUME NEW s \in Retracts(d, j)'
        PROVE  EndedBy(s, d, j)'
    <3>1. s \in Sessions \ OnDevbox /\ local[s] # "fresh"
      BY <1>u, <2>1, <2>5 DEF NothingFresh
    <3> QED  BY <1>1, <3>1, SendingLacks
  <2> QED  BY <2>3, <2>4, <2>5 DEF Newer
<1>2. CASE d = c => j # Len(chan'[c])
  <2>1. /\ j \in Adverts(d) /\ List(d, j)' = List(d, j) /\ Retracts(d, j)' = Retracts(d, j)
        /\ d = c => j < Len(chan'[c])
    BY <1>2, <1>o
  <2>2. Newer(d, j)
    BY <2>1 DEF InOrder
  <2>3. ASSUME NEW s \in Sessions, EndedBy(s, d, j)
        PROVE  EndedBy(s, d, j)'
    BY <1>2, <2>3, SendingEnds
  <2>4. ASSUME NEW e \in Conns, NEW i \in Adverts(e)', Follows(e, i, d, j)', NEW s \in List(e, i)'
        PROVE  s \in List(d, j)' \/ EndedBy(s, d, j)'
    <3>1. ~(e = c /\ i = Len(chan'[c]))
      <4>1. SUFFICES ASSUME e = c, i = Len(chan'[c])
                     PROVE  FALSE
        OBVIOUS
      <4>2. CASE d = c
        <5>1. i =< j /\ j < Len(chan'[c])
          BY <2>1, <2>4, <4>1, <4>2 DEF Follows
        <5>2. i \in Nat /\ j \in Nat
          BY AdvertsTypeNext
        <5> QED  BY <4>1, <5>1, <5>2
      <4>3. CASE d # c
        <5>1. Greeting(d)' /\ Readable(c)'
          BY <2>4, <4>1, <4>3 DEF Follows, Adverts
        <5> QED  BY <4>3, <5>1, SendingOthers DEF Sending
      <4> QED  BY <4>2, <4>3
    <3>2. i \in Adverts(e) /\ List(e, i)' = List(e, i) /\ s \in Sessions
      BY <1>o, <1>t, <2>4, <3>1
    <3>3. Follows(e, i, d, j)
      BY <1>2, <1>o, <2>4 DEF Follows
    <3>4. s \in List(d, j) \/ EndedBy(s, d, j)
      BY <2>2, <3>2, <3>3 DEF Newer
    <3> QED  BY <2>1, <2>3, <3>2, <3>4
  <2>5. ASSUME NEW s \in Sessions, Seen(s)'
        PROVE  s \in List(d, j)' \/ EndedBy(s, d, j)'
    BY <2>1, <2>2, <2>3, <2>5, SendingOthers DEF Newer
  <2>6. ASSUME NEW s \in Retracts(d, j)'
        PROVE  EndedBy(s, d, j)'
    BY <1>t, <2>1, <2>2, <2>3, <2>6 DEF Newer
  <2> QED  BY <2>4, <2>5, <2>6 DEF Newer
<1> QED  BY <1>1, <1>2

\* What is lost is not sent again.
LEMMA LostSent ==
    ASSUME TypeInv, NEW c \in Conns, Sending(c), NEW s \in Sessions, Lost(s)
    PROVE  Lost(s)'
<1>1. local'[s] = "deleted" /\ s \notin OnDevbox
  BY SendingDevbox DEF Lost, OnDevbox
<1>2. ASSUME NEW e \in Conns, NEW k \in Adverts(e)'
      PROVE  s \notin List(e, k)'
  <2>1. CASE e = c /\ k = Len(chan'[c])
    BY <1>1, <2>1, SendingDevbox
  <2>2. CASE e = c /\ k # Len(chan'[c])
    BY <2>2 DEF Sending, List, Lost
  <2>3. CASE e # c
    BY <2>3, SendingOthers DEF Lost
  <2> QED  BY <2>1, <2>2, <2>3
<1> QED  BY <1>1, <1>2 DEF Lost

----------------------------------------------------------------------------
(* Every other step reads *)

\* A step that drops entries, or keeps them where they are.
LEMMA InPlace ==
    ASSUME TypeInv', \A s \in Sessions : local[s] = "deleted" => local'[s] = "deleted",
           \A d \in Conns : /\ Linked(d)' => Linked(d)
                            /\ up[d].phase = "closed" => up'[d].phase = "closed"
                            /\ Greeting(d)' => Greeting(d)
                            /\ Readable(d)' =>
                                 /\ Readable(d) /\ Len(chan'[d]) = Len(chan[d])
                                 /\ \A i \in 1 .. Len(chan[d]) :
                                      /\ chan'[d][i].kind = chan[d][i].kind
                                      /\ chan'[d][i].list = chan[d][i].list
                                      /\ chan'[d][i].removed \subseteq chan[d][i].removed
                                      /\ chan'[d][i].added \subseteq chan[d][i].added
    PROVE  \E n : Shifted(n)
<1> DEFINE n == [d \in Conns |-> 0]
<1>1. n \in [Conns -> Nat] /\ \A d \in Conns : n[d] = 0
  OBVIOUS
<1> HIDE DEF n
<1>2. ASSUME NEW d \in Conns, NEW i \in Adverts(d)'
      PROVE  /\ i + n[d] \in Adverts(d) /\ List(d, i)' = List(d, i + n[d])
             /\ Retracts(d, i)' \subseteq Retracts(d, i + n[d])
             /\ Adds(d, i)' \subseteq Adds(d, i + n[d])
  <2>1. i + n[d] = i
    BY <1>1, AdvertsTypeNext
  <2>2. Readable(d)' /\ i \in 1 .. Len(chan'[d]) /\ chan'[d][i].kind = "advert"
    BY DEF Adverts
  <2> QED  BY <2>1, <2>2 DEF Adverts, List, Retracts, Adds
<1>3. \A d \in Conns : Readable(d)' => Len(chan'[d]) + n[d] = Len(chan[d])
  <2>1. \A d \in Conns : Len(chan'[d]) \in Nat
    BY DEF TypeInv
  <2> QED  BY <1>1, <2>1
<1>4. Shifted(n)
  BY <1>1, <1>2, <1>3 DEF Shifted
<1> QED  BY <1>4

\* A step that reads the first entry of c.
LEMMA OneAhead ==
    ASSUME TypeInv, TypeInv', NEW c \in Conns, Popped(c), OthersUnread(c),
           \A s \in Sessions : local[s] = "deleted" => local'[s] = "deleted",
           \A d \in Conns : /\ Linked(d)' => Linked(d)
                            /\ up[d].phase = "closed" => up'[d].phase = "closed"
                            /\ Greeting(d)' => Greeting(d)
                            /\ Readable(d)' => Readable(d)
    PROVE  \E n : Shifted(n)
<1> DEFINE n == [d \in Conns |-> IF d = c THEN 1 ELSE 0]
<1>1. n \in [Conns -> Nat] /\ n[c] = 1 /\ \A d \in Conns : d # c => n[d] = 0
  OBVIOUS
<1> HIDE DEF n
<1>l. Len(chan[c]) \in Nat
  BY Types
<1>2. ASSUME NEW d \in Conns, NEW i \in Adverts(d)'
      PROVE  /\ i + n[d] \in Adverts(d) /\ List(d, i)' = List(d, i + n[d])
             /\ Retracts(d, i)' \subseteq Retracts(d, i + n[d])
             /\ Adds(d, i)' \subseteq Adds(d, i + n[d])
  <2>1. i \in Nat /\ Readable(d)' /\ i \in 1 .. Len(chan'[d]) /\ chan'[d][i].kind = "advert"
    BY AdvertsTypeNext DEF Adverts
  <2>2. CASE d = c
    <3>1. i + n[d] = i + 1 /\ i + 1 \in 1 .. Len(chan[d]) /\ chan'[d][i] = chan[d][i + 1]
      BY <1>1, <1>l, <2>1, <2>2 DEF Popped
    <3> QED  BY <2>1, <3>1 DEF Adverts, List, Retracts, Adds
  <2>3. CASE d # c
    <3>1. i + n[d] = i /\ chan'[d] = chan[d]
      BY <1>1, <2>1, <2>3 DEF OthersUnread
    <3> QED  BY <2>1, <3>1 DEF Adverts, List, Retracts, Adds
  <2> QED  BY <2>2, <2>3
<1>3. \A d \in Conns : Len(chan'[d]) + n[d] = Len(chan[d])
  <2>1. \A d \in Conns : Len(chan[d]) \in Nat
    BY Types
  <2> QED  BY <1>1, <2>1 DEF Popped, OthersUnread
<1>4. Shifted(n)
  BY <1>1, <1>2, <1>3 DEF Shifted
<1> QED  BY <1>4

\* The devbox's own steps read nothing, and what is deleted stays so.
LEMMA DevboxReads ==
    ASSUME TypeInv, TypeInv', UNCHANGED <<chan, ingVars>>,
           \A s \in Sessions : local[s] = "deleted" => local'[s] = "deleted",
           \A d \in Conns : /\ Linked(d)' => Linked(d)
                            /\ up[d].phase = "closed" => up'[d].phase = "closed"
                            /\ up'[d].phase = "idle" <=> up[d].phase = "idle"
    PROVE  \E n : Shifted(n)
<1>1. \A d \in Conns : (Readable(d)' <=> Readable(d)) /\ (Greeting(d)' <=> Greeting(d))
  BY DEF Readable, Greeting, ingVars
<1> QED  BY <1>1, InPlace

\* The ingest's steps that read no entry to its end: one connection, if any, goes on
\* to another phase.
LEMMA IngestReads ==
    ASSUME TypeInv, TypeInv', UNCHANGED devVars,
           \A d \in Conns :
             /\ \/ ing'[d].phase \notin {"none", "reading", "hello"}
                \/ /\ Len(chan'[d]) = Len(chan[d])
                   /\ \A i \in 1 .. Len(chan[d]) :
                        /\ chan'[d][i].kind = chan[d][i].kind
                        /\ chan'[d][i].list = chan[d][i].list
                        /\ chan'[d][i].removed \subseteq chan[d][i].removed
                        /\ chan'[d][i].added \subseteq chan[d][i].added
                   /\ ing[d].phase \in {"none", "reading", "hello"}
                   /\ ing'[d].label <=> ing[d].label
                   /\ ing'[d].phase = "hello" => ing[d].phase = "hello"
    PROVE  \E n : Shifted(n)
<1>1. \A d \in Conns : /\ Linked(d)' <=> Linked(d)
                       /\ up'[d].phase = up[d].phase
  BY DEF Linked, devVars
<1>2. ASSUME NEW d \in Conns
      PROVE  /\ Greeting(d)' => Greeting(d)
             /\ Readable(d)' => /\ Readable(d) /\ Len(chan'[d]) = Len(chan[d])
                                /\ \A i \in 1 .. Len(chan[d]) :
                                     /\ chan'[d][i].kind = chan[d][i].kind
                                     /\ chan'[d][i].list = chan[d][i].list
                                     /\ chan'[d][i].removed \subseteq chan[d][i].removed
                                     /\ chan'[d][i].added \subseteq chan[d][i].added
  BY <1>1 DEF Readable, Greeting
<1> QED  BY <1>1, <1>2, InPlace DEF devVars

\* Entries keep their places when only the first loses what was read of it.
LEMMA HeadKeeps ==
    ASSUME TypeInv, NEW c \in Conns, NEW e, HeadLeft(c, e), e.kind = chan[c][1].kind,
           e.list = chan[c][1].list, e.removed \subseteq chan[c][1].removed,
           e.added \subseteq chan[c][1].added
    PROVE  /\ Len(chan'[c]) = Len(chan[c])
           /\ \A i \in 1 .. Len(chan[c]) :
                /\ chan'[c][i].kind = chan[c][i].kind
                /\ chan'[c][i].list = chan[c][i].list
                /\ chan'[c][i].removed \subseteq chan[c][i].removed
                /\ chan'[c][i].added \subseteq chan[c][i].added
<1>1. Len(chan[c]) \in Nat
  BY Types
<1>2. \A i \in 1 .. Len(chan[c]) : i = 1 \/ i \in 2 .. Len(chan[c])
  BY <1>1
<1> QED  BY <1>2 DEF HeadLeft

\* Every step that does not send moves entries ahead, if anything.
LEMMA ReadingShifts ==
    ASSUME TypeInv, TypeInv', Sized, Stages, Next,
           \A c \in Conns : ~Connect(c) /\ ~Readvertise(c)
    PROVE  \E n : Shifted(n)
<1> DEFINE Still(d) == /\ Len(chan'[d]) = Len(chan[d])
                       /\ \A i \in 1 .. Len(chan[d]) :
                            /\ chan'[d][i].kind = chan[d][i].kind
                            /\ chan'[d][i].list = chan[d][i].list
                            /\ chan'[d][i].removed \subseteq chan[d][i].removed
                            /\ chan'[d][i].added \subseteq chan[d][i].added
           Ph == {"none", "reading", "hello"}
<1>0. \A d \in Conns : Phases(d) /\ Queued(d)
  BY DEF Stages
<1>1. ASSUME NEW s \in Sessions, Changes(s)
      PROVE  \E n : Shifted(n)
  <2>1. /\ UNCHANGED <<chan, ingVars>> /\ local[s] # "deleted"
        /\ \A t \in Sessions : t # s => local'[t] = local[t]
        /\ \A d \in Conns : up'[d].phase = up[d].phase
    BY <1>1, ChangeShape DEF TouchedFrom
  <2> QED  BY <2>1, DevboxReads DEF Linked
<1>2. ASSUME NEW s \in Sessions, DaemonDies(s)
      PROVE  \E n : Shifted(n)
  <2>1. /\ UNCHANGED <<up, chan, ingVars>> /\ local[s] # "deleted"
        /\ \A t \in Sessions : t # s => local'[t] = local[t]
    BY <1>2, DaemonDiesShape
  <2> QED  BY <2>1, DevboxReads DEF Linked
<1>3. ASSUME NEW c \in Conns, StartWatch(c) \/ Hangup(c)
      PROVE  \E n : Shifted(n)
  <2>1. /\ UNCHANGED <<local, chan, ingVars>> /\ Linked(c) /\ up'[c].phase # "idle"
        /\ \A d \in Conns : d # c => up'[d] = up[d]
    BY <1>3, StartWatchShape, HangupShape DEF Linked
  <2> QED  BY <2>1, DevboxReads DEF Linked
<1>4. ASSUME NEW s \in Sessions, UserRemove(s)
      PROVE  \E n : Shifted(n)
  BY <1>4, IngestReads DEF UserRemove, devVars
<1>5. CASE Scan \/ Dismiss \/ IngestStart
  <2>1. UNCHANGED <<devVars, chan, ing>>
    BY <1>5 DEF Scan, Dismiss, IngestStart
  <2> QED  BY <2>1, IngestReads DEF devVars
<1>6. CASE IngestStop
  <2>1. UNCHANGED devVars /\ \A d \in Conns :
          /\ Len(chan'[d]) = 0
          /\ up[d].phase = "idle" =>
               Becomes(d, ing[d].phase, ing[d].label, ing[d].waits, ing[d].sessions, ing[d].done)
          /\ up[d].phase # "idle" => Becomes(d, "closed", FALSE, None, {}, FALSE)
    BY <1>6, IngestStopShape
  <2>2. ASSUME NEW d \in Conns
        PROVE  \/ ing'[d].phase \notin Ph
               \/ /\ Still(d) /\ ing[d].phase \in Ph /\ (ing'[d].label <=> ing[d].label)
                  /\ ing'[d].phase = "hello" => ing[d].phase = "hello"
    <3>1. CASE up[d].phase = "idle"
      <4>1. Len(chan[d]) = 0 /\ ing[d].phase = "none"
        BY <1>0, <3>1 DEF Phases, Queued
      <4> QED  BY <2>1, <3>1, <4>1 DEF Becomes
    <3>2. CASE up[d].phase # "idle"
      BY <2>1, <3>2 DEF Becomes
    <3> QED  BY <3>1, <3>2
  <2> QED  BY <2>1, <2>2, IngestReads
<1>7. ASSUME NEW c \in Conns, Accept(c) \/ HelloRefused(c) \/ Teardown(c) \/ MarkTornDown(c)
      PROVE  \E n : Shifted(n)
  <2>1. /\ UNCHANGED devVars /\ OthersKeep(c) /\ OthersUnread(c)
        /\ \/ ing'[c].phase \in {"closed", "tearing"}
           \/ /\ chan'[c] = chan[c] /\ ing[c].phase \in Ph /\ (ing'[c].label <=> ing[c].label)
              /\ ing'[c].phase = "reading"
    <3>1. CASE Accept(c)
      BY <3>1, AcceptShape DEF Becomes
    <3>2. CASE HelloRefused(c)
      BY <3>2, HelloRefusedShape DEF Becomes
    <3>3. CASE Teardown(c)
      BY <3>3, TeardownShape DEF Becomes, OthersUnread
    <3>4. CASE MarkTornDown(c)
      BY <3>4, MarkTornDownShape DEF Becomes
    <3> QED  BY <1>7, <3>1, <3>2, <3>3, <3>4
  <2>2. ASSUME NEW d \in Conns
        PROVE  \/ ing'[d].phase \notin Ph
               \/ /\ Still(d) /\ ing[d].phase \in Ph /\ (ing'[d].label <=> ing[d].label)
                  /\ ing'[d].phase = "hello" => ing[d].phase = "hello"
    BY <2>1 DEF OthersKeep, OthersUnread, Becomes
  <2> QED  BY <2>1, <2>2, IngestReads
<1>8. ASSUME NEW c \in Conns, HelloRegisters(c)
      PROVE  \E n : Shifted(n)
  <2>1. /\ UNCHANGED <<devVars, chan>> /\ ing[c].phase = "hello" /\ ing'[c].phase = "reading"
        /\ ing'[c].label <=> ing[c].label
        /\ \A d \in Conns : d # c => ing'[d].phase = ing[d].phase /\ (ing'[d].label <=> ing[d].label)
    BY <1>8, HelloRegistersShape DEF Becomes
  <2> QED  BY <2>1, IngestReads
<1>9. ASSUME NEW c \in Conns, HandleAdded(c) \/ HandleRemoved(c)
      PROVE  \E n : Shifted(n)
  <2>1. /\ UNCHANGED devVars /\ OthersKeep(c) /\ OthersUnread(c) /\ Reads(c, "advert")
        /\ ing'[c].phase = "reading" /\ ing'[c].label
    BY <1>9, HandleAddedShape, HandleRemovedShape, ZenonT(60) DEF Becomes
  <2>2. ing[c].phase = "reading" /\ ing[c].label /\ chan[c][1] \in AdvertType
    BY <2>1, ReadsFacts, ReaderFacts
  <2>3. Still(c)
    <3>1. CASE HandleAdded(c)
      <4>1. PICK m : HeadLeft(c, Added(chan[c][1], m))
        BY <3>1, HandleAddedShape
      <4>2. Added(chan[c][1], m).added \subseteq chan[c][1].added
        BY <2>2, LeftType
      <4> QED  BY <2>2, <4>1, <4>2, HeadKeeps, LeftType
    <3>2. CASE HandleRemoved(c)
      <4>1. PICK s : HeadLeft(c, Retracted(chan[c][1], s))
        BY <3>2, HandleRemovedShape
      <4>2. Retracted(chan[c][1], s).removed \subseteq chan[c][1].removed
        BY <2>2, LeftType
      <4> QED  BY <2>2, <4>1, <4>2, HeadKeeps, LeftType
    <3> QED  BY <1>9, <3>1, <3>2
  <2>4. ASSUME NEW d \in Conns
        PROVE  \/ ing'[d].phase \notin Ph
               \/ /\ Still(d) /\ ing[d].phase \in Ph /\ (ing'[d].label <=> ing[d].label)
                  /\ ing'[d].phase = "hello" => ing[d].phase = "hello"
    <3>1. CASE d = c
      BY <2>1, <2>2, <2>3, <3>1
    <3>2. CASE d # c
      BY <2>1, <3>2 DEF OthersKeep, OthersUnread, Becomes
    <3> QED  BY <3>1, <3>2
  <2> QED  BY <2>1, <2>4, IngestReads
<1>10. ASSUME NEW c \in Conns, HelloEvicts(c) \/ HandleList(c)
       PROVE  \E n : Shifted(n)
  <2>1. /\ UNCHANGED devVars /\ OthersKeep(c) /\ OthersUnread(c) /\ Popped(c)
        /\ Readable(c) /\ (Greeting(c)' => Greeting(c))
    <3>1. CASE HelloEvicts(c)
      BY <3>1, HelloEvictsShape, GreeterFacts
    <3>2. CASE HandleList(c)
      <4>1. ing'[c].phase = "reading" /\ ing'[c].label
        <5>1. ing[c].phase = "reading" /\ ing[c].label
          BY <3>2, HandleListShape, ReadsFacts, ReaderFacts
        <5> QED  BY <3>2, <5>1, HandleListShape DEF Becomes
      <4> QED  BY <3>2, <4>1, HandleListShape, ReaderFacts DEF Greeting
    <3> QED  BY <1>10, <3>1, <3>2
  <2>2. \A d \in Conns : /\ Linked(d)' => Linked(d)
                         /\ up[d].phase = "closed" => up'[d].phase = "closed"
                         /\ Greeting(d)' => Greeting(d)
                         /\ Readable(d)' => Readable(d)
    BY <2>1 DEF OthersKeep, Becomes, Linked, Greeting, Readable, devVars
  <2> QED  BY <2>1, <2>2, OneAhead DEF devVars
<1> QED  BY <1>1, <1>2, <1>3, <1>4, <1>5, <1>6, <1>7, <1>8, <1>9, <1>10, NextCases

----------------------------------------------------------------------------
(* The parts of the invariant, step by step *)

\* The theorem's hypotheses about the way the link is used.
Orderly == ~Overlap /\ ~Gap /\ PromptPoll /\ MaxTargets =< 1

\* The two that send.
LEMMA Sends ==
    ASSUME TypeInv, Sized, Stages, OneAtATime, Orderly, NEW c \in Conns, Connect(c) \/ Readvertise(c)
    PROVE  Sending(c)
BY ConnectSends, ReadvertiseSends DEF Orderly

\* One at a time, after every step.
LEMMA OneAtATimeStep ==
    ASSUME TypeInv, Sized, Stages, OneAtATime, Orderly, Next
    PROVE  OneAtATime'
<1>t. TypeInv'
  BY TypeStep DEF Orderly
<1>1. ASSUME NEW n, Shifted(n)
      PROVE  OneAtATime'
  BY <1>1 DEF Shifted, OneAtATime, OneGreets
<1>2. ASSUME NEW c \in Conns, Sending(c)
      PROVE  OneAtATime'
  <2>1. \A d \in Conns : d # c => /\ Readable(d)' <=> Readable(d)
                                  /\ Greeting(d)' <=> Greeting(d)
                                  /\ ~Linked(d)' /\ ~Linked(d)
                                  /\ up'[d].phase = up[d].phase
    BY <1>2, SendingOthers DEF Sending
  <2>2. /\ \A d \in Conns : d # c => (Readable(c)' => ~Greeting(d))
        /\ Greeting(c)' => \A d \in Conns : d # c => ~Greeting(d)
    BY <1>2 DEF Sending
  <2>3. \A d, e \in Conns : Greeting(d)' /\ Greeting(e)' => d = e
    BY <2>1, <2>2 DEF OneAtATime, OneGreets
  <2>4. \A d, e \in Conns : Linked(d)' /\ Linked(e)' => d = e
    BY <2>1
  <2>5. ASSUME NEW d \in Conns, NEW e \in Conns, Greeting(d)', Readable(e)', e # d
        PROVE  up'[e].phase = "closed"
    <3>1. e # c
      BY <2>1, <2>2, <2>5
    <3>2. CASE d = c
      <4>1. up[e].phase \in {"idle", "greeted", "open", "closed"}
        BY Types DEF UpType
      <4>2. up[e].phase # "idle" /\ ~Linked(e)
        BY <2>1, <2>5, <3>1 DEF Readable
      <4> QED  BY <2>1, <3>1, <4>1, <4>2 DEF Linked
    <3>3. CASE d # c
      BY <2>1, <2>5, <3>1, <3>3 DEF OneAtATime
    <3> QED  BY <3>2, <3>3
  <2> QED  BY <2>3, <2>4, <2>5 DEF OneAtATime, OneGreets
<1> QED  BY <1>1, <1>2, <1>t, ReadingShifts, Sends DEF Orderly

\* Sessions do not become fresh, and nothing forgets a deletion.
LEMMA LocalStep ==
    ASSUME TypeInv, Sized, Stages, OneAtATime, Orderly, Next, NEW s \in Sessions
    PROVE  /\ local'[s] = "fresh" => local[s] = "fresh"
           /\ local[s] = "deleted" => local'[s] = "deleted"
<1>1. ASSUME NEW t \in Sessions, Changes(t)
      PROVE  local'[s] = "fresh" => local[s] = "fresh"
  BY <1>1, ChangeShape DEF Orderly
<1>2. ASSUME NEW t \in Sessions, DaemonDies(t)
      PROVE  local'[s] = "fresh" => local[s] = "fresh"
  BY <1>2, DaemonDiesShape
<1>3. ASSUME NEW c \in Conns, Connect(c) \/ Readvertise(c)
      PROVE  /\ local'[s] = "fresh" => local[s] = "fresh"
             /\ local[s] = "deleted" => local'[s] = "deleted"
  BY <1>3, Sends, SendingDevbox
<1>4. ASSUME NEW t \in Sessions, UserRemove(t)
      PROVE  local' = local
  BY <1>4 DEF UserRemove, devVars
<1>5. ASSUME NEW c \in Conns, StartWatch(c) \/ Hangup(c) \/ IngestStep(c)
      PROVE  local' = local
  BY <1>5 DEF StartWatch, Hangup, IngestStep, Accept, HelloRefused, HelloEvicts, HelloRegisters,
              HandleAdded, HandleRemoved, HandleList, Teardown, MarkTornDown, devVars
<1>6. CASE Scan \/ Dismiss \/ IngestStop \/ IngestStart
  BY <1>6 DEF Scan, Dismiss, IngestStop, IngestStart, devVars
<1>7. local'[s] = "fresh" => local[s] = "fresh"
  BY <1>1, <1>2, <1>3, <1>4, <1>5, <1>6, NextCases DEF IngestStep
<1>8. local[s] = "deleted" => local'[s] = "deleted"
  <2>1. ASSUME NEW n, Shifted(n)
        PROVE  local[s] = "deleted" => local'[s] = "deleted"
    BY <2>1 DEF Shifted
  <2> QED  BY <1>3, <2>1, ReadingShifts, TypeStep DEF Orderly
<1> QED  BY <1>7, <1>8

\* The files after a step, one by one.
LEMMA FileFacts ==
    ASSUME TypeInv, NEW s \in Sessions
    PROVE  /\ \A S : Deleted(S)[s] = IF s \in S THEN "none" ELSE file[s]
           /\ \A S, st : StatusPatched(S, st)[s] =
                IF s \in S /\ file[s] # "none" THEN st ELSE file[s]
           /\ ReconcileStale[s] \in {file[s], "disconnected", "none"}
           /\ ReconcileStale[s] # "running"
           /\ file[s] = "none" => ReconcileStale[s] = "none"
BY Types DEF Deleted, StatusPatched, ReconcileStale, Files, Statuses

\* An entry adds sessions of its list, each once, and retracts others.
Formed(c, i) ==
    /\ \A m \in Adds(c, i) : m.id \in List(c, i) /\ \A n \in Adds(c, i) : n.id = m.id => n = m
    /\ Retracts(c, i) \cap List(c, i) = {}
Entries == \A c \in Conns : \A i \in Adverts(c) : Formed(c, i)

\* Entries stay well formed.
LEMMA EntriesStep ==
    ASSUME TypeInv, Sized, Stages, OneAtATime, Orderly, Entries, Next
    PROVE  Entries'
<1>1. ASSUME NEW n, Shifted(n)
      PROVE  Entries'
  <2> SUFFICES ASSUME NEW c \in Conns, NEW i \in Adverts(c)'
               PROVE  Formed(c, i)'
    BY DEF Entries
  <2>1. /\ i + n[c] \in Adverts(c) /\ List(c, i)' = List(c, i + n[c])
        /\ Retracts(c, i)' \subseteq Retracts(c, i + n[c])
        /\ Adds(c, i)' \subseteq Adds(c, i + n[c])
    BY <1>1 DEF Shifted
  <2>2. Formed(c, i + n[c])
    BY <2>1 DEF Entries
  <2> QED  BY <2>1, <2>2 DEF Formed
<1>2. ASSUME NEW c \in Conns, Sending(c)
      PROVE  Entries'
  <2> SUFFICES ASSUME NEW d \in Conns, NEW i \in Adverts(d)'
               PROVE  Formed(d, i)'
    BY DEF Entries
  <2>1. CASE d = c /\ i = Len(chan'[c])
    BY <1>2, <2>1 DEF Sending, Sent, Formed, Adds, List, Retracts
  <2>2. CASE d = c /\ i # Len(chan'[c])
    <3>1. i \in Adverts(d) /\ chan'[d][i] = chan[d][i]
      BY <1>2, <2>2 DEF Sending
    <3> QED  BY <3>1 DEF Entries, Formed, Adds, List, Retracts
  <2>3. CASE d # c
    <3>1. i \in Adverts(d)
      BY <1>2, <2>3, SendingOthers
    <3>2. chan'[d] = chan[d]
      BY <1>2, <2>3 DEF Sending, OthersUnread
    <3> QED  BY <3>1, <3>2 DEF Entries, Formed, Adds, List, Retracts
  <2> QED  BY <2>1, <2>2, <2>3
<1> QED  BY <1>1, <1>2, ReadingShifts, TypeStep, Sends DEF Orderly

\* The first entry, when the frame loop reads an advertisement, is followed by all.
LEMMA FirstFacts ==
    ASSUME TypeInv, Stages, NEW c \in Conns, Reads(c, "advert")
    PROVE  /\ 1 \in Adverts(c)
           /\ \A d \in Conns : \A j \in Adverts(d) : Follows(c, 1, d, j)
<1>1. Len(chan[c]) >= 1 /\ Len(chan[c]) \in Nat
  BY ReadsFacts, Types
<1>2. /\ Readable(c) /\ \A i \in 1 .. Len(chan[c]) : chan[c][i].kind = "advert"
      /\ \A d \in Conns : d # c => (Readable(d) => Greeting(d))
  BY ReaderFacts
<1>3. 1 \in Adverts(c)
  BY <1>1, <1>2 DEF Adverts
<1>4. ASSUME NEW d \in Conns, NEW j \in Adverts(d)
      PROVE  Follows(c, 1, d, j)
  BY <1>1, <1>2 DEF Adverts, Follows
<1> QED  BY <1>3, <1>4

\* So what ended before the first entry is lost.
LEMMA EndedIsLost ==
    ASSUME TypeInv, Stages, NEW c \in Conns, Reads(c, "advert"), NEW s, EndedBy(s, c, 1)
    PROVE  Lost(s)
BY FirstFacts DEF EndedBy, Lost

\* add_session, for its own session and for the others.
LEMMA AddFacts ==
    ASSUME TypeInv, NEW c \in Conns, NEW m \in [id : Sessions, status : Statuses]
    PROVE  /\ \A s \in Sessions \ {m.id} : /\ AddSession(c, m)[s] = file[s]
                                           /\ s \in Holds(c, m) <=> s \in ing[c].sessions
           /\ m.id \in registry.dismissed =>
                AddSession(c, m) = file /\ m.id \notin Holds(c, m)
           /\ m.id \notin registry.dismissed /\ m.id \in ing[c].sessions =>
                /\ m.id \in Holds(c, m)
                /\ AddSession(c, m)[m.id] = IF file[m.id] # "none" THEN m.status ELSE "none"
           /\ m.id \notin registry.dismissed /\ m.id \notin ing[c].sessions =>
                IF m.id \in Holds(c, m) THEN AddSession(c, m)[m.id] = m.status
                ELSE AddSession(c, m) = file /\ Cardinality(ing[c].sessions) >= MaxSessions
<1>1. m.id \in Sessions /\ file \in [Sessions -> Statuses \cup {"none"}]
  BY Types
<1>2. \A s \in Sessions \ {m.id} : s \in Holds(c, m) <=> s \in ing[c].sessions
  BY DEF Holds
<1>3. \A s \in Sessions \ {m.id} : AddSession(c, m)[s] = file[s]
  BY <1>1 DEF AddSession, StatusPatched
<1>4. CASE m.id \in registry.dismissed
  BY <1>2, <1>3, <1>4 DEF AddSession, Holds
<1>5. CASE m.id \notin registry.dismissed /\ m.id \in ing[c].sessions
  <2>1. AddSession(c, m) = StatusPatched({m.id}, m.status)
    BY <1>5 DEF AddSession
  <2>2. StatusPatched({m.id}, m.status)[m.id] = IF file[m.id] # "none" THEN m.status ELSE "none"
    BY <1>1, FileFacts
  <2>3. m.id \in Holds(c, m)
    BY <1>5 DEF Holds
  <2> QED  BY <1>2, <1>3, <1>5, <2>1, <2>2, <2>3
<1>6. CASE m.id \notin registry.dismissed /\ m.id \notin ing[c].sessions
  <2>1. CASE m.id \in Holds(c, m)
    <3>1. AddSession(c, m) = [file EXCEPT ![m.id] = m.status]
      BY <1>6, <2>1 DEF AddSession
    <3> QED  BY <1>1, <1>2, <1>3, <1>6, <2>1, <3>1
  <2>2. CASE m.id \notin Holds(c, m)
    <3>1. AddSession(c, m) = file
      BY <1>6, <2>2 DEF AddSession
    <3>2. Cardinality(ing[c].sessions) >= MaxSessions
      BY <1>6, <2>2 DEF Holds
    <3> QED  BY <1>2, <1>3, <1>6, <2>2, <3>1, <3>2
  <2> QED  BY <2>1, <2>2
<1> QED  BY <1>4, <1>5, <1>6

\* A session is refused only where there is no room for all.
LEMMA RefusedForRoom ==
    ASSUME TypeInv, NEW c \in Conns, NEW s \in Sessions, s \notin ing[c].sessions,
           Cardinality(ing[c].sessions) >= MaxSessions
    PROVE  ~Room
<1> DEFINE S == ing[c].sessions
<1>1. SUFFICES ASSUME IsFiniteSet(Sessions), Cardinality(Sessions) =< MaxSessions
               PROVE  FALSE
  BY DEF Room
<1>2. S \in SUBSET Sessions
  BY Types DEF ConnType
<1>s. s \notin S /\ Cardinality(S) >= MaxSessions
  OBVIOUS
<1> HIDE DEF S
<1>3. IsFiniteSet(S) /\ Cardinality(S) \in Nat
  BY <1>1, <1>2, FS_Subset, FS_CardinalityType
<1>4. Cardinality(S \cup {s}) = Cardinality(S) + 1
  BY <1>3, <1>s, FS_AddElement
<1>5. S \cup {s} \in SUBSET Sessions
  BY <1>2
<1>6. Cardinality(S \cup {s}) =< Cardinality(Sessions) /\ Cardinality(Sessions) \in Nat
  BY <1>1, <1>5, FS_Subset, FS_CardinalityType
<1> QED  BY <1>1, <1>3, <1>s, <1>4, <1>6, RemoteLinkAssumption

\* The ingest comes to know a session only by adding it.
LEMMA SeenGrows ==
    ASSUME TypeInv, Sized, Stages, OneAtATime, Orderly, Entries, Next,
           NEW s \in Sessions, Seen(s)'
    PROVE  Seen(s) \/ \E c \in Conns : Reads(c, "advert") /\ s \in List(c, 1)
<1> SUFFICES ASSUME ~Seen(s)
             PROVE  \E c \in Conns : Reads(c, "advert") /\ s \in List(c, 1)
  OBVIOUS
<1>0. file[s] = "none" /\ \A c \in Conns : s \notin ing[c].sessions
  BY DEF Seen
<1>1. ASSUME UNCHANGED <<ing, file>>
      PROVE  FALSE
  BY <1>0, <1>1 DEF Seen
<1>2. ASSUME file'[s] = "none", \A d \in Conns : ing'[d].sessions \subseteq ing[d].sessions
      PROVE  FALSE
  BY <1>0, <1>2 DEF Seen
<1>3. ASSUME NEW t \in Sessions, Changes(t) \/ DaemonDies(t)
      PROVE  FALSE
  BY <1>1, <1>3, ChangeShape, DaemonDiesShape DEF ingVars, Orderly
<1>4. ASSUME NEW t \in Sessions, UserRemove(t)
      PROVE  FALSE
  <2>1. ing' = ing /\ file' = Deleted({t})
    BY <1>4, UserRemoveShape
  <2>2. file'[s] = "none"
    BY <1>0, <2>1, FileFacts
  <2> QED  BY <1>2, <2>1, <2>2
<1>5. ASSUME NEW c \in Conns, Connect(c) \/ StartWatch(c) \/ Readvertise(c) \/ Hangup(c)
      PROVE  FALSE
  BY <1>1, <1>5 DEF Connect, StartWatch, Readvertise, Hangup, ingVars
<1>6. CASE Scan \/ Dismiss
  BY <1>1, <1>6 DEF Scan, Dismiss
<1>7. CASE IngestStop
  BY <1>0, <1>2, <1>7, IngestStopShape DEF Becomes
<1>8. CASE IngestStart
  BY <1>0, <1>2, <1>8, IngestStartShape, FileFacts
<1>9. ASSUME NEW c \in Conns, Accept(c) \/ HelloRefused(c) \/ HelloEvicts(c) \/ MarkTornDown(c)
      PROVE  FALSE
  <2>1. file' = file /\ OthersKeep(c) /\ ing'[c].sessions = ing[c].sessions
    BY <1>9, AcceptShape, HelloRefusedShape, HelloEvictsShape, MarkTornDownShape DEF Becomes
  <2> QED  BY <1>0, <1>2, <2>1 DEF OthersKeep, Becomes
<1>10. ASSUME NEW c \in Conns, HelloRegisters(c)
       PROVE  FALSE
  BY <1>0, <1>2, <1>10, HelloRegistersShape DEF Becomes
<1>11. ASSUME NEW c \in Conns, HandleRemoved(c) \/ HandleList(c)
       PROVE  FALSE
  <2>1. /\ OthersKeep(c) /\ ing'[c].sessions \subseteq ing[c].sessions
        /\ file' = file \/ \E S : file' = Deleted(S)
    <3>1. CASE HandleRemoved(c)
      BY <3>1, HandleRemovedShape, ZenonT(60) DEF Becomes
    <3>2. CASE HandleList(c)
      BY <3>2, HandleListShape DEF Becomes
    <3> QED  BY <1>11, <3>1, <3>2
  <2>2. file'[s] = "none"
    BY <1>0, <2>1, FileFacts
  <2> QED  BY <1>2, <2>1, <2>2 DEF OthersKeep, Becomes
<1>12. ASSUME NEW c \in Conns, Teardown(c)
       PROVE  FALSE
  BY <1>0, <1>2, <1>12, TeardownShape, FileFacts DEF OthersKeep, Becomes
<1>13. ASSUME NEW c \in Conns, HandleAdded(c)
       PROVE  Reads(c, "advert") /\ s \in List(c, 1)
  <2>1. /\ OthersKeep(c) /\ Reads(c, "advert")
        /\ \E m \in chan[c][1].added :
             /\ m \in [id : Sessions, status : Statuses]
             /\ ing'[c].sessions = Holds(c, m) /\ file' = AddSession(c, m)
    BY <1>13, HandleAddedShape DEF Becomes
  <2>2. PICK m \in chan[c][1].added :
             /\ m \in [id : Sessions, status : Statuses]
             /\ ing'[c].sessions = Holds(c, m) /\ file' = AddSession(c, m)
    BY <2>1
  <2>3. s = m.id
    <3>1. SUFFICES ASSUME s # m.id
                   PROVE  FALSE
      OBVIOUS
    <3>2. file'[s] = "none" /\ s \notin ing'[c].sessions
      BY <1>0, <2>2, <3>1, AddFacts
    <3> QED  BY <1>0, <2>1, <3>2 DEF Seen, OthersKeep, Becomes
  <2>4. m.id \in List(c, 1)
    BY <2>1, <2>2, FirstFacts DEF Entries, Formed, Adds
  <2> QED  BY <2>1, <2>3, <2>4
<1> QED  BY <1>3, <1>4, <1>5, <1>6, <1>7, <1>8, <1>9, <1>10, <1>11, <1>12, <1>13, NextCases

\* Advertised sessions are on the devbox when they are advertised.
LEMMA AdvertisedStep ==
    ASSUME TypeInv, Sized, Stages, OneAtATime, Orderly, Next, NEW c \in Conns, NEW s \in up'[c].advertised
    PROVE  s \in up[c].advertised \/ s \in OnDevbox
<1>1. ASSUME NEW t \in Sessions, Changes(t)
      PROVE  up'[c].advertised = up[c].advertised
  BY <1>1, ChangeShape DEF TouchedFrom, Orderly
<1>2. ASSUME NEW d \in Conns, Connect(d) \/ Readvertise(d)
      PROVE  s \in up[c].advertised \/ s \in OnDevbox
  <2>1. Sending(d)
    BY <1>2, Sends
  <2> QED  BY <2>1 DEF Sending, Sent
<1>3. ASSUME NEW d \in Conns, StartWatch(d) \/ Hangup(d)
      PROVE  s \in up[c].advertised
  <2>1. /\ up'[d].advertised = up[d].advertised \/ up'[d].advertised = {}
        /\ d # c => up'[c] = up[c]
    BY <1>3, StartWatchShape, HangupShape
  <2> QED  BY <2>1
<1>4. ASSUME NEW t \in Sessions, DaemonDies(t) \/ UserRemove(t)
      PROVE  up' = up
  BY <1>4 DEF DaemonDies, UserRemove, devVars
<1>5. ASSUME NEW d \in Conns, IngestStep(d)
      PROVE  up' = up
  BY <1>5 DEF IngestStep, Accept, HelloRefused, HelloEvicts, HelloRegisters,
              HandleAdded, HandleRemoved, HandleList, Teardown, MarkTornDown, devVars
<1>6. CASE Scan \/ Dismiss \/ IngestStop \/ IngestStart
  BY <1>6 DEF Scan, Dismiss, IngestStop, IngestStart, devVars
<1> QED  BY <1>1, <1>2, <1>3, <1>4, <1>5, <1>6, NextCases DEF IngestStep

\* A session is nowhere before it starts.
LEMMA NothingFreshStep ==
    ASSUME TypeInv, Sized, Stages, OneAtATime, Orderly, Entries, NothingFresh, Next
    PROVE  NothingFresh'
<1> SUFFICES ASSUME NEW s \in Sessions, local'[s] = "fresh"
             PROVE  /\ ~Seen(s)'
                    /\ \A c \in Conns : /\ s \notin up'[c].advertised
                                        /\ \A i \in Adverts(c)' : s \notin List(c, i)'
  BY DEF NothingFresh
<1>1. local[s] = "fresh"
  BY LocalStep
<1>2. /\ ~Seen(s) /\ s \notin OnDevbox
      /\ \A c \in Conns : s \notin up[c].advertised /\ \A i \in Adverts(c) : s \notin List(c, i)
  BY <1>1 DEF NothingFresh, OnDevbox
<1>3. ~Seen(s)'
  BY <1>2, SeenGrows, FirstFacts
<1>4. \A c \in Conns : s \notin up'[c].advertised
  BY <1>2, AdvertisedStep
<1>5. ASSUME NEW n, Shifted(n), NEW c \in Conns, NEW i \in Adverts(c)'
      PROVE  s \notin List(c, i)'
  BY <1>2, <1>5 DEF Shifted
<1>6. ASSUME NEW d \in Conns, Sending(d), NEW c \in Conns, NEW i \in Adverts(c)'
      PROVE  s \notin List(c, i)'
  <2>1. CASE c = d /\ i = Len(chan'[d])
    BY <1>2, <1>6, <2>1, SendingDevbox
  <2>2. CASE c = d /\ i # Len(chan'[d])
    BY <1>2, <1>6, <2>2 DEF Sending, List
  <2>3. CASE c # d
    BY <1>2, <1>6, <2>3, SendingOthers
  <2> QED  BY <2>1, <2>2, <2>3
<1>7. \A c \in Conns : \A i \in Adverts(c)' : s \notin List(c, i)'
  BY <1>5, <1>6, ReadingShifts, TypeStep, Sends DEF Orderly
<1> QED  BY <1>3, <1>4, <1>7

\* The order is kept by every step.
LEMMA InOrderStep ==
    ASSUME TypeInv, Sized, Stages, OneAtATime, Orderly, Entries, NothingFresh, InOrder, Next
    PROVE  InOrder'
<1>t. TypeInv'
  BY TypeStep DEF Orderly
<1>1. ASSUME NEW s \in Sessions, Seen(s)', NEW d \in Conns, NEW j \in Adverts(d)
      PROVE  s \in List(d, j) \/ EndedBy(s, d, j)
  <2>1. Newer(d, j)
    BY DEF InOrder
  <2>2. CASE Seen(s)
    BY <2>1, <2>2 DEF Newer
  <2>3. ASSUME NEW c \in Conns, Reads(c, "advert"), s \in List(c, 1)
        PROVE  s \in List(d, j) \/ EndedBy(s, d, j)
    BY <2>1, <2>3, FirstFacts DEF Newer
  <2> QED  BY <1>1, <2>2, <2>3, SeenGrows
<1>2. ASSUME NEW n, Shifted(n)
      PROVE  InOrder'
  BY <1>t, <1>1, <1>2, OrderRead
<1>3. ASSUME NEW c \in Conns, Sending(c)
      PROVE  InOrder'
  BY <1>t, <1>3, OrderSent
<1> QED  BY <1>2, <1>3, <1>t, ReadingShifts, Sends DEF Orderly

\* A bridge whose watcher has seen nothing new has advertised what there is, and
\* the last entry of its channel says so.
Fresh(c) == up[c].phase = "greeted" \/ (up[c].phase = "open" /\ ~up[c].dirty)
Current ==
    \A c \in Conns :
        /\ up[c].phase = "greeted" => ~up[c].dirty
        /\ Fresh(c) => up[c].advertised = OnDevbox
        /\ Linked(c) /\ Readable(c) /\ Len(chan[c]) >= 1 =>
             List(c, Len(chan[c])) = up[c].advertised

\* The last entry is an advertisement.
LEMMA LastFacts ==
    ASSUME TypeInv, Stages, NEW c \in Conns, Readable(c), Len(chan[c]) >= 1
    PROVE  Len(chan[c]) \in Adverts(c)
<1>1. Len(chan[c]) \in Nat /\ Queued(c)
  BY Types DEF Stages
<1> QED  BY <1>1 DEF Queued, Adverts

\* And after a step.
LEMMA LastFactsNext ==
    ASSUME TypeInv', Stages', NEW c \in Conns, Readable(c)', Len(chan'[c]) >= 1
    PROVE  Len(chan[c])' \in Adverts(c)'
<1>1. Len(chan'[c]) \in Nat /\ Queued(c)'
  BY DEF TypeInv, Stages
<1> QED  BY <1>1 DEF Queued, Adverts

\* The last entry stays the last while there is one.
LEMMA LastStays ==
    ASSUME TypeInv, TypeInv', Stages', NEW n, Shifted(n), NEW c \in Conns, Readable(c)', Len(chan'[c]) >= 1
    PROVE  /\ Readable(c) /\ Len(chan[c]) >= 1 /\ Len(chan'[c]) + n[c] = Len(chan[c])
           /\ \A l : l = Len(chan'[c]) => /\ List(c, l)' = List(c, Len(chan[c]))
                                          /\ Adds(c, l)' \subseteq Adds(c, Len(chan[c]))
<1>1. Len(chan'[c]) \in Adverts(c)'
  BY LastFactsNext
<1>2. Readable(c) /\ Len(chan'[c]) + n[c] = Len(chan[c])
  BY DEF Shifted
<1>3. ASSUME NEW l, l = Len(chan'[c])
      PROVE  /\ l + n[c] \in Adverts(c)
             /\ List(c, l)' = List(c, l + n[c]) /\ Adds(c, l)' \subseteq Adds(c, l + n[c])
  BY <1>1, <1>3 DEF Shifted
<1>4. Len(chan[c]) >= 1
  <2>1. Len(chan'[c]) \in Nat /\ n[c] \in Nat
    BY DEF TypeInv, Shifted
  <2> QED  BY <1>2, <2>1
<1> QED  BY <1>2, <1>3, <1>4

\* Steps that send nothing keep the last entry up to date.
LEMMA CurrentStays ==
    ASSUME TypeInv, TypeInv', Stages', Current, NEW n, Shifted(n),
           \A d \in Conns : /\ up'[d].phase = "greeted" => ~up'[d].dirty
                            /\ Fresh(d)' => up'[d].advertised = OnDevbox'
                            /\ Linked(d)' => up'[d].advertised = up[d].advertised
    PROVE  Current'
<1>1. ASSUME NEW d \in Conns, Linked(d)', Readable(d)', Len(chan'[d]) >= 1
      PROVE  (List(d, Len(chan[d])) = up[d].advertised)'
  <2>1. /\ Readable(d) /\ Len(chan[d]) >= 1
        /\ \A l : l = Len(chan'[d]) => List(d, l)' = List(d, Len(chan[d]))
    BY <1>1, LastStays
  <2>2. Linked(d)
    BY <1>1 DEF Shifted
  <2>3. List(d, Len(chan[d])) = up[d].advertised
    BY <2>1, <2>2 DEF Current
  <2>4. up'[d].advertised = up[d].advertised
    BY <1>1
  <2> QED  BY <2>1, <2>3, <2>4 DEF List
<1> QED  BY <1>1 DEF Current

\* And so does every step.
LEMMA CurrentStep ==
    ASSUME TypeInv, Sized, Stages, OneAtATime, Orderly, Current, Next
    PROVE  Current'
<1>t. TypeInv' /\ Stages'
  BY TypeStep, StagesStep DEF OneAtATime
<1>g. \A d \in Conns : up[d].phase = "greeted" => ~up[d].dirty
  BY DEF Current
<1>f. \A d \in Conns : Fresh(d) => up[d].advertised = OnDevbox
  BY DEF Current
<1>1. ASSUME NEW c \in Conns, Sending(c)
      PROVE  Current'
  <2>1. \A d \in Conns : d # c => ~Linked(d)'
    BY <1>1, SendingOthers
  <2>2. /\ OnDevbox' = OnDevbox /\ up'[c].advertised = OnDevbox
        /\ \A l : l = Len(chan'[c]) => List(c, l)' = OnDevbox
    BY <1>1, SendingDevbox
  <2>3. up'[c].phase = "greeted" => ~up'[c].dirty
    BY <1>1 DEF Sending, Sent
  <2> QED  BY <2>1, <2>2, <2>3 DEF Current, Fresh, Linked, List
<1> SUFFICES ASSUME \A c \in Conns : ~Connect(c) /\ ~Readvertise(c)
             PROVE  Current'
  BY <1>1, Sends
<1>n. PICK n : Shifted(n)
  BY <1>t, ReadingShifts DEF Orderly
<1>2. ASSUME NEW s \in Sessions, Changes(s)
      PROVE  Current'
  <2>1. TouchedFrom(up) /\ \A d \in Conns : up[d].phase # "greeted"
    BY <1>2, ChangeShape DEF Orderly
  <2> QED  BY <1>t, <1>n, <2>1, CurrentStays DEF TouchedFrom, Fresh
<1>3. ASSUME NEW s \in Sessions, DaemonDies(s)
      PROVE  Current'
  <2>1. up' = up /\ OnDevbox' = OnDevbox
    BY <1>3, DaemonDiesShape DEF OnDevbox
  <2> QED  BY <1>t, <1>n, <1>g, <1>f, <2>1, CurrentStays DEF Fresh
<1>4. ASSUME NEW c \in Conns, StartWatch(c)
      PROVE  Current'
  <2>1. /\ local' = local /\ up[c].phase = "greeted" /\ up'[c].phase = "open"
        /\ up'[c].advertised = up[c].advertised
        /\ \A d \in Conns : d # c => up'[d] = up[d]
    BY <1>4, StartWatchShape
  <2>2. \A d \in Conns : (Fresh(d)' => Fresh(d)) /\ up'[d].advertised = up[d].advertised
    BY <2>1 DEF Fresh
  <2>3. OnDevbox' = OnDevbox
    BY <2>1 DEF OnDevbox
  <2> QED  BY <1>t, <1>n, <1>g, <1>f, <2>1, <2>2, <2>3, CurrentStays
<1>5. ASSUME NEW c \in Conns, Hangup(c)
      PROVE  Current'
  <2>1. /\ local' = local /\ up'[c].phase = "closed"
        /\ \A d \in Conns : d # c => up'[d] = up[d]
    BY <1>5, HangupShape
  <2>2. \A d \in Conns : /\ (Fresh(d)' => Fresh(d) /\ d # c)
                         /\ Linked(d)' => d # c
    BY <2>1 DEF Fresh, Linked
  <2>3. OnDevbox' = OnDevbox
    BY <2>1 DEF OnDevbox
  <2> QED  BY <1>t, <1>n, <1>g, <1>f, <2>1, <2>2, <2>3, CurrentStays
<1>6. ASSUME UNCHANGED devVars
      PROVE  Current'
  <2>1. up' = up /\ OnDevbox' = OnDevbox
    BY <1>6 DEF OnDevbox, devVars
  <2> QED  BY <1>t, <1>n, <1>g, <1>f, <2>1, CurrentStays DEF Fresh
<1>7. ASSUME NEW c \in Conns, IngestStep(c)
      PROVE  UNCHANGED devVars
  BY <1>7 DEF IngestStep, Accept, HelloRefused, HelloEvicts, HelloRegisters,
              HandleAdded, HandleRemoved, HandleList, Teardown, MarkTornDown, devVars
<1>8. CASE Scan \/ Dismiss \/ IngestStop \/ IngestStart \/ \E s \in Sessions : UserRemove(s)
  BY <1>6, <1>8 DEF Scan, Dismiss, IngestStop, IngestStart, UserRemove, devVars
<1> QED  BY <1>2, <1>3, <1>4, <1>5, <1>6, <1>7, <1>8, NextCases DEF IngestStep

----------------------------------------------------------------------------
(* What the user removed *)

\* What is, or is about to be, kept out was removed or is lost; what was removed is
\* without a file, and the poll will tell before it is added again.
Excused(s) == s \in removed \/ Lost(s)
KeptOut(s) == \/ s \in poll.gone \/ s \in registry.dismissed
              \/ s \in poll.prev /\ file[s] = "none"
Watched(s) ==
    /\ file[s] = "none"
    /\ daemon.running /\ s \notin registry.dismissed =>
         /\ s \in poll.prev \/ s \in poll.gone
         /\ \A c \in Conns : Readable(c) => s \in ing[c].sessions \/ Lost(s)
Backed(c) == \A s \in ing[c].sessions : file[s] # "none" \/ s \in removed \/ s \in registry.dismissed
Removals ==
    /\ \A s \in Sessions : KeptOut(s) => Excused(s)
    /\ \A s \in removed : Watched(s)
    /\ \A c \in Conns : Backed(c)
    /\ ~daemon.running => registry.dismissed = {}

\* What is lost stays lost.
LEMMA LostStep ==
    ASSUME TypeInv, Sized, Stages, OneAtATime, Orderly, Next, NEW s \in Sessions, Lost(s)
    PROVE  Lost(s)'
BY LostStays, LostSent, ReadingShifts, TypeStep, Sends DEF Orderly

\* A step that leaves files and what is bridged and kept out as they were, or only
\* ends connections.
LEMMA RemovalsStay ==
    ASSUME Removals, TypeInv, \A s \in Sessions : Lost(s) => Lost(s)',
           UNCHANGED <<poll, daemon, removed>>, registry'.dismissed = registry.dismissed,
           \A s \in Sessions : file'[s] = "none" <=> file[s] = "none",
           \A d \in Conns : /\ ing'[d].sessions \subseteq ing[d].sessions
                            /\ Readable(d)' => Readable(d) /\ ing'[d].sessions = ing[d].sessions
    PROVE  Removals'
<1>t. removed \subseteq Sessions /\ \A d \in Conns : ing[d].sessions \subseteq Sessions
  BY Types DEF ConnType
<1>1. \A s \in Sessions : KeptOut(s)' => Excused(s)'
  BY DEF Removals, KeptOut, Excused
<1>2. \A s \in removed : Watched(s)'
  BY <1>t DEF Removals, Watched
<1>3. \A d \in Conns : Backed(d)'
  BY <1>t DEF Removals, Backed
<1> QED  BY <1>1, <1>2, <1>3 DEF Removals

\* session-added brings back nothing that was removed.
LEMMA RemovalsAdded ==
    ASSUME TypeInv, Sized, Stages, OneAtATime, Orderly, Entries, Removals, Next,
           NEW c \in Conns, HandleAdded(c)
    PROVE  Removals'
<1>1. /\ UNCHANGED <<devVars, poll, daemon, removed>> /\ OthersKeep(c) /\ Reads(c, "advert")
      /\ registry'.dismissed = registry.dismissed /\ ing'[c].phase = "reading"
  BY HandleAddedShape DEF Becomes
<1>2. PICK m \in chan[c][1].added :
        /\ m \in [id : Sessions, status : Statuses]
        /\ ing'[c].sessions = Holds(c, m) /\ file' = AddSession(c, m)
  BY HandleAddedShape DEF Becomes
<1>t. removed \subseteq Sessions /\ \A d \in Conns : ing[d].sessions \subseteq Sessions
  BY Types DEF ConnType
<1>h. Holds(c, m) \subseteq Sessions /\ m.id \in Sessions /\ m.status # "none"
  BY <1>2, HoldsSized DEF Statuses
<1>l. \A s \in Sessions : Lost(s) => Lost(s)'
  BY LostStep
<1>3. m.id \in List(c, 1) /\ 1 \in Adverts(c) /\ ~Lost(m.id)
  BY <1>1, <1>2, FirstFacts DEF Entries, Formed, Adds, Lost
<1>4. Readable(c) /\ daemon.running
  BY <1>1, ReaderFacts, ReadsFacts
<1>5. \A d \in Conns : Readable(d)' => Readable(d)
  BY <1>1, <1>4 DEF Readable, OthersKeep, Becomes, devVars
<1>6. \A d \in Conns : d # c => ing'[d].sessions = ing[d].sessions /\ ing[d].sessions = {}
  BY <1>1, ReaderFacts DEF OthersKeep, Becomes
\* A removed session that is advertised is bridged, or kept out already.
<1>7. m.id \in removed => m.id \in registry.dismissed \/ m.id \in ing[c].sessions
  BY <1>3, <1>4 DEF Removals, Watched
<1>8. \A s \in Sessions : file'[s] = "none" => file[s] = "none"
  BY <1>2, <1>h, AddFacts
<1>9. \A s \in Sessions : KeptOut(s)' => Excused(s)'
  BY <1>1, <1>8, <1>l DEF Removals, KeptOut, Excused
<1>10. ASSUME NEW s \in removed
       PROVE  Watched(s)'
  <2>1. Watched(s) /\ s \in Sessions
    BY <1>t DEF Removals
  <2>2. file'[s] = "none"
    BY <1>2, <1>7, <2>1, AddFacts DEF Watched
  <2>3. s \in ing[c].sessions /\ s \notin registry.dismissed => s \in ing'[c].sessions
    BY <1>2, <2>1, AddFacts
  <2> QED  BY <1>1, <1>5, <1>6, <1>l, <2>1, <2>2, <2>3 DEF Watched
<1>11. ASSUME NEW s \in ing'[c].sessions
       PROVE  file'[s] # "none" \/ s \in removed \/ s \in registry.dismissed
  <2>1. s \in Sessions
    BY <1>2, <1>h
  <2>2. s \in ing[c].sessions => file[s] # "none" \/ s \in removed \/ s \in registry.dismissed
    BY DEF Removals, Backed
  <2>3. CASE s # m.id
    BY <1>2, <2>1, <2>2, <2>3, AddFacts
  <2>4. CASE s = m.id
    <3>1. m.id \in Holds(c, m)
      BY <1>2, <2>4
    <3>2. m.id \in ing[c].sessions => \/ AddSession(c, m)[m.id] = m.status
                                      \/ file[m.id] = "none" \/ m.id \in registry.dismissed
      BY <1>2, AddFacts
    <3>3. m.id \notin ing[c].sessions => AddSession(c, m)[m.id] = m.status
      BY <1>2, <3>1, AddFacts
    <3> QED  BY <1>2, <1>h, <2>2, <2>4, <3>2, <3>3
  <2> QED  BY <2>3, <2>4
<1>12. \A d \in Conns : Backed(d)'
  BY <1>1, <1>6, <1>11 DEF Backed
<1> QED  BY <1>1, <1>4, <1>9, <1>10, <1>12 DEF Removals

\* session-removed and session-list take away only what is lost or was kept out.
LEMMA RemovalsTaken ==
    ASSUME TypeInv, Sized, Stages, OneAtATime, Orderly, InOrder, Removals, Next,
           NEW c \in Conns, HandleRemoved(c) \/ HandleList(c)
    PROVE  Removals'
<1>1. /\ UNCHANGED <<devVars, poll, daemon, removed>> /\ OthersKeep(c) /\ Reads(c, "advert")
      /\ registry'.dismissed = registry.dismissed
      /\ ing'[c].sessions \subseteq ing[c].sessions
  <2>1. CASE HandleRemoved(c)
    <3>1. PICK s \in Sessions :
            /\ Becomes(c, "reading", TRUE, ing[c].waits, ing[c].sessions \ {s}, ing[c].done)
            /\ registry'.dismissed = registry.dismissed
      BY <2>1, HandleRemovedShape
    <3>2. UNCHANGED <<devVars, poll, daemon, removed>> /\ OthersKeep(c) /\ Reads(c, "advert")
      BY <2>1, HandleRemovedShape
    <3> QED  BY <3>1, <3>2 DEF Becomes
  <2>2. CASE HandleList(c)
    BY <2>2, HandleListShape DEF Becomes
  <2> QED  BY <2>1, <2>2
<1>t. removed \subseteq Sessions /\ \A d \in Conns : ing[d].sessions \subseteq Sessions
  BY Types DEF ConnType
<1>l. \A s \in Sessions : Lost(s) => Lost(s)'
  BY LostStep
<1>r. Readable(c) /\ daemon.running /\ 1 \in Adverts(c) /\ Newer(c, 1)
  BY <1>1, ReaderFacts, ReadsFacts, FirstFacts DEF InOrder
\* What goes is lost, or was kept out.
<1>2. ASSUME NEW s \in Sessions
      PROVE  /\ file'[s] = "none" => file[s] = "none" \/ Lost(s) \/ s \in registry.dismissed
             /\ file'[s] # "none" => file[s] # "none"
             /\ s \in ing[c].sessions => s \in ing'[c].sessions \/ Lost(s)
             /\ s \in ing'[c].sessions => file'[s] = file[s] \/ s \in registry.dismissed
  <2>1. CASE HandleRemoved(c)
    <3>1. PICK x \in chan[c][1].removed :
            /\ ing'[c].sessions = ing[c].sessions \ {x} /\ file' = Deleted({x} \cap ing[c].sessions)
      BY <2>1, HandleRemovedShape, ZenonT(60) DEF Becomes
    <3>2. Lost(x)
      BY <1>1, <1>r, EndedIsLost DEF Newer, Retracts
    <3>3. s # x => file'[s] = file[s]
      BY <3>1, FileFacts
    <3>4. file'[s] # "none" => file[s] # "none"
      BY <3>1, FileFacts
    <3> QED  BY <3>1, <3>2, <3>3, <3>4
  <2>2. CASE HandleList(c) /\ file' = Deleted((Sessions \ chan[c][1].list) \cup registry.dismissed)
             /\ ing'[c].sessions = ing[c].sessions \cap chan[c][1].list
    <3>1. Seen(s) => s \in List(c, 1) \/ Lost(s)
      BY <1>1, <1>r, EndedIsLost DEF Newer
    <3>2. /\ s \in chan[c][1].list /\ s \notin registry.dismissed => file'[s] = file[s]
          /\ file'[s] # "none" => file[s] # "none"
      BY <2>2, FileFacts
    <3> QED  BY <2>2, <3>1, <3>2 DEF Seen, List
  <2>3. CASE HandleList(c) /\ UNCHANGED <<ing, file>>
    BY <2>3
  <2>4. \/ HandleRemoved(c)
        \/ HandleList(c) /\ file' = Deleted((Sessions \ chan[c][1].list) \cup registry.dismissed)
             /\ ing'[c].sessions = ing[c].sessions \cap chan[c][1].list
        \/ HandleList(c) /\ UNCHANGED <<ing, file>>
    BY HandleListShape DEF Becomes
  <2> QED  BY <2>1, <2>2, <2>3, <2>4
<1>5. \A d \in Conns : Readable(d)' => Readable(d)
  BY <1>1, <1>r DEF Readable, OthersKeep, Becomes, devVars
<1>6. \A d \in Conns : d # c => ing'[d].sessions = ing[d].sessions /\ ing[d].sessions = {}
  BY <1>1, ReaderFacts DEF OthersKeep, Becomes
<1>7. \A s \in Sessions : KeptOut(s)' => Excused(s)'
  BY <1>1, <1>2, <1>l DEF Removals, KeptOut, Excused
<1>8. ASSUME NEW s \in removed
      PROVE  Watched(s)'
  <2>1. Watched(s) /\ s \in Sessions
    BY <1>t DEF Removals
  <2> QED  BY <1>1, <1>2, <1>5, <1>6, <1>l, <2>1 DEF Watched
<1>9. \A d \in Conns : Backed(d)'
  BY <1>1, <1>2, <1>6, <1>t DEF Removals, Backed
<1> QED  BY <1>1, <1>r, <1>7, <1>8, <1>9 DEF Removals

\* Steps that leave the files, the poll and the user's removals alone.
LEMMA RemovalsFrame ==
    ASSUME TypeInv, Sized, Stages, OneAtATime, Orderly, Removals, Next, NEW c \in Conns,
           \/ StartWatch(c) \/ Hangup(c) \/ Readvertise(c) \/ Accept(c) \/ HelloRefused(c)
           \/ HelloEvicts(c) \/ HelloRegisters(c) \/ Teardown(c) \/ MarkTornDown(c)
    PROVE  Removals'
<1>l. \A s \in Sessions : Lost(s) => Lost(s)'
  BY LostStep
<1>1. CASE StartWatch(c) \/ Hangup(c)
  <2>1. UNCHANGED ingVars /\ \A d \in Conns : up[d].phase = "idle" => up'[d].phase = "idle"
    BY <1>1, StartWatchShape, HangupShape DEF Linked
  <2>2. \A d \in Conns : Readable(d)' => Readable(d)
    BY <2>1 DEF Readable, ingVars
  <2> QED  BY <1>l, <2>1, <2>2, RemovalsStay DEF ingVars
<1>2. CASE Readvertise(c)
  <2>1. UNCHANGED ingVars /\ \A d \in Conns : up[d].phase = "idle" => up'[d].phase = "idle"
    BY <1>2, ReadvertiseShape DEF Sent
  <2>2. \A d \in Conns : Readable(d)' => Readable(d)
    BY <2>1 DEF Readable, ingVars
  <2> QED  BY <1>l, <2>1, <2>2, RemovalsStay DEF ingVars
<1>3. CASE Accept(c) \/ HelloRefused(c) \/ HelloEvicts(c)
  <2>1. /\ UNCHANGED <<devVars, registry, file, poll, daemon, removed>> /\ OthersKeep(c)
        /\ ing'[c].sessions = ing[c].sessions /\ ing[c].phase \in {"none", "reading"}
    BY <1>3, AcceptShape, HelloRefusedShape, HelloEvictsShape, ReadsFacts DEF Becomes
  <2>2. up[c].phase # "idle"
    BY <1>3, AcceptShape, HelloRefusedShape, HelloEvictsShape, GreeterFacts DEF Readable
  <2> QED  BY <1>l, <2>1, <2>2, RemovalsStay DEF OthersKeep, Becomes, Readable, devVars
<1>4. CASE HelloRegisters(c)
  BY <1>l, <1>4, HelloRegistersShape, RemovalsStay DEF Becomes, Readable, devVars
<1>5. CASE Teardown(c)
  <2>1. \A s \in Sessions : file'[s] = "none" <=> file[s] = "none"
    BY <1>5, TeardownShape, FileFacts
  <2> QED  BY <1>l, <1>5, <2>1, TeardownShape, RemovalsStay DEF OthersKeep, Becomes, Readable, devVars
<1>6. CASE MarkTornDown(c)
  <2>1. /\ UNCHANGED <<devVars, file, poll, daemon, removed>> /\ OthersKeep(c)
        /\ registry'.dismissed = registry.dismissed
        /\ ing'[c].sessions = ing[c].sessions /\ ing'[c].phase = "closed"
    BY <1>6, MarkTornDownShape DEF Becomes
  <2> QED  BY <1>l, <2>1, RemovalsStay DEF OthersKeep, Becomes, Readable, devVars
<1> QED  BY <1>1, <1>2, <1>3, <1>4, <1>5, <1>6

\* A connection is made when the poll has told of every removal.
LEMMA RemovalsConnect ==
    ASSUME TypeInv, Sized, Stages, OneAtATime, Orderly, Removals, Next, NEW c \in Conns, Connect(c)
    PROVE  Removals'
<1>l. \A s \in Sessions : Lost(s) => Lost(s)'
  BY LostStep
<1>t. removed \subseteq Sessions
  BY Types
<1>1. UNCHANGED ingVars /\ poll.prev \subseteq Files /\ poll.gone = {} /\ daemon.running
  BY DEF Connect, Orderly
<1>2. \A s \in removed : s \in registry.dismissed
  BY <1>1, <1>t DEF Removals, Watched, Files
<1>3. \A s \in Sessions : KeptOut(s)' => Excused(s)'
  BY <1>1, <1>l DEF Removals, KeptOut, Excused, ingVars
<1>4. \A s \in removed : Watched(s)'
  BY <1>1, <1>2 DEF Removals, Watched, ingVars
<1> QED  BY <1>1, <1>3, <1>4 DEF Removals, Backed, ingVars

\* The user removes what every connection that may add it again has already.
LEMMA RemovalsUser ==
    ASSUME TypeInv, Sized, Stages, OneAtATime, Orderly, Removals, Next, NEW s \in Sessions, UserRemove(s)
    PROVE  Removals'
<1>l. \A t \in Sessions : Lost(t) => Lost(t)'
  BY LostStep
<1>t. removed \subseteq Sessions /\ \A d \in Conns : ing[d].sessions \subseteq Sessions
  BY Types DEF ConnType
<1>1. /\ UNCHANGED <<devVars, chan, ing, registry, poll, daemon>>
      /\ removed' = removed \cup {s} /\ file' = Deleted({s})
  BY UserRemoveShape
<1>2. \A t \in Sessions : file'[t] = IF t = s THEN "none" ELSE file[t]
  BY <1>1, FileFacts
<1>3. s \in poll.prev /\ \A d \in Conns : Readable(d) => s \in ing[d].sessions
  BY DEF UserRemove, Orderly, Readable
<1>4. \A t \in Sessions : KeptOut(t)' => Excused(t)'
  BY <1>1, <1>2, <1>l DEF Removals, KeptOut, Excused
<1>5. ASSUME NEW t \in removed'
      PROVE  Watched(t)'
  <2>1. CASE t = s
    BY <1>1, <1>2, <1>3, <2>1 DEF Watched, Readable, devVars
  <2>2. CASE t # s
    BY <1>1, <1>2, <1>t, <1>l, <2>2 DEF Removals, Watched, Readable, devVars
  <2> QED  BY <2>1, <2>2
<1>6. \A d \in Conns : Backed(d)'
  BY <1>1, <1>2, <1>t DEF Removals, Backed
<1> QED  BY <1>1, <1>4, <1>5, <1>6 DEF Removals

\* The poll finds what was removed, and dismisses it.
LEMMA RemovalsPoll ==
    ASSUME TypeInv, Sized, Stages, OneAtATime, Orderly, Removals, Next, Scan \/ Dismiss
    PROVE  Removals'
<1>l. \A t \in Sessions : Lost(t) => Lost(t)'
  BY LostStep
<1>t. removed \subseteq Sessions
  BY Types
<1>1. UNCHANGED <<devVars, chan, ing, file, daemon, removed>> /\ daemon.running
  BY ScanShape, DismissShape DEF Scan
<1>2. CASE Scan
  <2>1. /\ poll.gone = {} /\ registry' = registry
        /\ \A s \in Sessions : /\ s \in poll'.prev <=> file[s] # "none"
                               /\ s \in poll'.gone <=> s \in poll.prev /\ file[s] = "none"
    BY <1>2, ScanShape DEF Files
  <2>2. \A s \in Sessions : KeptOut(s)' => Excused(s)'
    BY <1>1, <1>l, <2>1 DEF Removals, KeptOut, Excused
  <2>3. \A s \in removed : Watched(s)'
    BY <1>1, <1>l, <1>t, <2>1 DEF Removals, Watched, Readable, devVars
  <2> QED  BY <1>1, <2>1, <2>2, <2>3 DEF Removals, Backed
<1>3. CASE Dismiss
  <2>1. /\ poll'.prev = poll.prev /\ poll'.gone = {}
        /\ registry'.dismissed = registry.dismissed \cup poll.gone
    BY <1>3, DismissShape
  <2>2. \A s \in Sessions : KeptOut(s)' => Excused(s)'
    BY <1>1, <1>l, <2>1 DEF Removals, KeptOut, Excused
  <2>3. \A s \in removed : Watched(s)'
    BY <1>1, <1>l, <1>t, <2>1 DEF Removals, Watched, Readable, devVars
  <2> QED  BY <1>1, <2>1, <2>2, <2>3 DEF Removals, Backed
<1> QED  BY <1>2, <1>3

\* The daemon ends, and starts again with what the sweep left.
LEMMA RemovalsRestart ==
    ASSUME TypeInv, Sized, Stages, OneAtATime, Orderly, Removals, Next, IngestStop \/ IngestStart
    PROVE  Removals'
<1>l. \A t \in Sessions : Lost(t) => Lost(t)'
  BY LostStep
<1>t. removed \subseteq Sessions
  BY Types
<1>1. CASE IngestStop
  <2>1. /\ UNCHANGED <<file, poll, removed>> /\ ~daemon'.running /\ registry'.dismissed = {}
        /\ \A d \in Conns : \/ ing'[d].sessions = {}
                            \/ up[d].phase = "idle" /\ ing'[d].sessions = ing[d].sessions
    BY <1>1, IngestStopShape DEF Becomes
  <2>2. \A d \in Conns : ing'[d].sessions = {}
    BY <2>1 DEF Stages, Phases
  <2>3. \A s \in Sessions : KeptOut(s)' => Excused(s)'
    BY <1>l, <2>1 DEF Removals, KeptOut, Excused
  <2>4. \A s \in removed : Watched(s)'
    BY <1>t, <2>1 DEF Removals, Watched
  <2> QED  BY <2>1, <2>2, <2>3, <2>4 DEF Removals, Backed
<1>2. CASE IngestStart
  <2>1. /\ UNCHANGED <<ing, registry>> /\ ~daemon.running /\ daemon'.running /\ removed' = {}
        /\ poll'.prev = Files' /\ poll'.gone = {}
    BY <1>2, IngestStartShape
  <2>2. registry'.dismissed = {} /\ \A d \in Conns : ing'[d].sessions = {}
    BY <2>1 DEF Removals, Stages, Phases
  <2>3. \A s \in Sessions : ~KeptOut(s)'
    BY <2>1, <2>2 DEF KeptOut, Files
  <2> QED  BY <2>1, <2>2, <2>3 DEF Removals, Backed
<1> QED  BY <1>1, <1>2

\* Every step keeps what is kept out excused, and watches what was removed.
LEMMA RemovalsStep ==
    ASSUME TypeInv, Sized, Stages, OneAtATime, Orderly, Entries, InOrder, Removals, Next
    PROVE  Removals'
<1>1. ASSUME NEW s \in Sessions, Changes(s) \/ DaemonDies(s)
      PROVE  Removals'
  <2>1. UNCHANGED ingVars /\ \A d \in Conns : up'[d].phase = up[d].phase
    BY <1>1, ChangeShape, DaemonDiesShape DEF TouchedFrom, Orderly
  <2>2. \A t \in Sessions : Lost(t) => Lost(t)'
    BY LostStep
  <2> QED  BY <2>1, <2>2, RemovalsStay DEF Readable, ingVars
<1> QED  BY <1>1, RemovalsFrame, RemovalsConnect, RemovalsUser, RemovalsPoll, RemovalsRestart,
            RemovalsAdded, RemovalsTaken, NextCases

----------------------------------------------------------------------------
(* Nothing dead is shown as live *)

\* The session is not live on disk, or is bridged.
Bridged(s) == file[s] = "running" /\ s \notin removed => \E c \in Conns : s \in ing[c].sessions

\* It is what NoDeadRunning says.
LEMMA DeadFacts ==
    ASSUME TypeInv
    PROVE  NoDeadRunning <=> (daemon.running => \A s \in Sessions : Bridged(s))
BY DEF NoDeadRunning, Bridged, Live, Files

\* And after a step.
LEMMA DeadFactsNext ==
    ASSUME TypeInv'
    PROVE  NoDeadRunning' <=> (daemon'.running => \A s \in Sessions : Bridged(s)')
BY DEF NoDeadRunning, Bridged, Live, Files

\* Steps that bridge what was bridged and make nothing live.
LEMMA DeadStays ==
    ASSUME TypeInv, TypeInv', NoDeadRunning,
           daemon'.running => daemon.running,
           \A s \in Sessions : /\ file'[s] = "running" => file[s] = "running"
                               /\ s \in removed => s \in removed'
                               /\ \A d \in Conns : s \in ing[d].sessions => s \in ing'[d].sessions
    PROVE  NoDeadRunning'
BY DeadFacts, DeadFactsNext DEF Bridged

\* What is advertised and kept out was removed by the user.
LEMMA DeadAdded ==
    ASSUME TypeInv, Sized, Stages, Entries, Removals, NoDeadRunning, NEW c \in Conns, HandleAdded(c)
    PROVE  NoDeadRunning'
<1>1. /\ UNCHANGED <<devVars, poll, daemon, removed>> /\ OthersKeep(c) /\ Reads(c, "advert") /\ TypeInv'
  BY HandleAddedShape
<1>2. PICK m \in chan[c][1].added :
        /\ m \in [id : Sessions, status : Statuses]
        /\ ing'[c].sessions = Holds(c, m) /\ file' = AddSession(c, m)
  BY HandleAddedShape DEF Becomes
<1>3. m.id \in List(c, 1) /\ 1 \in Adverts(c) /\ ~Lost(m.id) /\ m.id \in Sessions
  BY <1>1, <1>2, FirstFacts DEF Entries, Formed, Adds, Lost
<1>4. m.id \in registry.dismissed => m.id \in removed
  BY <1>3 DEF Removals, KeptOut, Excused
<1>5. \A d \in Conns : d # c => ing'[d].sessions = ing[d].sessions
  BY <1>1 DEF OthersKeep, Becomes
<1>6. daemon.running /\ \A s \in Sessions : Bridged(s)
  BY <1>1, ReadsFacts, DeadFacts
<1>7. ASSUME NEW s \in Sessions, file'[s] = "running", s \notin removed
      PROVE  \E d \in Conns : s \in ing'[d].sessions
  <2>1. CASE s # m.id
    <3>1. file'[s] = file[s] /\ (s \in ing'[c].sessions <=> s \in ing[c].sessions)
      BY <1>2, <2>1, AddFacts
    <3> QED  BY <1>5, <1>6, <1>7, <3>1 DEF Bridged
  <2>2. CASE s = m.id
    <3>1. s \notin registry.dismissed
      BY <1>4, <1>7, <2>2
    <3>2. CASE s \in Holds(c, m)
      BY <1>2, <3>2
    <3>3. CASE s \notin Holds(c, m)
      <4>1. file' = file /\ s \notin ing[c].sessions
        BY <1>2, <2>2, <3>1, <3>3, AddFacts
      <4> QED  BY <1>5, <1>6, <1>7, <4>1 DEF Bridged
    <3> QED  BY <3>2, <3>3
  <2> QED  BY <2>1, <2>2
<1> QED  BY <1>1, <1>7, DeadFactsNext DEF Bridged

\* What is no longer bridged has no file, or is shown as disconnected.
LEMMA DeadTaken ==
    ASSUME TypeInv, Sized, Stages, NoDeadRunning, NEW c \in Conns,
           HandleRemoved(c) \/ HandleList(c) \/ Teardown(c)
    PROVE  NoDeadRunning'
<1>1. UNCHANGED <<daemon, removed>> /\ OthersKeep(c) /\ TypeInv' /\ daemon.running
  BY HandleRemovedShape, HandleListShape, TeardownShape, ReadsFacts
<1>2. \A s \in Sessions : Bridged(s)
  BY <1>1, DeadFacts
<1>3. \A d \in Conns : d # c => ing'[d].sessions = ing[d].sessions
  BY <1>1 DEF OthersKeep, Becomes
<1>4. ASSUME NEW s \in Sessions, file'[s] = "running"
      PROVE  file[s] = "running" /\ (s \in ing[c].sessions => s \in ing'[c].sessions)
  <2>1. CASE HandleRemoved(c)
    <3>1. PICK x \in chan[c][1].removed :
            /\ ing'[c].sessions = ing[c].sessions \ {x} /\ file' = Deleted({x} \cap ing[c].sessions)
      BY <2>1, HandleRemovedShape, ZenonT(60) DEF Becomes
    <3>2. file'[s] = IF s \in {x} \cap ing[c].sessions THEN "none" ELSE file[s]
      BY <3>1, FileFacts
    <3> QED  BY <1>4, <3>1, <3>2
  <2>2. CASE /\ file' = Deleted((Sessions \ chan[c][1].list) \cup registry.dismissed)
             /\ ing'[c].sessions = ing[c].sessions \cap chan[c][1].list
    <3>1. file'[s] = IF s \in (Sessions \ chan[c][1].list) \cup registry.dismissed THEN "none" ELSE file[s]
      BY <2>2, FileFacts
    <3> QED  BY <1>4, <2>2, <3>1
  <2>3. CASE UNCHANGED <<ing, file>>
    BY <1>4, <2>3
  <2>4. CASE Teardown(c)
    <3>1. file' = StatusPatched(ing[c].sessions, "disconnected")
      BY <2>4, TeardownShape
    <3>2. file'[s] = IF s \in ing[c].sessions /\ file[s] # "none" THEN "disconnected" ELSE file[s]
      BY <3>1, FileFacts
    <3> QED  BY <1>4, <3>2
  <2>5. HandleList(c) => \/ /\ file' = Deleted((Sessions \ chan[c][1].list) \cup registry.dismissed)
                            /\ ing'[c].sessions = ing[c].sessions \cap chan[c][1].list
                         \/ UNCHANGED <<ing, file>>
    BY HandleListShape DEF Becomes
  <2> QED  BY <2>1, <2>2, <2>3, <2>4, <2>5
<1> QED  BY <1>1, <1>2, <1>3, <1>4, DeadFactsNext DEF Bridged

\* No step leaves a live status behind that no connection stands for.
LEMMA NoDeadRunningStep ==
    ASSUME TypeInv, Sized, Stages, Orderly, Entries, Removals, NoDeadRunning, Next
    PROVE  NoDeadRunning'
<1>t. TypeInv'
  BY TypeStep DEF Orderly
<1>1. ASSUME NEW s \in Sessions, Changes(s) \/ DaemonDies(s)
      PROVE  NoDeadRunning'
  <2>1. UNCHANGED ingVars
    BY <1>1, ChangeShape, DaemonDiesShape DEF Orderly
  <2> QED  BY <1>t, <2>1, DeadStays DEF ingVars
<1>2. ASSUME NEW c \in Conns, Connect(c) \/ StartWatch(c) \/ Readvertise(c) \/ Hangup(c)
      PROVE  NoDeadRunning'
  <2>1. UNCHANGED ingVars
    BY <1>2 DEF Connect, StartWatch, Readvertise, Hangup
  <2> QED  BY <1>t, <2>1, DeadStays DEF ingVars
<1>3. ASSUME NEW s \in Sessions, UserRemove(s)
      PROVE  NoDeadRunning'
  <2>1. UNCHANGED <<ing, daemon>> /\ file' = Deleted({s}) /\ removed \subseteq removed'
    BY <1>3, UserRemoveShape
  <2>2. \A t \in Sessions : file'[t] = IF t \in {s} THEN "none" ELSE file[t]
    BY <2>1, FileFacts
  <2> QED  BY <1>t, <2>1, <2>2, DeadStays
<1>4. ASSUME NEW c \in Conns, Accept(c) \/ HelloRefused(c) \/ HelloEvicts(c) \/ MarkTornDown(c)
      PROVE  NoDeadRunning'
  <2>1. UNCHANGED <<file, daemon, removed>> /\ OthersKeep(c) /\ ing'[c].sessions = ing[c].sessions
    BY <1>4, AcceptShape, HelloRefusedShape, HelloEvictsShape, MarkTornDownShape DEF Becomes
  <2> QED  BY <1>t, <2>1, DeadStays DEF OthersKeep, Becomes
<1>5. ASSUME NEW c \in Conns, HelloRegisters(c)
      PROVE  NoDeadRunning'
  <2>1. UNCHANGED <<file, daemon, removed>> /\ \A d \in Conns : ing'[d].sessions = ing[d].sessions
    BY <1>5, HelloRegistersShape DEF Becomes
  <2> QED  BY <1>t, <2>1, DeadStays
<1>6. CASE Scan \/ Dismiss
  <2>1. UNCHANGED <<ing, file, daemon, removed>>
    BY <1>6, ScanShape, DismissShape
  <2> QED  BY <1>t, <2>1, DeadStays
<1>7. CASE IngestStop
  BY <1>t, <1>7, IngestStopShape, DeadFactsNext
<1>8. CASE IngestStart
  <2>1. \A s \in Sessions : file'[s] # "running"
    BY <1>8, IngestStartShape, FileFacts
  <2> QED  BY <1>t, <2>1, DeadFactsNext DEF Bridged
<1> QED  BY <1>1, <1>2, <1>3, <1>4, <1>5, <1>6, <1>7, <1>8, DeadAdded, DeadTaken, NextCases

----------------------------------------------------------------------------
(* What a link at rest has come to *)

\* The count is that of the connection that is served.
Counts == \A c \in Conns : registry.active = c /\ ing[c].phase = "reading" =>
    registry.count = Cardinality(ing[c].sessions)

\* Sessions are counted when they change.
LEMMA CountsStay ==
    ASSUME Counts, registry'.active = registry.active, registry'.count = registry.count,
           \A d \in Conns : ing'[d].phase = "reading" /\ registry.active = d =>
                              ing[d].phase = "reading" /\ ing'[d].sessions = ing[d].sessions
    PROVE  Counts'
BY DEF Counts

\* A connection that registers counts from zero, as it holds nothing.
LEMMA CountsStep ==
    ASSUME TypeInv, Sized, Stages, Orderly, Counts, Next
    PROVE  Counts'
<1>1. ASSUME UNCHANGED <<ing, registry>>
      PROVE  Counts'
  BY <1>1, CountsStay
<1>2. ASSUME NEW s \in Sessions, Changes(s) \/ DaemonDies(s) \/ UserRemove(s)
      PROVE  Counts'
  BY <1>1, <1>2, ChangeShape, DaemonDiesShape, UserRemoveShape DEF Orderly, ingVars
<1>3. ASSUME NEW c \in Conns, Connect(c) \/ StartWatch(c) \/ Readvertise(c) \/ Hangup(c)
      PROVE  Counts'
  BY <1>1, <1>3 DEF Connect, StartWatch, Readvertise, Hangup, ingVars
<1>4. ASSUME NEW c \in Conns, Accept(c) \/ HelloRefused(c) \/ HelloEvicts(c)
      PROVE  Counts'
  <2>1. registry' = registry /\ OthersKeep(c) /\ (Accept(c) \/ ing'[c].phase # "reading")
    BY <1>4, AcceptShape, HelloRefusedShape, HelloEvictsShape DEF Becomes
  <2>2. Accept(c) => registry.active # c
    BY <1>4, AcceptShape DEF Stages, Active
  <2> QED  BY <2>1, <2>2, CountsStay DEF OthersKeep, Becomes
<1>5. ASSUME NEW c \in Conns, HelloRegisters(c)
      PROVE  Counts'
  <2>1. /\ registry'.active = c /\ registry'.count = 0 /\ ing'[c].sessions = ing[c].sessions
        /\ ing[c].phase = "hello"
    BY <1>5, HelloRegistersShape DEF Becomes
  <2>2. ing[c].sessions = {}
    BY <2>1 DEF Stages, Phases
  <2> QED  BY <2>1, <2>2, FS_EmptySet DEF Counts
<1>6. ASSUME NEW c \in Conns, HandleAdded(c) \/ HandleRemoved(c) \/ HandleList(c)
      PROVE  Counts'
  <2>1. CASE HandleAdded(c)
    <3>1. registry'.active = c /\ registry'.count = Cardinality(ing'[c].sessions)
      BY <2>1, HandleAddedShape DEF Becomes
    <3> QED  BY <3>1 DEF Counts
  <2>2. CASE HandleRemoved(c)
    <3>1. registry'.active = c /\ registry'.count = Cardinality(ing'[c].sessions)
      BY <2>2, HandleRemovedShape, ZenonT(60) DEF Becomes
    <3> QED  BY <3>1 DEF Counts
  <2>3. CASE HandleList(c)
    <3>1. \/ UNCHANGED <<ing, registry>>
          \/ registry'.active = c /\ registry'.count = Cardinality(ing'[c].sessions)
      BY <2>3, HandleListShape DEF Becomes
    <3> QED  BY <1>1, <3>1 DEF Counts
  <2> QED  BY <1>6, <2>1, <2>2, <2>3
<1>7. ASSUME NEW c \in Conns, Teardown(c)
      PROVE  Counts'
  BY <1>7, TeardownShape, CountsStay DEF OthersKeep, Becomes
<1>8. ASSUME NEW c \in Conns, MarkTornDown(c)
      PROVE  Counts'
  <2>1. CASE registry'.active = None
    BY <2>1, RemoteLinkAssumption DEF Counts
  <2>2. CASE registry' = registry /\ ing'[c].phase = "closed" /\ OthersKeep(c)
    BY <2>2, CountsStay DEF OthersKeep, Becomes
  <2> QED  BY <1>8, <2>1, <2>2, MarkTornDownShape DEF Becomes
<1>9. CASE Scan \/ Dismiss
  BY <1>9, ScanShape, DismissShape, CountsStay
<1>10. CASE IngestStop
  BY <1>10, IngestStopShape, RemoteLinkAssumption DEF Counts
<1>11. CASE IngestStart
  BY <1>1, <1>11, IngestStartShape
<1> QED  BY <1>2, <1>3, <1>4, <1>5, <1>6, <1>7, <1>8, <1>9, <1>10, <1>11, NextCases

\* Once the link has nothing to read, the snapshot has cleaned the disk.
Read(c) == /\ registry.active = c /\ ing[c].phase = "reading"
           /\ Linked(c) /\ Len(chan[c]) = 0 /\ UplinkSecret = IngestSecret
Clean == \A c \in Conns : Read(c) => \A s \in Sessions : file[s] # "none" => s \in up[c].advertised

\* No file comes without an entry to read.
LEMMA CleanStays ==
    ASSUME Clean, \A s \in Sessions : file'[s] # "none" => file[s] # "none",
           \A d \in Conns : Read(d)' => Read(d) /\ up'[d].advertised = up[d].advertised
    PROVE  Clean'
BY DEF Clean

\* The devbox's steps.
LEMMA CleanDevbox ==
    ASSUME TypeInv, Sized, Stages, OneAtATime, Orderly, Clean, Next,
           \/ \E s \in Sessions : Changes(s) \/ DaemonDies(s)
           \/ \E c \in Conns : Connect(c) \/ StartWatch(c) \/ Readvertise(c) \/ Hangup(c)
    PROVE  Clean'
<1>1. ASSUME NEW s \in Sessions, Changes(s) \/ DaemonDies(s)
      PROVE  Clean'
  <2>1. /\ UNCHANGED <<chan, ingVars>>
        /\ \A d \in Conns : up'[d].phase = up[d].phase /\ up'[d].advertised = up[d].advertised
    BY <1>1, ChangeShape, DaemonDiesShape DEF TouchedFrom, Orderly
  <2> QED  BY <2>1, CleanStays DEF Read, Linked, ingVars
<1>2. ASSUME NEW c \in Conns, StartWatch(c) \/ Hangup(c)
      PROVE  Clean'
  <2>1. /\ UNCHANGED <<chan, ingVars>> /\ Linked(c)
        /\ \A d \in Conns : d # c => up'[d] = up[d]
        /\ up'[c].phase = "closed" \/ up'[c].advertised = up[c].advertised
    BY <1>2, StartWatchShape, HangupShape DEF Linked
  <2> QED  BY <2>1, CleanStays DEF Read, Linked, ingVars
<1>3. ASSUME NEW c \in Conns, Connect(c) \/ Readvertise(c)
      PROVE  Clean'
  <2>1. Sending(c) /\ Len(chan'[c]) \in Nat
    BY <1>3, Sends, TypeStep DEF Orderly, TypeInv
  <2>2. Len(chan'[c]) # 0 /\ \A d \in Conns : d # c => ~Linked(d)'
    BY <2>1, SendingOthers DEF Sending
  <2> QED  BY <2>2 DEF Clean, Read
<1> QED  BY <1>1, <1>2, <1>3

\* The frames: the snapshot's list is what the uplink advertised last.
LEMMA CleanFrames ==
    ASSUME TypeInv, Sized, Stages, Current, Clean, NEW c \in Conns,
           HandleAdded(c) \/ HandleRemoved(c) \/ HandleList(c)
    PROVE  Clean'
<1>1. UNCHANGED devVars /\ Reads(c, "advert") /\ OthersKeep(c)
  BY HandleAddedShape, HandleRemovedShape, HandleListShape
<1>2. registry.active = c /\ Readable(c) /\ Len(chan[c]) \in Nat /\ Len(chan[c]) >= 1
  BY <1>1, ReaderFacts, ReadsFacts, Types
<1>3. CASE HandleAdded(c) \/ HandleRemoved(c)
  <2>1. registry'.active = c /\ Len(chan'[c]) = Len(chan[c])
    BY <1>3, HandleAddedShape, HandleRemovedShape DEF HeadLeft
  <2> QED  BY <1>2, <2>1 DEF Clean, Read
<1>4. CASE HandleList(c)
  <2>1. /\ registry'.active = c \/ UplinkSecret # IngestSecret
        /\ Len(chan'[c]) = Len(chan[c]) - 1
        /\ \/ UplinkSecret # IngestSecret
           \/ file' = Deleted((Sessions \ chan[c][1].list) \cup registry.dismissed)
    BY <1>4, HandleListShape DEF Popped
  <2>2. SUFFICES ASSUME Read(c)', NEW s \in Sessions, file'[s] # "none"
                 PROVE  s \in up'[c].advertised
    BY <2>1 DEF Clean, Read
  <2>3. Len(chan[c]) = 1 /\ Linked(c) /\ UplinkSecret = IngestSecret
    <3>1. Len(chan'[c]) = 0 /\ Linked(c)' /\ UplinkSecret = IngestSecret
      BY <2>2 DEF Read
    <3>2. Len(chan[c]) = 1
      <4>1. Len(chan[c]) \in Nat
        BY <1>2
      <4>2. Len(chan[c]) - 1 = 0
        BY <2>1, <3>1
      <4> QED  BY <4>1, <4>2
    <3>3. Linked(c)
      BY <1>1, <3>1 DEF Linked, devVars
    <3> QED  BY <3>1, <3>2, <3>3
  <2>4. file' = Deleted((Sessions \ chan[c][1].list) \cup registry.dismissed)
    BY <2>1, <2>3
  <2>5. s \in chan[c][1].list
    BY <2>2, <2>4, FileFacts
  <2>6. List(c, 1) = up[c].advertised
    BY <1>2, <2>3 DEF Current
  <2> QED  BY <1>1, <2>5, <2>6 DEF List, devVars
<1> QED  BY <1>3, <1>4

\* Every step.
LEMMA CleanStep ==
    ASSUME TypeInv, Sized, Stages, OneAtATime, Orderly, Current, Clean, Next
    PROVE  Clean'
<1>1. ASSUME NEW c \in Conns, Accept(c) \/ HelloRefused(c) \/ HelloEvicts(c) \/ MarkTornDown(c)
      PROVE  Clean'
  <2>1. UNCHANGED devVars /\ file' = file /\ OthersKeep(c) /\ OthersUnread(c)
    BY <1>1, AcceptShape, HelloRefusedShape, HelloEvictsShape, MarkTornDownShape
  <2>2. CASE Accept(c)
    <3>1. registry' = registry /\ registry.active # c
      BY <2>2, AcceptShape DEF Stages, Active
    <3> QED  BY <2>1, <3>1, CleanStays DEF Read, Linked, OthersKeep, OthersUnread, Becomes, devVars
  <2>3. CASE ing'[c].phase # "reading" /\ registry' = registry
    BY <2>1, <2>3, CleanStays DEF Read, Linked, OthersKeep, OthersUnread, Becomes, devVars
  <2>4. CASE registry'.active = None
    BY <2>4, RemoteLinkAssumption DEF Clean, Read
  <2> QED  BY <1>1, <2>2, <2>3, <2>4, HelloRefusedShape, HelloEvictsShape, MarkTornDownShape DEF Becomes
<1>2. ASSUME NEW c \in Conns, HelloRegisters(c)
      PROVE  Clean'
  <2>1. registry'.active = c /\ chan' = chan /\ ing[c].phase = "hello"
    BY <1>2, HelloRegistersShape
  <2>2. Len(chan[c]) >= 1 /\ Len(chan[c]) \in Nat
    BY <2>1, Types DEF Stages, Queued
  <2> QED  BY <2>1, <2>2 DEF Clean, Read
<1>3. ASSUME NEW c \in Conns, Teardown(c)
      PROVE  Clean'
  <2>1. /\ UNCHANGED <<devVars, chan, registry>> /\ OthersKeep(c) /\ ing'[c].phase = "tearing"
        /\ \A s \in Sessions : file'[s] # "none" => file[s] # "none"
    BY <1>3, TeardownShape, FileFacts DEF Becomes
  <2> QED  BY <2>1, CleanStays DEF Read, Linked, OthersKeep, Becomes, devVars
<1>4. ASSUME NEW s \in Sessions, UserRemove(s)
      PROVE  Clean'
  <2>1. /\ UNCHANGED <<devVars, chan, ing, registry>>
        /\ file' = Deleted({s})
    BY <1>4, UserRemoveShape
  <2>2. \A t \in Sessions : file'[t] # "none" => file[t] # "none"
    BY <2>1, FileFacts
  <2> QED  BY <2>1, <2>2, CleanStays DEF Read, Linked, devVars
<1>5. CASE Scan \/ Dismiss
  <2>1. UNCHANGED <<devVars, chan, ing, file>> /\ registry'.active = registry.active
    BY <1>5, ScanShape, DismissShape
  <2> QED  BY <2>1, CleanStays DEF Read, Linked, devVars
<1>6. CASE IngestStop
  BY <1>6, IngestStopShape, RemoteLinkAssumption DEF Clean, Read
<1>7. CASE IngestStart
  <2>1. /\ UNCHANGED <<devVars, chan, ing, registry>>
        /\ \A t \in Sessions : file'[t] # "none" => file[t] # "none"
    BY <1>7, IngestStartShape, FileFacts
  <2> QED  BY <2>1, CleanStays DEF Read, Linked, devVars
<1> QED  BY <1>1, <1>2, <1>3, <1>4, <1>5, <1>6, <1>7, CleanDevbox, CleanFrames, NextCases

\* The last entry to read announces the session as it is.
Announced(c, s) ==
    /\ Len(chan[c]) >= 1
    /\ \E m \in Adds(c, Len(chan[c])) : m.id = s /\ (local[s] = "dead" \/ m.status = local[s])
\* The ingest has dealt with the announcement.
Settled(c, s) ==
    \/ s \in registry.dismissed \/ s \in removed
    \/ ~Room /\ s \notin ing[c].sessions
    \/ s \in ing[c].sessions /\ (local[s] = "dead" \/ file[s] = local[s])
Handled(c, s) ==
    /\ Len(chan[c]) =< 1 /\ ing[c].label
    /\ \A i \in 1 .. Len(chan[c]) : \A m \in Adds(c, i) : m.id # s
    /\ Settled(c, s)
\* Once nothing has changed since the last reconcile, each session is still to be
\* read of, or dealt with.
Reported(c) == Readable(c) /\ Fresh(c) => \A s \in OnDevbox : Announced(c, s) \/ Handled(c, s)
Told == \A c \in Conns : Reported(c)

\* Steps that read nothing of c, and leave what it holds alone.
LEMMA ReportedStays ==
    ASSUME TypeInv, NEW c \in Conns, Reported(c), chan'[c] = chan[c],
           ing[c].label => ing'[c].label, ing'[c].sessions = ing[c].sessions,
           \A s \in ing[c].sessions : file'[s] = file[s] \/ s \in removed',
           removed \subseteq removed', registry.dismissed \subseteq registry'.dismissed,
           \A s \in Sessions : local'[s] = local[s] \/ (local[s] = "running" /\ local'[s] = "dead"),
           Fresh(c)' => Fresh(c), Readable(c)' => Readable(c)
    PROVE  Reported(c)'
<1> SUFFICES ASSUME Readable(c)', Fresh(c)', NEW s \in OnDevbox'
             PROVE  Announced(c, s)' \/ Handled(c, s)'
  BY DEF Reported
<1>1. s \in OnDevbox /\ s \in Sessions
  BY DEF OnDevbox
<1>2. Announced(c, s) \/ Handled(c, s)
  BY <1>1 DEF Reported
<1>3. Announced(c, s) => Announced(c, s)'
  BY <1>1 DEF Announced, Adds
<1>4. Settled(c, s) => Settled(c, s)'
  BY <1>1 DEF Settled, Room
<1>5. Handled(c, s) => Handled(c, s)'
  BY <1>4 DEF Handled, Adds
<1> QED  BY <1>2, <1>3, <1>5

\* What the uplink sends announces every session.
LEMMA ToldSending ==
    ASSUME TypeInv, NEW c \in Conns, Sending(c)
    PROVE  Told'
<1>1. \A d \in Conns : d # c => ~Fresh(d)'
  BY SendingOthers DEF Linked, Fresh
<1>2. ASSUME NEW s \in OnDevbox'
      PROVE  Announced(c, s)'
  <2>1. s \in OnDevbox /\ s \in Sessions
    BY <1>2, SendingDevbox DEF OnDevbox
  <2>2. local'[s] = Shown(local[s]) /\ Len(chan'[c]) >= 1
    BY <2>1 DEF Sending, Sent
  <2>3. [id |-> s, status |-> Shown(local[s])] \in chan'[c][Len(chan'[c])].added
    BY <2>1 DEF Sending, Sent
  <2>4. \E m \in chan'[c][Len(chan'[c])].added : m.id = s /\ m.status = local'[s]
    BY <2>2, <2>3
  <2> QED  BY <2>2, <2>4 DEF Announced, Adds
<1> QED  BY <1>1, <1>2 DEF Told, Reported

\* The devbox's other steps.
LEMMA ToldDevbox ==
    ASSUME TypeInv, Sized, Stages, Orderly, Told, Next,
           \/ \E s \in Sessions : Changes(s) \/ DaemonDies(s)
           \/ \E c \in Conns : StartWatch(c) \/ Hangup(c)
    PROVE  Told'
<1>1. ASSUME NEW s \in Sessions, Changes(s)
      PROVE  Told'
  <2>1. TouchedFrom(up) /\ \A d \in Conns : up[d].phase # "greeted"
    BY <1>1, ChangeShape DEF Orderly
  <2> QED  BY <2>1 DEF TouchedFrom, Told, Reported, Fresh
<1>2. ASSUME NEW s \in Sessions, DaemonDies(s)
      PROVE  Told'
  <2>1. /\ UNCHANGED <<up, chan, ingVars>>
        /\ \A t \in Sessions : local'[t] = local[t] \/ (local[t] = "running" /\ local'[t] = "dead")
    BY <1>2, DaemonDiesShape
  <2> QED  BY <2>1, ReportedStays DEF Told, Fresh, Readable, ingVars
<1>3. ASSUME NEW c \in Conns, StartWatch(c) \/ Hangup(c)
      PROVE  Told'
  <2>1. /\ UNCHANGED <<local, chan, ingVars>> /\ Linked(c)
        /\ \A d \in Conns : d # c => up'[d] = up[d]
        /\ up'[c].phase = "closed" \/ up[c].phase = "greeted"
    BY <1>3, StartWatchShape, HangupShape DEF Linked
  <2>2. \A d \in Conns : (Fresh(d)' => Fresh(d)) /\ (Readable(d)' => Readable(d))
    BY <2>1 DEF Fresh, Readable, Linked, ingVars
  <2> QED  BY <2>1, <2>2, ReportedStays DEF Told, ingVars
<1> QED  BY <1>1, <1>2, <1>3

\* The connection's own steps, the hello's apart.
LEMMA ToldConnection ==
    ASSUME TypeInv, Sized, Stages, Told, NEW c \in Conns,
           Accept(c) \/ HelloRefused(c) \/ HelloRegisters(c) \/ Teardown(c) \/ MarkTornDown(c)
    PROVE  Told'
<1>1. CASE Accept(c) \/ HelloRefused(c) \/ MarkTornDown(c)
  <2>1. /\ UNCHANGED <<devVars, file, poll, daemon, removed>> /\ OthersKeep(c) /\ OthersUnread(c)
        /\ registry'.dismissed = registry.dismissed
        /\ ing'[c].sessions = ing[c].sessions /\ (ing'[c].label <=> ing[c].label)
        /\ \/ ing'[c].phase = "closed"
           \/ ing[c].phase = "none" /\ chan'[c] = chan[c]
    BY <1>1, AcceptShape, HelloRefusedShape, MarkTornDownShape DEF Becomes
  <2>2. ASSUME NEW d \in Conns, d # c
        PROVE  Reported(d)'
    <3>1. /\ ing'[d].phase = ing[d].phase /\ (ing'[d].label <=> ing[d].label)
          /\ ing'[d].sessions = ing[d].sessions /\ chan'[d] = chan[d]
      BY <2>1, <2>2 DEF OthersKeep, OthersUnread, Becomes
    <3> QED  BY <2>1, <3>1, ReportedStays DEF Told, Fresh, Readable, devVars
  <2>3. CASE ing'[c].phase = "closed"
    <3>1. ~Readable(c)'
      BY <2>3 DEF Readable
    <3>2. Reported(c)'
      BY <3>1 DEF Reported
    <3> QED  BY <2>2, <3>2 DEF Told
  <2>4. CASE ing[c].phase = "none" /\ chan'[c] = chan[c]
    <3>1. Reported(c)'
      BY <2>1, <2>4, ReportedStays DEF Told, Fresh, Readable, devVars
    <3> QED  BY <2>2, <3>1 DEF Told
  <2> QED  BY <2>1, <2>3, <2>4
<1>2. CASE HelloRegisters(c)
  <2>1. /\ UNCHANGED <<devVars, chan, file, poll, daemon, removed>>
        /\ registry'.dismissed = registry.dismissed /\ ing[c].phase = "hello"
        /\ \A d \in Conns : /\ ing'[d].sessions = ing[d].sessions /\ (ing'[d].label <=> ing[d].label)
                            /\ d # c => ing'[d].phase = ing[d].phase
    BY <1>2, HelloRegistersShape DEF Becomes
  <2> QED  BY <2>1, ReportedStays DEF Told, Fresh, Readable, devVars
<1>3. CASE Teardown(c)
  <2>1. /\ UNCHANGED <<devVars, chan, registry, poll, daemon, removed>> /\ OthersKeep(c)
        /\ ing'[c].phase = "tearing"
        /\ \A s \in Sessions : file'[s] = IF s \in ing[c].sessions /\ file[s] # "none"
                                          THEN "disconnected" ELSE file[s]
    BY <1>3, TeardownShape, FileFacts DEF Becomes
  <2>2. \A d \in Conns : d # c => ing[d].sessions \cap ing[c].sessions = {}
    BY DEF Stages, Phases, Active
  <2>3. ASSUME NEW d \in Conns, d # c
        PROVE  Reported(d)'
    <3>1. /\ ing'[d].phase = ing[d].phase /\ (ing'[d].label <=> ing[d].label)
          /\ ing'[d].sessions = ing[d].sessions
      BY <2>1, <2>3 DEF OthersKeep, Becomes
    <3>2. \A s \in ing[d].sessions : file'[s] = file[s]
      BY <2>1, <2>2, <2>3, Types DEF ConnType
    <3> QED  BY <2>1, <3>1, <3>2, ReportedStays DEF Told, Fresh, Readable, devVars
  <2>4. Reported(c)'
    BY <2>1 DEF Reported, Readable
  <2> QED  BY <2>3, <2>4 DEF Told
<1> QED  BY <1>1, <1>2, <1>3

\* The hello is not the last entry.
LEMMA ToldHello ==
    ASSUME TypeInv, Sized, Stages, Told, NEW c \in Conns, HelloEvicts(c)
    PROVE  Told'
<1>1. /\ UNCHANGED <<devVars, registry, file, poll, daemon, removed>> /\ OthersKeep(c) /\ OthersUnread(c)
      /\ Reads(c, "hello") /\ Popped(c)
  BY HelloEvictsShape
<1>2. ~ing[c].label /\ Readable(c) /\ Len(chan[c]) >= 2 /\ Len(chan[c]) \in Nat /\ Len(chan'[c]) \in Nat
  BY <1>1, GreeterFacts, Types, HelloEvictsShape DEF TypeInv
<1>3. ASSUME NEW d \in Conns, d # c
      PROVE  Reported(d)'
  <2>1. /\ ing'[d].phase = ing[d].phase /\ (ing'[d].label <=> ing[d].label)
        /\ ing'[d].sessions = ing[d].sessions /\ chan'[d] = chan[d]
    BY <1>1, <1>3 DEF OthersKeep, OthersUnread, Becomes
  <2> QED  BY <1>1, <2>1, ReportedStays DEF Told, Fresh, Readable, devVars
<1>4. ASSUME Fresh(c)', NEW s \in OnDevbox'
      PROVE  Announced(c, s)'
  <2>1. Fresh(c) /\ s \in OnDevbox /\ local' = local
    BY <1>1, <1>4 DEF Fresh, OnDevbox, devVars
  <2>2. Announced(c, s)
    BY <1>2, <2>1 DEF Told, Reported, Handled
  <2>3. Len(chan'[c]) + 1 = Len(chan[c]) /\ Len(chan'[c]) >= 1
    BY <1>1, <1>2 DEF Popped
  <2>4. chan'[c][Len(chan'[c])] = chan[c][Len(chan[c])]
    BY <1>1, <1>2, <2>3 DEF Popped
  <2> QED  BY <2>1, <2>2, <2>3, <2>4 DEF Announced, Adds
<1> QED  BY <1>3, <1>4 DEF Told, Reported

\* What is read of the registered connection leaves the others as they were: they
\* hold nothing.
LEMMA ToldOthers ==
    ASSUME TypeInv, Stages, Told, NEW c \in Conns, Reads(c, "advert"), OthersKeep(c), OthersUnread(c),
           UNCHANGED <<devVars, removed>>, registry.dismissed \subseteq registry'.dismissed,
           Reported(c)'
    PROVE  Told'
<1>1. ASSUME NEW d \in Conns, d # c
      PROVE  Reported(d)'
  <2>1. /\ ing'[d].phase = ing[d].phase /\ (ing'[d].label <=> ing[d].label)
        /\ ing'[d].sessions = ing[d].sessions /\ chan'[d] = chan[d] /\ ing[d].sessions = {}
    BY <1>1, ReaderFacts DEF OthersKeep, OthersUnread, Becomes
  <2> QED  BY <2>1, ReportedStays DEF Told, Fresh, Readable, devVars
<1> QED  BY <1>1 DEF Told

\* The entry that is read is the only one, or there is another.
LEMMA OneOrMore == \A n \in Nat : n >= 1 => /\ n >= 2 \/ n = 1
                                            /\ n =< 1 => n = 1
OBVIOUS

\* session-added turns an announcement into what has been dealt with.
LEMMA ToldAdded ==
    ASSUME TypeInv, Sized, Stages, Entries, Removals, Told, NEW c \in Conns, HandleAdded(c)
    PROVE  Told'
<1>1. /\ UNCHANGED <<devVars, poll, daemon, removed>> /\ OthersKeep(c) /\ OthersUnread(c)
      /\ Reads(c, "advert") /\ registry'.dismissed = registry.dismissed
  BY HandleAddedShape
<1>2. PICK m \in chan[c][1].added :
        /\ m \in [id : Sessions, status : Statuses]
        /\ HeadLeft(c, Added(chan[c][1], m)) /\ ing'[c].label
        /\ ing'[c].sessions = Holds(c, m) /\ file' = AddSession(c, m)
  BY HandleAddedShape DEF Becomes
<1>3. Len(chan[c]) \in Nat /\ Len(chan[c]) >= 1 /\ chan[c][1] \in AdvertType /\ Readable(c)
  BY <1>1, Types, ReadsFacts, ReaderFacts
<1>4. /\ Len(chan'[c]) = Len(chan[c])
      /\ \A i \in 2 .. Len(chan[c]) : chan'[c][i] = chan[c][i]
      /\ Adds(c, 1)' = Adds(c, 1) \ {m}
  BY <1>2, <1>3, LeftType DEF HeadLeft, Adds
<1>5. Formed(c, 1)
  BY <1>1, FirstFacts DEF Entries
<1>6. SUFFICES ASSUME Fresh(c)', NEW s \in OnDevbox'
               PROVE  Announced(c, s)' \/ Handled(c, s)'
  BY <1>1, ToldOthers DEF Reported
<1>7. Fresh(c) /\ s \in OnDevbox /\ s \in Sessions /\ local' = local
  BY <1>1, <1>6 DEF Fresh, OnDevbox, devVars
<1>8. Announced(c, s) \/ Handled(c, s)
  BY <1>3, <1>7 DEF Told, Reported
\* Settled by the frame itself.
<1>9. s = m.id /\ (local[s] = "dead" \/ m.status = local[s]) => Settled(c, s)'
  <2>1. SUFFICES ASSUME s = m.id, local[s] = "dead" \/ m.status = local[s],
                        s \notin registry.dismissed, s \notin removed
                 PROVE  Settled(c, s)'
    BY <1>1 DEF Settled
  <2>2. CASE s \in ing[c].sessions
    <3>1. file[s] # "none"
      BY <2>1, <2>2 DEF Removals, Backed
    <3>2. s \in ing'[c].sessions /\ file'[s] = m.status
      BY <1>2, <2>1, <2>2, <3>1, AddFacts
    <3> QED  BY <1>7, <2>1, <3>2 DEF Settled
  <2>3. CASE s \notin ing[c].sessions /\ s \in Holds(c, m)
    <3>1. s \in ing'[c].sessions /\ file'[s] = m.status
      BY <1>2, <2>1, <2>3, AddFacts
    <3> QED  BY <1>7, <2>1, <3>1 DEF Settled
  <2>4. CASE s \notin ing[c].sessions /\ s \notin Holds(c, m)
    <3>1. Cardinality(ing[c].sessions) >= MaxSessions
      BY <1>2, <2>1, <2>4, AddFacts
    <3>2. ~Room
      BY <1>7, <2>4, <3>1, RefusedForRoom
    <3> QED  BY <1>2, <2>4, <3>2 DEF Settled, Room
  <2> QED  BY <2>2, <2>3, <2>4
<1>10. CASE Handled(c, s)
  <2>1. Len(chan[c]) = 1 /\ s # m.id /\ Settled(c, s)
    <3>1. Len(chan[c]) = 1 /\ Settled(c, s)
      <4>1. Len(chan[c]) =< 1 /\ Settled(c, s)
        BY <1>10 DEF Handled
      <4>2. Len(chan[c]) \in Nat /\ Len(chan[c]) >= 1
        BY <1>3
      <4> QED  BY <4>1, <4>2, OneOrMore
    <3>2. \A w \in Adds(c, 1) : w.id # s
      BY <1>10, <3>1 DEF Handled
    <3> QED  BY <1>2, <3>1, <3>2 DEF Adds
  <2>2. file'[s] = file[s] /\ (s \in ing'[c].sessions <=> s \in ing[c].sessions)
    BY <1>2, <1>7, <2>1, AddFacts
  <2>3. Settled(c, s)'
    BY <1>1, <1>7, <2>1, <2>2 DEF Settled, Room
  <2>4. \A w \in Adds(c, 1)' : w.id # s
    BY <1>4, <1>10, <2>1 DEF Handled
  <2> QED  BY <1>2, <1>4, <2>1, <2>3, <2>4 DEF Handled
<1>11. CASE Announced(c, s)
  <2>1. PICK w \in Adds(c, Len(chan[c])) : w.id = s /\ (local[s] = "dead" \/ w.status = local[s])
    BY <1>11 DEF Announced
  <2>2. CASE Len(chan[c]) >= 2
    <3>1. chan'[c][Len(chan'[c])] = chan[c][Len(chan[c])]
      BY <1>3, <1>4, <2>2
    <3> QED  BY <1>4, <1>7, <2>1, <2>2, <3>1 DEF Announced, Adds
  <2>3. CASE Len(chan[c]) = 1 /\ w # m
    <3>1. w \in Adds(c, 1)'
      BY <1>4, <2>1, <2>3
    <3> QED  BY <1>4, <1>7, <2>1, <2>3, <3>1 DEF Announced, Adds
  <2>4. CASE Len(chan[c]) = 1 /\ w = m
    <3>1. Settled(c, s)'
      BY <1>9, <2>1, <2>4
    <3>2. \A x \in Adds(c, 1)' : x.id # s
      BY <1>4, <1>5, <2>1, <2>4 DEF Formed
    <3> QED  BY <1>2, <1>4, <2>4, <3>1, <3>2 DEF Handled
  <2>5. Len(chan[c]) >= 2 \/ Len(chan[c]) = 1
    <3>1. Len(chan[c]) \in Nat /\ Len(chan[c]) >= 1
      BY <1>3
    <3> QED  BY <3>1, OneOrMore
  <2> QED  BY <2>2, <2>3, <2>4, <2>5
<1> QED  BY <1>8, <1>10, <1>11

\* session-removed: what an entry retracts is not on the devbox.
LEMMA ToldRemoved ==
    ASSUME TypeInv, Sized, Stages, InOrder, Told, NEW c \in Conns, HandleRemoved(c)
    PROVE  Told'
<1>1. /\ UNCHANGED <<devVars, poll, daemon, removed>> /\ OthersKeep(c) /\ OthersUnread(c)
      /\ Reads(c, "advert") /\ registry'.dismissed = registry.dismissed
  BY HandleRemovedShape
<1>2. PICK x \in chan[c][1].removed :
        /\ HeadLeft(c, Retracted(chan[c][1], x)) /\ ing'[c].label
        /\ ing'[c].sessions = ing[c].sessions \ {x}
        /\ file' = Deleted({x} \cap ing[c].sessions)
  BY HandleRemovedShape, ZenonT(60) DEF Becomes
<1>3. Len(chan[c]) \in Nat /\ Len(chan[c]) >= 1 /\ chan[c][1] \in AdvertType /\ Readable(c)
  BY <1>1, Types, ReadsFacts, ReaderFacts
<1>4. /\ Len(chan'[c]) = Len(chan[c])
      /\ \A i \in 1 .. Len(chan[c]) : Adds(c, i)' = Adds(c, i)
  BY <1>2, <1>3, LeftType DEF HeadLeft, Adds
<1>5. local[x] = "deleted"
  BY <1>1, <1>2, FirstFacts DEF InOrder, Newer, EndedBy, Retracts
<1>6. SUFFICES ASSUME Fresh(c)', NEW s \in OnDevbox'
               PROVE  Announced(c, s)' \/ Handled(c, s)'
  BY <1>1, ToldOthers DEF Reported
<1>7. Fresh(c) /\ s \in OnDevbox /\ s \in Sessions /\ local' = local /\ s # x
  BY <1>1, <1>5, <1>6 DEF Fresh, OnDevbox, devVars
<1>8. Announced(c, s) \/ Handled(c, s)
  BY <1>3, <1>7 DEF Told, Reported
<1>9. file'[s] = file[s]
  BY <1>2, <1>7, FileFacts
<1>10. Settled(c, s) => Settled(c, s)'
  BY <1>1, <1>2, <1>7, <1>9 DEF Settled, Room
<1>11. Handled(c, s) => Handled(c, s)'
  BY <1>2, <1>4, <1>10 DEF Handled
<1>12. Announced(c, s) => Announced(c, s)'
  <2>1. chan'[c][Len(chan'[c])].added = chan[c][Len(chan[c])].added
    BY <1>3, <1>4 DEF Adds
  <2> QED  BY <1>4, <1>7, <2>1 DEF Announced, Adds
<1> QED  BY <1>8, <1>11, <1>12

\* session-list: the last one has what the devbox has.
LEMMA ToldList ==
    ASSUME TypeInv, Sized, Stages, Current, Told, NEW c \in Conns, HandleList(c)
    PROVE  Told'
<1>1. /\ UNCHANGED <<devVars, poll, daemon, removed>> /\ OthersKeep(c) /\ OthersUnread(c)
      /\ Reads(c, "advert") /\ Popped(c) /\ chan[c][1].added = {}
      /\ registry'.dismissed = registry.dismissed /\ TypeInv'
  BY HandleListShape
<1>2. Len(chan[c]) \in Nat /\ Len(chan[c]) >= 1 /\ Readable(c) /\ Len(chan'[c]) \in Nat /\ ing[c].label
  BY <1>1, Types, ReadsFacts, ReaderFacts DEF TypeInv
<1>3. SUFFICES ASSUME Fresh(c)', NEW s \in OnDevbox'
               PROVE  Announced(c, s)' \/ Handled(c, s)'
  BY <1>1, ToldOthers DEF Reported
<1>4. Fresh(c) /\ s \in OnDevbox /\ s \in Sessions /\ local' = local
  BY <1>1, <1>3 DEF Fresh, OnDevbox, devVars
<1>5. Announced(c, s) \/ Handled(c, s)
  BY <1>2, <1>4 DEF Told, Reported
<1>6. CASE Len(chan[c]) >= 2
  <2>1. Announced(c, s)
    BY <1>2, <1>5, <1>6 DEF Handled
  <2>2. Len(chan'[c]) + 1 = Len(chan[c]) /\ Len(chan'[c]) >= 1
    BY <1>1, <1>2, <1>6 DEF Popped
  <2>3. chan'[c][Len(chan'[c])] = chan[c][Len(chan[c])]
    BY <1>1, <1>2, <2>2 DEF Popped
  <2> QED  BY <1>4, <2>1, <2>2, <2>3 DEF Announced, Adds
<1>7. CASE Len(chan[c]) = 1
  <2>1. Handled(c, s) /\ Len(chan'[c]) = 0
    BY <1>1, <1>2, <1>5, <1>7 DEF Announced, Adds, Popped
  <2>2. s \in List(c, 1)
    BY <1>2, <1>4, <1>7 DEF Current, Fresh, Linked
  <2>3. CASE ing' = ing /\ file' = file
    BY <1>1, <1>4, <2>1, <2>3 DEF Handled, Settled, Room
  <2>4. CASE /\ ing'[c].label /\ ing'[c].sessions = ing[c].sessions \cap chan[c][1].list
             /\ file' = Deleted((Sessions \ chan[c][1].list) \cup registry.dismissed)
    <3>1. file'[s] = file[s] \/ s \in registry.dismissed
      BY <1>4, <2>2, <2>4, FileFacts DEF List
    <3>2. Settled(c, s)'
      BY <1>1, <1>4, <2>1, <2>2, <2>4, <3>1 DEF Handled, Settled, Room, List
    <3> QED  BY <2>1, <2>4, <3>2 DEF Handled
  <2> QED  BY <2>3, <2>4, HandleListShape DEF Becomes
<1>8. Len(chan[c]) >= 2 \/ Len(chan[c]) = 1
  <2>1. Len(chan[c]) \in Nat /\ Len(chan[c]) >= 1
    BY <1>2
  <2> QED  BY <2>1, OneOrMore
<1> QED  BY <1>6, <1>7, <1>8

\* Every step.
LEMMA ToldStep ==
    ASSUME TypeInv, Sized, Stages, OneAtATime, Orderly, Entries, InOrder, Removals, Current, Told, Next
    PROVE  Told'
<1>1. ASSUME NEW c \in Conns, Connect(c) \/ Readvertise(c)
      PROVE  Told'
  BY <1>1, Sends, ToldSending
<1>2. ASSUME NEW s \in Sessions, UserRemove(s)
      PROVE  Told'
  <2>1. /\ UNCHANGED <<devVars, chan, ing, registry>> /\ removed' = removed \cup {s}
        /\ file' = Deleted({s})
    BY <1>2, UserRemoveShape
  <2>2. \A t \in Sessions : file'[t] = IF t \in {s} THEN "none" ELSE file[t]
    BY <2>1, FileFacts
  <2>3. \A d \in Conns : \A t \in ing[d].sessions : file'[t] = file[t] \/ t \in removed'
    BY <2>1, <2>2, Types DEF ConnType
  <2> QED  BY <2>1, <2>3, ReportedStays DEF Told, Fresh, Readable, devVars
<1>3. CASE Scan \/ Dismiss
  <2>1. UNCHANGED <<devVars, chan, ing, file, removed>> /\ registry.dismissed \subseteq registry'.dismissed
    BY <1>3, ScanShape, DismissShape
  <2> QED  BY <2>1, ReportedStays DEF Told, Fresh, Readable, devVars
<1>4. CASE IngestStop
  <2>1. \A d \in Conns : ~Readable(d)'
    BY <1>4, IngestStopShape DEF Readable, Becomes, devVars
  <2> QED  BY <2>1 DEF Told, Reported
<1>5. CASE IngestStart
  <2>1. UNCHANGED <<up, ing>> /\ ~daemon.running
    BY <1>5, IngestStartShape DEF devVars
  <2>2. \A d \in Conns : ~Readable(d)'
    BY <2>1 DEF Readable, Stages, Phases
  <2> QED  BY <2>2 DEF Told, Reported
<1> QED  BY <1>1, <1>2, <1>3, <1>4, <1>5, ToldDevbox, ToldConnection, ToldHello, ToldAdded, ToldRemoved,
            ToldList, NextCases

----------------------------------------------------------------------------
(* The theorem *)

\* What the proof keeps: the parts above.
RemoteIInv ==
    /\ TypeInv /\ Sized /\ Stages /\ OneAtATime
    /\ Entries /\ NothingFresh /\ InOrder /\ Current
    /\ Removals /\ NoDeadRunning
    /\ Counts /\ Clean /\ Told

\* It says what RemoteInv says.
LEMMA RemoteImplies ==
    ASSUME RemoteIInv
    PROVE  RemoteInv
<1>1. OneBridge
  BY DEF RemoteIInv, OneBridge, Stages, Phases, Active
<1>2. RemovalSticks
  BY DEF RemoteIInv, RemovalSticks, Removals, Watched
<1>3. DismissedRightly
  <2>1. registry.dismissed \subseteq Sessions
    BY Types DEF RemoteIInv, RegistryType
  <2> QED  BY <2>1 DEF RemoteIInv, DismissedRightly, Removals, KeptOut, Excused, Lost
<1>4. SyncedAtRest
  <2> SUFFICES ASSUME NEW c \in Conns, AtRest(c)
               PROVE  /\ UplinkSecret = IngestSecret => Files \subseteq OnDevbox
                      /\ registry.count = Cardinality(ing[c].sessions)
                      /\ \A s \in OnDevbox \ (registry.dismissed \cup removed) :
                           \/ ~Room /\ s \notin ing[c].sessions
                           \/ s \in ing[c].sessions /\ (local[s] # "dead" => file[s] = local[s])
    BY DEF SyncedAtRest
  <2>1. /\ registry.active = c /\ ing[c].phase = "reading" /\ Linked(c) /\ Fresh(c) /\ Readable(c)
        /\ Len(chan[c]) = 0
    BY DEF AtRest, Linked, Fresh, Readable
  <2>2. registry.count = Cardinality(ing[c].sessions)
    BY <2>1 DEF RemoteIInv, Counts
  <2>3. up[c].advertised = OnDevbox
    BY <2>1 DEF RemoteIInv, Current
  <2>4. UplinkSecret = IngestSecret => Files \subseteq OnDevbox
    BY <2>1, <2>3 DEF RemoteIInv, Clean, Read, Files
  <2>5. \A s \in OnDevbox : Handled(c, s)
    BY <2>1 DEF RemoteIInv, Told, Reported, Announced
  <2> QED  BY <2>2, <2>4, <2>5 DEF Handled, Settled
<1> QED  BY <1>1, <1>2, <1>3, <1>4 DEF RemoteIInv, RemoteInv, TypeInv

\* It holds at first: no connection has been made, and the ingest knows nothing.
LEMMA RemoteInitial ==
    ASSUME Init
    PROVE  RemoteIInv
<1>1. /\ registry = [active |-> None, count |-> 0, dismissed |-> {}] /\ poll = [prev |-> {}, gone |-> {}]
      /\ daemon = [running |-> TRUE, stops |-> 0] /\ removed = {}
      /\ local \in [Sessions -> {"fresh", "running"}] /\ file = [s \in Sessions |-> "none"]
  BY DEF Init
<1>2. \A c \in Conns :
        /\ up[c].phase = "idle" /\ up[c].advertised = {} /\ up[c].dirty = FALSE
        /\ chan[c] = <<>> /\ Len(chan[c]) = 0
        /\ ing[c].phase = "none" /\ ing[c].label = FALSE /\ ing[c].sessions = {} /\ ing[c].done = FALSE
  BY DEF Init, NewConn
<1>3. TypeInv
  <2>1. local \in [Sessions -> Locals] /\ file \in [Sessions -> Statuses \cup {"none"}]
    BY <1>1 DEF Locals
  <2>2. up \in [Conns -> UpType] /\ ing \in [Conns -> ConnType]
    BY DEF Init, UpType, ConnType, NewConn
  <2>3. chan \in [Conns -> Seq(AdvertType)]
    BY DEF Init
  <2>4. registry \in RegistryType /\ poll \in PollType /\ daemon \in DaemonType
    BY <1>1, RemoteLinkAssumption DEF RegistryType, PollType, DaemonType
  <2>5. \A c \in Conns : Len(chan[c]) =< MaxQueue + 1 /\ \A i \in 1 .. Len(chan[c]) : chan[c][i] \in AdvertType
    BY <1>2, RemoteLinkAssumption
  <2> QED  BY <1>1, <2>1, <2>2, <2>3, <2>4, <2>5
           DEF TypeInv, TypeOK, UpType, ConnType, RegistryType, PollType, DaemonType
<1>4. Sized
  BY <1>2, FS_EmptySet, RemoteLinkAssumption DEF Sized
<1>5. Stages
  BY <1>1, <1>2, RemoteLinkAssumption DEF Stages, Phases, Queued, Active, Readable
<1>6. OneAtATime
  BY <1>2 DEF OneAtATime, OneGreets, Greeting, Readable, Linked
<1>7. \A c \in Conns : Adverts(c) = {}
  BY <1>2 DEF Adverts
<1>8. \A s \in Sessions : ~Seen(s)
  BY <1>1, <1>2 DEF Seen
<1>9. Entries /\ NothingFresh /\ InOrder
  BY <1>2, <1>7, <1>8 DEF Entries, NothingFresh, InOrder
<1>10. Current /\ Clean /\ Told
  BY <1>2 DEF Current, Clean, Told, Fresh, Linked, Read, Reported, Readable
<1>11. Removals /\ NoDeadRunning /\ Counts
  BY <1>1, <1>2, RemoteLinkAssumption DEF Removals, KeptOut, Backed, NoDeadRunning, Files, Counts
<1> QED  BY <1>3, <1>4, <1>5, <1>6, <1>9, <1>10, <1>11 DEF RemoteIInv

\* Every step keeps it.
LEMMA RemoteStep ==
    ASSUME RemoteIInv, Orderly, Next
    PROVE  RemoteIInv'
<1> USE DEF RemoteIInv
<1>1. TypeInv' /\ Sized' /\ Stages' /\ OneAtATime'
  BY TypeStep, StagesStep, OneAtATimeStep DEF OneAtATime
<1>2. Entries' /\ NothingFresh' /\ InOrder' /\ Current'
  BY EntriesStep, NothingFreshStep, InOrderStep, CurrentStep
<1>3. Removals' /\ NoDeadRunning'
  BY RemovalsStep, NoDeadRunningStep
<1>4. Counts' /\ Clean' /\ Told'
  BY CountsStep, CleanStep, ToldStep
<1> QED  BY <1>1, <1>2, <1>3, <1>4

\* And so does a step of something else.
LEMMA RemoteStutters ==
    ASSUME RemoteIInv, UNCHANGED vars
    PROVE  RemoteIInv'
<1> USE DEF RemoteIInv, vars
<1>1. TypeInv' /\ Sized'
  BY DEF TypeInv, TypeOK, Sized
<1>2. Stages' /\ OneAtATime'
  BY DEF Stages, Phases, Queued, Active, OneAtATime, OneGreets, Greeting, Readable, Linked
<1>3. Entries' /\ NothingFresh'
  BY DEF Entries, Formed, NothingFresh, Seen, Adds, List, Retracts, Adverts, Readable
<1>4. InOrder'
  BY DEF InOrder, Newer, EndedBy, Follows, Seen, List, Retracts, Adverts, Readable, Greeting
<1>5. Current' /\ Clean'
  BY DEF Current, Clean, Fresh, Linked, Readable, Read, List, OnDevbox
<1>6. Removals'
  BY DEF Removals, KeptOut, Excused, Lost, Watched, Backed, List, Adverts, Readable
<1>7. NoDeadRunning' /\ Counts'
  BY DEF NoDeadRunning, Files, Counts
<1>8. Told'
  BY DEF Told, Reported, Announced, Handled, Settled, Fresh, Readable, OnDevbox, Adds, Room
<1> QED  BY <1>1, <1>2, <1>3, <1>4, <1>5, <1>6, <1>7, <1>8

\* A hello comes only when no other one is on its way.
LEMMA OneGreetsStep ==
    ASSUME TypeInv, Sized, Stages, OneGreets, ~Overlap, Next
    PROVE  OneGreets'
<1>t. TypeInv'
  BY TypeStep
<1>1. ASSUME NEW n, Shifted(n)
      PROVE  OneGreets'
  BY <1>1 DEF Shifted, OneGreets
<1>2. ASSUME NEW c \in Conns, Connect(c)
      PROVE  OneGreets'
  <2>1. UNCHANGED ingVars /\ \A d \in Conns : d # c => up'[d].phase = up[d].phase
    BY <1>2, ConnectShape DEF Sent
  <2>2. \A d \in Conns : ~Greeting(d)
    BY <1>2 DEF Connect, Greeting, Readable
  <2>3. \A d \in Conns : d # c => ~Greeting(d)'
    BY <2>1, <2>2 DEF Greeting, Readable, ingVars
  <2> QED  BY <2>3 DEF OneGreets
<1>3. ASSUME NEW c \in Conns, Readvertise(c)
      PROVE  OneGreets'
  <2>1. UNCHANGED ingVars /\ \A d \in Conns : up[d].phase = "idle" => up'[d].phase = "idle"
    BY <1>3, ReadvertiseShape DEF Sent
  <2>2. \A d \in Conns : Greeting(d)' => Greeting(d)
    BY <2>1 DEF Greeting, Readable, ingVars
  <2> QED  BY <2>2 DEF OneGreets
<1> QED  BY <1>1, <1>2, <1>3, <1>t, ReadingShifts

\* At most one connection bridges any one session, whatever targets lead to this
\* ingest, whatever the secrets are and whatever the user removes: evict_and_register
\* waits for the teardown of the connection it replaces, and needs for it only that
\* the hellos of a client come one at a time (ingest.rs).
THEOREM OneBridgeAlways ==
    ASSUME ~Overlap
    PROVE  Spec => []OneBridge
<1> DEFINE IInv == TypeInv /\ Sized /\ Stages /\ OneGreets
<1>1. Init => IInv
  BY RemoteInitial DEF RemoteIInv, OneAtATime
<1>2. IInv /\ [Next]_vars => IInv'
  <2> SUFFICES ASSUME IInv, [Next]_vars
               PROVE  IInv'
    OBVIOUS
  <2>1. CASE Next
    BY <2>1, TypeStep, StagesStep, OneGreetsStep
  <2>2. CASE UNCHANGED vars
    <3>1. TypeInv' /\ Sized'
      BY <2>2 DEF vars, TypeInv, TypeOK, Sized
    <3>2. Stages' /\ OneGreets'
      BY <2>2 DEF vars, Stages, Phases, Queued, Active, OneGreets, Greeting, Readable
    <3> QED  BY <3>1, <3>2
  <2> QED  BY <2>1, <2>2
<1>3. IInv => OneBridge
  BY DEF OneBridge, Stages, Phases, Active
<1> QED  BY <1>1, <1>2, <1>3, PTL DEF Spec

\* Whatever connections replace each other and however often the ingest dies, one
\* connection bridges a session, nothing dead is shown as live, what the user removed
\* and nothing else is kept out, and at rest the dashboard has the devbox's own list
\* (ingest.rs, uplink.rs): as long as one uplink at a time leads to this ingest, no
\* session changes before the watcher's first look, and the poll of the dismiss
\* watcher keeps up with the connections.
THEOREM RemoteCorrect ==
    ASSUME ~Overlap, ~Gap, PromptPoll, MaxTargets =< 1
    PROVE  Spec => []RemoteInv
<1>o. Orderly
  BY DEF Orderly
<1>1. Init => RemoteIInv
  BY RemoteInitial
<1>2. RemoteIInv /\ [Next]_vars => RemoteIInv'
  BY <1>o, RemoteStep, RemoteStutters
<1>3. RemoteIInv => RemoteInv
  BY RemoteImplies
<1> QED  BY <1>1, <1>2, <1>3, PTL DEF Spec
=============================================================================
