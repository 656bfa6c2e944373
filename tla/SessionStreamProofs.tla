------------------------ MODULE SessionStreamProofs ------------------------
(***************************************************************************)
(* Proofs about what the streams of a session carry.                       *)
(* Attention, for any screens, sizes, idle time and settle window:         *)
(*   - AttentionTypeCorrect: every variable has its type;                  *)
(*   - EpisodesAgree: the three records of an episode agree;               *)
(*   - PausesStick: only the user ends a pause, or the command its session;*)
(*   - OutcomesFinal: the outcome of the command is final;                 *)
(*   - AcksHold: an acknowledgement holds until the program writes.        *)
(* FrameCodec, for any number of frames, any limit and every cut of the    *)
(* stream:                                                                 *)
(*   - CodecCorrect: each frame is decoded once, in order and as soon as   *)
(*     it is there; a decoder gives up only for cause, and its buffer is   *)
(*     bounded.                                                            *)
(* A decoder that has not given up has taken m frames, holds the bytes     *)
(* after the end of the m-th, and has returned what those m frames say;    *)
(* the loops of the decoders are folds (SequenceFolds), and their          *)
(* induction is over the turns.                                            *)
(***************************************************************************)
EXTENDS Attention, FrameCodec, SequenceTheorems, WellFoundedInduction, TLAPS

----------------------------------------------------------------------------
(* The detector and the token *)

Detectors == [last : Screens \cup {None}, quiet : 0 .. IdleTicks,
              flagged : BOOLEAN, ack : BOOLEAN, settle : 0 .. SettleTicks]

\* The token of a new episode is none that is still around.
LEMMA FreshType ==
    ASSUME TypeOK
    PROVE  FreshToken \in Tokens
<1> DEFINE T == Tokens \ {meta.token, viewer.ack, viewer.acked}
<1>1. T # {} /\ T \subseteq Nat
  <2>1. {meta.token, viewer.ack, viewer.acked} \subseteq Tokens \cup {None}
    BY DEF TypeOK
  <2> QED  BY <2>1, AttentionAssumption
<1> HIDE DEF T
<1>2. PICK n \in T : \A m \in T : ~ (<<m, n>> \in OpToRel(<, Nat))
  BY <1>1, NatLessThanWellFounded, WFMin
<1>3. \A m \in T : ~ (m < n)
  BY <1>1, <1>2 DEF OpToRel
<1>4. \A m \in T : n =< m
  BY <1>1, <1>3
<1> QED  BY <1>4 DEF FreshToken, T

\* A sample: what update keeps, and when it emits a transition.
LEMMA UpdateFacts ==
    ASSUME NEW d \in Detectors, NEW s \in Screens
    PROVE  LET u == Update(d, s) IN
             /\ u.det \in Detectors
             /\ u.out \in {"none", "flag", "clear"}
             /\ u.det.last = s /\ u.det.settle = d.settle
             /\ u.out = "flag" => u.det.flagged
             /\ d.flagged /\ u.out # "clear" => u.det.flagged
             /\ (d.ack /\ ~d.flagged /\ d.last # None
                   /\ (d.last.body = s.body \/ d.settle > 0))
                => u.out = "none" /\ u.det.ack /\ ~u.det.flagged
<1>a. None \notin Screens /\ 0 \in 0 .. IdleTicks
  BY AttentionAssumption
<1>1. CASE d.last = None
  BY <1>1, <1>a DEF Update, Detectors
<1>2. CASE d.last # None /\ d.last.body # s.body /\ d.settle > 0
  BY <1>2, <1>a DEF Update, Detectors
<1>3. CASE d.last # None /\ d.last.body # s.body /\ ~(d.settle > 0)
  BY <1>3, <1>a DEF Update, Detectors
<1>4. CASE d.last # None /\ d.last.body = s.body
  BY <1>4, <1>a DEF Update, Detectors
<1> QED  BY <1>1, <1>2, <1>3, <1>4

\* The passing of a second touches the two clocks.
LEMMA TimeFacts ==
    ASSUME NEW d \in Detectors
    PROVE  /\ Older(d) \in Detectors
           /\ Older(d).last = d.last /\ Older(d).flagged = d.flagged
           /\ Older(d).ack = d.ack /\ Older(d).settle = d.settle
           /\ Settled(d) \in Detectors
           /\ Settled(d).last = d.last /\ Settled(d).flagged = d.flagged
           /\ Settled(d).ack = d.ack
           /\ Settled(d).settle = IF d.settle > 0 THEN d.settle - 1 ELSE 0
<1> DEFINE q == IF d.quiet < IdleTicks THEN d.quiet + 1 ELSE d.quiet
           z == IF d.settle > 0 THEN d.settle - 1 ELSE 0
<1>1. q \in 0 .. IdleTicks /\ z \in 0 .. SettleTicks
  BY AttentionAssumption DEF Detectors
<1>2. Older(d) = [d EXCEPT !.quiet = q] /\ Settled(d) = [d EXCEPT !.settle = z]
  BY DEF Older, Settled
<1> HIDE DEF q
<1>3. /\ Older(d) \in Detectors
      /\ Older(d).last = d.last /\ Older(d).flagged = d.flagged
      /\ Older(d).ack = d.ack /\ Older(d).settle = d.settle
  BY <1>1, <1>2 DEF Detectors
<1>4. Settled(d).settle = z
  BY <1>2 DEF Detectors
<1>5. /\ Settled(d) \in Detectors
      /\ Settled(d).last = d.last /\ Settled(d).flagged = d.flagged
      /\ Settled(d).ack = d.ack
  <2> HIDE DEF z
  <2> QED  BY <1>1, <1>2 DEF Detectors
<1> QED  BY <1>3, <1>4, <1>5
----------------------------------------------------------------------------
(* The metadata *)

Statuses == Overlaid \cup {"completed"}

Metas == [status : Statuses, paused : BOOLEAN, token : Tokens \cup {None}]

\* What a reader of the metadata sees.
LEMMA OverlayFacts ==
    ASSUME NEW m \in Metas
    PROVE  /\ Overlay(m) \in Metas
           /\ Overlay(m).paused = m.paused
           /\ Overlay(m).status = IF m.paused /\ m.status # "completed"
                                    THEN "paused" ELSE m.status
           /\ Overlay(m).status = "needs-attention" => Overlay(m) = m
BY DEF Overlay, Metas, Statuses, Overlaid

\* A patch of the status and the token, and one of the status alone.
Patched(m, st, t) == [Overlay(m) EXCEPT !.status = st, !.token = t]

StatusPatched(m, st) == [Overlay(m) EXCEPT !.status = st]

\* What a reader sees after a patch.
LEMMA PatchFacts ==
    ASSUME NEW m \in Metas, NEW st \in Statuses, NEW t \in Tokens \cup {None}
    PROVE  /\ Patched(m, st, t) \in Metas
           /\ Patched(m, st, t).status = st /\ Patched(m, st, t).token = t
           /\ Overlay(Patched(m, st, t)).status =
                IF m.paused /\ st # "completed" THEN "paused" ELSE st
<1> DEFINE w == Patched(m, st, t)
<1>1. w \in Metas /\ w.status = st /\ w.token = t /\ w.paused = m.paused
  <2> DEFINE o == Overlay(m)
  <2>1. o \in Metas /\ o.paused = m.paused
    BY OverlayFacts
  <2> HIDE DEF o
  <2>2. w = [o EXCEPT !.status = st, !.token = t]
    BY DEF Patched, o
  <2> QED  BY <2>1, <2>2 DEF Metas
<1> HIDE DEF w
<1>2. Overlay(w).status = IF m.paused /\ st # "completed" THEN "paused" ELSE st
  BY <1>1, OverlayFacts
<1> QED  BY <1>1, <1>2 DEF w

\* What a reader sees after the server or the daemon sets a status.
LEMMA StatusFacts ==
    ASSUME NEW m \in Metas, NEW st \in Statuses
    PROVE  /\ StatusPatched(m, st) \in Metas
           /\ StatusPatched(m, st).status = st
           /\ Overlay(StatusPatched(m, st)).status =
                IF m.paused /\ st # "completed" THEN "paused" ELSE st
<1> DEFINE w == StatusPatched(m, st)
<1>1. w \in Metas /\ w.status = st /\ w.paused = m.paused
  <2> DEFINE o == Overlay(m)
  <2>1. o \in Metas /\ o.paused = m.paused
    BY OverlayFacts
  <2> HIDE DEF o
  <2>2. w = [o EXCEPT !.status = st]
    BY DEF StatusPatched, o
  <2> QED  BY <2>1, <2>2 DEF Metas
<1> HIDE DEF w
<1>2. Overlay(w).status = IF m.paused /\ st # "completed" THEN "paused" ELSE st
  BY <1>1, OverlayFacts
<1> QED  BY <1>1, <1>2 DEF w

----------------------------------------------------------------------------
(* Episodes, pauses and the outcome *)

\* The inductive invariant: only the teardown of the daemon completes a session.
AttInv ==
    /\ TypeOK
    /\ EpisodeAgreed
    /\ meta.status = "completed" => phase = "exited"

\* What a step does to what the metadata shows.
Fine ==
    /\ AttInv'
    /\ Shown = "paused" => Shown' \in {"paused", "completed"} \/ Resume
    /\ Shown = "completed" => Shown' = "completed"

\* Steps that touch neither the metadata nor the episode.
LEMMA QuietSteps ==
    ASSUME AttInv, UNCHANGED <<att, meta, phase>>, TypeOK', det'.flagged = det.flagged
    PROVE  Fine
BY DEF Fine, AttInv, EpisodeAgreed, Shown, Overlay

\* The types of the records.
LEMMA Types ==
    ASSUME TypeOK
    PROVE  /\ det \in Detectors /\ meta \in Metas /\ screen \in Screens
           /\ att \in [state : BOOLEAN, token : Tokens \cup {None}, fp : Screens \cup {None}]
           /\ phase \in {"starting", "running", "exited"}
           /\ NoAttention \in [state : BOOLEAN, token : Tokens \cup {None}, fp : Screens \cup {None}]
BY DEF TypeOK, Detectors, Metas, Statuses, NoAttention

\* An acknowledgement is accepted while the daemon runs, and leaves the session
\* acknowledged or paused; otherwise it has no effect (apply_attention).
LEMMA UserSteps ==
    ASSUME AttInv, NEW t \in Tokens \cup {None}, UserAttention(t),
           UNCHANGED <<screen, phase, redraw>>, viewer' \in [ack : Tokens \cup {None}, acked : Tokens \cup {None}],
           typed' \in BOOLEAN
    PROVE  Fine
<1> USE DEF AttInv
<1>t. /\ det \in Detectors /\ meta \in Metas /\ screen \in Screens
      /\ phase \in {"starting", "running", "exited"}
      /\ NoAttention \in [state : BOOLEAN, token : Tokens \cup {None}, fp : Screens \cup {None}]
  BY Types
<1>1. CASE phase # "exited" /\ ShouldApply(t)
  <2> DEFINE st == IF Shown = "paused" THEN "paused" ELSE "acknowledged"
  <2>1. /\ att' = NoAttention /\ det' = Acknowledge(det, screen) /\ genuine' = FALSE
        /\ meta' = Patched(meta, st, None)
    BY <1>1 DEF UserAttention, SetStatus, Patched
  <2>2. st \in Statuses /\ st # "completed" /\ st # "needs-attention"
    BY DEF Statuses, Overlaid
  <2>3. /\ meta' \in Metas /\ meta'.status = st
        /\ Shown' = IF meta.paused THEN "paused" ELSE st
    <3> HIDE DEF st
    <3>1. meta \in Metas /\ None \in Tokens \cup {None}
      BY <1>t
    <3>2. /\ meta' \in Metas /\ meta'.status = st
          /\ Overlay(meta').status = IF meta.paused /\ st # "completed" THEN "paused" ELSE st
      BY <2>1, <2>2, <3>1, PatchFacts
    <3> QED  BY <2>2, <3>2 DEF Shown
  <2>4. det' \in Detectors
    <3>1. 0 \in 0 .. IdleTicks
      BY AttentionAssumption
    <3> QED  BY <1>t, <2>1, <3>1 DEF Acknowledge, Detectors
  <2>5. TypeOK'
    BY <1>t, <2>1, <2>3, <2>4 DEF TypeOK, Detectors, Metas, Statuses
  <2>6. Shown' # "needs-attention" /\ meta'.status # "completed"
    BY <2>2, <2>3
  <2>7. Shown = "paused" => Shown' = "paused"
    BY <2>3
  <2>8. Shown # "completed"
    BY <1>t, <1>1, OverlayFacts DEF Shown
  <2> QED  BY <2>5, <2>6, <2>7, <2>8 DEF Fine, EpisodeAgreed
<1>2. CASE ~(phase # "exited" /\ ShouldApply(t))
  <2>1. UNCHANGED <<att, det, meta, genuine>>
    BY <1>2 DEF UserAttention
  <2>2. TypeOK'
    BY <2>1 DEF TypeOK
  <2> QED  BY <2>1, <2>2, QuietSteps
<1> QED  BY <1>1, <1>2
\* A sample of the idle thread: the episode it opens is published with its
\* token, the episode it closes is closed everywhere (update, apply_attention).
LEMMA TickStep ==
    ASSUME AttInv, Tick
    PROVE  Fine
<1> DEFINE d == Older(det)
           u == Update(d, screen)
<1>t. /\ det \in Detectors /\ meta \in Metas /\ screen \in Screens
      /\ NoAttention \in [state : BOOLEAN, token : Tokens \cup {None}, fp : Screens \cup {None}]
      /\ NoAttention.state = FALSE
  BY Types DEF AttInv, NoAttention
<1>1. d \in Detectors /\ d.flagged = det.flagged
  BY <1>t, TimeFacts
<1>2. /\ det' = Settled(u.det)
      /\ u.out = "clear" => DetectorClears
      /\ u.out = "flag" => DetectorFlags
      /\ u.out = "none" => UNCHANGED <<att, meta>>
      /\ UNCHANGED <<screen, phase, redraw, viewer, genuine, typed>>
      /\ phase = "running"
  BY DEF Tick, histVars
<1> HIDE DEF d
<1>3. /\ u.det \in Detectors /\ u.out \in {"none", "flag", "clear"}
      /\ u.out = "flag" => u.det.flagged
      /\ d.flagged /\ u.out # "clear" => u.det.flagged
  BY <1>t, <1>1, UpdateFacts
<1> HIDE DEF u
<1>4. det' \in Detectors /\ det'.flagged = u.det.flagged
  BY <1>2, <1>3, TimeFacts
<1>5. Shown # "completed"
  BY <1>t, <1>2, OverlayFacts DEF Shown, AttInv
<1>6. CASE u.out = "none"
  <2>1. TypeOK'
    BY <1>2, <1>4, <1>6 DEF AttInv, TypeOK, Detectors
  <2>2. Shown' = Shown
    BY <1>2, <1>6 DEF Shown
  <2> QED  BY <1>1, <1>2, <1>3, <1>4, <1>6, <2>1, <2>2 DEF Fine, AttInv, EpisodeAgreed
<1>7. CASE u.out = "clear"
  <2> DEFINE st == IF Shown = "paused" THEN "paused" ELSE "running"
  <2>1. att' = NoAttention /\ meta' = Patched(meta, st, None)
    BY <1>2, <1>7 DEF DetectorClears, SetStatus, Patched
  <2>2. st \in Statuses /\ st # "completed" /\ st # "needs-attention"
    BY DEF Statuses, Overlaid
  <2> HIDE DEF st
  <2>3. /\ meta' \in Metas /\ meta'.status = st
        /\ Overlay(meta').status = IF meta.paused THEN "paused" ELSE st
    BY <1>t, <2>1, <2>2, PatchFacts
  <2>4. Shown' = IF meta.paused THEN "paused" ELSE st
    BY <2>3 DEF Shown
  <2>5. TypeOK'
    BY <1>t, <1>2, <1>4, <2>1, <2>3 DEF AttInv, TypeOK, Detectors, Metas, Statuses
  <2>6. Shown = "paused" => Shown' = "paused"
    BY <2>4 DEF st
  <2> QED  BY <1>5, <2>2, <2>3, <2>4, <2>5, <2>6 DEF Fine, AttInv, EpisodeAgreed
<1>8. CASE u.out = "flag" /\ (att.state \/ Shown = "paused")
  <2>1. UNCHANGED <<att, meta>>
    BY <1>2, <1>8 DEF DetectorFlags
  <2>2. TypeOK'
    BY <1>2, <1>4, <2>1 DEF AttInv, TypeOK, Detectors
  <2>3. Shown' = Shown
    BY <2>1 DEF Shown
  <2> QED  BY <1>2, <1>3, <1>4, <1>8, <2>1, <2>2, <2>3 DEF Fine, AttInv, EpisodeAgreed
<1>9. CASE u.out = "flag" /\ ~(att.state \/ Shown = "paused")
  <2>1. /\ att' = [state |-> TRUE, token |-> FreshToken, fp |-> screen]
        /\ meta' = Patched(meta, "needs-attention", FreshToken)
    BY <1>2, <1>9 DEF DetectorFlags, Patched
  <2>2. FreshToken \in Tokens /\ FreshToken # None
    BY FreshType, AttentionAssumption DEF AttInv
  <2>3. /\ meta' \in Metas /\ meta'.status = "needs-attention" /\ meta'.token = FreshToken
    <3>1. "needs-attention" \in Statuses
      BY DEF Statuses, Overlaid
    <3> QED  BY <1>t, <2>1, <2>2, <3>1, PatchFacts
  <2>4. TypeOK'
    BY <1>t, <1>2, <1>4, <2>1, <2>2, <2>3 DEF AttInv, TypeOK, Detectors, Metas, Statuses
  <2>5. att'.state /\ att'.token = FreshToken
    BY <2>1
  <2> QED  BY <1>3, <1>4, <1>5, <1>9, <2>2, <2>3, <2>4, <2>5 DEF Fine, AttInv, EpisodeAgreed
<1> QED  BY <1>3, <1>6, <1>7, <1>8, <1>9

\* The start and the end of the command, and the pause and resume of the user.
LEMMA StatusSteps ==
    ASSUME AttInv, MarkRunning \/ Exit \/ Pause \/ Resume
    PROVE  Fine
<1>t. meta \in Metas
  BY Types DEF AttInv
<1>o. /\ Overlay(meta) \in Metas /\ Overlay(meta).paused = meta.paused
      /\ Shown = IF meta.paused /\ meta.status # "completed" THEN "paused" ELSE meta.status
  BY <1>t, OverlayFacts DEF Shown
<1>s. \A st \in Overlaid : st \in Statuses /\ st # "completed"
  BY DEF Statuses, Overlaid
<1>1. CASE MarkRunning
  <2>1. CASE Shown = "paused"
    <3>1. meta' = Overlay(meta)
      BY <1>1, <2>1 DEF MarkRunning
    <3>2. meta'.status = "paused" /\ meta' \in Metas
      BY <1>o, <2>1, <3>1 DEF Shown
    <3>3. Shown' = "paused"
      <4>1. Overlay(meta').status = "paused"
        BY <3>2, OverlayFacts
      <4> QED  BY <4>1 DEF Shown
    <3>4. TypeOK'
      BY <1>1, <3>2 DEF MarkRunning, AttInv, TypeOK, histVars, Metas, Statuses
    <3> QED  BY <2>1, <3>2, <3>3, <3>4 DEF Fine, AttInv, EpisodeAgreed
  <2>2. CASE Shown # "paused"
    <3>1. meta' = StatusPatched(meta, "running") /\ phase = "starting"
      BY <1>1, <2>2 DEF MarkRunning, StatusPatched
    <3>2. /\ meta' \in Metas /\ meta'.status = "running"
          /\ Overlay(meta').status \in {"running", "paused"}
      <4>1. "running" \in Statuses
        BY DEF Statuses, Overlaid
      <4> QED  BY <1>t, <3>1, <4>1, StatusFacts
    <3>3. Shown' \in {"running", "paused"}
      BY <3>2 DEF Shown
    <3>4. TypeOK'
      BY <1>1, <3>2 DEF MarkRunning, AttInv, TypeOK, histVars, Metas, Statuses
    <3>5. Shown # "completed"
      BY <1>o, <3>1 DEF AttInv
    <3> QED  BY <2>2, <3>2, <3>3, <3>4, <3>5 DEF Fine, AttInv, EpisodeAgreed
  <2> QED  BY <2>1, <2>2
<1>2. CASE Exit
  <2>1. meta' = StatusPatched(meta, "completed")
    BY <1>2 DEF Exit, StatusPatched
  <2>2. meta' \in Metas /\ meta'.status = "completed" /\ Overlay(meta').status = "completed"
    <3>1. "completed" \in Statuses
      BY DEF Statuses
    <3> QED  BY <1>t, <2>1, <3>1, StatusFacts
  <2>3. Shown' = "completed"
    BY <2>2 DEF Shown
  <2>4. TypeOK' /\ phase' = "exited"
    BY <1>2, <2>2 DEF Exit, AttInv, TypeOK, histVars, Metas, Statuses
  <2> QED  BY <2>3, <2>4 DEF Fine, AttInv, EpisodeAgreed
<1>3. ASSUME NEW m \in Metas, meta' = m, Shown \in Overlaid, m.status # "completed",
             m.status # "needs-attention",
             UNCHANGED <<screen, det, att, phase, redraw, viewer, genuine, typed>>,
             Shown = "paused" => Resume \/ m.status = "paused"
      PROVE  Fine
  <2>1. /\ Overlay(meta').status = IF m.paused THEN "paused" ELSE m.status
    BY <1>3, OverlayFacts
  <2>2. Shown' = IF m.paused THEN "paused" ELSE m.status
    BY <2>1 DEF Shown
  <2>3. TypeOK'
    BY <1>3 DEF AttInv, TypeOK, Metas, Statuses
  <2> QED  BY <1>3, <1>s, <2>2, <2>3 DEF Fine, AttInv, EpisodeAgreed
<1>4. CASE Pause
  <2> DEFINE m == [Overlay(meta) EXCEPT !.status = "paused", !.paused = TRUE]
  <2>1. m \in Metas /\ m.status = "paused"
    BY <1>o DEF Metas, Statuses, Overlaid
  <2>2. /\ meta' = m /\ Shown \in Overlaid
        /\ UNCHANGED <<screen, det, att, phase, redraw, viewer, genuine, typed>>
    BY <1>4 DEF Pause, daemonVars, histVars
  <2> HIDE DEF m
  <2> QED  BY <1>3, <2>1, <2>2
<1>5. CASE Resume
  <2> DEFINE m == [Overlay(meta) EXCEPT !.status = "running", !.paused = FALSE, !.token = None]
  <2>1. m \in Metas /\ m.status = "running"
    BY <1>o DEF Metas, Statuses, Overlaid
  <2>2. /\ meta' = m /\ Shown \in Overlaid
        /\ UNCHANGED <<screen, det, att, phase, redraw, viewer, genuine, typed>>
    BY <1>5 DEF Resume, daemonVars, histVars, Overlaid
  <2> HIDE DEF m
  <2> QED  BY <1>3, <1>5, <2>1, <2>2
<1> QED  BY <1>1, <1>2, <1>4, <1>5
\* Output, resizes, redraws and acknowledgements under way: neither the
\* metadata nor the episode changes.
LEMMA ScreenSteps ==
    ASSUME AttInv,
           \/ \E b \in Bodies : Output(b) \/ Redraw(b) \/ JiggleAway(b)
           \/ \E e \in Dims, b \in Bodies : Resize(e, b)
           \/ JiggleBack \/ SendAck \/ LoseAck
    PROVE  Fine
<1>t. TypeOK /\ screen \in Screens /\ det \in Detectors
  BY Types DEF AttInv
<1>0. \A b \in Bodies : [screen EXCEPT !.body = b] \in Screens /\ screen.body \in Bodies
  BY <1>t DEF Screens
<1>1. ASSUME NEW b \in Bodies, Output(b) \/ Redraw(b) \/ JiggleAway(b) PROVE Fine
  <2>1. UNCHANGED <<att, meta, phase, det, viewer>>
    BY <1>1 DEF Output, Redraw, JiggleAway, daemonVars
  <2>2. CASE Output(b)
    <3>0. genuine' \in BOOLEAN /\ typed' \in BOOLEAN /\ redraw' = redraw /\ screen' \in Screens
      BY <1>0, <2>2 DEF Output
    <3>1. TypeOK'
      BY <1>t, <2>1, <3>0 DEF TypeOK
    <3> QED  BY <2>1, <3>1, QuietSteps
  <2>3. CASE Redraw(b)
    <3>1. TypeOK'
      BY <1>t, <1>0, <2>3 DEF Redraw, daemonVars, histVars, TypeOK
    <3> QED  BY <2>1, <3>1, QuietSteps
  <2>4. CASE JiggleAway(b)
    <3>1. TypeOK'
      BY <1>t, <1>0, <2>4 DEF JiggleAway, daemonVars, histVars, TypeOK
    <3> QED  BY <2>1, <3>1, QuietSteps
  <2> QED  BY <1>1, <2>2, <2>3, <2>4
<1>2. ASSUME NEW e \in Dims, NEW b \in Bodies, Resize(e, b) PROVE Fine
  <2>1. /\ UNCHANGED <<att, meta, phase, viewer, genuine, typed>>
        /\ screen' = [dims |-> e, body |-> b] /\ det' = AbsorbResize(det, screen') /\ redraw' = "winch"
    BY <1>2 DEF Resize, histVars
  <2>2. screen' \in Screens /\ SettleTicks \in 0 .. SettleTicks
    BY <2>1, AttentionAssumption DEF Screens
  <2>3. det' \in Detectors /\ det'.flagged = det.flagged
    BY <1>t, <2>1, <2>2 DEF AbsorbResize, Detectors
  <2>4. TypeOK'
    BY <1>t, <2>1, <2>2, <2>3 DEF TypeOK, Detectors
  <2> QED  BY <2>1, <2>3, <2>4, QuietSteps
<1>3. CASE JiggleBack
  <2>1. UNCHANGED <<att, meta, phase, det, viewer>>
    BY <1>3 DEF JiggleBack, daemonVars
  <2>2. TypeOK'
    BY <1>t, <1>0, <1>3 DEF JiggleBack, daemonVars, histVars, TypeOK
  <2> QED  BY <2>1, <2>2, QuietSteps
<1>4. CASE SendAck \/ LoseAck
  <2>1. UNCHANGED <<att, meta, phase, det>>
    BY <1>4 DEF SendAck, LoseAck, daemonVars
  <2>2. TypeOK'
    BY <1>t, <1>4 DEF SendAck, LoseAck, daemonVars, histVars, TypeOK
  <2> QED  BY <2>1, <2>2, QuietSteps
<1> QED  BY <1>1, <1>2, <1>3, <1>4

\* A session starts unpaused, unflagged and without a token.
LEMMA AttInit == Init => AttInv
<1> SUFFICES ASSUME Init PROVE AttInv
  OBVIOUS
<1>1. 0 \in 0 .. IdleTicks /\ 0 \in 0 .. SettleTicks
  BY AttentionAssumption
<1>2. TypeOK
  BY <1>1 DEF Init, TypeOK, NoAttention, Overlaid
<1>3. Shown = "running" /\ meta.status = "running"
  BY DEF Init, Shown, Overlay
<1> QED  BY <1>2, <1>3 DEF AttInv, EpisodeAgreed

\* Every step keeps the invariant, a pause and the outcome.
LEMMA AttStep ==
    AttInv /\ [Next]_vars =>
        /\ AttInv'
        /\ [Shown = "paused" => Shown' \in {"paused", "completed"} \/ Resume]_vars
        /\ [Shown = "completed" => Shown' = "completed"]_vars
<1> SUFFICES ASSUME AttInv, [Next]_vars
             PROVE  /\ AttInv'
                    /\ [Shown = "paused" => Shown' \in {"paused", "completed"} \/ Resume]_vars
                    /\ [Shown = "completed" => Shown' = "completed"]_vars
  OBVIOUS
<1>1. CASE UNCHANGED vars
  <2>1. TypeOK' /\ det'.flagged = det.flagged /\ UNCHANGED <<att, meta, phase>>
    BY <1>1 DEF vars, AttInv, TypeOK
  <2> QED  BY <1>1, <2>1, QuietSteps DEF Fine
<1>2. CASE MarkRunning \/ Exit \/ Pause \/ Resume
  BY <1>2, StatusSteps DEF Fine
<1>3. CASE Tick
  BY <1>3, TickStep DEF Fine
<1>4. CASE InputFrame \/ DeliverAck
  <2>v. viewer \in [ack : Tokens \cup {None}, acked : Tokens \cup {None}] /\ typed \in BOOLEAN
    BY DEF AttInv, TypeOK
  <2>1. PICK t \in Tokens \cup {None} : UserAttention(t)
    BY <1>4, <2>v DEF InputFrame, DeliverAck
  <2>2. /\ UNCHANGED <<screen, phase, redraw>> /\ typed' \in BOOLEAN
        /\ viewer' \in [ack : Tokens \cup {None}, acked : Tokens \cup {None}]
    BY <1>4, <2>v DEF InputFrame, DeliverAck
  <2> QED  BY <2>1, <2>2, UserSteps DEF Fine
<1>5. CASE \/ \E b \in Bodies : Output(b) \/ Redraw(b) \/ JiggleAway(b)
           \/ \E e \in Dims, b \in Bodies : Resize(e, b)
           \/ JiggleBack \/ SendAck \/ LoseAck
  BY <1>5, ScreenSteps DEF Fine
<1> QED  BY <1>1, <1>2, <1>3, <1>4, <1>5 DEF Next

\* Every variable keeps its type; the settle window never grows.
THEOREM AttentionTypeCorrect == Spec => []TypeOK
<1>1. AttInv => TypeOK
  BY DEF AttInv
<1> QED  BY <1>1, AttInit, AttStep, PTL DEF Spec

\* Whatever order samples, output, resizes, jiggles, acknowledgements, pauses
\* and resumes come in, a session that shows as needing attention has one
\* episode on which metadata, daemon and detector agree (apply_attention).
THEOREM EpisodesAgree == Spec => []EpisodeAgreed
<1>1. AttInv => EpisodeAgreed
  BY DEF AttInv
<1> QED  BY <1>1, AttInit, AttStep, PTL DEF Spec

\* Only the user ends a pause, or the command its session (apply_attention,
\* apply_user_paused_overlay).
THEOREM PausesStick == Spec => PauseSticks
BY AttInit, AttStep, PTL DEF Spec, PauseSticks

\* Nothing that arrives after the teardown changes the outcome: the daemon
\* accepts no acknowledgement and the server no status then.
THEOREM OutcomesFinal == Spec => OutcomeFinal
BY AttInit, AttStep, PTL DEF Spec, OutcomeFinal
----------------------------------------------------------------------------
(* Acknowledgements *)

\* The detector remembers the acknowledgement, and every difference between
\* its baseline and the screen is one the settle window absorbs.
Acked ==
    /\ det.ack /\ ~det.flagged /\ det.last # None
    /\ det.last.body # screen.body => det.settle > 0

\* The inductive invariant without jiggles: a redraw that is owed comes within
\* the settle window, and what was acknowledged stays so.
AckInv ==
    /\ redraw \notin Bodies
    /\ redraw = "winch" => det.settle > 0 \/ det.last = None
    /\ att.state => det.last # None
    /\ phase = "starting" => ~att.state /\ genuine
    /\ ~genuine => Acked

\* What a step may do to an acknowledged session.
AckKept ==
    ~genuine => \/ Shown' = Shown
                \/ Shown' \in {"acknowledged", "paused", "completed"}
                \/ Resume

\* The session starts unacknowledged.
LEMMA AckInit == Init => AckInv
BY AttentionAssumption DEF Init, AckInv, NoAttention

\* An acknowledgement that is accepted takes the screen for the baseline.
LEMMA AckUserStep ==
    ASSUME AttInv, AckInv, NEW t, UserAttention(t), UNCHANGED <<screen, phase, redraw>>
    PROVE  AckInv' /\ AckKept
<1>t. /\ det \in Detectors /\ meta \in Metas /\ screen \in Screens /\ None \notin Screens
  BY Types, AttentionAssumption DEF AttInv
<1>1. CASE phase # "exited" /\ ShouldApply(t)
  <2> DEFINE st == IF Shown = "paused" THEN "paused" ELSE "acknowledged"
  <2>1. /\ att' = NoAttention /\ det' = Acknowledge(det, screen) /\ genuine' = FALSE
        /\ meta' = Patched(meta, st, None)
    BY <1>1 DEF UserAttention, SetStatus, Patched
  <2>2. st \in Statuses /\ st \in {"paused", "acknowledged"}
    BY DEF Statuses, Overlaid
  <2> HIDE DEF st
  <2>3. Overlay(meta').status \in {"paused", "acknowledged"}
    BY <1>t, <2>1, <2>2, PatchFacts
  <2>4. AckKept
    BY <2>3 DEF AckKept, Shown
  <2>5. det.last # None /\ phase # "starting"
    BY <1>1 DEF AckInv, ShouldApply
  <2>6. det'.last = screen /\ det'.ack /\ ~det'.flagged /\ det'.settle = det.settle
    BY <1>t, <2>1, <2>5 DEF Acknowledge, Detectors
  <2>7. Acked'
    BY <1>t, <2>6 DEF Acked
  <2>8. ~att'.state
    BY <2>1 DEF NoAttention
  <2> QED  BY <1>t, <2>4, <2>5, <2>6, <2>7, <2>8 DEF AckInv
<1>2. CASE ~(phase # "exited" /\ ShouldApply(t))
  <2>1. UNCHANGED <<att, det, meta, genuine>>
    BY <1>2 DEF UserAttention
  <2> QED  BY <2>1 DEF AckInv, Acked, AckKept, Shown, Overlay
<1> QED  BY <1>1, <1>2

\* A sample sees no activity in an acknowledged session.
LEMMA AckTickStep ==
    ASSUME AttInv, AckInv, Tick
    PROVE  AckInv' /\ AckKept
<1> DEFINE d == Older(det)
           u == Update(d, screen)
<1>t. /\ det \in Detectors /\ screen \in Screens /\ None \notin Screens
  BY Types, AttentionAssumption DEF AttInv
<1>1. /\ d \in Detectors /\ d.flagged = det.flagged /\ d.last = det.last
      /\ d.ack = det.ack /\ d.settle = det.settle
  BY <1>t, TimeFacts
<1>2. /\ det' = Settled(u.det)
      /\ u.out = "none" => UNCHANGED <<att, meta>>
      /\ UNCHANGED <<screen, phase, redraw, viewer, genuine, typed>>
      /\ phase = "running" /\ (redraw = "winch" => det.settle > 1)
  BY DEF Tick, histVars
<1> HIDE DEF d
<1>3. /\ u.det \in Detectors /\ u.det.last = screen /\ u.det.settle = d.settle
      /\ (d.ack /\ ~d.flagged /\ d.last # None
            /\ (d.last.body = screen.body \/ d.settle > 0))
         => u.out = "none" /\ u.det.ack /\ ~u.det.flagged
  BY <1>t, <1>1, UpdateFacts
<1> HIDE DEF u
<1>4. /\ det'.last = screen /\ det'.ack = u.det.ack /\ det'.flagged = u.det.flagged
      /\ det'.settle = IF det.settle > 0 THEN det.settle - 1 ELSE 0
  BY <1>1, <1>2, <1>3, TimeFacts
<1>5. ~genuine => u.out = "none" /\ u.det.ack /\ ~u.det.flagged
  BY <1>1, <1>3 DEF AckInv, Acked
<1>6. redraw = "winch" => det'.settle > 0
  <2>1. det.settle \in Nat
    BY <1>t, AttentionAssumption DEF Detectors
  <2> QED  BY <1>2, <1>4, <2>1
<1>7. ~genuine => Acked'
  BY <1>t, <1>2, <1>4, <1>5 DEF Acked
<1>8. AckKept
  BY <1>2, <1>5 DEF AckKept, Shown, Overlay
<1> QED  BY <1>t, <1>2, <1>4, <1>6, <1>7, <1>8 DEF AckInv

\* The other steps.  Without jiggles only a resize makes a program redraw.
LEMMA AckStep ==
    ASSUME ~Jiggles, SettleTicks > 0
    PROVE  AttInv /\ AckInv /\ [Next]_vars =>
             AckInv' /\ [~genuine => \/ Shown' = Shown
                                    \/ Shown' \in {"acknowledged", "paused", "completed"}
                                    \/ Resume]_vars
<1> SUFFICES ASSUME AttInv, AckInv, [Next]_vars PROVE AckInv' /\ AckKept
  BY DEF AckKept
<1>t. /\ det \in Detectors /\ meta \in Metas /\ screen \in Screens /\ None \notin Screens
      /\ "winch" \notin Bodies /\ None \notin Bodies /\ None # "winch"
  BY Types, AttentionAssumption DEF AttInv
<1>1. CASE UNCHANGED vars
  BY <1>1 DEF vars, AckInv, Acked, AckKept, Shown, Overlay
<1>2. CASE Tick
  BY <1>2, AckTickStep
<1>3. CASE InputFrame \/ DeliverAck
  BY <1>3, AckUserStep DEF InputFrame, DeliverAck
<1>4. CASE MarkRunning
  BY <1>4 DEF MarkRunning, AckInv, AckKept, Acked, histVars
<1>5. CASE Exit \/ Pause \/ Resume
  <2>1. Fine
    BY <1>5, StatusSteps
  <2>2. UNCHANGED <<screen, det, att, redraw, genuine>> /\ phase' \in {phase, "exited"}
    BY <1>5 DEF Exit, Pause, Resume, daemonVars, histVars
  <2>3. Exit => Shown' = "completed"
    <3> SUFFICES ASSUME Exit PROVE Shown' = "completed"
      OBVIOUS
    <3>1. meta' = StatusPatched(meta, "completed")
      BY DEF Exit, StatusPatched
    <3>2. "completed" \in Statuses
      BY DEF Statuses
    <3>3. Overlay(meta').status = "completed"
      BY <1>t, <3>1, <3>2, StatusFacts
    <3> QED  BY <3>3 DEF Shown
  <2>4. Pause => Shown' = "paused"
    <3> SUFFICES ASSUME Pause PROVE Shown' = "paused"
      OBVIOUS
    <3>1. Overlay(meta) \in Metas
      BY <1>t, OverlayFacts
    <3>2. meta' \in Metas /\ meta'.status = "paused"
      BY <3>1 DEF Pause, Metas, Statuses, Overlaid
    <3>3. Overlay(meta').status = "paused"
      BY <3>2, OverlayFacts
    <3> QED  BY <3>3 DEF Shown
  <2>5. AckKept
    BY <1>5, <2>3, <2>4 DEF AckKept
  <2>6. AckInv'
    BY <2>2 DEF AckInv, Acked
  <2> QED  BY <2>5, <2>6
<1>6. ASSUME NEW b \in Bodies, Output(b) PROVE AckInv' /\ AckKept
  <2>1. /\ UNCHANGED <<det, att, phase, meta, redraw>> /\ genuine' = TRUE
    BY <1>6 DEF Output, daemonVars
  <2> QED  BY <2>1 DEF AckInv, AckKept, Shown, Overlay
<1>7. ASSUME NEW b \in Bodies, Redraw(b) PROVE AckInv' /\ AckKept
  <2>1. /\ UNCHANGED <<det, att, phase, meta, genuine>>
        /\ redraw = "winch" /\ redraw' = None
    BY <1>7 DEF Redraw, daemonVars, histVars
  <2> QED  BY <1>t, <2>1 DEF AckInv, Acked, AckKept, Shown, Overlay
<1>8. ASSUME NEW e \in Dims, NEW b \in Bodies, Resize(e, b) PROVE AckInv' /\ AckKept
  <2>1. /\ UNCHANGED <<att, phase, meta, genuine>> /\ redraw' = "winch"
        /\ det' = AbsorbResize(det, screen') /\ screen' = [dims |-> e, body |-> b]
    BY <1>8 DEF Resize, histVars
  <2>2. screen' # None
    BY <1>t, <2>1 DEF Screens
  <2>3. CASE det.last = None
    <3>1. det' = det
      BY <2>1, <2>3 DEF AbsorbResize
    <3> QED  BY <1>t, <2>1, <2>3, <3>1 DEF AckInv, Acked, AckKept, Shown, Overlay
  <2>4. CASE det.last # None
    <3>1. /\ det'.last = screen' /\ det'.settle = SettleTicks
          /\ det'.ack = det.ack /\ det'.flagged = det.flagged
      BY <1>t, <2>1, <2>4 DEF AbsorbResize, Detectors
    <3> QED  BY <1>t, <2>1, <2>2, <3>1 DEF AckInv, Acked, AckKept, Shown, Overlay
  <2> QED  BY <2>3, <2>4
<1>9. CASE JiggleBack \/ \E b \in Bodies : JiggleAway(b)
  BY <1>9 DEF JiggleBack, JiggleAway, AckInv
<1>10. CASE SendAck \/ LoseAck
  <2>1. UNCHANGED <<screen, det, att, phase, meta, genuine, redraw>>
    BY <1>10 DEF SendAck, LoseAck, daemonVars, histVars
  <2> QED  BY <2>1 DEF AckInv, Acked, AckKept, Shown, Overlay
<1> QED  BY <1>1, <1>2, <1>3, <1>4, <1>5, <1>6, <1>7, <1>8, <1>9, <1>10 DEF Next

\* Unless a surface takes control at the size the PTY has, which makes the
\* program redraw without a settle window, what a user acknowledged stays so
\* until the program itself writes, for every settle window of at least one
\* sample (absorb_resize, acknowledge, apply_attention).
THEOREM AcksHold ==
    ASSUME ~Jiggles, SettleTicks > 0
    PROVE  Spec => AckHolds
BY AttInit, AttStep, AckInit, AckStep, PTL DEF Spec, AckHolds

----------------------------------------------------------------------------
(* Streams of frames *)

FrameRecs == [type : Nat, payload : Seq(Nat)]

\* Where the frames of s are in the stream w: frame k + 1 follows the end of frame k.
Laid(s, w, end) ==
  /\ s \in Seq(FrameRecs) /\ w \in Seq(Nat) /\ end \in [0 .. Len(s) -> Nat]
  /\ end[0] = 0 /\ end[Len(s)] = Len(w)
  /\ \A k \in 0 .. Len(s) - 1 :
       /\ end[k + 1] = end[k] + HeaderSize + Len(s[k + 1].payload)
       /\ w[end[k] + 1] = Len(s[k + 1].payload)
       /\ w[end[k] + 2] = s[k + 1].type
       /\ \A j \in 1 .. Len(s[k + 1].payload) : w[end[k] + HeaderSize + j] = s[k + 1].payload[j]


\* What the frame f tells a session's client or the other end of a link.
Said(d, f) == IF d = "frame" THEN DecodedFrame(f) ELSE RawFrame(f)
Sayings(d, s) == {Said(d, s[i]) : i \in 1 .. Len(s)}
Heard(d, s, k) == FlattenSeq([i \in 1 .. k |-> IF KnownType(s[i].type) THEN <<Said(d, s[i])>> ELSE <<>>])

\* A frame that the loop of a mux decoder lets through.
Fits(f) == Len(f.payload) <= MaxPayload /\ ~(f.type = DataType /\ f.payload = <<>>)

Turn(d, r) == IF d = "frame" THEN FrameTurn(r, 0) ELSE MuxTurn(r, 0)

\* There is no whole frame after the m-th, or it was refused.
Resting(d, s, end, n, r, m) ==
  /\ r.failed \/ m = Len(s) \/ n < end[m + 1]
  /\ d # "frame" => r.failed \/ Len(r.rest) < HeaderSize + MaxPayload

\* After i turns, r has taken the frames k + 1 to m of those that are in w up to n.
Decoded(d, s, w, end, k, n, i, r, m) ==
  /\ m \in k .. Len(s) /\ end[m] =< n
  /\ r = [rest |-> SubSeq(w, end[m] + 1, n), out |-> r.out, failed |-> r.failed]
  /\ r.out \in Seq(Sayings(d, s)) /\ r.failed \in BOOLEAN
  /\ Heard(d, s, m) = Heard(d, s, k) \o r.out
  /\ \A j \in k + 1 .. m : KnownType(s[j].type) => \E x \in DOMAIN r.out : r.out[x] = Said(d, s[j])
  /\ \A x \in DOMAIN r.out : \E j \in k + 1 .. m : KnownType(s[j].type) /\ r.out[x] = Said(d, s[j])
  /\ d # "frame" => \A j \in k + 1 .. m : Fits(s[j])
  /\ r.failed => d # "frame" /\ m < Len(s) /\ ~Fits(s[m + 1])
  /\ Resting(d, s, end, n, r, m) \/ Len(r.rest) + HeaderSize * i =< n - end[k]

Parsed(d, b, i, r) ==
  \A s, w, end : \A k \in 0 .. Len(s) : \A n \in end[k] .. Len(w) :
    Laid(s, w, end) /\ b = Begin(SubSeq(w, end[k] + 1, n)) =>
      \E m : Decoded(d, s, w, end, k, n, i, r, m)
FrameParsed(b, turns, i, r) == Parsed("frame", b, i, r)
MuxParsed(b, turns, i, r) == Parsed("mux", b, i, r)

FrameFolds == INSTANCE SequenceFolds WITH Op <- FrameTurn, Inv <- FrameParsed
MuxFolds == INSTANCE SequenceFolds WITH Op <- MuxTurn, Inv <- MuxParsed

\* A peer's frames are records of numbers.
LEMMA FramesTyped == Frames \subseteq FrameRecs
<1> USE CodecAssumption
<1> DEFINE P == Seq(Nat)
           Named == {y \in {<<>>, <<8>>, <<8, 9>>} \X {<<>>, <<3>>} : EncodesData(y[1])}
           Filled == {[i \in 1..n |-> 3] : n \in {MaxPayload, MaxPayload + 1}}
<1>1. {<<Parses>>, <<Garbled>>} \subseteq P
  BY DEF Parses, Garbled
<1>2. {DataPayload(x[1], x[2]) : x \in Named} \cup {<<>>, <<4, 8>>} \subseteq P
  <2>1. ASSUME NEW x \in Named
        PROVE  DataPayload(x[1], x[2]) \in P
    <3>1. x[1] \in P /\ x[2] \in P
      <4>1. x \in {<<>>, <<8>>, <<8, 9>>} \X {<<>>, <<3>>}
        OBVIOUS
      <4>2. x[1] \in {<<>>, <<8>>, <<8, 9>>} /\ x[2] \in {<<>>, <<3>>}
        BY <4>1
      <4>3. {<<>>, <<8>>, <<8, 9>>} \subseteq P /\ {<<>>, <<3>>} \subseteq P
        OBVIOUS
      <4> QED  BY <4>2, <4>3
    <3>2. <<Len(x[1])>> \in P
      BY <3>1
    <3> QED  BY <3>1, <3>2, ConcatProperties DEF DataPayload
  <2>2. {<<>>, <<4, 8>>} \subseteq P
    OBVIOUS
  <2> QED  BY <2>1, <2>2
<1>3. {<<>>, <<3>>} \subseteq P
  OBVIOUS
<1>4. Filled \subseteq P
  <2> SUFFICES ASSUME NEW n \in Nat PROVE [i \in 1..n |-> 3] \in P
    OBVIOUS
  <2> QED  OBVIOUS
<1> HIDE DEF P, Named, Filled
<1> DEFINE A == [type : {ControlType}, payload : {<<Parses>>, <<Garbled>>}]
           B == [type : {DataType}, payload : {DataPayload(x[1], x[2]) : x \in Named} \cup {<<>>, <<4, 8>>}]
           C == [type : {UnknownType}, payload : {<<>>, <<3>>}]
           D == [type : {ControlType, UnknownType}, payload : Filled]
           R == [type : Nat, payload : P]
<1>5. A \subseteq R
  BY <1>1 DEF ControlType
<1>6. B \subseteq R
  <2> DEFINE Q == {DataPayload(x[1], x[2]) : x \in Named} \cup {<<>>, <<4, 8>>}
  <2>1. Q \subseteq P
    BY <1>2
  <2> HIDE DEF Q
  <2>2. [type : {DataType}, payload : Q] \subseteq R
    BY <2>1 DEF DataType
  <2> QED  BY <2>2 DEF Q
<1>7. C \subseteq R
  BY <1>3 DEF UnknownType
<1>8. D \subseteq R
  BY <1>4 DEF ControlType, UnknownType
<1>9. Frames = A \cup B \cup C \cup D
  BY DEF Frames, Named, Filled
<1> HIDE DEF A, B, C, D, R
<1>10. Frames \subseteq R
  BY <1>5, <1>6, <1>7, <1>8, <1>9
<1> QED  BY <1>10 DEF R, P, FrameRecs

\* Later frames end later.
LEMMA EndsGrow ==
    ASSUME NEW s, NEW w, NEW end, Laid(s, w, end), NEW k \in 0 .. Len(s), NEW m \in 0 .. Len(s), k < m
    PROVE  end[k] + HeaderSize =< end[m]
<1> SUFFICES ASSUME ~(end[k] + HeaderSize =< end[m]) PROVE FALSE
  OBVIOUS
<1> DEFINE n == Len(s)
<1>0. /\ n \in Nat /\ \A i \in 0 .. n : end[i] \in Nat
      /\ \A i \in 0 .. n - 1 : end[i] + HeaderSize =< end[i + 1]
  <2>1. /\ n \in Nat /\ \A i \in 0 .. n : end[i] \in Nat
        /\ \A i \in 0 .. n - 1 : s[i + 1] \in FrameRecs
    <3>1. s \in Seq(FrameRecs) /\ end \in [0 .. n -> Nat]
      BY DEF Laid
    <3>2. n \in Nat /\ \A i \in 1 .. n : s[i] \in FrameRecs
      BY <3>1
    <3>3. \A i \in 0 .. n : end[i] \in Nat
      BY <3>1, Zenon
    <3> HIDE DEF n
    <3>4. \A i \in 0 .. n - 1 : i + 1 \in 1 .. n
      BY <3>2
    <3> QED  BY <3>2, <3>3, <3>4, Zenon
  <2>2. \A i \in 0 .. n - 1 : Len(s[i + 1].payload) \in Nat
    BY <2>1 DEF FrameRecs
  <2>3. ASSUME NEW i \in 0 .. n - 1
        PROVE  end[i] + HeaderSize =< end[i + 1]
    <3> DEFINE a == end[i]
               e == end[i + 1]
               l == Len(s[i + 1].payload)
    <3>1. e = a + HeaderSize + l /\ i \in 0 .. n
      BY <2>1 DEF Laid
    <3>2. a \in Nat /\ l \in Nat
      BY <2>1, <2>2, <3>1, Zenon
    <3> HIDE DEF a, e, l
    <3>3. a + HeaderSize =< e
      BY <3>1, <3>2 DEF HeaderSize
    <3> QED  BY <3>3, Zenon DEF a, e
  <2> QED  BY <2>1, <2>3
<1> HIDE DEF n
<1>1. k \in 0 .. n /\ m \in 0 .. n
  BY DEF n
<1> DEFINE Bad == {i \in k + 1 .. n : ~(end[k] + HeaderSize =< end[i])}
<1>2. PICK i \in Bad : \A y \in Bad : i =< y
  <2>1. Bad \subseteq Nat /\ m \in Bad
    BY <1>0, <1>1
  <2> HIDE DEF Bad
  <2> QED  BY <2>1, FrameFolds!LeastNat
<1>3. i - 1 \in 0 .. n - 1 /\ i - 1 >= k /\ i - 1 \notin Bad /\ (i - 1) + 1 = i
  BY <1>0, <1>1, <1>2
<1>4. end[i - 1] + HeaderSize =< end[i]
  BY <1>0, <1>3
<1>5. i - 1 = k \/ end[k] + HeaderSize =< end[i - 1]
  BY <1>0, <1>1, <1>2, <1>3
<1> DEFINE h == i - 1
           a == end[k]
           c == end[h]
           e == end[i]
<1>6. /\ a \in Nat /\ c \in Nat /\ e \in Nat
      /\ c + HeaderSize =< e /\ ~(a + HeaderSize =< e) /\ (c = a \/ a + HeaderSize =< c)
  <2>1. h \in 0 .. n /\ i \in 0 .. n
    BY <1>0, <1>1, <1>3
  <2>2. a \in Nat /\ c \in Nat /\ e \in Nat
    BY <1>0, <1>1, <2>1, Zenon
  <2>3. ~(a + HeaderSize =< e)
    BY <1>2, Zenon
  <2> QED  BY <1>4, <1>5, <2>2, <2>3, Zenon
<1> HIDE DEF a, c, e
<1> QED  BY <1>6 DEF HeaderSize

\* The frame after the first m.
LEMMA FrameLaid ==
    ASSUME NEW s, NEW w, NEW end, Laid(s, w, end), NEW m \in 0 .. Len(s), m < Len(s)
    PROVE  /\ m + 1 \in 1 .. Len(s) /\ m + 1 \in 0 .. Len(s)
           /\ end[m] \in Nat /\ end[m + 1] \in Nat /\ end[m + 1] =< Len(w)
           /\ s[m + 1].payload \in Seq(Nat) /\ Len(s[m + 1].payload) \in Nat
           /\ end[m + 1] = end[m] + HeaderSize + Len(s[m + 1].payload)
           /\ w[end[m] + 1] = Len(s[m + 1].payload) /\ w[end[m] + 2] = s[m + 1].type
           /\ \A j \in 1 .. Len(s[m + 1].payload) : w[end[m] + HeaderSize + j] = s[m + 1].payload[j]
<1>0. /\ s \in Seq(FrameRecs) /\ w \in Seq(Nat) /\ Len(s) \in Nat /\ Len(w) \in Nat
      /\ end \in [0 .. Len(s) -> Nat] /\ end[Len(s)] = Len(w)
  <2>1. s \in Seq(FrameRecs) /\ w \in Seq(Nat) /\ end \in [0 .. Len(s) -> Nat] /\ end[Len(s)] = Len(w)
    BY DEF Laid
  <2> QED  BY <2>1
<1>1. /\ m \in 0 .. Len(s) - 1 /\ m + 1 \in 1 .. Len(s) /\ m + 1 \in 0 .. Len(s)
      /\ Len(s) \in 0 .. Len(s)
  BY <1>0
<1>2. s[m + 1] \in FrameRecs
  BY <1>0, <1>1
<1>3. s[m + 1].payload \in Seq(Nat) /\ Len(s[m + 1].payload) \in Nat
  BY <1>2 DEF FrameRecs
<1>4. end[m] \in Nat /\ end[m + 1] \in Nat
  BY <1>0, <1>1
<1>5. m + 1 = Len(s) \/ end[m + 1] + HeaderSize =< end[Len(s)]
  <2>1. m + 1 = Len(s) \/ m + 1 < Len(s)
    BY <1>0, <1>1
  <2> QED  BY <1>1, <2>1, EndsGrow
<1>6. end[m + 1] =< Len(w)
  BY <1>0, <1>4, <1>5 DEF HeaderSize
<1> QED  BY <1>1, <1>3, <1>4, <1>6 DEF Laid

ReadAs(w, a, n, p, t, b) ==
    /\ HeadFrame(b).size = Len(p) /\ HeadFrame(b).type = t
    /\ HeadFrame(b).whole <=> a + HeaderSize + Len(p) =< n
    /\ a + HeaderSize + Len(p) =< n =>
         /\ HeadFrame(b).payload = p
         /\ SubSeq(b, HeaderSize + Len(p) + 1, n - a) = SubSeq(w, (a + HeaderSize + Len(p)) + 1, n)

\* What is read of a frame that begins after position a, with n bytes there.
LEMMA HeadRead ==
    ASSUME NEW w \in Seq(Nat), NEW a \in Nat, NEW n \in Nat, a =< n, n =< Len(w),
           NEW p \in Seq(Nat), NEW t, w[a + 1] = Len(p), w[a + 2] = t,
           \A j \in 1 .. Len(p) : w[a + HeaderSize + j] = p[j],
           n - a >= HeaderSize,
           NEW b, b = SubSeq(w, a + 1, n)
    PROVE  ReadAs(w, a, n, p, t, b)
<1> DEFINE l == Len(p)
           c == HeaderSize + l
           q == SubSeq(b, HeaderSize + 1, c)
<1>0. HeaderSize = 2 /\ l \in Nat
  BY DEF HeaderSize
<1>1. b \in Seq(Nat) /\ Len(b) = n - a /\ \A j \in 1 .. n - a : b[j] = w[a + j]
  BY FrameFolds!PartOf
<1> HIDE DEF l
<1>2. b[1] = l /\ b[2] = t
  <2>1. 1 \in 1 .. n - a /\ 2 \in 1 .. n - a
    BY <1>0
  <2> QED  BY <1>1, <2>1 DEF l
<1>3. /\ HeadFrame(b).size = l /\ HeadFrame(b).type = t
      /\ HeadFrame(b).whole = (n - a >= HeaderSize + l)
      /\ n - a >= HeaderSize + l => HeadFrame(b).payload = SubSeq(b, HeaderSize + 1, HeaderSize + l)
  BY <1>1, <1>2, Zenon DEF HeadFrame
<1>4. n - a >= HeaderSize + l <=> a + HeaderSize + l =< n
  BY <1>0
<1>5. ASSUME a + HeaderSize + l =< n
      PROVE  /\ SubSeq(b, HeaderSize + 1, HeaderSize + l) = p
             /\ SubSeq(b, HeaderSize + l + 1, n - a) = SubSeq(w, (a + HeaderSize + l) + 1, n)
  <2>1. /\ c \in Nat /\ c =< n - a /\ HeaderSize \in Nat /\ HeaderSize =< c /\ c - HeaderSize = l
        /\ a + c = a + HeaderSize + l /\ a + c =< n
    BY <1>0, <1>5
  <2> HIDE DEF c
  <2>2. q \in Seq(Nat) /\ Len(q) = l /\ \A j \in 1 .. l : q[j] = b[HeaderSize + j]
    <3>1. c =< Len(b)
      BY <1>1, <2>1
    <3>2. q \in Seq(Nat) /\ Len(q) = c - HeaderSize /\ \A j \in 1 .. c - HeaderSize : q[j] = b[HeaderSize + j]
      BY <1>1, <2>1, <3>1, FrameFolds!PartOf, Zenon
    <3> QED  BY <2>1, <3>2, Zenon
  <2>3. \A j \in 1 .. l : q[j] = p[j]
    <3> TAKE j \in 1 .. l
    <3>0. j \in Nat /\ 1 =< j /\ j =< l
      BY <1>0
    <3>1. HeaderSize + j \in 1 .. n - a /\ a + (HeaderSize + j) = a + HeaderSize + j
      <4>1. /\ HeaderSize + j \in Int /\ n - a \in Int /\ 1 =< HeaderSize + j
            /\ HeaderSize + j =< n - a
        BY <1>0, <1>5, <3>0
      <4>2. a + (HeaderSize + j) = a + HeaderSize + j
        BY <1>0, <3>0
      <4> QED  BY <4>1, <4>2
    <3>2. b[HeaderSize + j] = w[a + (HeaderSize + j)] /\ q[j] = b[HeaderSize + j]
      BY <1>1, <2>2, <3>1
    <3>3. w[a + HeaderSize + j] = p[j]
      BY DEF l
    <3> QED  BY <3>1, <3>2, <3>3
  <2> HIDE DEF q
  <2>4. q = p
    BY <1>0, <2>2, <2>3, FrameFolds!SameParts DEF l
  <2>5. SubSeq(SubSeq(w, a + 1, n), c + 1, n - a) = SubSeq(w, (a + c) + 1, n)
    BY <2>1, FrameFolds!PartOfPart
  <2> QED  BY <2>1, <2>4, <2>5 DEF q, c
<1> QED  BY <1>3, <1>4, <1>5, Zenon DEF ReadAs, l

\* What the decoder finds at the head of what it has not decoded.
Found(s, w, end, m, n, b) ==
    /\ Len(b) = n - end[m] /\ n \in Nat /\ end[m] \in Nat
    /\ Len(b) < HeaderSize => m = Len(s) \/ n < end[m + 1]
    /\ Len(b) >= HeaderSize =>
         /\ m + 1 \in 1 .. Len(s) /\ end[m + 1] \in Nat
         /\ end[m + 1] = end[m] + HeaderSize + Len(s[m + 1].payload)
         /\ Len(s[m + 1].payload) \in Nat
         /\ HeadFrame(b).size = Len(s[m + 1].payload) /\ HeadFrame(b).type = s[m + 1].type
         /\ HeadFrame(b).whole <=> end[m + 1] =< n
         /\ end[m + 1] =< n =>
              /\ HeadFrame(b).payload = s[m + 1].payload
              /\ SubSeq(b, HeaderSize + HeadFrame(b).size + 1, Len(b)) = SubSeq(w, end[m + 1] + 1, n)

\* It finds the next frame of the stream, as far as it is there.
LEMMA HeadFound ==
    ASSUME NEW s, NEW w, NEW end, Laid(s, w, end), NEW m \in 0 .. Len(s), NEW n \in end[m] .. Len(w)
    PROVE  Found(s, w, end, m, n, SubSeq(w, end[m] + 1, n))
<1> DEFINE b == SubSeq(w, end[m] + 1, n)
           a == end[m]
<1>0. HeaderSize = 2
  BY DEF HeaderSize
<1>1. w \in Seq(Nat) /\ a \in Nat /\ n \in Nat /\ a =< n /\ n =< Len(w) /\ Len(s) \in Nat
      /\ end[Len(s)] = Len(w)
  <2>1. s \in Seq(FrameRecs) /\ w \in Seq(Nat) /\ end \in [0 .. Len(s) -> Nat] /\ end[Len(s)] = Len(w)
    BY DEF Laid
  <2>2. end[m] \in Nat /\ Len(w) \in Nat /\ Len(s) \in Nat
    BY <2>1
  <2> QED  BY <2>1, <2>2
<1>2. Len(b) = n - a
  BY <1>1, FrameFolds!PartOf
<1> HIDE DEF a, b
<1>3. CASE m = Len(s)
  <2>1. end[m] = Len(w)
    BY <1>1, <1>3
  <2>2. n - a = 0
    BY <1>1, <2>1 DEF a
  <2>3. ~(0 >= HeaderSize)
    BY <1>0
  <2>4. Found(s, w, end, m, n, b)
    BY <1>1, <1>2, <1>3, <2>2, <2>3, Zenon DEF Found, a
  <2> QED  BY <2>4 DEF b
<1>4. CASE m < Len(s)
  <2> DEFINE p == s[m + 1].payload
             e == end[m + 1]
             l == Len(p)
  <2>1. /\ m + 1 \in 1 .. Len(s) /\ e \in Nat /\ p \in Seq(Nat) /\ l \in Nat
        /\ e = a + HeaderSize + l
        /\ w[a + 1] = Len(p) /\ w[a + 2] = s[m + 1].type
        /\ \A j \in 1 .. Len(p) : w[a + HeaderSize + j] = p[j]
    BY <1>4, FrameLaid DEF a
  <2> HIDE DEF e
  <2>2. CASE ~(n - a >= HeaderSize)
    <3> HIDE DEF p, l
    <3>1. n < e
      BY <1>0, <1>1, <2>1, <2>2
    <3>2. Found(s, w, end, m, n, b)
      BY <1>1, <1>2, <2>2, <3>1, Zenon DEF Found, a, e
    <3> QED  BY <3>2 DEF b
  <2>3. CASE n - a >= HeaderSize
    <3> HIDE DEF p, l
    <3>1. ReadAs(w, a, n, p, s[m + 1].type, b)
      <4>1. b = SubSeq(w, a + 1, n)
        BY DEF b, a
      <4> QED  BY <1>1, <2>1, <2>3, <4>1, HeadRead
    <3>2. ~(n - a < HeaderSize)
      BY <1>0, <1>1, <2>3
    <3>3. Found(s, w, end, m, n, b)
      BY <1>1, <1>2, <2>1, <3>1, <3>2, Zenon DEF ReadAs, Found, a, e, l, p
    <3> QED  BY <3>3 DEF b
  <2> QED  BY <2>2, <2>3
<1> QED  BY <1>1, <1>3, <1>4

\* FlattenSeq is what SequenceFolds says about it.
LEMMA FlattenIsFlat == \A x : FlattenSeq(x) = FrameFolds!Flat(x)
  BY Zenon DEF FrameFolds!Flat, FrameFolds!FlattenSeq, FlattenSeq

\* The first k parts of p, and one more.
Joined(p, k) == FlattenSeq([i \in 1 .. k |-> p[i]])

\* Joining one more part appends it.
LEMMA JoinedNext ==
    ASSUME NEW T, NEW n \in Nat, NEW p \in [1 .. n -> Seq(T)], NEW k \in 0 .. n
    PROVE  /\ Joined(p, 0) = <<>> /\ Joined(p, k) \in Seq(T)
           /\ k < n => Joined(p, k + 1) = Joined(p, k) \o p[k + 1]
<1> DEFINE parts(j) == [i \in 1 .. j |-> p[i]]
<1>1. k \in Nat /\ k =< n
  OBVIOUS
<1>2. ASSUME NEW j \in 0 .. n
      PROVE  parts(j) \in Seq(Seq(T)) /\ Len(parts(j)) = j
  OBVIOUS
<1>3. FlattenSeq(parts(0)) = <<>>
  <2>1. Len(parts(0)) = 0 /\ parts(0) = <<>>
    OBVIOUS
  <2> HIDE DEF parts
  <2>2. FlattenSeq(parts(0)) = parts(0)
    BY <2>1, Zenon DEF FlattenSeq
  <2> QED  BY <2>1, <2>2
<1>4. FlattenSeq(parts(k)) \in Seq(T)
  <2>1. <<>> \in Seq(T)
    OBVIOUS
  <2>2. parts(k) \in Seq(Seq(T))
    BY <1>2
  <2> HIDE DEF parts
  <2> QED  BY FlattenIsFlat, <2>1, <2>2, FrameFolds!FlattenAppend
<1>5. ASSUME k < n
      PROVE  FlattenSeq(parts(k + 1)) = FlattenSeq(parts(k)) \o p[k + 1]
  <2>1. parts(k) \in Seq(Seq(T)) /\ Len(parts(k)) = k
    BY <1>2
  <2>2. k + 1 \in 1 .. n /\ k + 1 \in 0 .. n /\ p[k + 1] \in Seq(T)
    BY <1>1, <1>5
  <2>3. parts(k + 1) = Append(parts(k), p[k + 1])
    <3>1. parts(k + 1) \in Seq(Seq(T)) /\ Len(parts(k + 1)) = k + 1
      BY <1>2, <2>2
    <3>2. Append(parts(k), p[k + 1]) \in Seq(Seq(T)) /\ Len(Append(parts(k), p[k + 1])) = k + 1
      BY <2>1, <2>2
    <3>3. \A i \in 1 .. k + 1 : parts(k + 1)[i] = Append(parts(k), p[k + 1])[i]
      BY <1>1, <2>1, <2>2
    <3> HIDE DEF parts
    <3> QED  BY <1>1, <3>1, <3>2, <3>3, SeqEqual
  <2> HIDE DEF parts
  <2>4. FrameFolds!Flat(parts(k + 1)) = FrameFolds!Flat(parts(k)) \o p[k + 1]
    BY <2>1, <2>2, <2>3, FrameFolds!FlattenAppend
  <2> QED  BY <2>4, FlattenIsFlat
<1> HIDE DEF parts
<1>6. \A j : Joined(p, j) = FlattenSeq(parts(j))
  BY Zenon DEF Joined, parts
<1> QED  BY <1>3, <1>4, <1>5, <1>6

\* What is heard of one more frame.
LEMMA HeardNext ==
    ASSUME NEW d, NEW s \in Seq(FrameRecs), NEW k \in 0 .. Len(s)
    PROVE  /\ Heard(d, s, 0) = <<>> /\ Heard(d, s, k) \in Seq(Sayings(d, s))
           /\ k < Len(s) => Heard(d, s, k + 1) =
                Heard(d, s, k) \o (IF KnownType(s[k + 1].type) THEN <<Said(d, s[k + 1])>> ELSE <<>>)
<1> DEFINE S == Sayings(d, s)
           n == Len(s)
           part(j) == IF KnownType(s[j].type) THEN <<Said(d, s[j])>> ELSE <<>>
           p == [j \in 1 .. n |-> part(j)]
<1>1. n \in Nat /\ k \in 0 .. n
  OBVIOUS
<1>2. ASSUME NEW j \in 1 .. n
      PROVE  part(j) \in Seq(S)
  <2>1. Said(d, s[j]) \in S
    BY Zenon DEF Sayings
  <2> HIDE DEF S
  <2>2. <<Said(d, s[j])>> \in Seq(S) /\ <<>> \in Seq(S)
    BY <2>1
  <2> QED  BY <2>2
<1> HIDE DEF part, S, n
<1>3. p \in [1 .. n -> Seq(S)]
  BY <1>2
<1>4. ASSUME NEW j \in 0 .. n
      PROVE  Heard(d, s, j) = Joined(p, j)
  <2>1. \A i \in 1 .. j : p[i] = part(i)
    BY <1>1
  <2> HIDE DEF p
  <2>2. [i \in 1 .. j |-> p[i]] = [i \in 1 .. j |-> part(i)]
    BY <2>1, Zenon
  <2> QED  BY <2>2, Zenon DEF Heard, Joined, part
<1>5. k < n => k + 1 \in 0 .. n /\ k + 1 \in 1 .. n
  BY <1>1
<1>6. 0 \in 0 .. n /\ (k < n => p[k + 1] = part(k + 1))
  BY <1>1, <1>5
<1> HIDE DEF p
<1>7. Joined(p, 0) = <<>> /\ Joined(p, k) \in Seq(S) /\ (k < n => Joined(p, k + 1) = Joined(p, k) \o p[k + 1])
  BY <1>1, <1>3, JoinedNext, Zenon
<1>8. /\ Heard(d, s, 0) = Joined(p, 0) /\ Heard(d, s, k) = Joined(p, k)
      /\ k < n => Heard(d, s, k + 1) = Joined(p, k + 1)
  BY <1>1, <1>4, <1>5, <1>6
<1> QED  BY <1>6, <1>7, <1>8 DEF part, S, n

\* A turn takes the frame after the m-th, refuses it, or waits for its end.
Turned(d, s, w, end, n, r, m, q) ==
    \/ q = r /\ Resting(d, s, end, n, r, m)
    \/ /\ ~r.failed /\ m + 1 \in 1 .. Len(s) /\ end[m + 1] =< n
       /\ d # "frame" => Fits(s[m + 1])
       /\ q = [rest |-> SubSeq(w, end[m + 1] + 1, n),
               out |-> IF KnownType(s[m + 1].type) THEN Append(r.out, Said(d, s[m + 1])) ELSE r.out,
               failed |-> FALSE]
    \/ /\ d # "frame" /\ ~r.failed /\ m + 1 \in 1 .. Len(s) /\ ~Fits(s[m + 1])
       /\ q = [rest |-> r.rest, out |-> r.out, failed |-> TRUE]

\* A turn of either loop does one of these.
LEMMA TurnDoes ==
    ASSUME NEW d \in {"frame", "mux"},
           NEW s, NEW w, NEW end, Laid(s, w, end), NEW m \in 0 .. Len(s), NEW n \in end[m] .. Len(w),
           NEW r, r = [rest |-> SubSeq(w, end[m] + 1, n), out |-> r.out, failed |-> r.failed],
           r.failed \in BOOLEAN, d = "frame" => ~r.failed
    PROVE  Turned(d, s, w, end, n, r, m, Turn(d, r))
<1> DEFINE b == r.rest
           f == HeadFrame(b)
           g == s[m + 1]
           item == Said(d, f)
<1>0. HeaderSize = 2 /\ MaxPayload \in Nat
  BY CodecAssumption DEF HeaderSize
<1>1. b = SubSeq(w, end[m] + 1, n) /\ r = [rest |-> b, out |-> r.out, failed |-> r.failed]
  OBVIOUS
<1>2. Found(s, w, end, m, n, b)
  BY <1>1, HeadFound
<1>3. Len(b) \in Nat /\ end[m] =< n
  <2>1. Len(b) = n - end[m] /\ n \in Nat /\ end[m] \in Nat
    BY <1>2, Zenon DEF Found
  <2> QED  BY <2>1
<1>4. Turn(d, r) = IF d = "frame"
                   THEN IF Len(b) >= HeaderSize /\ f.whole THEN TakeFrame(r, f, DecodedFrame(f)) ELSE r
                   ELSE IF r.failed \/ Len(b) < HeaderSize THEN r
                        ELSE IF TooLarge(f) \/ (f.whole /\ f.type = DataType /\ f.payload = <<>>)
                             THEN [rest |-> r.rest, out |-> r.out, failed |-> TRUE]
                             ELSE IF f.whole THEN TakeFrame(r, f, RawFrame(f)) ELSE r
  BY Zenon DEF Turn, FrameTurn, MuxTurn
<1>5. CASE r.failed
  <2>1. Turn(d, r) = r
    BY <1>4, <1>5
  <2> QED  BY <1>5, <2>1, Zenon DEF Turned, Resting
<1>6. CASE ~r.failed /\ Len(b) < HeaderSize
  <2>1. m = Len(s) \/ n < end[m + 1]
    BY <1>2, <1>6, Zenon DEF Found
  <2>2. Turn(d, r) = r
    BY <1>0, <1>3, <1>4, <1>6
  <2>3. Len(b) < HeaderSize + MaxPayload
    BY <1>0, <1>3, <1>6
  <2> QED  BY <2>1, <2>2, <2>3, Zenon DEF Turned, Resting
<1>7. CASE ~r.failed /\ Len(b) >= HeaderSize
  <2>1. /\ m + 1 \in 1 .. Len(s) /\ end[m + 1] \in Nat /\ Len(g.payload) \in Nat
        /\ end[m + 1] = end[m] + HeaderSize + Len(g.payload)
        /\ f.size = Len(g.payload) /\ f.type = g.type /\ (f.whole <=> end[m + 1] =< n)
        /\ end[m + 1] =< n =>
             f.payload = g.payload /\ SubSeq(b, HeaderSize + f.size + 1, Len(b)) = SubSeq(w, end[m + 1] + 1, n)
        /\ Len(b) = n - end[m] /\ n \in Nat /\ end[m] \in Nat
    BY <1>2, <1>7, Zenon DEF Found
  <2>2. TooLarge(f) <=> ~(Len(g.payload) <= MaxPayload)
    <3> DEFINE l == Len(g.payload)
               z == f.size
    <3>1. z = l /\ l \in Nat /\ (TooLarge(f) <=> z > MaxPayload)
      BY <2>1, Zenon DEF TooLarge
    <3> HIDE DEF l, z
    <3>2. TooLarge(f) <=> ~(l <= MaxPayload)
      BY <1>0, <3>1
    <3> QED  BY <3>2, Zenon DEF l
  <2> HIDE DEF b, g
  <2>3. CASE ~(end[m + 1] =< n)
    <3>1. ~f.whole /\ n < end[m + 1]
      BY <2>1, <2>3
    <3>2. CASE d # "frame" /\ TooLarge(f)
      <4>1. Turn(d, r) = [rest |-> r.rest, out |-> r.out, failed |-> TRUE] /\ ~Fits(g)
        BY <1>0, <1>3, <1>4, <1>7, <2>2, <3>2 DEF Fits
      <4> QED  BY <1>7, <2>1, <3>2, <4>1, Zenon DEF Turned, g
    <3>3. CASE d = "frame" \/ ~TooLarge(f)
      <4>1. Turn(d, r) = r
        BY <1>0, <1>3, <1>4, <1>7, <3>1, <3>3
      <4>2. d # "frame" => Len(b) < HeaderSize + MaxPayload
        <5> DEFINE l == Len(g.payload)
                   a == end[m]
                   z == Len(b)
                   e == end[m + 1]
        <5>1. l \in Nat /\ a \in Nat /\ n \in Nat /\ z = n - a /\ e = a + HeaderSize + l /\ n < e
          BY <2>1, <3>1, Zenon
        <5>2. d # "frame" => l <= MaxPayload
          BY <2>2, <3>3, Zenon
        <5> HIDE DEF l, a, z, e
        <5>3. z < HeaderSize + l
          BY <1>0, <5>1
        <5>4. d # "frame" => z < HeaderSize + MaxPayload
          BY <1>0, <5>1, <5>2, <5>3
        <5> QED  BY <5>4, Zenon DEF z
      <4> QED  BY <3>1, <4>1, <4>2, Zenon DEF Turned, b, Resting
    <3> QED  BY <3>2, <3>3, Zenon
  <2>4. CASE end[m + 1] =< n
    <3>1. f.whole /\ f.payload = g.payload /\ f.type = g.type
      BY <2>1, <2>4
    <3>2. CASE d # "frame" /\ ~Fits(g)
      <4>1. Turn(d, r) = [rest |-> r.rest, out |-> r.out, failed |-> TRUE]
        BY <1>0, <1>3, <1>4, <1>7, <2>2, <3>1, <3>2 DEF Fits
      <4> QED  BY <1>7, <2>1, <3>2, <4>1, Zenon DEF Turned, g
    <3>3. CASE d = "frame" \/ Fits(g)
      <4>1. Turn(d, r) = TakeFrame(r, f, item)
        <5> HIDE DEF f
        <5>1. CASE d = "frame"
          BY <1>4, <1>7, <3>1, <5>1 DEF Said
        <5>2. CASE d # "frame"
          <6>1. ~TooLarge(f) /\ ~(f.type = DataType /\ f.payload = <<>>)
            BY <2>2, <3>1, <3>3, <5>2, Zenon DEF Fits
          <6>2. ~(Len(b) < HeaderSize)
            BY <1>0, <1>3, <1>7
          <6> QED  BY <1>4, <1>7, <3>1, <5>2, <6>1, <6>2, Zenon DEF Said
        <5> QED  BY <5>1, <5>2
      <4>2. item = Said(d, g)
        BY <3>1, Zenon DEF Said, DecodedFrame, RawFrame
      <4>3. TakeFrame(r, f, item) = [rest |-> SubSeq(b, HeaderSize + f.size + 1, Len(b)), 
              out |-> IF KnownType(f.type) THEN Append(r.out, item) ELSE r.out, failed |-> FALSE]
        <5> HIDE DEF f, item
        <5> QED  BY <1>7, Zenon DEF TakeFrame, b
      <4>4. SubSeq(b, HeaderSize + f.size + 1, Len(b)) = SubSeq(w, end[m + 1] + 1, n)
        BY <2>1, <2>4
      <4>5. Turn(d, r) = [rest |-> SubSeq(w, end[m + 1] + 1, n), 
              out |-> IF KnownType(g.type) THEN Append(r.out, Said(d, g)) ELSE r.out, failed |-> FALSE]
        BY <3>1, <4>1, <4>2, <4>3, <4>4, Zenon
      <4> QED  BY <1>7, <2>1, <2>4, <3>3, <4>5, Zenon DEF Turned, g
    <3> QED  BY <3>2, <3>3, Zenon
  <2> QED  BY <2>3, <2>4, Zenon
<1>8. ~(Len(b) < HeaderSize) => Len(b) >= HeaderSize
  BY <1>0, <1>3
<1> QED  BY <1>5, <1>6, <1>7, <1>8, Zenon

\* One more frame among the items.
Grown(S, out, item, new) ==
    /\ new \in Seq(S) /\ \A h \in Seq(S) : h \o new = (h \o out) \o <<item>>
    /\ DOMAIN new = DOMAIN out \cup {Len(out) + 1}
    /\ \A x \in DOMAIN out : new[x] = out[x]
    /\ new[Len(out) + 1] = item

\* What appending an item does.
LEMMA ItemsGrow ==
    ASSUME NEW S, NEW out \in Seq(S), NEW item \in S
    PROVE  Grown(S, out, item, Append(out, item))
<1>1. /\ Append(out, item) \in Seq(S) /\ DOMAIN Append(out, item) = DOMAIN out \cup {Len(out) + 1}
      /\ \A x \in DOMAIN out : Append(out, item)[x] = out[x]
      /\ Append(out, item)[Len(out) + 1] = item
  OBVIOUS
<1>2. ASSUME NEW h \in Seq(S)
      PROVE  h \o Append(out, item) = (h \o out) \o <<item>>
  <2>1. Append(out, item) = out \o <<item>> /\ <<item>> \in Seq(S)
    OBVIOUS
  <2>2. h \o (out \o <<item>>) = (h \o out) \o <<item>>
    BY <2>1, ConcatAssociative
  <2> QED  BY <2>1, <2>2
<1> QED  BY <1>1, <1>2, Zenon DEF Grown

\* Every turn that takes a frame takes at least its header.
LEMMA TurnCounts ==
    ASSUME NEW a \in Nat, NEW e \in Nat, NEW c \in Nat, NEW n \in Nat, NEW i \in Nat, NEW l \in Nat,
           e = a + 2 + l, n - a + 2 * (i - 1) =< n - c
    PROVE  n - e + 2 * i =< n - c
<1>1. 2 * (i - 1) = 2 * i - 2
  OBVIOUS
<1> QED  BY <1>1

\* What a turn does keeps what its result means.
LEMMA TurnKeeps ==
    ASSUME NEW d \in {"frame", "mux"},
           NEW s, NEW w, NEW end, Laid(s, w, end), NEW k \in 0 .. Len(s), NEW n \in end[k] .. Len(w),
           NEW i \in Nat, i # 0, NEW r, NEW m, Decoded(d, s, w, end, k, n, i - 1, r, m)
    PROVE  \E l : Decoded(d, s, w, end, k, n, i, Turn(d, r), l)
<1> DEFINE q == Turn(d, r)
           S == Sayings(d, s)
<1>0. HeaderSize = 2
  BY DEF HeaderSize
<1>1. /\ s \in Seq(FrameRecs) /\ Len(s) \in Nat /\ k \in Nat /\ m \in Nat /\ k =< m /\ m =< Len(s)
      /\ m \in 0 .. Len(s) /\ n \in end[m] .. Len(w) /\ n \in Nat /\ end[k] \in Nat /\ end[m] \in Nat
  <2>1. s \in Seq(FrameRecs) /\ w \in Seq(Nat) /\ end \in [0 .. Len(s) -> Nat]
    BY DEF Laid
  <2>2. m \in k .. Len(s) /\ end[m] =< n
    BY DEF Decoded
  <2>3. Len(s) \in Nat /\ k \in Nat /\ m \in Nat /\ k =< m /\ m =< Len(s) /\ m \in 0 .. Len(s)
    <3> DEFINE l == Len(s)
    <3>1. l \in Nat /\ k \in 0 .. l /\ m \in k .. l
      BY <2>1, <2>2
    <3> HIDE DEF l
    <3>2. l \in Nat /\ k \in Nat /\ m \in Nat /\ k =< m /\ m =< l /\ m \in 0 .. l
      BY <3>1
    <3> QED  BY <3>2, Zenon DEF l
  <2>4. Len(w) \in Nat /\ end[k] \in Nat /\ end[m] \in Nat
    <3>1. Len(w) \in Nat
      BY <2>1
    <3> QED  BY <2>1, <2>3, <3>1, Zenon
  <2> DEFINE a == end[k]
             c == end[m]
             z == Len(w)
  <2>5. n \in Nat /\ n =< Len(w) /\ n \in end[m] .. Len(w)
    <3>1. a \in Nat /\ c \in Nat /\ z \in Nat /\ n \in a .. z /\ c =< n
      BY <2>2, <2>4, Zenon
    <3> HIDE DEF a, c, z
    <3>2. n \in Nat /\ n =< z /\ n \in c .. z
      BY <3>1
    <3> QED  BY <3>2, Zenon DEF c, z
  <2> QED  BY <2>1, <2>3, <2>4, <2>5, Zenon
<1>2. /\ r = [rest |-> SubSeq(w, end[m] + 1, n), out |-> r.out, failed |-> r.failed]
      /\ r.failed \in BOOLEAN /\ (d = "frame" => ~r.failed) /\ r.out \in Seq(S)
      /\ Heard(d, s, m) = Heard(d, s, k) \o r.out
      /\ \A j \in k + 1 .. m : KnownType(s[j].type) => \E x \in DOMAIN r.out : r.out[x] = Said(d, s[j])
      /\ \A x \in DOMAIN r.out : \E j \in k + 1 .. m : KnownType(s[j].type) /\ r.out[x] = Said(d, s[j])
      /\ d # "frame" => \A j \in k + 1 .. m : Fits(s[j])
      /\ Resting(d, s, end, n, r, m) \/ Len(r.rest) + HeaderSize * (i - 1) =< n - end[k]
      /\ end[m] =< n /\ m \in k .. Len(s)
      /\ r.failed => d # "frame" /\ m < Len(s) /\ ~Fits(s[m + 1])
  BY Zenon DEF Decoded
<1> HIDE DEF q, S
<1>3. CASE q = r /\ Resting(d, s, end, n, r, m)
  <2>1. Decoded(d, s, w, end, k, n, i, q, m)
    BY <1>2, <1>3, Zenon DEF Decoded, S
  <2> QED  BY <2>1 DEF q
<1>4. CASE /\ d # "frame" /\ ~r.failed /\ m + 1 \in 1 .. Len(s) /\ ~Fits(s[m + 1])
           /\ q = [rest |-> r.rest, out |-> r.out, failed |-> TRUE]
  <2>1. q.rest = r.rest /\ q.out = r.out /\ q.failed = TRUE /\ r.rest = SubSeq(w, end[m] + 1, n) /\ m < Len(s)
    <3> DEFINE l == Len(s)
               x == SubSeq(w, end[m] + 1, n)
    <3>1. l \in Nat /\ m \in Nat /\ m + 1 \in 1 .. l
      BY <1>1, <1>4, Zenon
    <3>2. r = [rest |-> x, out |-> r.out, failed |-> r.failed]
      BY <1>2, Zenon
    <3> HIDE DEF l, x
    <3>3. m < l
      BY <3>1
    <3>4. r.rest = x
      BY <3>2
    <3>5. q.rest = r.rest /\ q.out = r.out /\ q.failed = TRUE
      BY <1>4
    <3> QED  BY <3>3, <3>4, <3>5, Zenon DEF l, x
  <2>2. Resting(d, s, end, n, q, m)
    BY <2>1 DEF Resting
  <2>3. Decoded(d, s, w, end, k, n, i, q, m)
    BY <1>2, <1>4, <2>1, <2>2, Zenon DEF Decoded, S
  <2> QED  BY <2>3 DEF q
<1>5. CASE /\ ~r.failed /\ m + 1 \in 1 .. Len(s) /\ end[m + 1] =< n
           /\ d # "frame" => Fits(s[m + 1])
           /\ q = [rest |-> SubSeq(w, end[m + 1] + 1, n),
                   out |-> IF KnownType(s[m + 1].type) THEN Append(r.out, Said(d, s[m + 1])) ELSE r.out,
                   failed |-> FALSE]
  <2> DEFINE item == Said(d, s[m + 1])
             known == KnownType(s[m + 1].type)
             out == IF known THEN Append(r.out, item) ELSE r.out
  <2>1. q.rest = SubSeq(w, end[m + 1] + 1, n) /\ q.out = out /\ q.failed = FALSE
    BY <1>5
  <2>2. /\ m < Len(s) /\ m + 1 \in k .. Len(s) /\ m + 1 \in k + 1 .. m + 1
        /\ \A j \in k + 1 .. m + 1 : j \in k + 1 .. m \/ j = m + 1
        /\ \A j \in k + 1 .. m : j \in k + 1 .. m + 1
    BY <1>1, <1>5
  <2>3. item \in S
    BY <1>5, Zenon DEF Sayings, S
  <2>4. Heard(d, s, k) \in Seq(S)
    BY <1>1, HeardNext DEF S
  <2> HIDE DEF item
  <2>5. out \in Seq(S)
    BY <1>2, <2>3
  <2>6. Heard(d, s, m + 1) = Heard(d, s, k) \o out
    <3>1. Heard(d, s, m + 1) = Heard(d, s, m) \o (IF known THEN <<item>> ELSE <<>>)
      BY <1>1, <2>2, HeardNext DEF item
    <3>2. CASE known
      <4>1. Heard(d, s, k) \o Append(r.out, item) = (Heard(d, s, k) \o r.out) \o <<item>>
        <5>1. Grown(S, r.out, item, Append(r.out, item))
          BY <1>2, <2>3, ItemsGrow
        <5> QED  BY <2>4, <5>1, Zenon DEF Grown
      <4> QED  BY <1>2, <3>1, <3>2, <4>1
    <3>3. CASE ~known
      <4>1. Heard(d, s, m) \in Seq(S)
        BY <1>1, HeardNext DEF S
      <4>2. Heard(d, s, m) \o <<>> = Heard(d, s, m)
        BY <4>1, ConcatEmptySeq
      <4> QED  BY <1>2, <3>1, <3>3, <4>2
    <3> QED  BY <3>2, <3>3
  <2>7. /\ \A j \in k + 1 .. m + 1 : KnownType(s[j].type) => \E x \in DOMAIN out : out[x] = Said(d, s[j])
        /\ \A x \in DOMAIN out : \E j \in k + 1 .. m + 1 : KnownType(s[j].type) /\ out[x] = Said(d, s[j])
    <3>1. CASE known
      <4>1. /\ DOMAIN out = DOMAIN r.out \cup {Len(r.out) + 1}
            /\ \A x \in DOMAIN r.out : out[x] = r.out[x]
            /\ out[Len(r.out) + 1] = item
        <5>1. out = Append(r.out, item)
          BY <3>1
        <5> HIDE DEF out
        <5>2. Grown(S, r.out, item, out)
          BY <1>2, <2>3, <5>1, ItemsGrow
        <5> QED  BY <5>2, Zenon DEF Grown
      <4> HIDE DEF out
      <4>2. ASSUME NEW j \in k + 1 .. m + 1, KnownType(s[j].type)
            PROVE  \E x \in DOMAIN out : out[x] = Said(d, s[j])
        BY <1>2, <2>2, <4>1, <4>2, Zenon DEF item
      <4>3. ASSUME NEW x \in DOMAIN out
            PROVE  \E j \in k + 1 .. m + 1 : KnownType(s[j].type) /\ out[x] = Said(d, s[j])
        <5>1. CASE x \in DOMAIN r.out
          <6>1. PICK j \in k + 1 .. m : KnownType(s[j].type) /\ r.out[x] = Said(d, s[j])
            BY <1>2, <5>1, Zenon
          <6> QED  BY <2>2, <4>1, <5>1, <6>1, Zenon
        <5>2. CASE x = Len(r.out) + 1
          <6>1. out[x] = Said(d, s[m + 1]) /\ KnownType(s[m + 1].type)
            BY <3>1, <4>1, <5>2, Zenon DEF item
          <6> QED  BY <2>2, <6>1, Zenon
        <5> QED  BY <4>1, <4>3, <5>1, <5>2, Zenon
      <4> QED  BY <4>2, <4>3
    <3>2. CASE ~known
      <4>1. out = r.out
        BY <3>2
      <4> QED  BY <1>2, <2>2, <3>2, <4>1, Zenon
    <3> QED  BY <3>1, <3>2
  <2>8. d # "frame" => \A j \in k + 1 .. m + 1 : Fits(s[j])
    BY <1>2, <1>5, <2>2, Zenon
  <2>9. Len(q.rest) + HeaderSize * i =< n - end[k]
    <3>1. ~Resting(d, s, end, n, r, m)
      <4>1. end[m + 1] \in Nat
        BY <1>1, <2>2, FrameLaid
      <4>2. ~(n < end[m + 1]) /\ ~(m = Len(s))
        BY <1>1, <1>5, <2>2, <4>1
      <4> QED  BY <1>5, <4>2, Zenon DEF Resting
    <3>2. Len(r.rest) = n - end[m]
      <4>1. r.rest = SubSeq(w, end[m] + 1, n)
        BY <1>2
      <4>2. Found(s, w, end, m, n, SubSeq(w, end[m] + 1, n))
        BY <1>1, HeadFound
      <4> QED  BY <4>1, <4>2 DEF Found
    <3>3. Len(q.rest) = n - end[m + 1]
      <4>1. m + 1 \in 0 .. Len(s) /\ n \in end[m + 1] .. Len(w)
        <5>1. end[m + 1] \in Nat /\ m + 1 \in 0 .. Len(s)
          BY <1>1, <2>2, FrameLaid
        <5> QED  BY <1>1, <1>5, <5>1
      <4>2. Found(s, w, end, m + 1, n, SubSeq(w, end[m + 1] + 1, n))
        BY <4>1, HeadFound
      <4> QED  BY <2>1, <4>2 DEF Found
    <3>4. end[m + 1] = end[m] + HeaderSize + Len(s[m + 1].payload) /\ Len(s[m + 1].payload) \in Nat
      BY <1>1, <2>2, FrameLaid
    <3>5. n - end[m] + HeaderSize * (i - 1) =< n - end[k]
      BY <1>2, <3>1, <3>2
    <3>6. end[m + 1] \in Nat /\ end[m + 1] = end[m] + 2 + Len(s[m + 1].payload)
          /\ n - end[m] + 2 * (i - 1) =< n - end[k]
      BY <1>0, <1>1, <2>2, <3>4, <3>5, FrameLaid, Zenon
    <3>8. n - end[m + 1] + 2 * i =< n - end[k]
      <4> DEFINE a == end[m]
                 e == end[m + 1]
                 c == end[k]
                 l == Len(s[m + 1].payload)
      <4>1. a \in Nat /\ e \in Nat /\ c \in Nat /\ l \in Nat /\ e = a + 2 + l /\ n - a + 2 * (i - 1) =< n - c
        BY <1>1, <3>4, <3>6, Zenon
      <4> HIDE DEF a, e, c, l
      <4>2. n - e + 2 * i =< n - c
        BY <1>1, <4>1, TurnCounts
      <4> QED  BY <4>2 DEF e, c
    <3> QED  BY <1>0, <3>3, <3>8, Zenon
  <2> HIDE DEF out, known
  <2>10. q = [rest |-> SubSeq(w, end[m + 1] + 1, n), out |-> q.out, failed |-> q.failed]
    BY <1>5, <2>1, Zenon DEF out, known, item
  <2>11. Decoded(d, s, w, end, k, n, i, q, m + 1)
    BY <1>5, <2>1, <2>2, <2>5, <2>6, <2>7, <2>8, <2>9, <2>10, Zenon DEF Decoded, S
  <2> QED  BY <2>11 DEF q
<1>6. Turned(d, s, w, end, n, r, m, q)
  BY <1>1, <1>2, TurnDoes DEF q
<1> QED  BY <1>3, <1>4, <1>5, <1>6, Zenon DEF Turned

\* Before the first turn nothing has been taken.
LEMMA ParsedFirst ==
    ASSUME NEW d, NEW b
    PROVE  Parsed(d, b, 0, b)
<1> SUFFICES ASSUME NEW s, NEW w, NEW end, NEW k \in 0 .. Len(s), NEW n \in end[k] .. Len(w),
                    Laid(s, w, end), b = Begin(SubSeq(w, end[k] + 1, n))
             PROVE  Decoded(d, s, w, end, k, n, 0, b, k)
  BY Zenon DEF Parsed
<1> DEFINE x == SubSeq(w, end[k] + 1, n)
<1>1. Found(s, w, end, k, n, x)
  BY HeadFound
<1> HIDE DEF x
<1>2. b = [rest |-> x, out |-> <<>>, failed |-> FALSE]
  BY DEF Begin, x
<1>3. b.rest = x /\ b.out = <<>> /\ b.failed = FALSE
  BY <1>2
<1>4. Len(x) = n - end[k] /\ n \in Nat /\ end[k] \in Nat
  BY <1>1 DEF Found
<1>5. Len(b.rest) + HeaderSize * 0 =< n - end[k] /\ end[k] =< n
  BY <1>3, <1>4 DEF HeaderSize
<1>6. k \in k .. Len(s) /\ \A j \in k + 1 .. k : FALSE
  <2>1. Len(s) \in Nat
    BY DEF Laid
  <2> QED  BY <2>1
<1>7. Heard(d, s, k) = Heard(d, s, k) \o <<>>
  <2>1. s \in Seq(FrameRecs)
    BY DEF Laid
  <2>2. Heard(d, s, k) \in Seq(Sayings(d, s))
    BY <2>1, HeardNext
  <2> QED  BY <2>2, ConcatEmptySeq
<1>8. <<>> \in Seq(Sayings(d, s)) /\ \A y \in DOMAIN <<>> : FALSE
  OBVIOUS
<1> QED  BY <1>2, <1>3, <1>5, <1>6, <1>7, <1>8, Zenon DEF Decoded, x

\* Every further turn keeps it.
LEMMA ParsedNext ==
    ASSUME NEW d \in {"frame", "mux"}, NEW b, NEW r, NEW i \in Nat, i # 0, Parsed(d, b, i - 1, r)
    PROVE  Parsed(d, b, i, Turn(d, r))
<1> SUFFICES ASSUME NEW s, NEW w, NEW end, NEW k \in 0 .. Len(s), NEW n \in end[k] .. Len(w),
                    Laid(s, w, end), b = Begin(SubSeq(w, end[k] + 1, n))
             PROVE  \E l : Decoded(d, s, w, end, k, n, i, Turn(d, r), l)
  BY Zenon DEF Parsed
<1>1. PICK m : Decoded(d, s, w, end, k, n, i - 1, r, m)
  BY Zenon DEF Parsed
<1> QED  BY <1>1, TurnKeeps

\* The loops are folds.
LEMMA FrameFolded == \A x, y : FoldLeft(FrameTurn, x, y) = FrameFolds!Fold(x, y)
  BY Zenon DEF FrameFolds!Fold, FrameFolds!FoldLeft, FrameFolds!MapThenFoldSet, FrameFolds!Max,
    FoldLeft, MapThenFoldSet, Max

\* The same of the mux.
LEMMA MuxFolded == \A x, y : FoldLeft(MuxTurn, x, y) = MuxFolds!Fold(x, y)
  BY Zenon DEF MuxFolds!Fold, MuxFolds!FoldLeft, MuxFolds!MapThenFoldSet, MuxFolds!Max,
    FoldLeft, MapThenFoldSet, Max

\* The loops end when nothing more can be taken.
Loop(d, b) == IF d = "frame" THEN FoldLeft(FrameTurn, Begin(b), Turns(b))
              ELSE FoldLeft(MuxTurn, Begin(b), Turns(b))

\* So it holds of the result of the loops.
LEMMA LoopParses ==
    ASSUME NEW d \in {"frame", "mux"}, NEW b, Len(b) \in Nat
    PROVE  Len(b) \div HeaderSize \in Nat /\ Parsed(d, Begin(b), Len(b) \div HeaderSize, Loop(d, b))
<1> DEFINE n == Len(b) \div HeaderSize
           t == Turns(b)
           a == Begin(b)
<1>1. n \in Nat /\ DOMAIN t = 1 .. n
  BY DEF HeaderSize, Turns
<1> HIDE DEF n, t, a
<1>2. \A i \in 1 .. n : i \in Nat /\ i # 0
  BY <1>1
<1>3. CASE d = "frame"
  <2>1. FrameParsed(a, t, 0, a)
    BY ParsedFirst DEF FrameParsed
  <2>2. \A i \in 1 .. n : \A r : FrameParsed(a, t, i - 1, r) => FrameParsed(a, t, i, FrameTurn(r, t[i]))
    <3> TAKE i \in 1 .. n
    <3> TAKE r
    <3>1. FrameTurn(r, t[i]) = Turn("frame", r)
      BY Zenon DEF Turn, FrameTurn
    <3> QED  BY <1>2, <3>1, ParsedNext DEF FrameParsed
  <2>3. FrameParsed(a, t, n, FrameFolds!Fold(a, t))
    BY <1>1, <2>1, <2>2, FrameFolds!FoldInvariant
  <2>4. FrameFolds!Fold(a, t) = Loop(d, b)
    BY <1>3, FrameFolded, Zenon DEF Loop, a, t
  <2> QED  BY <1>1, <1>3, <2>3, <2>4, Zenon DEF FrameParsed, n, a
<1>4. CASE d = "mux"
  <2>1. MuxParsed(a, t, 0, a)
    BY ParsedFirst DEF MuxParsed
  <2>2. \A i \in 1 .. n : \A r : MuxParsed(a, t, i - 1, r) => MuxParsed(a, t, i, MuxTurn(r, t[i]))
    <3> TAKE i \in 1 .. n
    <3> TAKE r
    <3>1. MuxTurn(r, t[i]) = Turn("mux", r)
      BY Zenon DEF Turn, MuxTurn
    <3> QED  BY <1>2, <3>1, ParsedNext DEF MuxParsed
  <2>3. MuxParsed(a, t, n, MuxFolds!Fold(a, t))
    BY <1>1, <2>1, <2>2, MuxFolds!FoldInvariant
  <2>4. MuxFolds!Fold(a, t) = Loop(d, b)
    BY <1>4, MuxFolded, Zenon DEF Loop, a, t
  <2> QED  BY <1>1, <1>4, <2>3, <2>4, Zenon DEF MuxParsed, n, a
<1> QED  BY <1>3, <1>4

\* What the loop makes of the bytes after the end of frame k.
LEMMA LoopEnds ==
    ASSUME NEW d \in {"frame", "mux"},
           NEW s, NEW w, NEW end, Laid(s, w, end), NEW k \in 0 .. Len(s), NEW n \in end[k] .. Len(w),
           NEW b, b = SubSeq(w, end[k] + 1, n)
    PROVE  \E i, m : Decoded(d, s, w, end, k, n, i, Loop(d, b), m) /\ Resting(d, s, end, n, Loop(d, b), m)
<1> DEFINE i == Len(b) \div HeaderSize
           r == Loop(d, b)
<1>0. HeaderSize = 2 /\ MaxPayload \in Nat /\ MaxPayload # 0
  BY CodecAssumption DEF HeaderSize
<1>1. Len(b) = n - end[k] /\ n \in Nat /\ end[k] \in Nat /\ Len(b) \in Nat
  <2>1. Found(s, w, end, k, n, b)
    BY HeadFound
  <2>2. Len(b) = n - end[k] /\ n \in Nat /\ end[k] \in Nat
    BY <2>1, Zenon DEF Found
  <2> QED  BY <2>2
<1>2. i \in Nat /\ Parsed(d, Begin(b), i, r)
  BY <1>1, LoopParses
<1>3. PICK m : Decoded(d, s, w, end, k, n, i, r, m)
  BY <1>2, Zenon DEF Parsed
<1>4. CASE Resting(d, s, end, n, r, m)
  BY <1>3, <1>4
<1>5. CASE ~Resting(d, s, end, n, r, m)
  <2>1. Len(r.rest) + HeaderSize * i =< n - end[k] /\ m \in k .. Len(s) /\ end[m] =< n
        /\ r = [rest |-> SubSeq(w, end[m] + 1, n), out |-> r.out, failed |-> r.failed]
    BY <1>3, <1>5, Zenon DEF Decoded
  <2>2. m \in 0 .. Len(s) /\ n \in end[m] .. Len(w)
    <3>1. end \in [0 .. Len(s) -> Nat] /\ Len(s) \in Nat /\ Len(w) \in Nat
      BY DEF Laid
    <3>2. m \in 0 .. Len(s)
      BY <2>1, <3>1
    <3> QED  BY <1>1, <2>1, <3>1, <3>2
  <2>3. r.rest = SubSeq(w, end[m] + 1, n)
    BY <2>1
  <2>4. Found(s, w, end, m, n, r.rest)
    BY <2>2, <2>3, HeadFound
  <2> DEFINE l == Len(r.rest)
             t == Len(b)
  <2>5. l = n - end[m] /\ end[m] \in Nat /\ (l < HeaderSize => m = Len(s) \/ n < end[m + 1])
    BY <2>4, Zenon DEF Found
  <2>6. l + 2 * (t \div 2) =< t /\ l \in Nat /\ t \in Nat
    <3>1. l + 2 * i =< t
      BY <1>0, <1>1, <2>1
    <3>2. i = t \div 2 /\ t \in Nat
      BY <1>0, <1>1, Zenon
    <3>3. l \in Nat
      BY <1>1, <2>1, <2>5
    <3> QED  BY <3>1, <3>2, <3>3, Zenon
  <2> HIDE DEF l, t
  <2>7. l < 2
    BY <2>6
  <2>8. l < HeaderSize /\ l < HeaderSize + MaxPayload
    BY <1>0, <2>6, <2>7
  <2> QED  BY <1>5, <2>5, <2>8, Zenon DEF Resting, l
<1> QED  BY <1>4, <1>5

----------------------------------------------------------------------------
(* What a peer sends *)

\* The bytes of the first k frames, and where they end.
Wire(s, k) == FlattenSeq([i \in 1 .. k |-> Envelope(s[i])])
Ends(s) == [k \in 0 .. Len(s) |-> Len(Wire(s, k))]

\* The bytes of a frame: its length, its type, its payload.
LEMMA EnvelopeIs ==
    ASSUME NEW f \in FrameRecs
    PROVE  /\ Envelope(f) \in Seq(Nat) /\ Len(Envelope(f)) = HeaderSize + Len(f.payload) /\ Len(f.payload) \in Nat
           /\ Envelope(f)[1] = Len(f.payload) /\ Envelope(f)[2] = f.type
           /\ \A j \in 1 .. Len(f.payload) : Envelope(f)[HeaderSize + j] = f.payload[j]
<1> DEFINE p == f.payload
           h == <<Len(p), f.type>>
<1>1. p \in Seq(Nat) /\ f.type \in Nat /\ Len(p) \in Nat
  BY DEF FrameRecs
<1>2. h \in Seq(Nat) /\ Len(h) = 2 /\ h[1] = Len(p) /\ h[2] = f.type
  BY <1>1
<1> HIDE DEF p, h
<1>3. /\ h \o p \in Seq(Nat) /\ Len(h \o p) = Len(h) + Len(p)
      /\ \A j \in 1 .. Len(h) : (h \o p)[j] = h[j]
      /\ \A j \in 1 .. Len(p) : (h \o p)[Len(h) + j] = p[j]
  BY <1>1, <1>2, FrameFolds!JoinIs
<1>4. (h \o p)[1] = Len(p) /\ (h \o p)[2] = f.type
  <2>1. 1 \in 1 .. Len(h) /\ 2 \in 1 .. Len(h)
    BY <1>2
  <2> QED  BY <1>2, <1>3, <2>1
<1>5. Len(h \o p) = 2 + Len(p) /\ \A j \in 1 .. Len(p) : (h \o p)[2 + j] = p[j]
  BY <1>2, <1>3
<1>6. Envelope(f) = h \o p
  BY DEF Envelope, h, p
<1> QED  BY <1>1, <1>3, <1>4, <1>5, <1>6 DEF HeaderSize, p

\* The stream grows by one frame after the other.
LEMMA WireNext ==
    ASSUME NEW s \in Seq(FrameRecs), NEW k \in 0 .. Len(s)
    PROVE  /\ Wire(s, 0) = <<>> /\ Wire(s, k) \in Seq(Nat)
           /\ k < Len(s) => Wire(s, k + 1) = Wire(s, k) \o Envelope(s[k + 1])
<1> DEFINE n == Len(s)
           p == [j \in 1 .. n |-> Envelope(s[j])]
<1>1. n \in Nat /\ k \in 0 .. n
  OBVIOUS
<1>2. ASSUME NEW j \in 1 .. n
      PROVE  Envelope(s[j]) \in Seq(Nat)
  <2>1. s[j] \in FrameRecs
    OBVIOUS
  <2> QED  BY <2>1, EnvelopeIs
<1> HIDE DEF n
<1> DEFINE S == Nat
<1>3. p \in [1 .. n -> Seq(S)]
  BY <1>2
<1>4. ASSUME NEW j \in 0 .. n
      PROVE  Wire(s, j) = Joined(p, j)
  <2>1. \A i \in 1 .. j : p[i] = Envelope(s[i])
    BY <1>1
  <2> HIDE DEF p
  <2>2. [i \in 1 .. j |-> p[i]] = [i \in 1 .. j |-> Envelope(s[i])]
    BY <2>1, Zenon
  <2> QED  BY <2>2, Zenon DEF Wire, Joined
<1>5. k < n => k + 1 \in 0 .. n /\ k + 1 \in 1 .. n
  BY <1>1
<1>6. 0 \in 0 .. n /\ (k < n => p[k + 1] = Envelope(s[k + 1]))
  BY <1>1, <1>5
<1> HIDE DEF p, S
<1>7. Joined(p, 0) = <<>> /\ Joined(p, k) \in Seq(S) /\ (k < n => Joined(p, k + 1) = Joined(p, k) \o p[k + 1])
  BY <1>1, <1>3, JoinedNext, Zenon
<1>8. /\ Wire(s, 0) = Joined(p, 0) /\ Wire(s, k) = Joined(p, k)
      /\ k < n => Wire(s, k + 1) = Joined(p, k + 1)
  BY <1>1, <1>4, <1>5, <1>6
<1> QED  BY <1>6, <1>7, <1>8, Zenon DEF n, S

\* What has been sent stays where it is.
LEMMA WireKept ==
    ASSUME NEW s \in Seq(FrameRecs), NEW k \in 0 .. Len(s), NEW m \in 0 .. Len(s), k =< m
    PROVE  Len(Wire(s, k)) =< Len(Wire(s, m)) /\ \A j \in 1 .. Len(Wire(s, k)) : Wire(s, m)[j] = Wire(s, k)[j]
<1> DEFINE W(i) == Wire(s, i)
           Kept(i) == Len(W(k)) =< Len(W(i)) /\ \A j \in 1 .. Len(W(k)) : W(i)[j] = W(k)[j]
           n == Len(s)
<1> SUFFICES ASSUME ~Kept(m) PROVE FALSE
  OBVIOUS
<1>0. n \in Nat /\ k \in 0 .. n /\ m \in 0 .. n
  OBVIOUS
<1>1. \A i \in 0 .. n : W(i) \in Seq(Nat) /\ Len(W(i)) \in Nat
  <2>1. \A i \in 0 .. n : W(i) \in Seq(Nat)
    BY WireNext
  <2> HIDE DEF W
  <2> QED  BY <2>1
<1>2. ASSUME NEW i \in 0 .. n, i < n
      PROVE  /\ Len(W(i)) =< Len(W(i + 1))
             /\ \A j \in 1 .. Len(W(i)) : W(i + 1)[j] = W(i)[j]
  <2> DEFINE x == W(i)
             e == Envelope(s[i + 1])
  <2>1. W(i + 1) = x \o e
    BY <1>2, WireNext
  <2>2. e \in Seq(Nat)
    <3>1. s[i + 1] \in FrameRecs
      BY <1>2
    <3> QED  BY <3>1, EnvelopeIs
  <2>3. x \in Seq(Nat)
    BY <1>1
  <2> HIDE DEF x, e, W
  <2>4. Len(x \o e) = Len(x) + Len(e) /\ Len(x) \in Nat /\ Len(e) \in Nat
        /\ \A j \in 1 .. Len(x) : (x \o e)[j] = x[j]
    BY <2>2, <2>3, FrameFolds!JoinIs
  <2>5. Len(x) =< Len(x \o e)
    BY <2>4
  <2> QED  BY <2>1, <2>4, <2>5 DEF x
<1> HIDE DEF W, n
<1> DEFINE Bad == {i \in k .. n : ~Kept(i)}
<1>3. PICK i \in Bad : \A y \in Bad : i =< y
  <2>1. Bad \subseteq Nat /\ m \in Bad
    BY <1>0
  <2> HIDE DEF Bad
  <2> QED  BY <2>1, FrameFolds!LeastNat
<1>4. i # k
  <2>1. Kept(k)
    BY <1>0, <1>1
  <2> QED  BY <1>3, <2>1
<1> DEFINE h == i - 1
<1>5. h \in k .. n /\ h \in 0 .. n /\ h < n /\ h + 1 = i /\ h \notin Bad /\ i \in 0 .. n
  BY <1>0, <1>3, <1>4
<1> HIDE DEF h
<1>6. Kept(h)
  BY <1>5
<1>7. Len(W(h)) =< Len(W(i)) /\ \A j \in 1 .. Len(W(h)) : W(i)[j] = W(h)[j]
  BY <1>2, <1>5
<1>8. Len(W(k)) =< Len(W(i))
  BY <1>0, <1>1, <1>5, <1>6, <1>7
<1>9. \A j \in 1 .. Len(W(k)) : W(i)[j] = W(k)[j]
  <2> TAKE j \in 1 .. Len(W(k))
  <2>1. j \in 1 .. Len(W(h))
    BY <1>0, <1>1, <1>5, <1>6
  <2> QED  BY <1>6, <1>7, <2>1
<1> QED  BY <1>3, <1>8, <1>9

\* The stream of the frames is what it should be.
LEMMA StreamLaid ==
    ASSUME NEW s \in Seq(FrameRecs)
    PROVE  Laid(s, Wire(s, Len(s)), Ends(s))
<1> DEFINE n == Len(s)
           w == Wire(s, n)
           end == Ends(s)
<1>1. n \in Nat
  OBVIOUS
<1>2. \A k \in 0 .. n : end[k] = Len(Wire(s, k)) /\ Wire(s, k) \in Seq(Nat)
  BY WireNext DEF Ends
<1>3. w \in Seq(Nat) /\ end \in [0 .. n -> Nat] /\ end[0] = 0 /\ end[n] = Len(w)
  <2>1. n \in 0 .. n /\ 0 \in 0 .. n
    BY <1>1
  <2>2. Len(Wire(s, 0)) = 0
    BY <2>1, WireNext
  <2>3. \A k \in 0 .. n : Len(Wire(s, k)) \in Nat
    BY <1>2
  <2> QED  BY <1>2, <2>1, <2>2, <2>3 DEF Ends
<1>4. ASSUME NEW k \in 0 .. n - 1
      PROVE  /\ end[k + 1] = end[k] + HeaderSize + Len(s[k + 1].payload)
             /\ w[end[k] + 1] = Len(s[k + 1].payload)
             /\ w[end[k] + 2] = s[k + 1].type
             /\ \A j \in 1 .. Len(s[k + 1].payload) : w[end[k] + HeaderSize + j] = s[k + 1].payload[j]
  <2> DEFINE f == s[k + 1]
             e == Envelope(f)
             x == Wire(s, k)
             l == Len(f.payload)
             y == Wire(s, k + 1)
  <2>1. k \in 0 .. n /\ k < n /\ k + 1 \in 1 .. n /\ k + 1 \in 0 .. n /\ f \in FrameRecs
    <3>1. k \in 0 .. n /\ k < n /\ k + 1 \in 1 .. n /\ k + 1 \in 0 .. n
      BY <1>1
    <3> QED  BY <3>1
  <2>2. /\ e \in Seq(Nat) /\ Len(e) = HeaderSize + l /\ l \in Nat /\ e[1] = l /\ e[2] = f.type
        /\ \A j \in 1 .. l : e[HeaderSize + j] = f.payload[j]
    BY <2>1, EnvelopeIs
  <2>3. x \in Seq(Nat) /\ y = x \o e /\ end[k] = Len(x) /\ end[k + 1] = Len(y)
    BY <1>2, <2>1, WireNext
  <2>4. Len(y) =< Len(w) /\ \A j \in 1 .. Len(y) : w[j] = y[j]
    <3>1. n \in 0 .. Len(s) /\ k + 1 =< n
      BY <1>1, <2>1
    <3> QED  BY <2>1, <3>1, WireKept
  <2> HIDE DEF f, e, x, l, w, end
  <2>5. /\ Len(x \o e) = Len(x) + Len(e) /\ Len(x) \in Nat /\ Len(e) \in Nat
        /\ \A j \in 1 .. Len(e) : (x \o e)[Len(x) + j] = e[j]
    BY <2>2, <2>3, FrameFolds!JoinIs
  <2>6. ASSUME NEW i \in 1 .. Len(e)
        PROVE  w[Len(x) + i] = e[i]
    <3>1. Len(x) + i \in 1 .. Len(y)
      BY <2>3, <2>5
    <3> QED  BY <2>3, <2>4, <2>5, <3>1
  <2>7. end[k + 1] = end[k] + HeaderSize + l
    BY <2>2, <2>3, <2>5 DEF HeaderSize
  <2>8. w[end[k] + 1] = l /\ w[end[k] + 2] = f.type
    <3>1. 1 \in 1 .. Len(e) /\ 2 \in 1 .. Len(e)
      BY <2>2 DEF HeaderSize
    <3> QED  BY <2>2, <2>3, <2>6, <3>1
  <2>9. ASSUME NEW j \in 1 .. l
        PROVE  w[end[k] + HeaderSize + j] = f.payload[j]
    <3>1. HeaderSize + j \in 1 .. Len(e) /\ Len(x) + (HeaderSize + j) = Len(x) + HeaderSize + j
      BY <2>2, <2>5 DEF HeaderSize
    <3>2. w[Len(x) + (HeaderSize + j)] = e[HeaderSize + j]
      BY <2>6, <3>1
    <3> QED  BY <2>2, <2>3, <3>1, <3>2
  <2> QED  BY <2>7, <2>8, <2>9 DEF f, l
<1> HIDE DEF w, end, n
<1>5. s \in Seq(FrameRecs) /\ n = Len(s)
  BY DEF n
<1>6. Laid(s, w, end)
  BY <1>3, <1>4, <1>5, Zenon DEF Laid
<1> QED  BY <1>6 DEF w, end, n

----------------------------------------------------------------------------
(* What a decoder does with a chunk *)

\* What each decoder accepts, and what it does with the bytes it has.
Framing(d) == IF d = "frame" THEN "frame" ELSE "mux"
Accepts(d, f) == d = "frame" \/ (Fits(f) /\ ~(d = "mux" /\ f.type = ControlType /\ f.payload # <<Parses>>))
PushAs(d, b) == IF d = "frame" THEN PushFrames(b) ELSE IF d = "mux" THEN PushStrict(b) ELSE PushMux(b)

\* All frames up to the m-th are decoded, and the next one is not there yet.
Caught(d, s, end, n, rest, m) ==
  /\ m = Len(s) \/ n < end[m + 1]
  /\ \A j \in 1 .. m : Accepts(d, s[j])
  /\ d # "frame" => Len(rest) < HeaderSize + MaxPayload

\* What the decoder d, which has taken k frames, makes of the bytes after them up to n.
Pushed(d, s, w, end, k, n, q) ==
  /\ q.failed \in BOOLEAN
  /\ IF q.failed
     THEN /\ q.out = <<>> /\ \E j \in 1 .. Len(s) : ~Accepts(d, s[j])
          /\ \E a \in 0 .. n : q.rest = SubSeq(w, a + 1, n)
     ELSE \E m \in k .. Len(s) :
            /\ end[m] =< n /\ q.rest = SubSeq(w, end[m] + 1, n)
            /\ Heard(Framing(d), s, m) = Heard(Framing(d), s, k) \o q.out
            /\ Caught(d, s, end, n, q.rest, m)

\* A control message that does not parse.
LEMMA GarbledIs ==
    ASSUME NEW f
    PROVE  IsGarbled(Said("mux", f)) <=> f.type = ControlType /\ f.payload # <<Parses>>
<1>1. CASE f.type = ControlType
  <2>1. Said("mux", f) = [type |-> ControlType, id |-> <<>>, data |-> f.payload]
    BY <1>1, Zenon DEF Said, RawFrame
  <2> QED  BY <1>1, <2>1 DEF IsGarbled
<1>2. CASE f.type # ControlType
  <2> DEFINE end == IF 1 + f.payload[1] < Len(f.payload) THEN 1 + f.payload[1] ELSE Len(f.payload)
             id == SubSeq(f.payload, 2, end)
             data == SubSeq(f.payload, end + 1, Len(f.payload))
  <2>1. Said("mux", f) = [type |-> DataType, id |-> id, data |-> data]
    BY <1>2, Zenon DEF Said, RawFrame
  <2> HIDE DEF id, data
  <2>2. Said("mux", f).type = DataType
    BY <2>1
  <2> QED  BY <1>2, <2>2 DEF IsGarbled, DataType, ControlType
<1> QED  BY <1>1, <1>2

\* A decoder returns what the frames it accepts say, and fails only for cause.
LEMMA PushDoes ==
    ASSUME NEW d \in {"frame", "mux", "raw"},
           NEW s, NEW w, NEW end, Laid(s, w, end), NEW k \in 0 .. Len(s), NEW n \in end[k] .. Len(w),
           \A j \in 1 .. k : Accepts(d, s[j]),
           NEW b, b = SubSeq(w, end[k] + 1, n)
    PROVE  Pushed(d, s, w, end, k, n, PushAs(d, b))
<1> DEFINE t == Framing(d)
           r == Loop(t, b)
           q == PushAs(d, b)
<1>0. t \in {"frame", "mux"} /\ (t = "frame" <=> d = "frame") /\ (d # "frame" => t = "mux")
  BY DEF Framing
<1>1. PICK i, m : Decoded(t, s, w, end, k, n, i, r, m) /\ Resting(t, s, end, n, r, m)
  BY <1>0, LoopEnds
<1>2. /\ Len(s) \in Nat /\ k \in 0 .. Len(s) /\ end[k] \in 0 .. n /\ n \in Nat
      /\ m \in k .. Len(s) /\ end[m] =< n /\ end[m] \in 0 .. n
  <2>1. Len(s) \in Nat /\ Len(w) \in Nat /\ end \in [0 .. Len(s) -> Nat]
    BY DEF Laid
  <2>2. m \in k .. Len(s) /\ end[m] =< n
    BY <1>1, Zenon DEF Decoded
  <2>3. end[k] \in Nat /\ end[m] \in Nat
    BY <2>1, <2>2
  <2> QED  BY <2>1, <2>2, <2>3
<1>3. /\ r = [rest |-> SubSeq(w, end[m] + 1, n), out |-> r.out, failed |-> r.failed]
      /\ r.failed \in BOOLEAN /\ Heard(t, s, m) = Heard(t, s, k) \o r.out
      /\ \A j \in k + 1 .. m : KnownType(s[j].type) => \E x \in DOMAIN r.out : r.out[x] = Said(t, s[j])
      /\ \A x \in DOMAIN r.out : \E j \in k + 1 .. m : KnownType(s[j].type) /\ r.out[x] = Said(t, s[j])
      /\ d # "frame" => \A j \in k + 1 .. m : Fits(s[j])
      /\ r.failed => d # "frame" /\ m < Len(s) /\ ~Fits(s[m + 1])
      /\ r.failed \/ m = Len(s) \/ n < end[m + 1]
      /\ d # "frame" => r.failed \/ Len(r.rest) < HeaderSize + MaxPayload
  BY <1>0, <1>1, Zenon DEF Decoded, Resting
<1>4. r.rest = SubSeq(w, end[m] + 1, n)
  BY <1>3
<1>5. d = "frame" => PushFrames(b) = r
  BY Zenon DEF Framing, PushFrames, Loop
<1>6. d # "frame" => PushMux(b) = IF r.failed THEN Rejected(b) ELSE r
  BY <1>0, Zenon DEF PushMux, Loop
<1> HIDE DEF r, t
<1>7. ASSUME NEW x, x = Rejected(x.rest), \E a \in 0 .. n : x.rest = SubSeq(w, a + 1, n),
             \E j \in 1 .. Len(s) : ~Accepts(d, s[j])
      PROVE  Pushed(d, s, w, end, k, n, x)
  <2> DEFINE y == x.rest
  <2>2. x = Rejected(y)
    BY <1>7
  <2> HIDE DEF y
  <2>1. x.failed = TRUE /\ x.out = <<>> /\ x.failed \in BOOLEAN
    BY <2>2 DEF Rejected
  <2> QED  BY <1>7, <2>1, Zenon DEF Pushed
<1>8. ASSUME ~r.failed, \A j \in k + 1 .. m : Accepts(d, s[j])
      PROVE  Pushed(d, s, w, end, k, n, r)
  <2>1. \A j \in 1 .. m : j \in 1 .. k \/ j \in k + 1 .. m
    BY <1>2
  <2>2. Caught(d, s, end, n, r.rest, m)
    BY <1>3, <1>8, <2>1, Zenon DEF Caught
  <2> QED  BY <1>2, <1>3, <1>4, <1>8, <2>2, Zenon DEF Pushed, t
<1>9. CASE d = "frame"
  <2>1. q = r /\ ~r.failed
    BY <1>3, <1>5, <1>9, Zenon DEF PushAs
  <2>2. \A j \in k + 1 .. m : Accepts(d, s[j])
    BY <1>9, Zenon DEF Accepts
  <2> QED  BY <1>8, <2>1, <2>2
<1>10. CASE d # "frame" /\ r.failed
  <2> DEFINE x == Rejected(b)
  <2>1. PushMux(b) = x /\ x.out = <<>> /\ x.rest = b /\ x = Rejected(x.rest)
    BY <1>6, <1>10 DEF Rejected
  <2>2. q = x
    <3>1. DOMAIN x.out = {}
      BY <2>1
    <3> HIDE DEF x
    <3>2. PushStrict(b) = x
      BY <2>1, <3>1, Zenon DEF PushStrict
    <3> QED  BY <1>10, <2>1, <3>2, Zenon DEF PushAs
  <2>3. \E j \in 1 .. Len(s) : ~Accepts(d, s[j])
    <3>1. m + 1 \in 1 .. Len(s) /\ ~Fits(s[m + 1])
      BY <1>2, <1>3, <1>10
    <3> QED  BY <1>10, <3>1, Zenon DEF Accepts
  <2>4. \E a \in 0 .. n : x.rest = SubSeq(w, a + 1, n)
    BY <1>2, <2>1
  <2> HIDE DEF x, q
  <2>5. Pushed(d, s, w, end, k, n, x)
    BY <1>7, <2>1, <2>3, <2>4
  <2> QED  BY <2>2, <2>5 DEF q
<1>11. CASE d # "frame" /\ ~r.failed
  <2>1. PushMux(b) = r /\ t = "mux"
    BY <1>0, <1>6, <1>11
  <2>2. CASE d = "mux" /\ \E i_1 \in DOMAIN r.out : IsGarbled(r.out[i_1])
    <3>1. q = Rejected(r.rest)
      BY <1>11, <2>1, <2>2, Zenon DEF PushAs, PushStrict
    <3> HIDE DEF q
    <3>2. q = Rejected(q.rest) /\ q.rest = r.rest
      BY <3>1 DEF Rejected
    <3>3. PICK x \in DOMAIN r.out : IsGarbled(r.out[x])
      BY <2>2
    <3>4. PICK j \in k + 1 .. m : KnownType(s[j].type) /\ r.out[x] = Said("mux", s[j])
      BY <1>3, <2>1, Zenon
    <3>5. ~Accepts(d, s[j])
      BY <2>2, <3>3, <3>4, GarbledIs, Zenon DEF Accepts
    <3>6. j \in 1 .. Len(s)
      BY <1>2
    <3>7. \E a \in 0 .. n : q.rest = SubSeq(w, a + 1, n)
      BY <1>2, <1>4, <3>2, Zenon
    <3>8. Pushed(d, s, w, end, k, n, q)
      BY <1>7, <3>2, <3>5, <3>6, <3>7
    <3> QED  BY <3>8 DEF q
  <2>3. CASE ~(d = "mux" /\ \E i_1 \in DOMAIN r.out : IsGarbled(r.out[i_1]))
    <3>1. q = r
      BY <1>11, <2>1, <2>3, Zenon DEF PushAs, PushStrict
    <3>2. ASSUME NEW j \in k + 1 .. m
          PROVE  Accepts(d, s[j])
      <4>1. Fits(s[j])
        BY <1>3, <1>11, Zenon
      <4>2. ASSUME d = "mux", s[j].type = ControlType, s[j].payload # <<Parses>>
            PROVE  FALSE
        <5>1. KnownType(s[j].type)
          BY <4>2, Zenon DEF KnownType
        <5>2. PICK x \in DOMAIN r.out : r.out[x] = Said("mux", s[j])
          BY <1>3, <2>1, <5>1, Zenon
        <5> QED  BY <2>3, <4>2, <5>2, GarbledIs, Zenon
      <4> QED  BY <4>1, <4>2, Zenon DEF Accepts
    <3> QED  BY <1>8, <1>11, <3>1, <3>2
  <2> QED  BY <2>2, <2>3
<1> QED  BY <1>3, <1>9, <1>10, <1>11

----------------------------------------------------------------------------
(* The codec *)

\* The state of decoder d that has read n bytes of the stream w: as long as it goes on it
\* has taken m frames, and what is buffered begins with the next one.
Reading(d, s, w, n, b, x, m) ==
  /\ Ends(s)[m] =< n /\ b = SubSeq(w, Ends(s)[m] + 1, n)
  /\ x = Heard(Framing(d), s, m) /\ Caught(d, s, Ends(s), n, b, m)

\* One that gave up has done so for cause.
GaveUp(d, s, w, n, b, x) ==
  /\ \E k \in 0 .. Len(s) : x = Heard(Framing(d), s, k) /\ \A j \in 1 .. k : Accepts(d, s[j])
  /\ \E j \in 1 .. Len(s) : ~Accepts(d, s[j])
  /\ \E a \in 0 .. n : b = SubSeq(w, a + 1, n)

CodecSound(d, s, w, n, b, x, c) ==
  /\ d \in {"frame", "mux", "raw"} /\ s \in Seq(Frames) /\ w = Wire(s, Len(s))
  /\ n \in 0 .. Len(w) /\ c \in BOOLEAN
  /\ IF c THEN GaveUp(d, s, w, n, b, x) ELSE \E m \in 0 .. Len(s) : Reading(d, s, w, n, b, x, m)

CodecIInv == CodecSound(decoder, sent, stream, got, buffer, delivered, closed)

\* What the next chunk does.
LEMMA ChunkKeeps ==
    ASSUME NEW d, NEW s, NEW w, NEW g, NEW b, NEW x,
           CodecSound(d, s, w, g, b, x, FALSE), NEW n \in Nat, g < n, n =< Len(w),
           NEW q, q = PushAs(d, b \o SubSeq(w, g + 1, n))
    PROVE  CodecSound(d, s, w, n, q.rest, x \o q.out, q.failed)
<1> DEFINE end == Ends(s)
           t == Framing(d)
<1>1. /\ d \in {"frame", "mux", "raw"} /\ s \in Seq(Frames) /\ w = Wire(s, Len(s)) /\ g \in 0 .. Len(w)
      /\ \E m \in 0 .. Len(s) : Reading(d, s, w, g, b, x, m)
  BY DEF CodecSound
<1>2. PICK k \in 0 .. Len(s) : Reading(d, s, w, g, b, x, k)
  BY <1>1
<1>3. s \in Seq(FrameRecs)
  BY <1>1, FramesTyped
<1>4. Laid(s, w, end)
  BY <1>1, <1>3, StreamLaid
<1>5. w \in Seq(Nat) /\ Len(w) \in Nat /\ Len(s) \in Nat /\ end[k] \in Nat
  <2>1. w \in Seq(Nat) /\ end \in [0 .. Len(s) -> Nat]
    BY <1>4, Zenon DEF Laid
  <2> QED  BY <1>3, <2>1
<1>6. /\ end[k] =< g /\ b = SubSeq(w, end[k] + 1, g) /\ x = Heard(t, s, k)
      /\ \A j \in 1 .. k : Accepts(d, s[j])
  BY <1>2, Zenon DEF Reading, Caught
<1> HIDE DEF end, t
<1>7. n \in end[k] .. Len(w) /\ g \in Nat /\ g =< n /\ n \in 0 .. Len(w)
  BY <1>1, <1>5, <1>6
<1>8. b \o SubSeq(w, g + 1, n) = SubSeq(w, end[k] + 1, n)
  BY <1>5, <1>6, <1>7, FrameFolds!PartsMeet
<1>9. Pushed(d, s, w, end, k, n, q)
  BY <1>1, <1>4, <1>6, <1>7, <1>8, PushDoes
<1>10. CASE q.failed
  <2>1. /\ q.out = <<>> /\ q.failed \in BOOLEAN /\ \E j \in 1 .. Len(s) : ~Accepts(d, s[j])
        /\ \E a \in 0 .. n : q.rest = SubSeq(w, a + 1, n)
    BY <1>9, <1>10, Zenon DEF Pushed
  <2>2. x \o q.out = x
    <3>1. x \in Seq(Sayings(t, s))
      BY <1>3, <1>6, HeardNext
    <3> QED  BY <2>1, <3>1, ConcatEmptySeq
  <2>3. GaveUp(d, s, w, n, q.rest, x \o q.out)
    BY <1>6, <2>1, <2>2, Zenon DEF GaveUp, t
  <2> QED  BY <1>1, <1>7, <1>10, <2>3 DEF CodecSound
<1>11. CASE ~q.failed
  <2>1. PICK m \in k .. Len(s) :
          /\ end[m] =< n /\ q.rest = SubSeq(w, end[m] + 1, n)
          /\ Heard(t, s, m) = Heard(t, s, k) \o q.out /\ Caught(d, s, end, n, q.rest, m)
    BY <1>9, <1>11, Zenon DEF Pushed, t
  <2>2. Reading(d, s, w, n, q.rest, x \o q.out, m)
    BY <1>6, <2>1, Zenon DEF Reading, end, t
  <2>4. q.failed \in BOOLEAN
    BY <1>9, Zenon DEF Pushed
  <2>3. m \in 0 .. Len(s)
    BY <1>5
  <2> QED  BY <1>1, <1>7, <1>11, <2>2, <2>3, <2>4 DEF CodecSound
<1> QED  BY <1>10, <1>11

\* Before anything is read, nothing is decoded.
LEMMA CodecStart == CodecInit => CodecIInv
<1> SUFFICES ASSUME CodecInit PROVE CodecIInv
  OBVIOUS
<1> DEFINE d == decoder
           s == sent
<1>1. s \in Seq(Frames)
  <2>1. PICK m \in 0 .. MaxFrames : s \in [1 .. m -> Frames]
    BY Zenon DEF CodecInit, BoundedSeq, SeqOf
  <2>2. m \in Nat
    BY CodecAssumption
  <2> QED  BY <2>1, <2>2
<1>2. s \in Seq(FrameRecs)
  BY <1>1, FramesTyped
<1>3. Len(s) \in Nat /\ DOMAIN s = 1 .. Len(s)
  BY <1>2
<1>4. stream = Wire(s, Len(s))
  <2>1. [i \in DOMAIN s |-> Envelope(s[i])] = [i \in 1 .. Len(s) |-> Envelope(s[i])]
    BY <1>3
  <2>2. stream = FlattenSeq([i \in DOMAIN s |-> Envelope(s[i])])
    BY Zenon DEF CodecInit
  <2> QED  BY <2>1, <2>2, Zenon DEF Wire
<1> DEFINE w == stream
           end == Ends(s)
<1>5. Laid(s, w, end)
  BY <1>2, <1>4, StreamLaid
<1>6. w \in Seq(Nat) /\ end[0] = 0 /\ Len(w) \in Nat /\ end \in [0 .. Len(s) -> Nat]
  <2>1. w \in Seq(Nat) /\ end[0] = 0 /\ end \in [0 .. Len(s) -> Nat]
    BY <1>5, Zenon DEF Laid
  <2> QED  BY <2>1
<1>7. d \in {"frame", "mux", "raw"} /\ got = 0 /\ buffer = <<>> /\ delivered = <<>> /\ closed = FALSE
  BY DEF CodecInit
<1> HIDE DEF d, s, w, end
<1>8. 0 \in 0 .. Len(s) /\ \A j \in 1 .. 0 : FALSE
  BY <1>3
<1>9. Heard(Framing(d), s, 0) = <<>>
  BY <1>2, <1>8, HeardNext
<1>10. SubSeq(w, 0 + 1, 0) = <<>>
  <2>1. SubSeq(w, 0 + 1, 0) \in Seq(Nat) /\ Len(SubSeq(w, 0 + 1, 0)) = 0
    BY <1>6, FrameFolds!PartOf
  <2> QED  BY <2>1
<1>11. 0 = Len(s) \/ 0 < end[0 + 1]
  <2>1. 0 = Len(s) \/ 0 < Len(s)
    BY <1>3
  <2>2. 0 < Len(s) => end[0 + 1] = 0 + HeaderSize + Len(s[0 + 1].payload) /\ Len(s[0 + 1].payload) \in Nat
    BY <1>5, <1>6, <1>8, FrameLaid
  <2>3. 0 < Len(s) => 0 < end[0 + 1]
    BY <2>2 DEF HeaderSize
  <2> QED  BY <2>1, <2>3
<1>12. Len(buffer) < HeaderSize + MaxPayload
  BY <1>7, CodecAssumption DEF HeaderSize
<1>13. Caught(d, s, end, 0, buffer, 0)
  BY <1>8, <1>11, <1>12, Zenon DEF Caught
<1>14. end[0] =< 0 /\ 0 \in 0 .. Len(w)
  BY <1>6
<1>15. Reading(d, s, w, 0, buffer, delivered, 0)
  BY <1>6, <1>7, <1>9, <1>10, <1>13, <1>14, Zenon DEF Reading, end
<1>16. CodecSound(d, s, w, got, buffer, delivered, closed)
  BY <1>1, <1>4, <1>7, <1>8, <1>14, <1>15, Zenon DEF CodecSound, w
<1> QED  BY <1>16 DEF CodecIInv, d, s, w

\* Every chunk that is read keeps the invariant.
LEMMA CodecStep == CodecIInv /\ [CodecNext]_codecVars => CodecIInv'
<1> SUFFICES ASSUME CodecIInv, [CodecNext]_codecVars PROVE CodecIInv'
  OBVIOUS
<1>1. CASE CodecNext
  <2>1. PICK n \in 1 .. Len(stream) : ReadBytes(n)
    BY <1>1 DEF CodecNext
  <2> DEFINE bytes == buffer \o SubSeq(stream, got + 1, n)
             q == Push(bytes)
  <2>2. /\ ~closed /\ got < n /\ n =< Len(stream) /\ got' = n
        /\ buffer' = q.rest /\ delivered' = delivered \o q.out /\ closed' = q.failed
        /\ decoder' = decoder /\ sent' = sent /\ stream' = stream
    BY <2>1, Zenon DEF ReadBytes, DrainBuffer
  <2>3. CodecSound(decoder, sent, stream, got, buffer, delivered, FALSE) /\ n \in Nat
    <3>1. closed \in BOOLEAN
      BY Zenon DEF CodecIInv, CodecSound
    <3>2. closed = FALSE
      BY <2>2, <3>1
    <3>3. n \in Nat
      OBVIOUS
    <3> HIDE DEF q, bytes
    <3> QED  BY <3>2, <3>3, Zenon DEF CodecIInv
  <2>4. q = PushAs(decoder, bytes)
    <3>1. decoder \in {"frame", "mux", "raw"}
      BY <2>3, Zenon DEF CodecSound
    <3>2. CASE decoder = "frame"
      BY <3>2 DEF Push, PushAs
    <3>3. CASE decoder = "mux"
      BY <3>3 DEF Push, PushAs
    <3>4. CASE decoder = "raw"
      BY <3>4 DEF Push, PushAs
    <3> QED  BY <3>1, <3>2, <3>3, <3>4
  <2> HIDE DEF q
  <2>5. CodecSound(decoder, sent, stream, n, q.rest, delivered \o q.out, q.failed)
    BY <2>2, <2>3, <2>4, ChunkKeeps
  <2> QED  BY <2>2, <2>5, Zenon DEF CodecIInv
<1>2. CASE UNCHANGED codecVars
  BY <1>2, Zenon DEF CodecIInv, codecVars
<1> QED  BY <1>1, <1>2

\* The model's own words for these.
LEMMA CodecTerms ==
    /\ \A f : Acceptable(f) <=> Accepts(decoder, f)
    /\ \A k : Meant(k) = Heard(Framing(decoder), sent, k)
    /\ \A k \in 0 .. Len(sent) : Bytes(k) = Ends(sent)[k]
<1>1. \A f : Acceptable(f) <=> Accepts(decoder, f)
  BY DEF Acceptable, Accepts, Fits
<1>2. ASSUME NEW k
      PROVE  Meant(k) = Heard(Framing(decoder), sent, k)
  <2>1. \A f : (IF decoder = "frame" THEN DecodedFrame(f) ELSE RawFrame(f)) = Said(Framing(decoder), f)
    BY DEF Said, Framing
  <2> QED  BY <2>1, Zenon DEF Meant, Heard
<1>3. \A k \in 0 .. Len(sent) : Bytes(k) = Ends(sent)[k]
  BY Zenon DEF Bytes, Ends, Wire
<1> QED  BY <1>1, <1>2, <1>3

\* With it, what is delivered is what was sent.
LEMMA CodecShows == CodecIInv => CodecInv
<1> SUFFICES ASSUME CodecIInv PROVE CodecInv
  OBVIOUS
<1> DEFINE d == decoder
           s == sent
           w == stream
           end == Ends(s)
<1>1. /\ d \in {"frame", "mux", "raw"} /\ s \in Seq(Frames) /\ w = Wire(s, Len(s))
      /\ got \in 0 .. Len(w) /\ closed \in BOOLEAN
      /\ closed => GaveUp(d, s, w, got, buffer, delivered)
      /\ ~closed => \E m \in 0 .. Len(s) : Reading(d, s, w, got, buffer, delivered, m)
  BY Zenon DEF CodecIInv, CodecSound
<1>2. s \in Seq(FrameRecs)
  BY <1>1, FramesTyped
<1>3. Laid(s, w, end)
  BY <1>1, <1>2, StreamLaid
<1>4. w \in Seq(Nat) /\ Len(w) \in Nat /\ Len(s) \in Nat /\ end \in [0 .. Len(s) -> Nat] /\ got \in Nat
      /\ got =< Len(w) /\ DOMAIN s = 1 .. Len(s)
  <2>1. w \in Seq(Nat) /\ end \in [0 .. Len(s) -> Nat]
    BY <1>3, Zenon DEF Laid
  <2> QED  BY <1>1, <1>2, <2>1
<1>5. \A k \in 0 .. Len(s) : Heard(Framing(d), s, k) \in Seq(Sayings(Framing(d), s))
  BY <1>2, HeardNext
<1>6. /\ \A f : Acceptable(f) <=> Accepts(d, f)
      /\ \A k : Meant(k) = Heard(Framing(d), s, k)
      /\ \A k \in 0 .. Len(s) : Bytes(k) = end[k]
  BY CodecTerms
<1> HIDE DEF d, s, w, end
<1>7. ASSUME NEW a \in 0 .. got, buffer = SubSeq(w, a + 1, got)
      PROVE  Len(buffer) <= got /\ buffer = SubSeq(w, got - Len(buffer) + 1, got)
  <2>1. Len(buffer) = got - a
    BY <1>4, <1>7, FrameFolds!PartOf
  <2>2. got - Len(buffer) + 1 = a + 1 /\ Len(buffer) <= got
    BY <1>4, <2>1
  <2> QED  BY <1>7, <2>2
<1>8. CASE closed
  <2>1. PICK k \in 0 .. Len(s) : delivered = Heard(Framing(d), s, k) /\ \A j \in 1 .. k : Accepts(d, s[j])
    BY <1>1, <1>8, Zenon DEF GaveUp
  <2>2. PICK a \in 0 .. got : buffer = SubSeq(w, a + 1, got)
    BY <1>1, <1>8, Zenon DEF GaveUp
  <2>3. CodecTypeOK
    BY <1>1, <1>7, <2>2 DEF CodecTypeOK, w
  <2>4. FramesDelivered
    <3>1. IsPrefix(delivered, Meant(k))
      <4>1. delivered = Meant(k) /\ Len(delivered) \in Nat
        BY <1>5, <1>6, <2>1
      <4> QED  BY <4>1 DEF IsPrefix
    <3>2. \A j \in 1 .. k : Acceptable(s[j])
      BY <1>6, <2>1
    <3> QED  BY <1>8, <3>1, <3>2, Zenon DEF FramesDelivered, s
  <2>5. ClosedForCause
    <3>1. PICK j \in 1 .. Len(s) : ~Accepts(d, s[j])
      BY <1>1, <1>8, Zenon DEF GaveUp
    <3>2. j \in DOMAIN s /\ ~Acceptable(s[j])
      BY <1>4, <1>6, <3>1
    <3> QED  BY <3>2, Zenon DEF ClosedForCause, s
  <2>6. BufferBounded
    BY <1>8 DEF BufferBounded
  <2> QED  BY <2>3, <2>4, <2>5, <2>6 DEF CodecInv
<1>9. CASE ~closed
  <2>1. PICK m \in 0 .. Len(s) : Reading(d, s, w, got, buffer, delivered, m)
    BY <1>1, <1>9
  <2>2. /\ end[m] =< got /\ buffer = SubSeq(w, end[m] + 1, got) /\ delivered = Heard(Framing(d), s, m)
        /\ m = Len(s) \/ got < end[m + 1]
        /\ d # "frame" => Len(buffer) < HeaderSize + MaxPayload
    BY <2>1, Zenon DEF Reading, Caught, end
  <2>3. end[m] \in 0 .. got
    <3> DEFINE e == end[m]
    <3>1. e \in Nat /\ e =< got /\ got \in Nat
      BY <1>4, <2>2
    <3> HIDE DEF e
    <3>2. e \in 0 .. got
      BY <3>1
    <3> QED  BY <3>2 DEF e
  <2>4. CodecTypeOK
    BY <1>1, <1>7, <2>2, <2>3 DEF CodecTypeOK, w
  <2>5. ClosedForCause /\ BufferBounded
    BY <1>9, <2>2 DEF ClosedForCause, BufferBounded, d
  <2>6. Whole(got) = m
    <3> DEFINE At(k) == Bytes(k) <= got /\ (k = Len(sent) \/ Bytes(k + 1) > got)
    <3>1. ASSUME NEW k \in 0 .. Len(s)
          PROVE  At(k) <=> end[k] =< got /\ (k = Len(s) \/ got < end[k + 1])
      <4> DEFINE l == Len(s)
      <4>1. k = l \/ k + 1 \in 0 .. l
        <5>1. l \in Nat /\ k \in 0 .. l
          BY <1>4
        <5> HIDE DEF l
        <5> QED  BY <5>1
      <4>2. end[k] \in Nat /\ (k = Len(s) \/ end[k + 1] \in Nat)
        BY <1>4, <4>1
      <4>3. Bytes(k) = end[k] /\ (k = Len(s) \/ Bytes(k + 1) = end[k + 1])
        BY <1>6, <4>1
      <4> QED  BY <1>4, <4>2, <4>3 DEF s
    <3>2. At(m)
      BY <2>2, <3>1
    <3>3. ASSUME NEW x \in 0 .. Len(s), NEW y \in 0 .. Len(s), x < y, At(x), At(y)
          PROVE  FALSE
      <4> DEFINE l == Len(s)
      <4>1. x + 1 \in 0 .. l /\ x # l /\ (x + 1 = y \/ x + 1 < y)
        <5>1. l \in Nat /\ x \in 0 .. l /\ y \in 0 .. l /\ x < y
          BY <1>4, <3>3
        <5> HIDE DEF l
        <5> QED  BY <5>1
      <4>2. got < end[x + 1] /\ end[y] =< got
        BY <3>1, <3>3, <4>1
      <4>3. x + 1 = y \/ end[x + 1] + HeaderSize =< end[y]
        BY <1>3, <4>1, EndsGrow
      <4>4. end[x + 1] \in Nat /\ end[y] \in Nat
        BY <1>4, <4>1
      <4> QED  BY <1>4, <4>2, <4>3, <4>4 DEF HeaderSize
    <3>4. Whole(got) = CHOOSE k \in 0 .. Len(s) : At(k)
      BY Zenon DEF Whole, s
    <3> HIDE DEF At
    <3>5. \A k \in 0 .. Len(s) : At(k) => k = m
      <4> TAKE k \in 0 .. Len(s)
      <4> HAVE At(k)
      <4>1. k = m \/ k < m \/ m < k
        BY <1>4
      <4> QED  BY <3>2, <3>3, <4>1
    <3> QED  BY <3>2, <3>4, <3>5, Zenon
  <2>7. FramesDelivered
    BY <1>6, <1>9, <2>2, <2>6, Zenon DEF FramesDelivered
  <2> QED  BY <2>4, <2>5, <2>7 DEF CodecInv
<1> QED  BY <1>8, <1>9

\* However a stream of frames is cut into chunks, each frame is decoded once, in order and
\* as soon as it is there; a decoder gives up only for cause and its buffer is bounded.
THEOREM CodecCorrect == CodecSpec => []CodecInv
<1>1. CodecInit => CodecIInv
  BY CodecStart
<1>2. CodecIInv /\ [CodecNext]_codecVars => CodecIInv'
  BY CodecStep
<1>3. CodecIInv => CodecInv
  BY CodecShows
<1> QED  BY <1>1, <1>2, <1>3, PTL DEF CodecSpec
=============================================================================
