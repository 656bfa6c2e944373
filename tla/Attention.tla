----------------------------- MODULE Attention -----------------------------
(***************************************************************************)
(* How a session comes to need attention and how it stops to: the idle     *)
(* detector of the session daemon (climon-session idle.rs, attention.rs,    *)
(* apply_attention in host.rs), the pause of a session by the dashboard     *)
(* server (server.ts) with the overlay every reader of the metadata         *)
(* applies (climon-store meta.rs), and the acknowledgement a dashboard      *)
(* sends for the session it shows (viewedSession.ts), which travels on its  *)
(* own and may arrive late or never.                                        *)
(*                                                                          *)
(* The metadata is patched in one step: PatchLock is about why.  Time       *)
(* passes with the samples of the idle thread, one per second; the          *)
(* detector's time stamps are kept as the number of samples since.          *)
(***************************************************************************)
EXTENDS Naturals

CONSTANTS
    Bodies,       \* screen contents a fingerprint tells apart
    Dims,         \* sizes of the grid
    Tokens,       \* values of attentionMatchedAt
    None,
    IdleTicks,    \* attention.idleSeconds, in samples
    SettleTicks,  \* RESIZE_SETTLE_MS, in samples
    Pausing,      \* users pause and resume the session
    Jiggles       \* surfaces take control at the size the PTY already has

Screens == [dims : Dims, body : Bodies]

ASSUME AttentionAssumption ==
    /\ IdleTicks \in Nat \ {0}
    /\ SettleTicks \in Nat
    /\ Tokens \subseteq Nat
    /\ \A t, u, v \in Tokens \cup {None} : Tokens \ {t, u, v} # {}
    /\ None \notin Tokens \cup Screens \cup Bodies
    /\ "winch" \notin Bodies \cup {None}
    /\ Pausing \in BOOLEAN
    /\ Jiggles \in BOOLEAN

VARIABLES
    screen,   \* what the headless grid shows
    det,      \* ScreenIdleDetector
    att,      \* last_attention_state and the token and screen it belongs to
    meta,     \* status, userPaused and attentionMatchedAt in the metadata file
    phase,    \* of the daemon: starting, running or exited
    redraw,   \* output the program owes after a SIGWINCH
    viewer,   \* the dashboard: its acknowledgement under way, and its last one
    genuine,  \* history: the program wrote since the last acknowledgement
    typed     \* history: the user typed, and nothing was written since

daemonVars == <<det, att, phase>>
histVars == <<genuine, typed>>
vars == <<screen, det, att, meta, phase, redraw, viewer, genuine, typed>>

----------------------------------------------------------------------------
(* Reading and writing the metadata *)

\* apply_user_paused_overlay
Overlaid == {"running", "acknowledged", "needs-attention", "paused"}

Overlay(m) ==
    IF m.paused /\ m.status \in Overlaid
      THEN [m EXCEPT !.status = "paused", !.token = None]
      ELSE m

Shown == Overlay(meta).status

\* patch_session_meta_from_current: the patch is laid over what was read.
SetStatus(status) == meta' = [Overlay(meta) EXCEPT !.status = status, !.token = None]

----------------------------------------------------------------------------
(* ScreenIdleDetector *)

\* Mutant of Update: the settle window after a resize is ignored.
UpdateUnsettled(d, s) ==
    IF d.last = None
      THEN [det |-> [d EXCEPT !.last = s, !.quiet = 0], out |-> "none"]
    ELSE IF d.last.body # s.body
      THEN [det |-> [d EXCEPT !.last = s, !.quiet = 0, !.flagged = FALSE, !.ack = FALSE],
            out |-> IF d.flagged \/ d.ack THEN "clear" ELSE "none"]
    ELSE IF ~d.ack /\ ~d.flagged /\ d.quiet >= IdleTicks
      THEN [det |-> [d EXCEPT !.last = s, !.flagged = TRUE], out |-> "flag"]
    ELSE [det |-> [d EXCEPT !.last = s], out |-> "none"]

\* update: the detector after a sample s, and the transition it emits.
Update(d, s) ==
    IF d.last = None
      THEN [det |-> [d EXCEPT !.last = s, !.quiet = 0], out |-> "none"]
    ELSE IF d.last.body # s.body /\ d.settle > 0
      THEN [det |-> [d EXCEPT !.last = s], out |-> "none"]
    ELSE IF d.last.body # s.body
      THEN [det |-> [d EXCEPT !.last = s, !.quiet = 0, !.flagged = FALSE, !.ack = FALSE],
            out |-> IF d.flagged \/ d.ack THEN "clear" ELSE "none"]
    ELSE IF ~d.ack /\ ~d.flagged /\ d.quiet >= IdleTicks
      THEN [det |-> [d EXCEPT !.last = s, !.flagged = TRUE], out |-> "flag"]
    ELSE [det |-> [d EXCEPT !.last = s], out |-> "none"]

\* A second has passed.
Older(d) == [d EXCEPT !.quiet = IF @ < IdleTicks THEN @ + 1 ELSE @]

Settled(d) == [d EXCEPT !.settle = IF @ > 0 THEN @ - 1 ELSE 0]

\* acknowledge and absorb_resize do nothing before the first sample.
Acknowledge(d, s) ==
    IF d.last = None THEN d
    ELSE [d EXCEPT !.last = s, !.quiet = 0, !.flagged = FALSE, !.ack = TRUE]

\* Mutant of AbsorbResize: every resize prolongs the settle window.
AbsorbResizeAdds(d, s) ==
    IF d.last = None THEN d ELSE [d EXCEPT !.last = s, !.settle = @ + SettleTicks]

AbsorbResize(d, s) ==
    IF d.last = None THEN d ELSE [d EXCEPT !.last = s, !.settle = SettleTicks]

----------------------------------------------------------------------------
(* apply_attention *)

NoAttention == [state |-> FALSE, token |-> None, fp |-> None]

\* should_apply_user_attention_acknowledgement
ShouldApply(token) ==
    /\ att.state
    /\ att.token # None
    /\ token = att.token
    /\ att.fp # None
    /\ att.fp.dims # screen.dims \/ att.fp = screen

\* By a user: accepted only for the current episode and an unchanged screen.
UserAttention(token) ==
    IF phase # "exited" /\ ShouldApply(token)
      THEN /\ att' = NoAttention
           /\ det' = Acknowledge(det, screen)
           /\ SetStatus(IF Shown = "paused" THEN "paused" ELSE "acknowledged")
           /\ genuine' = FALSE
      ELSE UNCHANGED <<att, det, meta, genuine>>

\* Mutant of DetectorClears: the daemon forgets to close the episode.
ClearMetaOnly ==
    /\ UNCHANGED att
    /\ SetStatus(IF Shown = "paused" THEN "paused" ELSE "running")

\* By the detector: the screen changed ...
DetectorClears ==
    /\ att' = NoAttention
    /\ SetStatus(IF Shown = "paused" THEN "paused" ELSE "running")

\* ... or it did not for a while; a paused session is not flagged.  The new
\* token is the current time, and so no token that is still around.
FreshToken ==
    CHOOSE t \in Tokens \ {meta.token, viewer.ack, viewer.acked} :
        \A u \in Tokens \ {meta.token, viewer.ack, viewer.acked} : t =< u

\* Mutant of DetectorFlags: the daemon notes an episode it did not publish.
FlagUnpublished ==
    IF att.state THEN UNCHANGED <<att, meta>>
    ELSE /\ att' = [state |-> TRUE, token |-> FreshToken, fp |-> screen]
         /\ meta' = IF Shown = "paused" THEN meta
                    ELSE [Overlay(meta) EXCEPT !.status = "needs-attention"]

DetectorFlags ==
    IF att.state \/ Shown = "paused" THEN UNCHANGED <<att, meta>>
    ELSE /\ att' = [state |-> TRUE, token |-> FreshToken, fp |-> screen]
         /\ meta' = [Overlay(meta) EXCEPT !.status = "needs-attention", !.token = FreshToken]

----------------------------------------------------------------------------
(* The daemon *)

Init ==
    /\ screen \in Screens
    /\ det = [last |-> None, quiet |-> 0, flagged |-> FALSE, ack |-> FALSE, settle |-> 0]
    /\ att = NoAttention
    /\ meta = [status |-> "running", paused |-> FALSE, token |-> None]
    /\ phase = "starting"
    /\ redraw = None
    /\ viewer = [ack |-> None, acked |-> None]
    /\ genuine = TRUE
    /\ typed = FALSE

\* Mutant of MarkRunning: writes the metadata it was started with.
MarkRunningAfresh ==
    /\ phase = "starting"
    /\ phase' = "running"
    /\ meta' = [status |-> "running", paused |-> FALSE, token |-> None]
    /\ UNCHANGED <<screen, det, att, redraw, viewer, histVars>>

\* run_session_host marks the session running, unless it is paused already.
MarkRunning ==
    /\ phase = "starting"
    /\ phase' = "running"
    /\ meta' = IF Shown = "paused" THEN Overlay(meta)
               ELSE [Overlay(meta) EXCEPT !.status = "running"]
    /\ UNCHANGED <<screen, det, att, redraw, viewer, histVars>>

\* One round of the idle thread.  A program that gets a SIGWINCH is taken to
\* have redrawn its screen by the last sample of the settle window.
Tick ==
    /\ phase = "running"
    /\ redraw = "winch" => det.settle > 1
    /\ LET u == Update(Older(det), screen) IN
         /\ det' = Settled(u.det)
         /\ CASE u.out = "clear" -> DetectorClears
              [] u.out = "flag" -> DetectorFlags
              [] u.out = "none" -> UNCHANGED <<att, meta>>
    /\ UNCHANGED <<screen, phase, redraw, viewer, histVars>>

\* The program writes to the screen.
Output(b) ==
    /\ phase # "exited"
    /\ redraw \notin Bodies
    /\ b # screen.body
    /\ screen' = [screen EXCEPT !.body = b]
    /\ genuine' = TRUE
    /\ typed' = FALSE
    /\ UNCHANGED <<daemonVars, meta, redraw, viewer>>

\* set_pty_size with a new size: the grid reflows, the detector takes the new
\* screen for its baseline, and the program gets a SIGWINCH.
Resize(d, b) ==
    /\ phase = "running"
    /\ redraw \notin Bodies
    /\ d # screen.dims
    /\ screen' = [dims |-> d, body |-> b]
    /\ det' = AbsorbResize(det, screen')
    /\ redraw' = "winch"
    /\ UNCHANGED <<att, meta, phase, viewer, histVars>>

Redraw(b) ==
    /\ redraw = "winch"
    /\ screen' = [screen EXCEPT !.body = b]
    /\ redraw' = None
    /\ UNCHANGED <<daemonVars, meta, viewer, histVars>>

\* The two legs of a jiggle: the program redraws for a size one smaller, then
\* for its own size again.  The grid is not resized and the detector not told.
JiggleAway(b) ==
    /\ Jiggles
    /\ phase = "running"
    /\ redraw = None
    /\ b # screen.body
    /\ screen' = [screen EXCEPT !.body = b]
    /\ redraw' = screen.body
    /\ UNCHANGED <<daemonVars, meta, viewer, histVars>>

JiggleBack ==
    /\ redraw \in Bodies
    /\ screen' = [screen EXCEPT !.body = redraw]
    /\ redraw' = None
    /\ UNCHANGED <<daemonVars, meta, viewer, histVars>>

\* An Input frame is reported as an acknowledgement without a token.
InputFrame ==
    /\ phase = "running"
    /\ UserAttention(None)
    /\ typed' = TRUE
    /\ UNCHANGED <<screen, phase, redraw, viewer>>

\* The teardown of run_session_host.
Exit ==
    /\ phase = "running"
    /\ phase' = "exited"
    /\ meta' = [Overlay(meta) EXCEPT !.status = "completed"]
    /\ UNCHANGED <<screen, det, att, redraw, viewer, histVars>>

----------------------------------------------------------------------------
(* The dashboard and its server *)

\* viewedSessionAttentionAck: once per episode of the session on display.
SendAck ==
    /\ viewer.ack = None
    /\ Shown = "needs-attention"
    /\ Overlay(meta).token \notin {None, viewer.acked}
    /\ viewer' = [ack |-> meta.token, acked |-> meta.token]
    /\ UNCHANGED <<screen, daemonVars, meta, redraw, histVars>>

\* Mutant of DeliverAck: the daemon accepts it after its command has exited.
DeliverAckLate ==
    /\ viewer.ack # None
    /\ viewer' = [viewer EXCEPT !.ack = None]
    /\ IF ShouldApply(viewer.ack)
         THEN /\ att' = NoAttention
              /\ det' = Acknowledge(det, screen)
              /\ SetStatus(IF Shown = "paused" THEN "paused" ELSE "acknowledged")
              /\ genuine' = FALSE
         ELSE UNCHANGED <<att, det, meta, genuine>>
    /\ UNCHANGED <<screen, phase, redraw, typed>>

DeliverAck ==
    /\ viewer.ack # None
    /\ viewer' = [viewer EXCEPT !.ack = None]
    /\ UserAttention(viewer.ack)
    /\ UNCHANGED <<screen, phase, redraw, typed>>

LoseAck ==
    /\ viewer.ack # None
    /\ viewer' = [viewer EXCEPT !.ack = None]
    /\ UNCHANGED <<screen, daemonVars, meta, redraw, histVars>>

\* PATCH /api/sessions/:id with a status (validateBrowserStatusTransition).
Pause ==
    /\ Pausing
    /\ Shown \in Overlaid
    /\ meta' = [Overlay(meta) EXCEPT !.status = "paused", !.paused = TRUE]
    /\ UNCHANGED <<screen, daemonVars, redraw, viewer, histVars>>

Resume ==
    /\ Shown = "paused"
    /\ meta' = [Overlay(meta) EXCEPT !.status = "running", !.paused = FALSE, !.token = None]
    /\ UNCHANGED <<screen, daemonVars, redraw, viewer, histVars>>

Next ==
    \/ MarkRunning \/ Tick \/ InputFrame \/ Exit
    \/ \E b \in Bodies : Output(b) \/ Redraw(b) \/ JiggleAway(b)
    \/ \E d \in Dims, b \in Bodies : Resize(d, b)
    \/ JiggleBack
    \/ SendAck \/ DeliverAck \/ LoseAck
    \/ Pause \/ Resume

Spec == Init /\ [][Next]_vars

\* The idle thread samples every second; a program answers its signals.
Fairness ==
    /\ WF_vars(MarkRunning)
    /\ WF_vars(Tick)
    /\ WF_vars((\E b \in Bodies : Redraw(b)) \/ JiggleBack)

FairSpec == Spec /\ Fairness

----------------------------------------------------------------------------
(* Properties *)

\* The type of every variable.
TypeOK ==
    /\ screen \in Screens
    /\ det \in [last : Screens \cup {None}, quiet : 0 .. IdleTicks,
                flagged : BOOLEAN, ack : BOOLEAN, settle : 0 .. SettleTicks]
    /\ att \in [state : BOOLEAN, token : Tokens \cup {None}, fp : Screens \cup {None}]
    /\ meta \in [status : Overlaid \cup {"completed"}, paused : BOOLEAN,
                 token : Tokens \cup {None}]
    /\ phase \in {"starting", "running", "exited"}
    /\ redraw \in {None, "winch"} \cup Bodies
    /\ viewer \in [ack : Tokens \cup {None}, acked : Tokens \cup {None}]
    /\ genuine \in BOOLEAN
    /\ typed \in BOOLEAN

\* A session that shows as needing attention can be acknowledged: the token in
\* its metadata is the one the daemon waits for, and the detector agrees that
\* the screen is idle (apply_attention keeps three records of one episode).
EpisodeAgreed ==
    Shown = "needs-attention" =>
        /\ att.state
        /\ meta.token = att.token
        /\ att.token # None
        /\ det.flagged

\* A session its user paused stays paused until the user resumes it or the
\* command ends, whatever the detector and late acknowledgements write
\* (apply_attention, apply_user_paused_overlay).
PauseSticks ==
    [][Shown = "paused" => Shown' \in {"paused", "completed"} \/ Resume]_vars

\* The outcome of the command is the last word: neither an acknowledgement
\* nor a pause nor a resume that arrives late changes it.
OutcomeFinal == [][Shown = "completed" => Shown' = "completed"]_vars

\* What a user acknowledged stays so, and is not flagged again, until the
\* program itself writes something: resizes, reflows and the redraws they
\* cause do not count, also across a pause (absorb_resize, acknowledge).
AckHolds ==
    [][~genuine => \/ Shown' = Shown
                   \/ Shown' \in {"acknowledged", "paused", "completed"}
                   \/ Resume]_vars

\* A running session whose screen has not changed for the idle time.
Overdue ==
    /\ phase = "running"
    /\ Shown = "running"
    /\ det.quiet >= IdleTicks
    /\ ~det.ack
    /\ det.settle = 0
    /\ det.last = screen

\* A running session does not stay overdue: it is flagged (update,
\* apply_attention; docs/usage.md: "climon flags the session").
IdleFlagged == Overdue ~> ~Overdue

\* After input no attention is raised until the program writes something
\* (docs/usage.md: "Typing into a session has the same effect").
InputAcknowledges == typed => Shown # "needs-attention"

=============================================================================
