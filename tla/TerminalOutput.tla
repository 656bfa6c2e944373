--------------------------- MODULE TerminalOutput ---------------------------
(***************************************************************************)
(* What a session daemon reads out of its command's output while passing   *)
(* it on: the window title and progress (title_capture.rs), the mouse      *)
(* modes (replay.rs), the bounded scrollback (scrollback.rs), and what a   *)
(* viewer who joins later is sent (replay_snapshot).                       *)
(*                                                                         *)
(* The output is a sequence of symbols that the PTY hands over in chunks   *)
(* of any size.  A number is one symbol, and so is a piece of text; u1 u2  *)
(* is one character of two bytes.                                          *)
(***************************************************************************)
EXTENDS Naturals, Sequences, FiniteSets, SequencesExt

CONSTANTS
  MaxPhrases,       \* bound: phrases of the output, after which text follows
  MaxTitle,         \* MAX_TITLE_LENGTH
  MaxRemainder,     \* MAX_REMAINDER
  MaxModeRemainder, \* the last 64 bytes kept by the mouse mode tracker
  ScrollbackCap     \* bytes the scrollback retains

ASSUME OutputAssumption ==
  /\ MaxPhrases \in Nat /\ MaxTitle \in Nat
  /\ MaxRemainder \in Nat /\ MaxModeRemainder \in Nat
  /\ ScrollbackCap \in Nat \ {0}

VARIABLES
  printed,        \* what the command is going to print
  fed,           \* how much of it the daemon has read
  captured,      \* captured title and progress, and the remainder
  modes,         \* mouse_mode_state: the modes known to be on
  modeRemainder, \* mouse_mode_remainder
  scrollback,    \* the scrollback
  events         \* history: what the chunks cut, and what was dropped

outputVars == <<printed, fed, captured, modes, modeRemainder, scrollback,
                events>>

Tracked == {"1000", "1006"}
Digits == Tracked \cup {"1049", "0", "1", "2", "4", "9", "200"}

(* What programs print: titles ended by BEL or ST, empty, with an escape   *)
(* or a wide character inside; progress; other OSC; private modes; stray   *)
(* escapes; an OSC that is never ended.                                    *)
Phrases ==
  { <<"esc", "]", "0", ";", "x", "bel">>,
    <<"esc", "]", "2", ";", "y", "y", "y", "esc", "\\">>,
    <<"esc", "]", "2", ";", "bel">>,
    <<"esc", "]", "0", ";", "x", "esc", "y", "bel">>,
    <<"esc", "]", "0", ";", "u1", "u2", "bel">>,
    <<"esc", "]", "1", ";", "x", "bel">>,
    <<"esc", "]", "9", ";", "4", ";", "1", ";", "200", "bel">>,
    <<"esc", "]", "9", ";", "4", ";", "2", "bel">>,
    <<"esc", "]", "9", ";", "4", ";", "0", "bel">>,
    <<"esc", "]", "9", ";", "x", "bel">>,
    <<"esc", "]", "x">>,
    <<"esc", "]", "0", ";", "x", "x", "x", "x", "x", "x", "x", "x">>,
    <<"esc", "[", "?", "1000", ";", "1006", "h">>,
    <<"esc", "[", "?", "1000", "l">>,
    <<"esc", "[", "?", "1049", "h">>,
    <<"esc", "[", "?", "1049", "l">>,
    <<"esc">>, <<"x">> }

Outputs == {FlattenSeq(s) \o <<"x">> : s \in BoundedSeq(Phrases, MaxPhrases)}

-----------------------------------------------------------------------------
(* Cutting sequences.                                                      *)

From(s, i) == SubSeq(s, i, Len(s))
LastOf(s, n) == IF Len(s) > n THEN From(s, Len(s) - n + 1) ELSE s
FirstIndex(S) == CHOOSE i \in S : \A j \in S : i <= j

(* String::from_utf8_lossy on one chunk: half a character is replaced.     *)
Lossy(chunk) ==
  [i \in DOMAIN chunk |->
     CASE chunk[i] = "u1" /\ (i = Len(chunk) \/ chunk[i + 1] # "u2") -> "bad"
       [] chunk[i] = "u2" /\ (i = 1 \/ chunk[i - 1] # "u1") -> "bad"
       [] OTHER -> chunk[i]]

-----------------------------------------------------------------------------
(* Titles and progress: title_capture.rs.                                  *)

NothingCaptured == [title |-> <<"none">>, progress |-> <<"none">>,
                    remainder |-> <<>>]

(* sanitize_title: no control characters, a bounded length.                *)
SanitizeTitle(payload) ==
  LET Shown(c) == c \notin {"esc", "bel"}
      shown == SelectSeq(payload, Shown)
  IN SubSeq(shown, 1, IF Len(shown) > MaxTitle THEN MaxTitle ELSE Len(shown))

(* parse_osc9_4_progress: state 0 clears; a missing or invalid percentage  *)
(* is 0 and a larger one than 100 is 100.  Other payloads change nothing.  *)
Progress(payload, was) ==
  IF Len(payload) < 3 \/ SubSeq(payload, 1, 2) # <<"4", ";">> THEN was
  ELSE CASE payload[3] = "0" -> <<"cleared">>
         [] payload[3] = "1" ->
              <<"normal", IF Len(payload) >= 5 /\ payload[5] = "200" THEN 100
                          ELSE 0>>
         [] payload[3] = "2" -> <<"error">>
         [] payload[3] = "4" -> <<"warning">>
         [] OTHER -> was

Apply(t, code, payload) ==
  CASE code \in {<<"0">>, <<"2">>} ->
         [t EXCEPT !.title = SanitizeTitle(payload)]
    [] code = <<"9">> -> [t EXCEPT !.progress = Progress(payload, @)]
    [] OTHER -> t

\* Mutant of PayloadEnds: a last ESC ends the payload.
PayloadEndsEarly(in, j) ==
  {k \in j + 1..Len(in) :
     \/ in[k] = "bel"
     \/ in[k] = "esc" /\ (k = Len(in) \/ in[k + 1] = "\\")}

(* Ends of the payload that begins after j: BEL or ST.  An ESC at the end  *)
(* of the input is not the end yet.                                        *)
PayloadEnds(in, j) ==
  {k \in j + 1..Len(in) :
     \/ in[k] = "bel"
     \/ in[k] = "esc" /\ k < Len(in) /\ in[k + 1] = "\\"}

(* capture_terminal_output from the next ESC of the input on: ESC ] digits *)
(* ; payload BEL or ST.  What is incomplete is kept from its ESC on.       *)
RECURSIVE Capture(_, _)
Capture(t, given) ==
  LET escapes == {i \in DOMAIN given : given[i] = "esc"}
  IN IF escapes = {} THEN [t EXCEPT !.remainder = <<>>]
     ELSE
  LET in == From(given, FirstIndex(escapes))
      opener == {j \in 3..Len(in) : in[j] \notin Digits}
      j == FirstIndex(opener)
      ends == PayloadEnds(in, j)
      k == FirstIndex(ends)
  IN CASE Len(in) = 1 -> [t EXCEPT !.remainder = in]
       [] Len(in) > 1 /\ in[2] # "]" -> Capture(t, Tail(in))
       [] Len(in) > 1 /\ in[2] = "]" /\ opener = {} ->
            [t EXCEPT !.remainder = in]
       [] OTHER ->
            CASE in[j] # ";" -> Capture(t, Tail(in))
              [] in[j] = ";" /\ ends = {} -> [t EXCEPT !.remainder = in]
              [] OTHER -> Capture(Apply(t, SubSeq(in, 3, j - 1),
                                        SubSeq(in, j + 1, k - 1)),
                                  From(in, IF in[k] = "bel" THEN k + 1
                                           ELSE k + 2))

(* bounded_remainder: too long a tail is dropped.                          *)
BoundedRemainder(tail) == IF Len(tail) > MaxRemainder THEN <<>> ELSE tail

-----------------------------------------------------------------------------
(* Mouse modes and replays: replay.rs.                                     *)

PrefixAt(in, i) ==
  i + 2 <= Len(in) /\ SubSeq(in, i, i + 2) = <<"esc", "[", "?">>

(* One past the parameters of the control whose prefix is at i.            *)
ParamsEnd(in, i) ==
  FirstIndex({j \in i + 3..Len(in) + 1 :
                j > Len(in) \/ in[j] \notin Digits \cup {";"}})

(* Where complete private mode controls begin, their ends and effect.      *)
Controls(in) ==
  {i \in DOMAIN in : /\ PrefixAt(in, i)
                     /\ ParamsEnd(in, i) <= Len(in)
                     /\ in[ParamsEnd(in, i)] \in {"h", "l"}}
Params(in, i) == ToSet(SubSeq(in, i + 3, ParamsEnd(in, i) - 1))
Sets(in, i) == in[ParamsEnd(in, i)] = "h"

(* track_mouse_private_modes_from_output: a mode is as the last control    *)
(* that names it says.                                                     *)
Track(on, in) ==
  LET Naming(m) == {i \in Controls(in) : m \in Params(in, i)}
      Latest(m) == CHOOSE i \in Naming(m) : \A j \in Naming(m) : j <= i
  IN {m \in Tracked : IF Naming(m) = {} THEN m \in on ELSE Sets(in, Latest(m))}

(* The remainder: the last prefix, if nothing but parameters follows it.   *)
OpenControl(in) ==
  LET open == {i \in DOMAIN in : PrefixAt(in, i) /\ ParamsEnd(in, i) > Len(in)}
  IN IF open = {} THEN <<>> ELSE From(in, FirstIndex(open))

\* Mutant of ModeRemainder: no remainder is kept.
ModeRemainderNone(in) == <<>>

ModeRemainder(in) == LastOf(OpenControl(in), MaxModeRemainder)

(* build_mouse_private_mode_replay_suffix.                                 *)
ReplaySuffix(on) ==
  FlattenSeq(SetToSeq({<<"esc", "[", "?", m, "h">> : m \in on}))

(* first_alternate_screen_control, sanitize_browser_terminal_replay: data  *)
(* that leaves the alternate screen first began on it.                     *)
ScreenControls(in) ==
  {i \in Controls(in) : SubSeq(in, i + 3, ParamsEnd(in, i) - 1) = <<"1049">>}

\* Mutant of SanitizeReplay: the replay is sent as it is.
SanitizeReplayNot(data) == data

SanitizeReplay(data) ==
  LET cs == ScreenControls(data)
  IN IF cs # {} /\ ~Sets(data, FirstIndex(cs))
     THEN <<"esc", "[", "?", "1049", "h">> \o data ELSE data

\* Mutant of Replay: without the modes.
ReplayBare == scrollback

(* replay_snapshot.                                                        *)
Replay == scrollback \o ReplaySuffix(modes)

-----------------------------------------------------------------------------
(* The daemon.                                                             *)

OutputInit ==
  /\ printed \in Outputs
  /\ fed = 0
  /\ captured = NothingCaptured
  /\ modes = {} /\ modeRemainder = <<>>
  /\ scrollback = <<>>
  /\ events = {}

Seen == SubSeq(printed, 1, fed)

(* Scrollback::append.                                                     *)
AppendChunk(s, chunk) == LastOf(s \o chunk, ScrollbackCap)

(* A cut before symbol n falls inside one of these controls.               *)
CutsControl(n) ==
  \E i \in Controls(printed) : i < n /\ n <= ParamsEnd(printed, i)

(* What a chunk that ends with symbol n cuts, and what is dropped then.    *)
Events(n, titleTail, openControl) ==
  {e \in {"character", "prefix", "trimmed", "dropped"} :
     CASE e = "character" -> n < Len(printed) /\ printed[n + 1] = "u2"
       [] e = "prefix" -> \E i \in {n - 1, n} : i >= 1 /\ PrefixAt(printed, i)
       [] e = "trimmed" -> Len(openControl) > MaxModeRemainder
       [] OTHER -> Len(titleTail) > MaxRemainder}

(* The reader thread handles one chunk under the state's lock.             *)
ReadChunk(n) ==
  /\ fed < n /\ n <= Len(printed)
  /\ LET chunk == SubSeq(printed, fed + 1, n)
         found == Capture(captured, captured.remainder \o Lossy(chunk))
         given == modeRemainder \o Lossy(chunk)
     IN /\ captured' = [found EXCEPT !.remainder = BoundedRemainder(@)]
        /\ modes' = Track(modes, given)
        /\ modeRemainder' = ModeRemainder(given)
        /\ scrollback' = AppendChunk(scrollback, chunk)
        /\ events' = events \cup Events(n, found.remainder, OpenControl(given))
  /\ fed' = n
  /\ UNCHANGED printed

OutputNext == \E n \in 1..Len(printed) : ReadChunk(n)
OutputSpec == OutputInit /\ [][OutputNext]_outputVars

-----------------------------------------------------------------------------
(* Remainders, title and scrollback keep within their bounds (MAX_TITLE_   *)
(* LENGTH, MAX_REMAINDER, the 64 bytes of the mode tracker, the cap).      *)
OutputTypeOK ==
  /\ fed \in 0..Len(printed)
  /\ Len(captured.title) <= MaxTitle /\ Len(captured.remainder) <= MaxRemainder
  /\ modes \subseteq Tracked /\ Len(modeRemainder) <= MaxModeRemainder
  /\ Len(scrollback) <= ScrollbackCap

(* However the output is cut into chunks, the title and progress captured  *)
(* are those of the same output read at once, unless a never-ended OSC was *)
(* dropped (MAX_REMAINDER) or a wide character was cut in two, which the   *)
(* lossy decoding of each chunk spoils (capture_terminal_output).          *)
TitleAsWhole ==
  events \cap {"dropped", "character"} = {} =>
    LET whole == Capture(NothingCaptured, Seen)
    IN captured.title = whole.title /\ captured.progress = whole.progress

(* However the output is cut, the tracked mouse modes are those of the     *)
(* whole, unless a cut fell inside the ESC [ ? that opens a control or the *)
(* parameters outgrew the remainder (track_mouse_private_modes_from_       *)
(* output).                                                                *)
ModesAsWhole ==
  events \cap {"prefix", "trimmed"} = {} => modes = Track({}, Seen)

(* The terminal of a viewer who joins now has the mouse modes the command  *)
(* asked for, although their controls may have been evicted from the       *)
(* scrollback, and goes on having them as the rest of the output reaches   *)
(* it (replay_snapshot); unless the tracker was misled, or the viewer      *)
(* joined in the middle of a control, which the suffix then breaks up.     *)
ViewerModesTrue ==
  events \cap {"prefix", "trimmed"} = {} /\ ~CutsControl(fed + 1) =>
    \A n \in fed..Len(printed) :
      Track({}, Replay \o SubSeq(printed, fed + 1, n))
        = Track({}, SubSeq(printed, 1, n))

(* Whether symbol i of s is written to the alternate screen.               *)
OnAlternate(s, i) ==
  LET before == {c \in ScreenControls(s) : ParamsEnd(s, c) < i}
  IN before # {} /\ Sets(s, CHOOSE c \in before : \A d \in before : d <= c)

(* The command enters and leaves the alternate screen in turn.             *)
SwitchesInTurn ==
  \A c \in ScreenControls(printed) : Sets(printed, c) = ~OnAlternate(printed, c)

(* Text replayed to a browser appears on the screen it was printed to,     *)
(* although the control that entered the alternate screen was evicted      *)
(* (sanitize_browser_terminal_replay): if the replay holds another screen  *)
(* control by which that can be told, and does not begin inside one.       *)
TextOnItsScreen ==
  LET replay == SanitizeReplay(scrollback)
      cut == fed - Len(scrollback)
      added == Len(replay) - Len(scrollback)
  IN SwitchesInTurn /\ ScreenControls(scrollback) # {} /\ ~CutsControl(cut + 1)
       => \A i \in DOMAIN scrollback :
            OnAlternate(replay, added + i) = OnAlternate(printed, cut + i)

\* Cutting and evicting output does not show: titles, modes and replays are those of
\* the output as a whole (the parts above; title_capture.rs, replay.rs).
OutputInv ==
    /\ OutputTypeOK
    /\ TitleAsWhole
    /\ ModesAsWhole
    /\ ViewerModesTrue
    /\ TextOnItsScreen
=============================================================================
