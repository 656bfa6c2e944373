----------------------------- MODULE Launching -----------------------------
(***************************************************************************)
(* From a request to run a command to the session that runs it.            *)
(*                                                                         *)
(* A request reaches the client as an argument vector.  It is typed by a   *)
(* user (`climon npm test`, `climon run ...`, `climon command ...`,        *)
(* `climon shell`) or built by another process: the dashboard server and   *)
(* the devbox uplink both re-execute `climon __spawn ...`.  A visible      *)
(* `__spawn` opens a terminal window, whose command line is a vector once  *)
(* more, built by build_climon_command and parsed by a second client.      *)
(* When no window can be opened the session is made without one.           *)
(*                                                                         *)
(* A token is a tuple: <<"npm">> a word, <<"--name", "n">> the joined form *)
(* `--name=n`.  Words stand for themselves; text is not taken apart.       *)
(***************************************************************************)
EXTENDS Integers, Sequences, FiniteSets

VARIABLES
    request,  \* what was asked for, or NoRequest
    machine,  \* what the request finds: settings, colours worn, terminal
    client,   \* the two clients: the one asked, and the one in the window
    made,     \* the sessions recorded, in order
    outcome   \* what the client that was asked reports

launchVars == <<request, machine, client, made, outcome>>

----------------------------------------------------------------------------
(* Tokens.                                                                 *)

NoValue == <<>>
Word(s) == <<s>>
Key(token) == token[1]
Inline(token) == Len(token) = 2

SessionFlags == {"--priority", "--color", "--name", "--theme"}

\* parse_args: the words it takes for a subcommand of climon
Subcommands ==
    {"help", "--help", "-h", "--version", "-v", "--update", "update", "setup",
     "__update-check", "server", "ls", "list", "shell", "kill", "run", "command",
     "__spawn", "config", "cleanup", "remotes", "link", "__uplink", "__ingest",
     "license", "licenses", "__session"}

\* js_number, parse_priority: the empty word is 0, what is not a number or is
\* outside 0..1000 is refused (-1)
Numbers == {0, 7, 100, 1000, 1001, 70000}
NumberText(n) == CASE n = 0 -> "0" [] n = 7 -> "7" [] n = 100 -> "100"
                   [] n = 1000 -> "1000" [] n = 1001 -> "1001"
                   [] n = 70000 -> "70000"
JsNumber(token) ==
    IF token = Word("") THEN 0
    ELSE IF \E n \in Numbers : token = Word(NumberText(n))
         THEN CHOOSE n \in Numbers : token = Word(NumberText(n))
         ELSE -1
ParsePriority(token) ==
    IF JsNumber(token) \in 0 .. 1000 THEN JsNumber(token) ELSE -1

\* parse_color_mode: case is folded; anything but a colour, auto and none is
\* refused ("bad")
AutoColorOrder == <<"white", "red">>
Colors == {AutoColorOrder[i] : i \in DOMAIN AutoColorOrder}
ParseColorMode(token) ==
    CASE token = Word("RED") -> "red"
      [] \E m \in Colors \cup {"auto", "none"} : token = Word(m) -> token[1]
      [] OTHER -> "bad"

----------------------------------------------------------------------------
(* parse_args and what it rests on.                                        *)

NoFlags == [priority |-> -1, color |-> "unset", name |-> NoValue, theme |-> NoValue]

Field(key) == CASE key = "--priority" -> "priority" [] key = "--color" -> "color"
                [] key = "--name" -> "name" [] key = "--theme" -> "theme"

Value(key, token) == CASE key = "--priority" -> ParsePriority(token)
                       [] key = "--color" -> ParseColorMode(token)
                       [] OTHER -> token

Refused(key, token) == \/ key = "--priority" /\ ParsePriority(token) = -1
                       \/ key = "--color" /\ ParseColorMode(token) = "bad"

\* parse_session_flags: the leading flags, each with its joined value or the
\* next token whatever that looks like; the last of two equal flags counts
ParseSessionFlags(tokens) ==
    LET Stop(i) == [error |-> FALSE, flags |-> NoFlags,
                    rest |-> SubSeq(tokens, i, Len(tokens))]
        Fail == [error |-> TRUE, flags |-> NoFlags, rest |-> <<>>]
        Scan[i \in 1 .. Len(tokens) + 1] ==
          IF i > Len(tokens) THEN Stop(i)
          ELSE LET key == Key(tokens[i])
                   joined == Inline(tokens[i])
               IN IF key \notin SessionFlags THEN Stop(i)
                  ELSE IF ~joined /\ i = Len(tokens) THEN Fail
                  ELSE LET value == IF joined THEN Word(tokens[i][2]) ELSE tokens[i + 1]
                           later == Scan[IF joined THEN i + 1 ELSE i + 2]
                       IN IF Refused(key, value) \/ later.error THEN Fail
                          ELSE IF later.flags[Field(key)] # NoFlags[Field(key)] THEN later
                          ELSE [later EXCEPT !.flags[Field(key)] = Value(key, value)]
    IN Scan[1]

Command(verb, headless, cols, parsed) ==
    [verb |-> verb, headless |-> headless, cols |-> cols,
     flags |-> parsed.flags, argv |-> parsed.rest]

Plain(verb) == Command(verb, FALSE, 80, [flags |-> NoFlags, rest |-> <<>>])

\* run_from_flags, after the emptiness checks of its callers
RunOf(headless, parsed) ==
    IF parsed.error \/ parsed.rest = <<>> THEN Plain("error")
    ELSE Command("run", headless, 80, parsed)

\* `run`: the leading --headless words are taken before the session flags
RunCommand(rest) ==
    LET n == CHOOSE n \in 0 .. Len(rest) :
               /\ \A i \in 1 .. n : rest[i] = Word("--headless")
               /\ n < Len(rest) => rest[n + 1] # Word("--headless")
    IN RunOf(n > 0, ParseSessionFlags(SubSeq(rest, n + 1, Len(rest))))

\* `__spawn`: options in any order until the first token that is none; the
\* last of two sizes counts, and 80 stands for none (--rows is read alike)
SpawnCommand(rest) ==
    LET Stop(i) == [error |-> FALSE, headless |-> FALSE, cols |-> -1,
                    rest |-> SubSeq(rest, i, Len(rest))]
        Fail == [Stop(Len(rest) + 1) EXCEPT !.error = TRUE]
        Scan[i \in 1 .. Len(rest) + 1] ==
          IF i > Len(rest) THEN Stop(i)
          ELSE IF rest[i] = Word("--headless")
               THEN [Scan[i + 1] EXCEPT !.headless = TRUE]
          ELSE IF rest[i] \notin {Word("--cwd"), Word("--cols")} THEN Stop(i)
          ELSE IF i = Len(rest) THEN Fail
          ELSE IF rest[i] = Word("--cwd") THEN Scan[i + 2]
          ELSE IF JsNumber(rest[i + 1]) \notin 0 .. 65535 \/ rest[i + 1] = Word("")
               THEN Fail
          ELSE [Scan[i + 2] EXCEPT !.cols = IF @ = -1 THEN JsNumber(rest[i + 1]) ELSE @]
        options == Scan[1]
        parsed == ParseSessionFlags(options.rest)
    IN IF options.error \/ parsed.error \/ parsed.rest = <<>> THEN Plain("error")
       ELSE Command("spawn", options.headless,
                    IF options.cols = -1 THEN 80 ELSE options.cols, parsed)

ShellCommand(rest) ==
    LET parsed == ParseSessionFlags(rest)
    IN IF parsed.error \/ parsed.rest # <<>> THEN Plain("error")
       ELSE Command("shell", FALSE, 80, parsed)

\* Leading flags without a command show the help text.
BareFlags(tokens) ==
    LET parsed == ParseSessionFlags(tokens)
    IN IF ~parsed.error /\ parsed.rest = <<>> THEN Plain("other") ELSE RunOf(FALSE, parsed)

\* parse_args.  "other" is a subcommand that makes no session.
ParseArgs(tokens) ==
    IF tokens = <<>> THEN Plain("other")
    ELSE LET first == Key(tokens[1])
             rest == Tail(tokens)
         IN CASE first \in SessionFlags -> BareFlags(tokens)
              [] first = "run" -> RunCommand(rest)
              [] first = "command" -> RunOf(FALSE, ParseSessionFlags(rest))
              [] first = "shell" -> ShellCommand(rest)
              [] first = "__spawn" -> SpawnCommand(rest)
              [] first = "kill" /\ rest = <<>> -> Plain("error")
              [] first \in Subcommands \ {"run", "command", "shell", "__spawn"}
                   /\ ~(first = "kill" /\ rest = <<>>) -> Plain("other")
              [] OTHER -> RunOf(FALSE, ParseSessionFlags(tokens))

----------------------------------------------------------------------------
(* The argument vectors other processes build.                             *)

\* One flag with its value, or nothing for a value that is absent
Flag(key, value) == IF value = NoValue THEN <<>> ELSE <<Word(key), value>>

\* The flags as a user joins them with '='
Joined(flag) == IF flag = <<>> THEN <<>> ELSE <<<<flag[1][1], flag[2][1]>>>>

\* A request: who asks, for what command, with what flags; meta holds the
\* values as text
Metas ==
    {[priority |-> p, color |-> c, name |-> n, theme |-> t] :
        <<p, c, n, t>> \in
            {<<NoValue, NoValue, NoValue, NoValue>>,
             <<Word("7"), Word("RED"), Word("--theme"), Word("t")>>,
             <<Word("1000"), Word("none"), NoValue, NoValue>>,
             <<NoValue, Word("auto"), Word("n"), NoValue>>,
             <<NoValue, NoValue, NoValue, Word("--headless")>>,
             <<Word("1001"), NoValue, NoValue, NoValue>>,
             <<NoValue, Word("pink"), Word("n"), NoValue>>}}

Argvs ==
    {<<Word("npm")>>, <<Word("ls")>>, <<Word("shell")>>, <<Word("nope")>>,
     <<Word("npm"), Word("--headless"), <<"--name", "x">>>>,
     <<Word("--headless"), Word("npm")>>}

\* The programs above the client, nearest first; "hidden" cannot be read
Parents ==
    {<<>>, <<"bash">>, <<"node", "zsh", "bash">>, <<"code", "hidden", "bash">>,
     <<"node", "code", "node", "cargo", "node">>,
     <<"node", "code", "node", "cargo", "zsh">>,
     <<"node", "code", "node", "cargo", "sshd", "bash">>}

Requests ==
    [via : {"dashboard", "uplink", "run", "command", "bare", "joined"},
     argv : Argvs, meta : Metas, headless : BOOLEAN, cols : {0, 100},
     parents : {<<>>}]
    \cup [via : {"shell"}, argv : {<<>>}, meta : Metas, headless : {FALSE},
          cols : {0}, parents : Parents]

NoRequest == [via |-> "nobody"]

\* The flags in the order every builder emits them
FlagsOf(meta) ==
    Flag("--priority", meta.priority) \o Flag("--color", meta.color)
        \o Flag("--name", meta.name) \o Flag("--theme", meta.theme)

\* build_spawn_argv, and buildSpawnArgs of the dashboard server.  The message
\* to the devbox has no theme.
SpawnArgv(r) ==
    <<Word("__spawn")>>
      \o (IF r.headless THEN <<Word("--headless")>> ELSE <<>>)
      \o <<Word("--cwd"), Word("dir"), Word("--cols"), Word(NumberText(r.cols))>>
      \o FlagsOf(IF r.via = "uplink" THEN [r.meta EXCEPT !.theme = NoValue] ELSE r.meta)
      \o r.argv

\* build_run_args, which is also what a user types after `climon`
RunArgv(r) == <<Word("run")>> \o (IF r.headless THEN <<Word("--headless")>> ELSE <<>>)
                \o FlagsOf(r.meta) \o r.argv

JoinedFlags(meta) ==
    Joined(Flag("--priority", meta.priority)) \o Joined(Flag("--color", meta.color))
        \o Joined(Flag("--name", meta.name)) \o Joined(Flag("--theme", meta.theme))

Typed(r) == CASE r.via \in {"dashboard", "uplink"} -> SpawnArgv(r)
              [] r.via = "run" -> RunArgv(r)
              [] r.via = "command" -> <<Word("command")>> \o FlagsOf(r.meta) \o r.argv
              [] r.via = "bare" -> FlagsOf(r.meta) \o r.argv
              [] r.via = "joined" -> JoinedFlags(r.meta) \o r.argv
              [] r.via = "shell" -> <<Word("shell")>> \o FlagsOf(r.meta)

\* Mutant of ClimonCommand: the flags are built without the theme.
ClimonCommandUnthemed(c) ==
    Flag("--priority", IF c.flags.priority = -1 THEN NoValue
                       ELSE Word(NumberText(c.flags.priority)))
      \o Flag("--color", IF c.flags.color = "unset" THEN NoValue ELSE Word(c.flags.color))
      \o Flag("--name", c.flags.name) \o c.argv

\* build_climon_command: what the terminal window runs, without the program's
\* name.  The values were parsed by now and are printed again.
ClimonCommand(c) ==
    Flag("--priority", IF c.flags.priority = -1 THEN NoValue
                       ELSE Word(NumberText(c.flags.priority)))
      \o Flag("--color", IF c.flags.color = "unset" THEN NoValue ELSE Word(c.flags.color))
      \o Flag("--name", c.flags.name) \o Flag("--theme", c.flags.theme) \o c.argv

----------------------------------------------------------------------------
(* What a session is made with.                                            *)

\* choose_auto_session_color: the scan keeps the first colour in order that no
\* later one undercuts
AutoColor(worn) ==
    LET Scan[i \in DOMAIN AutoColorOrder] ==
          IF i = 1 THEN 1
          ELSE IF worn[AutoColorOrder[i]] < worn[AutoColorOrder[Scan[i - 1]]]
               THEN i ELSE Scan[i - 1]
    IN AutoColorOrder[Scan[Len(AutoColorOrder)]]

DefaultPriority == 100

\* resolve_session_defaults: the flags, then the settings, then the defaults;
\* a setting that does not parse counts as not set
SessionColor(flags, m) ==
    LET mode == IF flags.color # "unset" THEN flags.color
                ELSE IF ParseColorMode(m.color) = "bad" THEN "auto"
                ELSE ParseColorMode(m.color)
    IN IF mode = "auto" THEN AutoColor(m.worn) ELSE mode

SessionPriority(flags, m) ==
    IF flags.priority # -1 THEN flags.priority
    ELSE IF m.priority # Word("") /\ ParsePriority(m.priority) # -1
         THEN ParsePriority(m.priority)
    ELSE DefaultPriority

\* resolve_launch_size with parse_int10, and spawn_headless_session's max(1)
LaunchSize(n) == IF n > 0 THEN (IF n > 65535 THEN 65535 ELSE n) ELSE 80
AtLeastOne(n) == IF n < 1 THEN 1 ELSE n

\* The record written for command c
SessionOf(c, headless, cols, name) ==
    [argv |-> c.argv, headless |-> headless, cols |-> cols, name |-> name,
     color |-> SessionColor(c.flags, machine), theme |-> c.flags.theme,
     priority |-> SessionPriority(c.flags, machine), running |-> FALSE]

\* is_blocked: programs that start others and are no shells
Blocked == {"code", "node", "cargo", "sshd"}
MaxLevels == 5

\* query_process, /proc, ps: the program of the i-th process up, "none" above
\* the topmost one and where it cannot be read
Query(parents, i) ==
    IF i > Len(parents) \/ parents[i] = "hidden" THEN "none" ELSE parents[i]

\* detect_linux_parent and its fellows: up the process tree, to the first
\* program that is not blocked.  A process that cannot be read ends the walk.
DetectParent(parents) ==
    LET Walk[i \in 1 .. MaxLevels + 1] ==
          IF i > MaxLevels THEN "none"
          ELSE IF Query(parents, i) \in Blocked THEN Walk[i + 1]
          ELSE Query(parents, i)
    IN Walk[1]

\* detect_parent_shell: $SHELL stands in for a shell that was not found
EnvShell == "sh"
DetectShell(parents) ==
    IF DetectParent(parents) = "none" THEN EnvShell ELSE DetectParent(parents)

\* build_shell_argv: the shell is run under its own name unless one was given
OnPath(c) ==
    c.argv[1] \in {Word(w) : w \in {"npm", "ls", "shell", "bash", "zsh", EnvShell}}
AsShell(c, parents) ==
    LET shell == Word(DetectShell(parents))
    IN [c EXCEPT !.argv = <<shell>>, !.flags.name = IF @ = NoValue THEN shell ELSE @]

\* resolve_spec and launch: whether a window opens.  A template without {cmd}
\* opens a window that runs no climon.
Terminals == {"template", "bareTemplate", "brokenTemplate", "found", "none"}
Opens(terminal) == terminal \in {"template", "bareTemplate", "found"}

----------------------------------------------------------------------------
Clients == {"asked", "window"}
Idle == [at |-> "idle", tokens |-> <<>>, command |-> Plain("other")]
Resting == {"idle", "done", "failed", "lost"}

Machines ==
    {[color |-> s, priority |-> s, worn |-> w, terminal |-> t, cols |-> n] :
        s \in {Word(""), Word("7"), Word("white")},
        w \in {[c \in Colors |-> 0], [c \in Colors |-> IF c = "white" THEN 1 ELSE 0]},
        t \in Terminals, n \in {-1, 70000}}

LaunchInit ==
    /\ request = NoRequest
    /\ machine \in Machines
    /\ client = [p \in Clients |-> Idle]
    /\ made = <<>>
    /\ outcome = [id |-> FALSE, warning |-> FALSE, error |-> FALSE]

GoesTo(p, stage) == client' = [client EXCEPT ![p].at = stage]

\* A client ends with an error.  Only the one that was asked reports.
Fails(p, report) ==
    /\ GoesTo(p, "failed")
    /\ outcome' = IF p = "asked" THEN report ELSE outcome

Ask(r) ==
    /\ request = NoRequest
    /\ request' = r
    /\ client' = [client EXCEPT !["asked"] =
                     [Idle EXCEPT !.at = "parse", !.tokens = Typed(r)]]
    /\ UNCHANGED <<machine, made, outcome>>

Parse(p) ==
    /\ client[p].at = "parse"
    /\ LET c == ParseArgs(client[p].tokens)
       IN client' = [client EXCEPT ![p].at = "act",
                                   ![p].command = IF c.verb = "shell"
                                                   THEN AsShell(c, request.parents) ELSE c]
    /\ UNCHANGED <<request, machine, made, outcome>>

\* A subcommand that makes no session, or an argument error
NoSession(p) ==
    /\ client[p].at = "act"
    /\ client[p].command.verb \in {"other", "error"}
    /\ IF client[p].command.verb = "error"
       THEN Fails(p, [outcome EXCEPT !.error = TRUE])
       ELSE GoesTo(p, "done") /\ UNCHANGED outcome
    /\ UNCHANGED <<request, machine, made>>

\* start_monitored_command: the command is looked up first
Starts(p) == /\ client[p].at = "act"
             /\ client[p].command.verb \in {"run", "shell"}

NotFound(p) ==
    /\ Starts(p) /\ ~OnPath(client[p].command)
    /\ Fails(p, [outcome EXCEPT !.error = TRUE])
    /\ UNCHANGED <<request, machine, made>>

\* ... a session in this terminal: its record, then its host, here
StartHere(p) ==
    LET c == client[p].command IN
    /\ Starts(p) /\ OnPath(c) /\ ~c.headless
    /\ made' = Append(made, SessionOf(c, FALSE, 80, c.flags.name))
    /\ GoesTo(p, "host")
    /\ UNCHANGED <<request, machine, outcome>>

\* ... or one without a terminal, of the size the environment gives
StartHeadless(p) ==
    LET c == client[p].command IN
    /\ Starts(p) /\ OnPath(c) /\ c.headless
    /\ client' = [client EXCEPT ![p].at = "create",
                                ![p].command.cols = LaunchSize(machine.cols)]
    /\ UNCHANGED <<request, machine, made, outcome>>

\* decide_and_run: headless, or a window, or headless after all
SpawnHeadless(p) ==
    /\ client[p].at = "act" /\ client[p].command.verb = "spawn"
    /\ client[p].command.headless
    /\ GoesTo(p, "create")
    /\ UNCHANGED <<request, machine, made, outcome>>

\* Mutant of OpenTerminal: the headless session is made whether or not the
\* window opened.
OpenTerminalToo(p) ==
    LET c == client[p].command IN
    /\ client[p].at = "act" /\ c.verb = "spawn" /\ ~c.headless
    /\ Opens(machine.terminal)
    /\ client' = [client EXCEPT
            ![p].at = "create",
            !["window"] = IF machine.terminal = "bareTemplate" THEN Idle
                          ELSE [Idle EXCEPT !.at = "parse", !.tokens = ClimonCommand(c)]]
    /\ UNCHANGED <<request, machine, made, outcome>>

OpenTerminal(p) ==
    LET c == client[p].command IN
    /\ client[p].at = "act" /\ c.verb = "spawn" /\ ~c.headless
    /\ Opens(machine.terminal)
    /\ client' = [client EXCEPT
            ![p].at = "done",
            !["window"] = IF machine.terminal = "bareTemplate" THEN Idle
                          ELSE [Idle EXCEPT !.at = "parse", !.tokens = ClimonCommand(c)]]
    /\ UNCHANGED <<request, machine, made, outcome>>

FallBack(p) ==
    /\ client[p].at = "act" /\ client[p].command.verb = "spawn"
    /\ ~client[p].command.headless
    /\ ~Opens(machine.terminal)
    /\ GoesTo(p, "create")
    /\ outcome' = [outcome EXCEPT !.warning = TRUE]
    /\ UNCHANGED <<request, machine, made>>

\* Mutant of Create: the id is reported as soon as the record is written.
CreateReporting(p) ==
    LET c == client[p].command IN
    /\ client[p].at = "create"
    /\ made' = Append(made, SessionOf(c, TRUE, AtLeastOne(c.cols), c.flags.name))
    /\ GoesTo(p, "daemon")
    /\ outcome' = [outcome EXCEPT !.id = TRUE]
    /\ UNCHANGED <<request, machine>>

\* spawn_headless_session: the record, then the detached daemon
Create(p) ==
    LET c == client[p].command IN
    /\ client[p].at = "create"
    /\ made' = Append(made, SessionOf(c, TRUE, AtLeastOne(c.cols), c.flags.name))
    /\ GoesTo(p, "daemon")
    /\ UNCHANGED <<request, machine, outcome>>

\* `run --headless` prints the error; `__spawn` reports it as a warning
CreateFails(p) ==
    /\ client[p].at \in {"create", "daemon"}
    /\ Fails(p, IF client[p].command.verb = "spawn"
                THEN [outcome EXCEPT !.warning = TRUE]
                ELSE [outcome EXCEPT !.error = TRUE])
    /\ UNCHANGED <<request, machine, made>>

Running(i) == made' = [made EXCEPT ![i].running = TRUE]

SpawnDaemon(p) ==
    /\ client[p].at = "daemon"
    /\ Running(Len(made))
    /\ GoesTo(p, "done")
    /\ outcome' = [outcome EXCEPT !.id = TRUE]
    /\ UNCHANGED <<request, machine>>

HostRuns(p) ==
    /\ client[p].at = "host"
    /\ Running(Len(made))
    /\ GoesTo(p, "done")
    /\ UNCHANGED <<request, machine, outcome>>

HostFails(p) ==
    /\ client[p].at = "host"
    /\ Fails(p, [outcome EXCEPT !.error = TRUE])
    /\ UNCHANGED <<request, machine, made>>

\* The terminal program ends before climon ran in it; nobody is told.
WindowDies ==
    /\ client["window"].at = "parse"
    /\ GoesTo("window", "lost")
    /\ UNCHANGED <<request, machine, made, outcome>>

LaunchNext ==
    \/ \E r \in Requests : Ask(r)
    \/ \E p \in Clients :
         \/ Parse(p) \/ NoSession(p) \/ NotFound(p) \/ StartHere(p) \/ StartHeadless(p)
         \/ SpawnHeadless(p) \/ OpenTerminal(p) \/ FallBack(p)
         \/ Create(p) \/ CreateFails(p) \/ SpawnDaemon(p)
         \/ HostRuns(p) \/ HostFails(p)
    \/ WindowDies

LaunchSpec == LaunchInit /\ [][LaunchNext]_launchVars

----------------------------------------------------------------------------
Sizes == 1 .. 65535

\* Every part of the state has its kind; a session has a size a terminal can
\* have and a priority between 0 and 1000 (launcher.rs resolve_launch_size and
\* resolve_session_defaults, spawn.rs spawn_headless_session).
LaunchTypeOK ==
    /\ request \in Requests \cup {NoRequest}
    /\ machine \in Machines
    /\ \A p \in Clients :
          client[p].at \in Resting \cup {"parse", "act", "create", "daemon", "host"}
    /\ outcome \in [id : BOOLEAN, warning : BOOLEAN, error : BOOLEAN]
    /\ \A i \in DOMAIN made : /\ made[i].cols \in Sizes
                              /\ made[i].priority \in 0 .. 1000
                              /\ made[i].color \in Colors \cup {"none"}
                              /\ made[i].running \in BOOLEAN

Settled == request # NoRequest /\ \A p \in Clients : client[p].at \in Resting

\* The requests whose vector can be read in two ways: no flag stands between
\* the words of climon and a command that begins with one of them.
Unflagged(r) == \A key \in DOMAIN r.meta \ (IF r.via = "uplink" THEN {"theme"} ELSE {}) :
                   r.meta[key] = NoValue
Visible(r) == r.via \in {"dashboard", "uplink"} /\ ~r.headless
Ambiguous(r) ==
    /\ Unflagged(r)
    /\ r.via # "shell"
    /\ \/ r.via \in {"run", "dashboard", "uplink"} /\ r.argv[1] = Word("--headless")
       \/ (r.via \in {"bare", "joined"} \/ Visible(r)) /\ Key(r.argv[1]) \in Subcommands

LeastWorn(color) ==
    color \in Colors /\ \A rival \in Colors : machine.worn[color] <= machine.worn[rival]

\* What `climon shell` may run: no blocked program; the shell at least that is
\* directly above the client or within five levels behind blocked programs
\* alone, and $SHELL only where there is none.
ShellFits(argv) ==
    LET above == request.parents
        Clear(i) == i <= MaxLevels /\ above[i] \notin Blocked \cup {"hidden"}
                      /\ \A j \in 1 .. i - 1 : above[j] \in Blocked
    IN /\ Len(argv) = 1 /\ argv[1][1] \notin Blocked \cup {"hidden", "none"}
       /\ IF \E i \in DOMAIN above : Clear(i)
          THEN \E i \in DOMAIN above : Clear(i) /\ argv = <<Word(above[i])>>
          ELSE argv = <<Word(EnvShell)>>

\* s has the command, name, theme, colour and priority that were asked for, and
\* the configured or default ones where nothing was asked
AsAsked(s) ==
    LET meta == request.meta
        shell == request.via = "shell"
    IN /\ IF shell THEN ShellFits(s.argv) ELSE s.argv = request.argv
       /\ s.name = IF meta.name = NoValue /\ shell THEN s.argv[1] ELSE meta.name
       /\ s.theme = IF request.via = "uplink" THEN NoValue ELSE meta.theme
       /\ s.headless /\ request.via \in {"dashboard", "uplink"} /\ request.cols > 0
            => s.cols = request.cols
       /\ CASE meta.color = Word("RED") -> s.color = "red"
            [] meta.color = Word("none") -> s.color = "none"
            [] meta.color = NoValue /\ machine.color = Word("white") -> s.color = "white"
            [] OTHER -> LeastWorn(s.color)
       /\ s.priority = CASE meta.priority = Word("1000") -> 1000
                         [] meta.priority = Word("7") -> 7
                         [] machine.priority = Word("7") -> 7
                         [] OTHER -> 100

\* However a request travels (typed, joined with '=', through the dashboard's
\* or the uplink's `__spawn`, through a terminal window's second command line,
\* or around a window that did not open), a session that comes of it runs the
\* command that was asked for under the name, colour, priority and theme that
\* were asked for: what a builder prints parse_args reads back (args.rs
\* parse_session_flags, uplink.rs build_spawn_argv, spawn_command.rs
\* build_climon_command).  Outside it are the ambiguous requests.
SpawnAsAsked ==
    ~(request # NoRequest /\ Ambiguous(request)) => \A i \in DOMAIN made : AsAsked(made[i])

\* A request makes at most one session, also when the terminal could not be
\* opened and the session was made without one (spawn_command.rs
\* decide_and_run); once everything has settled and nothing failed, it has made
\* one, and it runs.
OneSession ==
    /\ Len(made) <= 1
    /\ /\ Settled /\ ~Ambiguous(request)
       /\ \A p \in Clients : client[p].at \in {"idle", "done"}
       /\ ~(Visible(request) /\ machine.terminal = "bareTemplate")
       => Len(made) = 1 /\ made[1].running

\* What the client reports to the dashboard or the uplink is true when it is
\* read: an id belongs to a headless session that runs; an error, or a warning
\* without an id, leaves none running; neither means a window was opened for it
\* (spawn_command.rs SpawnOutcome, run_spawn_command).
OutcomeTrue ==
    /\ outcome.id => \E i \in DOMAIN made : made[i].headless /\ made[i].running
    /\ request # NoRequest /\ request.via \in {"dashboard", "uplink"}
         /\ client["asked"].at \in {"done", "failed"} /\ ~outcome.id
       => IF outcome.error \/ outcome.warning
          THEN ~\E i \in DOMAIN made : made[i].running
          ELSE Opens(machine.terminal) /\ ~client["asked"].command.headless

\* Whatever way a request takes, one session comes of it, as it was asked for, and
\* what is reported is so (the parts above; args.rs, spawn.rs, spawn_command.rs).
LaunchInv ==
    /\ LaunchTypeOK
    /\ SpawnAsAsked
    /\ OneSession
    /\ OutcomeTrue
=============================================================================
