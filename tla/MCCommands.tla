----------------------------- MODULE MCCommands -----------------------------
(***************************************************************************)
(* The commands of the program and the streams they read, on one small     *)
(* instance: launching a session, setting the configuration, linking WSL   *)
(* and Windows, decoding the frames of a stream, and scanning the output   *)
(* of a terminal.  Nothing here has to happen: only safety is checked.     *)
(* The parts share no state: a behaviour is one of a single part, chosen   *)
(* at the start, while the others rest in one of their initial states.     *)
(***************************************************************************)
EXTENDS Launching, Configuration, PeerBridge, FrameCodec, TerminalOutput

\* The part whose behaviour this is.
VARIABLE part

commandVars == <<part, launchVars, configVars, bridgeVars, codecVars, outputVars>>

\* The chosen part runs from any of its initial states, the others rest in a
\* plain one.
CommandInit ==
    /\ part \in {"launch", "config", "bridge", "codec", "output"}
    /\ part # "codec" => sent = <<>> /\ decoder = "frame"
    /\ CodecInit
    /\ part # "output" => printed = <<"x">>
    /\ OutputInit
    /\ part # "launch" => machine = (CHOOSE m \in Machines : TRUE)
    /\ LaunchInit
    /\ part # "config" =>
         /\ cwd = (CHOOSE d \in Cwds : TRUE) /\ moved = FALSE
         /\ canonical = [d \in Dirs |-> NoConfig] /\ legacy = canonical
    /\ ConfigInit
    /\ part # "bridge" =>
         /\ settings = [remote |-> [enabled |-> FALSE, host |-> FALSE,
                                   port |-> FALSE, tunnel |-> FALSE],
                        pointer |-> FALSE, bridge |-> FALSE, autoLink |-> FALSE]
         /\ world = [wsl |-> FALSE, winHome |-> FALSE, uncPath |-> FALSE,
                     devtunnel |-> FALSE, dashboard |-> FALSE, peerIngest |-> FALSE]
    /\ BridgeInit

CommandNext ==
    \/ /\ part = "launch" /\ LaunchNext
       /\ UNCHANGED <<part, configVars, bridgeVars, codecVars, outputVars>>
    \/ /\ part = "config" /\ ConfigNext
       /\ UNCHANGED <<part, launchVars, bridgeVars, codecVars, outputVars>>
    \/ /\ part = "bridge" /\ BridgeNext
       /\ UNCHANGED <<part, launchVars, configVars, codecVars, outputVars>>
    \/ /\ part = "codec" /\ CodecNext
       /\ UNCHANGED <<part, launchVars, configVars, bridgeVars, outputVars>>
    \/ /\ part = "output" /\ OutputNext
       /\ UNCHANGED <<part, launchVars, configVars, bridgeVars, codecVars>>

CommandSpec == CommandInit /\ [][CommandNext]_commandVars

\* The two runners of configuration commands are interchangeable.
RunnerSymmetry == Permutations(Runners)
=============================================================================
