----------------------------- MODULE MCNetwork ------------------------------
(***************************************************************************)
(* The parts that depend on the world outside the machine, on one small    *)
(* instance: the uplink supervisor and its tunnels, the port of a tunnel,  *)
(* the channel of one bridged session, and the installed program with its  *)
(* releases.  The parts share no state: a behaviour is one of a single     *)
(* part, chosen at the start, under that part's fairness, while the others *)
(* rest in one of their initial states.                                    *)
(***************************************************************************)
EXTENDS UplinkSupervisor, TunnelPort, RemoteChannel, Installation

\* The part whose behaviour this is.
VARIABLE part

networkVars == <<part, uplinkVars, tunnelVars, channelVars, installVars>>

\* The part runs, from any of its initial states, or rests in a plain one.  No
\* fair action of the uplink or the channel is enabled in the plain ones.
Chosen(p, plain) == part = p \/ plain

NetworkInit ==
    /\ part \in {"uplink", "tunnel", "channel", "install"}
    /\ UplinkInit /\ Chosen("uplink", ~upConfig.enabled /\ ~upConfig.direct
                                      /\ upConfig.tunnel = NoTarget)
    /\ TunnelInit /\ Chosen("tunnel", tpMade = {})
    /\ ChannelInit /\ Chosen("channel", ~secret)
    /\ InstallInit /\ Chosen("install", ~windows /\ ~auto)

NetworkNext ==
    \/ /\ part = "uplink" /\ UplinkNext
       /\ UNCHANGED <<part, tunnelVars, channelVars, installVars>>
    \/ /\ part = "tunnel" /\ TunnelNext
       /\ UNCHANGED <<part, uplinkVars, channelVars, installVars>>
    \/ /\ part = "channel" /\ ChannelNext
       /\ UNCHANGED <<part, uplinkVars, tunnelVars, installVars>>
    \/ /\ part = "install" /\ InstallNext
       /\ UNCHANGED <<part, uplinkVars, tunnelVars, channelVars>>

\* InstallFairness while the behaviour is that of the installed program.
InstallRuns ==
    /\ WF_installVars(part = "install" /\ DayGoesBy)
    /\ SF_installVars(part = "install" /\ LaunchesNow)
    /\ \A p \in Procs : WF_installVars(part = "install" /\ Succeeds(p))

NetworkSpec ==
    /\ NetworkInit /\ [][NetworkNext]_networkVars
    /\ UplinkFairness /\ ChannelFairness /\ InstallRuns
=============================================================================
