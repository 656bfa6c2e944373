------------------------------ MODULE MCLocal -------------------------------
(***************************************************************************)
(* The processes of one machine, on one small instance: the life of a      *)
(* session from its launch to its removal, the client attached to one, and *)
(* the ingest daemon with its beacons.  The parts share no state: a        *)
(* behaviour is one of a single part, chosen at the start, under that      *)
(* part's fairness, while the others rest in one of their initial states.  *)
(***************************************************************************)
EXTENDS IngestDaemon, AttachClient, SessionLifecycle

\* The part whose behaviour this is.
VARIABLE part

localVars == <<part, daemonVars, attachVars, lifeVars>>

\* The part runs, from any of its initial states, or rests in a plain one.  No
\* fair action of the ingest daemon is enabled in the plain one.
Chosen(p, plain) == part = p \/ plain

LocalInit ==
    /\ part \in {"daemon", "attach", "life"}
    /\ DaemonInit /\ Chosen("daemon", ~dmWanted)
    /\ AttachInit /\ Chosen("attach", polls /\ mine)
    /\ LifeInit /\ Chosen("life", ~place.local /\ ~place.windows)

LocalNext ==
    \/ /\ part = "daemon" /\ DaemonNext
       /\ UNCHANGED <<part, attachVars, lifeVars>>
    \/ /\ part = "attach" /\ AttachNext
       /\ UNCHANGED <<part, daemonVars, lifeVars>>
    \/ /\ part = "life" /\ LifeNext
       /\ UNCHANGED <<part, daemonVars, attachVars>>

\* AttachFairness and LifeFairness, each while it is that part's behaviour.
AttachRuns ==
    /\ WF_attachVars(part = "attach" /\ InputStep)
    /\ WF_attachVars(part = "attach" /\ ReaderStep)

LifeRuns ==
    /\ SF_lifeVars(part = "life" /\ MainStep)
    /\ WF_lifeVars(part = "life" /\ PumpStep)
    /\ WF_lifeVars(part = "life" /\ IdleStep)
    /\ WF_lifeVars(part = "life" /\ TitleStep)
    /\ WF_lifeVars(part = "life" /\ KillStep)
    /\ WF_lifeVars(part = "life" /\ PollerEnds)

LocalSpec ==
    /\ LocalInit /\ [][LocalNext]_localVars
    /\ DaemonFairness /\ AttachRuns /\ LifeRuns
=============================================================================
