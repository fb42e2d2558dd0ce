------------------------------ MODULE MCShared -----------------------------
(***************************************************************************)
(* Small instances of the parts that several goroutines share: a framed    *)
(* connection, the cache with expiring items, the logger and its files,    *)
(* the balancers and the factory of Nacos clients.  A behaviour is one of  *)
(* a part, chosen at the beginning.                                        *)
(***************************************************************************)
EXTENDS Framing, InMemCache, Logger, Balancer, DiscoFactory

VARIABLE part

vars == <<part, frameVars, inmemVars, rollVars, logVars, balancerVars, factoryVars>>

\* No body, a short one, the longest one (three bytes, with LenBase = 2), one
\* too long, an unknown subcommand and an undecoded control packet.
MCPacket ==
    {[cmd |-> 10, sub |-> 10, body |-> <<>>], [cmd |-> 30, sub |-> 21, body |-> <<7>>],
     [cmd |-> 20, sub |-> 99, body |-> <<8, 9, 8>>], [cmd |-> 60, sub |-> 1, body |-> <<3>>],
     [cmd |-> 20, sub |-> 12, body |-> <<1, 1, 1, 1>>]}

\* Services without, with one and with three instances.
MCSize == [s \in Service |-> CASE s = "none" -> 0 [] s = "one" -> 1 [] s = "three" -> 3]

Init ==
    /\ part \in {"framing", "inmem", "logger", "balancer", "factory"}
    /\ FrameInit /\ InMemInit /\ LoggerInit /\ BalancerInit /\ FactoryInit
    /\ part # "logger" => level = LevelInfo

Next ==
    \/ part = "framing" /\ FrameNext /\ UNCHANGED <<part, inmemVars, rollVars, logVars, balancerVars, factoryVars>>
    \/ part = "inmem" /\ InMemNext /\ UNCHANGED <<part, frameVars, rollVars, logVars, balancerVars, factoryVars>>
    \/ part = "logger" /\ LogNext /\ UNCHANGED <<part, frameVars, inmemVars, balancerVars, factoryVars>>
    \/ part = "balancer" /\ BalancerNext /\ UNCHANGED <<part, frameVars, inmemVars, rollVars, logVars, factoryVars>>
    \/ part = "factory" /\ FactoryNext /\ UNCHANGED <<part, frameVars, inmemVars, rollVars, logVars, balancerVars>>

\* The timer goroutine runs, and its select is fair to the queue and to the
\* tick; an Open ends.
Running == part = "logger" /\ ~exited /\ UNCHANGED logVars

Spec ==
    /\ Init /\ [][Next]_vars
    /\ WF_frameVars(part = "framing" /\ FrameStep)
    /\ WF_inmemVars(part = "inmem" /\ CleanTick) /\ WF_inmemVars(part = "inmem" /\ CleanSweep)
    /\ SF_inmemVars(part = "inmem" /\ CleanExit)
    /\ \A f \in File : WF_rollVars(Running /\ Roll(f)) /\ WF_rollVars(Running /\ (OpenFile(f) \/ OpenEnd(f)))
    /\ SF_rollVars(Running /\ Receive) /\ SF_rollVars(Running /\ TimerTick)

\* Types, of all parts.
SharedTypeOK == FrameTypeOK /\ InMemTypeOK /\ LogTypeOK /\ BalancerTypeOK /\ FactoryTypeOK

=============================================================================
