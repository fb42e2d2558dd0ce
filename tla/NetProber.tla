----------------------------- MODULE NetProber -----------------------------
(***************************************************************************)
(* netProber.Probe (pkg/dataflow/task/net_prober.go): ProbeCount attempts  *)
(* to reach an address, each trying the candidate URLs one after another,  *)
(* under one deadline for all of them, and the metric built from them.     *)
(*                                                                         *)
(* The deadline can pass at any moment.  A round trip takes one of the     *)
(* Durations; Ms of them make a millisecond.                               *)
(***************************************************************************)
EXTENDS Naturals, Sequences

CONSTANTS
    ProbeCount,     \* p.probeCount (5 in the code)
    URLs,           \* candidates of probeTargetURLs: 1 or 2
    Durations,      \* what time.Since(start) can be
    Ms              \* units of a duration in a millisecond

ASSUME ProberConstants ==
    /\ ProbeCount \in Nat \ {0} /\ URLs \in Nat \ {0} /\ Ms \in Nat \ {0}
    /\ Durations \subseteq Nat

VARIABLES
    at,             \* where Probe is
    i,              \* the loop variable
    url,            \* the candidate that doProbe tries
    expired,        \* the deadline of ctx has passed
    rtts, failures, \* as in Probe
    metric          \* p.result

proberVars == <<at, i, url, expired, rtts, failures, metric>>

NoMetric == [reachable |-> FALSE, rtt |-> 0, jitter |-> 0, lost |-> 0]

ProbeInit ==
    /\ at = "idle" /\ i = 0 /\ url = 1
    /\ expired = FALSE
    /\ rtts = <<>> /\ failures = 0
    /\ metric = NoMetric

\* Probe is called on a new prober with an address that parses.
Probe ==
    /\ at = "idle"
    /\ at' = "loop"
    /\ UNCHANGED <<i, url, expired, rtts, failures, metric>>

Expire ==
    /\ ~expired /\ at \notin {"idle", "done"}
    /\ expired' = TRUE
    /\ UNCHANGED <<at, i, url, rtts, failures, metric>>

\* The head of the loop: out of it at the end or with the deadline, else on
\* to the pause, which the first attempt does not make.
LoopHead ==
    /\ at = "loop"
    /\ \/ /\ i >= ProbeCount
          /\ at' = "build" /\ UNCHANGED failures
       \/ /\ i < ProbeCount /\ expired
          /\ failures' = failures + (ProbeCount - i)
          /\ at' = "build"
       \/ /\ i < ProbeCount /\ ~expired
          /\ at' = (IF i > 0 THEN "pause" ELSE "request")
          /\ UNCHANGED failures
    /\ UNCHANGED <<i, url, expired, rtts, metric>>

\* case <-ctx.Done() with the two assignments swapped.
PauseExpiresSwapped ==
    /\ at = "pause" /\ expired
    /\ i' = ProbeCount
    /\ failures' = failures
    /\ at' = "build"
    /\ UNCHANGED <<url, expired, rtts, metric>>

\* The select of the pause: with both cases ready either may be taken.
PauseExpires ==
    /\ at = "pause" /\ expired
    /\ failures' = failures + (ProbeCount - i)
    /\ i' = ProbeCount
    /\ at' = "build"
    /\ UNCHANGED <<url, expired, rtts, metric>>
PauseElapses ==
    /\ at = "pause"
    /\ at' = "request"
    /\ UNCHANGED <<i, url, expired, rtts, failures, metric>>

\* doProbe: a candidate answers below 400, and the attempt has succeeded.
RequestSucceeds(d) ==
    /\ at = "request" /\ ~expired
    /\ rtts' = Append(rtts, d)
    /\ i' = i + 1 /\ url' = 1
    /\ at' = "loop"
    /\ UNCHANGED <<expired, failures, metric>>

\* It does not: the next candidate, or, after the last one or with the
\* deadline, the attempt has failed.
RequestFails ==
    /\ at = "request"
    /\ \/ /\ url < URLs /\ ~expired
          /\ url' = url + 1
          /\ UNCHANGED <<i, at, failures>>
       \/ /\ url = URLs \/ expired
          /\ failures' = failures + 1
          /\ i' = i + 1 /\ url' = 1
          /\ at' = "loop"
    /\ UNCHANGED <<expired, rtts, metric>>

----------------------------------------------------------------------------
(* buildResult.                                                            *)

Sum(s) ==
    LET upTo[k \in 0..Len(s)] == IF k = 0 THEN 0 ELSE upTo[k - 1] + s[k] IN upTo[Len(s)]

\* A mean that divides by the number of probes sent.
AverageOfSent(s) == Sum(s) \div ProbeCount

averageDuration(s) == IF s = <<>> THEN 0 ELSE Sum(s) \div Len(s)

jitterDuration(s) ==
    IF Len(s) < 2 THEN 0
    ELSE Sum([k \in 1..(Len(s) - 1) |->
                IF s[k + 1] >= s[k] THEN s[k + 1] - s[k] ELSE s[k] - s[k + 1]]) \div (Len(s) - 1)

\* The constants of the unreachable case are 5000 ms and 5001 ms.
BuildResult ==
    /\ at = "build"
    /\ LET ms == averageDuration(rtts) \div Ms IN
       metric' = IF rtts = <<>>
                 THEN [reachable |-> FALSE, rtt |-> 5000, jitter |-> 5001, lost |-> ProbeCount]
                 ELSE [reachable |-> TRUE, rtt |-> IF ms = 0 THEN 1 ELSE ms,
                       jitter |-> jitterDuration(rtts) \div Ms, lost |-> failures]
    /\ at' = "done"
    /\ UNCHANGED <<i, url, expired, rtts, failures>>

ProbeStep ==
    \/ LoopHead \/ PauseExpires \/ PauseElapses
    \/ (\E d \in Durations : RequestSucceeds(d)) \/ RequestFails \/ BuildResult

ProbeNext == Probe \/ Expire \/ ProbeStep

ProbeBehaviour == ProbeInit /\ [][ProbeNext]_proberVars

----------------------------------------------------------------------------
(* Properties.                                                             *)

\* Types; the loop variable never passes ProbeCount.
ProbeTypeOK ==
    /\ at \in {"idle", "loop", "pause", "request", "build", "done"}
    /\ i \in 0..ProbeCount /\ url \in 1..URLs /\ expired \in BOOLEAN
    /\ rtts \in Seq(Durations) /\ failures \in 0..ProbeCount
    /\ metric \in [reachable : BOOLEAN, rtt : Nat, jitter : Nat, lost : 0..ProbeCount]

\* Every attempt is counted once, as a round trip or as a failure, whichever
\* of the three places the deadline is noticed at (net_prober.go:72-92): the
\* reported loss is the share of the attempts that brought no answer.
EveryProbeCounted ==
    /\ at \in {"idle", "loop", "pause", "request"} => Len(rtts) + failures = i
    /\ at \in {"build", "done"} => Len(rtts) + failures = ProbeCount

\* The metric describes the round trips: an address is unreachable exactly if
\* everything was lost, the mean lies between the fastest and the slowest
\* answer (a mean below a millisecond counts as one), and the jitter is not
\* above their difference.
MetricFits ==
    at = "done" =>
        /\ metric.reachable <=> metric.lost < ProbeCount
        /\ metric.reachable =>
            \E lo, hi \in {rtts[k] : k \in DOMAIN rtts} :
                /\ \A k \in DOMAIN rtts : lo <= rtts[k] /\ rtts[k] <= hi
                /\ metric.rtt >= 1
                /\ lo < (metric.rtt + 1) * Ms
                /\ metric.rtt = 1 \/ metric.rtt * Ms <= hi
                /\ metric.jitter * Ms <= hi - lo

=============================================================================
