---------------------------- MODULE Correlation ----------------------------
(***************************************************************************)
(* What MultichannelCorrelationService computes from the channel_signals   *)
(* table, and the scores it returns.  A row stands for one entity of one   *)
(* signal; `event' and `call' stand for its signal_id (one per execution   *)
(* of correlate), so a set of rows is the table with its primary key       *)
(* (signal_id, entity_type, entity_value).                                 *)
(***************************************************************************)
EXTENDS Integers, FiniteSets

CONSTANT WindowSeconds      \* _DEFAULT_CORRELATION_WINDOW_SECONDS

ASSUME CorrelationAssumption == WindowSeconds \in Nat

BoostPerMatch == 15
BoostCap == 30
MaliciousUrlBoost == 40
MaxScore == 100

AtMost(bound, n) == IF n <= bound THEN n ELSE bound

\* Mutant: an event matches the signals of its own channel.
AnyChannel(rows, channel, entities, at) ==
    {row \in rows : /\ row.at >= at - WindowSeconds
                    /\ row.at <= at + WindowSeconds
                    /\ row.entity \in entities}

\* Mutant: the edges of the window are left out.
InsideWindow(rows, channel, entities, at) ==
    {row \in rows : /\ row.channel # channel
                    /\ row.at > at - WindowSeconds
                    /\ row.at < at + WindowSeconds
                    /\ row.entity \in entities}

\* The SELECT of find_matches.  BETWEEN includes both edges, and the window
\* reaches into the future of the event as well.
FindMatches(rows, channel, entities, at) ==
    {row \in rows : /\ row.channel # channel
                    /\ row.at >= at - WindowSeconds
                    /\ row.at <= at + WindowSeconds
                    /\ row.entity \in entities}

Boost(matches, flagged) ==
    AtMost(BoostCap, Cardinality(matches) * BoostPerMatch)
        + (IF flagged # {} THEN MaliciousUrlBoost ELSE 0)

\* Mutant: the sum is not cut at 100.
Unbounded(score, boost) == score + boost

Boosted(score, boost) == AtMost(MaxScore, score + boost)
=============================================================================
