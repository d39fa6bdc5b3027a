---------------------------- MODULE AttemptStore ----------------------------
(***************************************************************************)
(* The sliding-window failure counter that both apps/verify-worker and     *)
(* apps/api put in front of code verification: RateLimitPolicy and one     *)
(* client's deque of InMemoryFailedAttemptStore.  The two apps hold the    *)
(* same implementation, so this module is extended by the model of each.   *)
(*                                                                         *)
(* A deque is the sequence of the failure times of one client, oldest      *)
(* append first; an absent dictionary key is the empty sequence.           *)
(***************************************************************************)
EXTENDS Integers, Sequences, FiniteSets

CONSTANTS
    MaxFailures,      \* RateLimitPolicy.max_failures
    WindowSeconds     \* RateLimitPolicy.window_seconds

\* RateLimitPolicy.__post_init__ rejects anything smaller.
ASSUME PolicyAssumption ==
    /\ MaxFailures \in Nat \ {0}
    /\ WindowSeconds \in Nat \ {0}

WindowStart(now) == now - WindowSeconds

\* Mutant: one failure too many is let through.
AllowsOneMore(recent) == recent > MaxFailures

IsLimited(recent) == recent >= MaxFailures

-----------------------------------------------------------------------------
\* Mutant: drops an entry only when it is strictly older than the window.
KeepsBoundary(times, since) ==
    CHOOSE n \in 0..Len(times) :
        /\ \A i \in 1..n : times[i] < since
        /\ n < Len(times) => times[n + 1] >= since

\* How many entries the popleft loop of count_failures_since removes: it stops
\* at the first entry younger than `since', whatever lies behind that entry.
StaleHead(times, since) ==
    CHOOSE n \in 0..Len(times) :
        /\ \A i \in 1..n : times[i] <= since
        /\ n < Len(times) => times[n + 1] > since

\* The deque count_failures_since leaves behind; it returns its length.
AfterPurge(times, since) ==
    SubSeq(times, StaleHead(times, since) + 1, Len(times))

\* What the port promises: the number of failures strictly after `since'.
FailuresSince(times, since) ==
    Cardinality({i \in DOMAIN times : times[i] > since})
=============================================================================
