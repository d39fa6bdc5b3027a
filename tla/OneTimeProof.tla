---------------------------- MODULE OneTimeProof ----------------------------
(***************************************************************************)
(* What a verifier of one-time proofs promises, whoever asks and however   *)
(* often: a six-digit code names one proof, a proof is accepted at most    *)
(* once, before its deadline, and never on behalf of a holder whose        *)
(* credential has been withdrawn.  How requests are limited, how           *)
(* credentials are signed, and every refused request are left out: a       *)
(* refusal is a stuttering step of this specification.                     *)
(***************************************************************************)
EXTENDS Integers

CONSTANTS
    Codes,      \* the code space
    Holders,    \* the credentials a proof may stand for
    Ttl         \* life time of a proof

VARIABLES
    now,        \* the clock
    live,       \* proofs that have not been accepted (expired ones included)
    spent,      \* codes whose proof has been accepted
    withdrawn   \* revoked holders

vars == <<now, live, spent, withdrawn>>

Proofs == [code : Codes, holder : Holders, deadline : Nat]

TypeOK ==
    /\ now \in Nat
    /\ live \subseteq Proofs
    /\ spent \subseteq Codes
    /\ withdrawn \subseteq Holders

Init ==
    /\ now \in Nat
    /\ live = {}
    /\ spent = {}
    /\ withdrawn = {}

Taken(code) == code \in spent \/ \E p \in live : p.code = code

Mint(code, holder) ==
    /\ ~Taken(code)
    /\ holder \notin withdrawn
    /\ live' = live \cup {[code |-> code, holder |-> holder, deadline |-> now + Ttl]}
    /\ UNCHANGED <<now, spent, withdrawn>>

Accept(p) ==
    /\ p \in live
    /\ now < p.deadline
    /\ p.holder \notin withdrawn
    /\ live' = live \ {p}
    /\ spent' = spent \cup {p.code}
    /\ UNCHANGED <<now, withdrawn>>

Withdraw(holder) ==
    /\ withdrawn' = withdrawn \cup {holder}
    /\ UNCHANGED <<now, live, spent>>

\* Nothing is persisted: a restart forgets every proof and every withdrawal.
Forget ==
    /\ live' = {}
    /\ spent' = {}
    /\ withdrawn' = {}
    /\ UNCHANGED now

Tick ==
    /\ now' = now + 1
    /\ UNCHANGED <<live, spent, withdrawn>>

Next ==
    \/ \E code \in Codes, holder \in Holders : Mint(code, holder)
    \/ \E p \in live : Accept(p)
    \/ \E holder \in Holders : Withdraw(holder)
    \/ Forget
    \/ Tick

Spec == Init /\ [][Next]_vars
=============================================================================
