------------------------- MODULE MCCallVerification -------------------------
(***************************************************************************)
(* Model values and small instances for checking CallVerification.         *)
(***************************************************************************)
EXTENDS CallVerification, TLC

CONSTANTS t1, t2, call1, ip1, typed

TwoThreads == {t1, t2}
OneProcess == [t \in TwoThreads |-> "api"]
OneCall == {call1}
OneClient == {ip1}
OneCode == {typed}

AllAnswers == {"verified", "code_not_found", "proof_already_used", "rate_limited"}

ThreadSymmetry == Permutations(Threads)
=============================================================================
