------------------------- MODULE VerificationRules -------------------------
(***************************************************************************)
(* The rules of apps/api's domain/identity_verification.py: what a refusal *)
(* means for a call, given the records the call already has.               *)
(***************************************************************************)
EXTENDS Integers, Sequences, FiniteSets

\* VerificationReason of the worker; the api knows the values only.
WorkerReasons == {"verified", "code_not_found", "issuer_unknown", "signature_invalid",
                  "credential_revoked", "proof_expired", "proof_already_used",
                  "rate_limited"}

MaxCodeEntryAttempts == 2

WasLimited(previous) == \E i \in DOMAIN previous : previous[i].reason = "rate_limited"

\* How many records at the end of `previous' say code_not_found.
TrailingNotFound(previous) ==
    Cardinality({i \in DOMAIN previous :
                    \A j \in i..Len(previous) : previous[j].reason = "code_not_found"})

\* Mutant: the records before the current one are not consulted.
RetryAlways(reason, previous) == reason = "code_not_found"

\* Mutant: the request itself is counted twice.
CountsItselfTwice(reason, previous) ==
    /\ reason = "code_not_found"
    /\ ~WasLimited(previous)
    /\ TrailingNotFound(previous) + 2 < MaxCodeEntryAttempts

AllowsCodeRetry(reason, previous) ==
    /\ reason = "code_not_found"
    /\ ~WasLimited(previous)
    /\ TrailingNotFound(previous) + 1 < MaxCodeEntryAttempts

\* Mutant: every refused request counts as a repetition.
AnyLimit(reason, previous) == reason = "rate_limited"

IsRepeatedRateLimit(reason, previous) ==
    /\ reason = "rate_limited"
    /\ WasLimited(previous)
=============================================================================
