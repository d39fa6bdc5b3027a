---------------------------- MODULE VerifyWorker ----------------------------
(***************************************************************************)
(* apps/verify-worker: mock institutions issue staff credentials, staff    *)
(* create one-time proofs (six-digit codes), citizens verify a code, and   *)
(* every client is limited to MaxFailures wrong codes per WindowSeconds.   *)
(*                                                                         *)
(* Every HTTP handler is an `async def' that never awaits, so uvicorn's    *)
(* one event loop runs it to its end before the next one starts: a handler *)
(* is one action.  A handler that answers with an error status (404, 409,  *)
(* 422, or the 500 of an exhausted code draw) changes nothing and is a     *)
(* stuttering step.  All state is process memory; Restart loses it.        *)
(***************************************************************************)
EXTENDS AttemptStore

CONSTANTS
    Issuers,            \* MOCK_ISSUERS
    Credentials,        \* credential ids: the seeded ones and the uuids
    DemoCredentials,    \* ids seeded at every start (DEMO_CREDENTIALS)
    DemoIssuer,         \* the issuer of each seeded credential
    Codes,              \* the six-digit code space
    Clients,            \* client keys (IP addresses)
    Ttl,                \* PROOF_TTL_SECONDS
    MaxTime,            \* bound: the clock stops here
    MaxRestarts         \* bound: restarts of the process

ASSUME WorkerAssumption ==
    /\ DemoCredentials \subseteq Credentials
    /\ DemoIssuer \in [DemoCredentials -> Issuers]
    /\ Ttl \in Nat \ {0}
    /\ MaxTime \in Nat
    /\ MaxRestarts \in Nat

VARIABLES
    now,            \* SystemClock
    generation,     \* which start of the process this is; keys are made anew
    credentials,    \* InMemoryCredentialRepository._credentials
    revoked,        \* InMemoryCredentialRepository._revoked
    proofs,         \* InMemoryProofRepository._proofs
    failures,       \* InMemoryFailedAttemptStore._failures
    minted,         \* history: every uuid handed out, across restarts
    evaluated,      \* history: times of all failed verifications of this life
    accepted        \* history: how often each code of this life was accepted

history == <<minted, evaluated, accepted>>
vars == <<now, generation, credentials, revoked, proofs, failures, history>>

Generations == 0..MaxRestarts

\* The key pair create_key makes for an issuer at start-up; the registry holds
\* its public half, a signature names the private half it was made with.
Keys == Issuers \X Generations
PublicKey(issuer) == <<issuer, generation>>

Credential == [issuer : Issuers, signedWith : Keys]
Proof == [credential : Credentials, expiresAt : Nat, used : BOOLEAN]

Reasons == {"verified", "code_not_found", "issuer_unknown", "signature_invalid",
            "credential_revoked", "proof_expired", "proof_already_used"}

TypeOK ==
    /\ now \in 0..MaxTime
    /\ generation \in Generations
    /\ credentials \in [DOMAIN credentials -> Credential]
    /\ DOMAIN credentials \subseteq Credentials
    /\ revoked \subseteq Credentials
    /\ proofs \in [DOMAIN proofs -> Proof]
    /\ DOMAIN proofs \subseteq Codes
    /\ failures \in [Clients -> Seq(0..MaxTime)]
    /\ minted \subseteq Credentials
    /\ evaluated \in [Clients -> Seq(0..MaxTime)]
    /\ accepted \in [Codes -> Nat]

\* Assignment to a dictionary key.
Put(dict, key, value) ==
    [k \in DOMAIN dict \cup {key} |-> IF k = key THEN value ELSE dict[k]]

-----------------------------------------------------------------------------
\* IssueCredentialService.execute for a registered issuer, signing with the key
\* pair of process start g.
Signed(issuer, g) == [issuer |-> issuer, signedWith |-> <<issuer, g>>]

SeededCredentials(g) == [c \in DemoCredentials |-> Signed(DemoIssuer[c], g)]

Init ==
    /\ now = 0
    /\ generation = 0
    /\ credentials = SeededCredentials(0)
    /\ revoked = {}
    /\ proofs = << >>
    /\ failures = [c \in Clients |-> << >>]
    /\ minted = {}
    /\ evaluated = [c \in Clients |-> << >>]
    /\ accepted = [k \in Codes |-> 0]

\* POST /api/v1/credentials: the id is a fresh uuid.
IssueCredential(issuer) ==
    /\ \E id \in Credentials \ (minted \cup DemoCredentials) :
        /\ credentials' = Put(credentials, id, Signed(issuer, generation))
        /\ minted' = minted \cup {id}
    /\ UNCHANGED <<now, generation, revoked, proofs, failures, evaluated, accepted>>

\* POST /api/v1/credentials/{id}/revoke: 404 unless the credential exists.
RevokeCredential(id) ==
    /\ id \in DOMAIN credentials
    /\ revoked' = revoked \cup {id}
    /\ UNCHANGED <<now, generation, credentials, proofs, failures, history>>

-----------------------------------------------------------------------------
\* The draw loop of CreateProofService keeps the first code that names no
\* proof.  Expired and used proofs are never removed, so their codes stay taken.
FreeCode(code) == code \notin DOMAIN proofs

\* POST /api/v1/proofs: 404 for an unknown, 409 for a revoked credential.
CreateProof(id, code) ==
    /\ id \in DOMAIN credentials
    /\ id \notin revoked
    /\ FreeCode(code)
    /\ proofs' = Put(proofs, code,
                     [credential |-> id, expiresAt |-> now + Ttl, used |-> FALSE])
    /\ UNCHANGED <<now, generation, credentials, revoked, failures, history>>

-----------------------------------------------------------------------------
\* Mutant: a proof of a revoked credential still verifies.
SkipsRevocation(code) ==
    LET proof == proofs[code] IN
    IF code \notin DOMAIN proofs THEN "code_not_found"
    ELSE IF now >= proof.expiresAt THEN "proof_expired"
    ELSE IF proof.used THEN "proof_already_used"
    ELSE "verified"

\* Mutant: nothing looks at the mark of an earlier acceptance.
ForgetsUse(code) ==
    LET proof == proofs[code] IN
    IF code \notin DOMAIN proofs THEN "code_not_found"
    ELSE IF proof.credential \in revoked THEN "credential_revoked"
    ELSE IF now >= proof.expiresAt THEN "proof_expired"
    ELSE "verified"

\* VerifyProofService.execute: the checks in the order in which they decide.
Outcome(code) ==
    LET proof == proofs[code]
        credential == credentials[proof.credential]
    IN  IF code \notin DOMAIN proofs THEN "code_not_found"
        ELSE IF proof.credential \notin DOMAIN credentials THEN "signature_invalid"
        ELSE IF credential.issuer \notin Issuers THEN "issuer_unknown"
        ELSE IF credential.signedWith # PublicKey(credential.issuer) THEN "signature_invalid"
        ELSE IF proof.credential \in revoked THEN "credential_revoked"
        ELSE IF now >= proof.expiresAt THEN "proof_expired"
        ELSE IF proof.used THEN "proof_already_used"
        ELSE "verified"

\* The client's deque after count_failures_since has run for a request now.
Recent(client) == AfterPurge(failures[client], WindowStart(now))

Limited(client) == IsLimited(Len(Recent(client)))

\* The reason the handler answers a request with.
Answer(client, code) == IF Limited(client) THEN "rate_limited" ELSE Outcome(code)

\* POST /api/v1/verify, refused with 429: only the purge of the deque is left.
VerifyRefused(client) ==
    /\ Limited(client)
    /\ failures' = [failures EXCEPT ![client] = Recent(client)]
    /\ UNCHANGED <<now, generation, credentials, revoked, proofs, history>>

\* Mutant: the start of the window is stored instead of the time.
RecordsWindowStart(client) ==
    failures' = [failures EXCEPT ![client] = Append(Recent(client), WindowStart(now))]

\* record_failure, with the time taken before the count.
RecordFailure(client) ==
    failures' = [failures EXCEPT ![client] = Append(Recent(client), now)]

VerifyFailed(client, code) ==
    /\ ~Limited(client)
    /\ Outcome(code) # "verified"
    /\ RecordFailure(client)
    /\ evaluated' = [evaluated EXCEPT ![client] = Append(@, now)]
    /\ UNCHANGED <<now, generation, credentials, revoked, proofs, minted, accepted>>

\* ProofRepository.mark_used succeeding.
MarkUsed(code) == proofs' = [proofs EXCEPT ![code].used = TRUE]

VerifyAccepted(client, code) ==
    /\ ~Limited(client)
    /\ Outcome(code) = "verified"
    /\ MarkUsed(code)
    /\ failures' = [failures EXCEPT ![client] = Recent(client)]
    /\ accepted' = [accepted EXCEPT ![code] = @ + 1]
    /\ UNCHANGED <<now, generation, credentials, revoked, minted, evaluated>>

\* The handler as a whole.
Verify(client, code) ==
    \/ VerifyRefused(client)
    \/ VerifyFailed(client, code)
    \/ VerifyAccepted(client, code)

-----------------------------------------------------------------------------
\* Mutant: the repositories outlive the keys that signed their contents.
KeepsCredentials(g) == credentials

\* What the credential repository holds once process start g has run main.py.
AtStartup(g) == SeededCredentials(g)

Restart ==
    /\ generation < MaxRestarts
    /\ generation' = generation + 1
    /\ credentials' = AtStartup(generation + 1)
    /\ revoked' = {}
    /\ proofs' = << >>
    /\ failures' = [c \in Clients |-> << >>]
    /\ evaluated' = [c \in Clients |-> << >>]
    /\ accepted' = [k \in Codes |-> 0]
    /\ UNCHANGED <<now, minted>>

Tick ==
    /\ now < MaxTime
    /\ now' = now + 1
    /\ UNCHANGED <<generation, credentials, revoked, proofs, failures, history>>

Next ==
    \/ \E issuer \in Issuers : IssueCredential(issuer)
    \/ \E id \in Credentials : RevokeCredential(id)
    \/ \E id \in Credentials, code \in Codes : CreateProof(id, code)
    \/ \E client \in Clients, code \in Codes : Verify(client, code)
    \/ Restart
    \/ Tick

Spec == Init /\ [][Next]_vars

-----------------------------------------------------------------------------
(***************************************************************************)
(* Properties                                                              *)
(***************************************************************************)

\* A code is accepted at most once in the life of the process, and a proof
\* carries the used mark exactly when it was accepted: neither a failed nor a
\* refused request ever consumes a valid proof.
UsedIffAcceptedOnce ==
    \A code \in Codes :
        /\ accepted[code] <= 1
        /\ accepted[code] = 1 <=> (code \in DOMAIN proofs /\ proofs[code].used)

\* However the requests of a client are spread over time, no window of
\* WindowSeconds holds more than MaxFailures evaluated wrong codes of it.
FailureBudget ==
    \A client \in Clients, t \in 0..MaxTime :
        Cardinality({i \in DOMAIN evaluated[client] :
                        /\ evaluated[client][i] > t - WindowSeconds
                        /\ evaluated[client][i] <= t}) <= MaxFailures

\* The deque is an exact count of the window although it forgets: what the
\* limiter sees now is the number of failures that really happened in it.
StoreIsExact ==
    \A client \in Clients :
        Len(Recent(client)) = FailuresSince(evaluated[client], WindowStart(now))

\* Credentials and keys come and go together, so a stored proof always points
\* to a credential whose signature checks: the two reasons that mean forgery or
\* corruption are never the answer to an honest staff member's code.
SignaturesStayValid ==
    \A code \in Codes : Outcome(code) \notin {"signature_invalid", "issuer_unknown"}

\* What the abstract verifier sees of the proof repository.
SpentCodes == {k \in DOMAIN proofs : proofs[k].used}

LiveProofs ==
    {[code |-> k, holder |-> proofs[k].credential, deadline |-> proofs[k].expiresAt] :
        k \in DOMAIN proofs \ SpentCodes}

Promise == INSTANCE OneTimeProof WITH
    Holders <- Credentials,
    live <- LiveProofs,
    spent <- SpentCodes,
    withdrawn <- revoked

\* The worker implements the abstract verifier of one-time proofs: whatever its
\* repositories, limiter and restarts do, every step is a step of OneTimeProof
\* or leaves the proofs alone.
ImplementsOneTimeProof == Promise!Spec
=============================================================================
