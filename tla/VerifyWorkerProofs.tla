------------------------- MODULE VerifyWorkerProofs -------------------------
(***************************************************************************)
(* Proofs about VerifyWorker for every number of issuers, credentials,     *)
(* codes and clients, every limit, window and life time, and any number of *)
(* restarts.                                                               *)
(***************************************************************************)
EXTENDS VerifyWorker, AttemptStoreProofs

-----------------------------------------------------------------------------
(***************************************************************************)
(* The deque of a client                                                   *)
(***************************************************************************)

LEMMA RecentType ==
    ASSUME TypeOK, NEW client \in Clients
    PROVE  /\ Recent(client) \in Seq(0..MaxTime)
           /\ Append(Recent(client), now) \in Seq(0..MaxTime)
           /\ Append(evaluated[client], now) \in Seq(0..MaxTime)
<1>1. now \in 0..MaxTime /\ MaxTime \in Nat /\ WindowStart(now) \in Int
  BY WorkerAssumption, PolicyAssumption DEF TypeOK, WindowStart
<1>2. /\ failures[client] \in Seq(0..MaxTime)
      /\ evaluated[client] \in Seq(0..MaxTime)
      /\ 0..MaxTime \in SUBSET Int
  BY <1>1 DEF TypeOK
<1>3. Recent(client) \in Seq(0..MaxTime)
  BY <1>1, <1>2, AfterPurgeProperties DEF Recent
<1> QED
  BY <1>1, <1>2, <1>3, AppendProperties

-----------------------------------------------------------------------------
(***************************************************************************)
(* Type correctness                                                        *)
(***************************************************************************)

LEMMA SignedType ==
    ASSUME NEW issuer \in Issuers, NEW g \in Generations
    PROVE  Signed(issuer, g) \in Credential
BY DEF Signed, Credential, Keys

LEMMA SeededType ==
    ASSUME NEW g \in Generations
    PROVE  /\ SeededCredentials(g) \in [DOMAIN SeededCredentials(g) -> Credential]
           /\ DOMAIN SeededCredentials(g) \subseteq Credentials
BY SignedType, WorkerAssumption DEF SeededCredentials

LEMMA EmptyDequeType == << >> \in Seq(0..MaxTime)
BY EmptySeq

LEMMA InitType == Init => TypeOK
<1> SUFFICES ASSUME Init PROVE TypeOK
  OBVIOUS
<1>1. 0 \in Generations /\ 0 \in 0..MaxTime
  BY WorkerAssumption DEF Generations
<1>2. /\ proofs \in [DOMAIN proofs -> Proof]
      /\ DOMAIN proofs \subseteq Codes
  BY DEF Init
<1> QED
  BY <1>1, <1>2, SeededType, EmptyDequeType DEF Init, TypeOK

LEMMA NextType == TypeOK /\ [Next]_vars => TypeOK'
<1> SUFFICES ASSUME TypeOK, [Next]_vars PROVE TypeOK'
  OBVIOUS
<1> USE DEF TypeOK, history
<1>1. ASSUME NEW issuer \in Issuers, IssueCredential(issuer) PROVE TypeOK'
  BY <1>1, SignedType DEF IssueCredential, Put
<1>2. ASSUME NEW id \in Credentials, RevokeCredential(id) PROVE TypeOK'
  BY <1>2 DEF RevokeCredential
<1>3. ASSUME NEW id \in Credentials, NEW code \in Codes, CreateProof(id, code) PROVE TypeOK'
  <2>1. [credential |-> id, expiresAt |-> now + Ttl, used |-> FALSE] \in Proof
    BY WorkerAssumption DEF Proof
  <2> QED
    BY <1>3, <2>1 DEF CreateProof, Put
<1>4. ASSUME NEW client \in Clients, VerifyRefused(client) PROVE TypeOK'
  BY <1>4, RecentType DEF VerifyRefused
<1>5. ASSUME NEW client \in Clients, NEW code \in Codes, VerifyFailed(client, code)
      PROVE  TypeOK'
  BY <1>5, RecentType DEF VerifyFailed, RecordFailure
<1>6. ASSUME NEW client \in Clients, NEW code \in Codes, VerifyAccepted(client, code)
      PROVE  TypeOK'
  <2>1. code \in DOMAIN proofs
    BY <1>6 DEF VerifyAccepted, Outcome
  <2>2. proofs' \in [DOMAIN proofs -> Proof]
    BY <1>6, <2>1 DEF VerifyAccepted, MarkUsed, Proof
  <2> QED
    BY <1>6, <2>2, RecentType DEF VerifyAccepted, MarkUsed
<1>7. CASE Restart
  <2>1. generation + 1 \in Generations
    BY <1>7, WorkerAssumption DEF Restart, Generations
  <2>2. /\ proofs' \in [DOMAIN proofs' -> Proof]
        /\ DOMAIN proofs' \subseteq Codes
    BY <1>7 DEF Restart
  <2>3. /\ credentials' \in [DOMAIN credentials' -> Credential]
        /\ DOMAIN credentials' \subseteq Credentials
    BY <1>7, <2>1, SeededType DEF Restart, AtStartup
  <2> QED
    BY <1>7, <2>1, <2>2, <2>3, EmptyDequeType DEF Restart
<1>8. CASE Tick
  BY <1>8, WorkerAssumption DEF Tick
<1>9. CASE UNCHANGED vars
  BY <1>9 DEF vars
<1> QED
  BY <1>1, <1>2, <1>3, <1>4, <1>5, <1>6, <1>7, <1>8, <1>9 DEF Next, Verify

\* Every reachable state of the worker has the types its repositories promise.
THEOREM TypeCorrect == Spec => []TypeOK
BY InitType, NextType, PTL DEF Spec

-----------------------------------------------------------------------------
(***************************************************************************)
(* A code is accepted at most once                                         *)
(***************************************************************************)

LEMMA OnceInductive ==
    TypeOK /\ UsedIffAcceptedOnce /\ [Next]_vars => UsedIffAcceptedOnce'
<1> SUFFICES ASSUME TypeOK, UsedIffAcceptedOnce, [Next]_vars
             PROVE  UsedIffAcceptedOnce'
  OBVIOUS
<1> USE DEF UsedIffAcceptedOnce, history
<1>1. ASSUME UNCHANGED <<proofs, accepted>> PROVE UsedIffAcceptedOnce'
  BY <1>1
<1>2. ASSUME NEW id \in Credentials, NEW code \in Codes, CreateProof(id, code)
      PROVE  UsedIffAcceptedOnce'
  <2>1. code \notin DOMAIN proofs
    BY <1>2 DEF CreateProof, FreeCode
  <2> QED
    BY <1>2, <2>1 DEF CreateProof, Put
<1>3. ASSUME NEW client \in Clients, NEW code \in Codes, VerifyAccepted(client, code)
      PROVE  UsedIffAcceptedOnce'
  \* The check and the mark are one step: an accepted code was not used before.
  <2>1. code \in DOMAIN proofs /\ ~proofs[code].used
    BY <1>3 DEF VerifyAccepted, Outcome
  <2>2. accepted[code] = 0
    BY <2>1 DEF TypeOK
  <2>3. \A k \in DOMAIN proofs : proofs[k] \in Proof
    BY DEF TypeOK
  <2>4. accepted' = [accepted EXCEPT ![code] = 1]
    BY <1>3, <2>2 DEF VerifyAccepted, TypeOK
  <2>5. proofs' = [proofs EXCEPT ![code].used = TRUE]
    BY <1>3 DEF VerifyAccepted, MarkUsed
  <2> QED
    BY <2>1, <2>3, <2>4, <2>5 DEF TypeOK, Proof
<1>4. CASE Restart
  BY <1>4 DEF Restart
<1> QED
  BY <1>1, <1>2, <1>3, <1>4 DEF Next, Verify, vars, IssueCredential, RevokeCredential,
                                VerifyRefused, VerifyFailed, Tick

\* No sequence of requests, however wrong, refused or repeated, makes the
\* worker accept a code twice or mark a proof that it did not accept.
THEOREM AcceptedOnce == Spec => []UsedIffAcceptedOnce
<1>1. Init => UsedIffAcceptedOnce
  BY DEF Init, UsedIffAcceptedOnce
<1> QED
  BY <1>1, InitType, NextType, OnceInductive, PTL DEF Spec

-----------------------------------------------------------------------------
(***************************************************************************)
(* Signatures of the current key pairs                                     *)
(***************************************************************************)

\* A proof points to a stored credential, and every stored credential is
\* signed with the key its issuer holds in this life of the process.
SignedByCurrentKeys ==
    /\ \A code \in DOMAIN proofs : proofs[code].credential \in DOMAIN credentials
    /\ \A id \in DOMAIN credentials :
            /\ credentials[id].issuer \in Issuers
            /\ credentials[id].signedWith = <<credentials[id].issuer, generation>>

LEMMA SignedInductive ==
    TypeOK /\ SignedByCurrentKeys /\ [Next]_vars => SignedByCurrentKeys'
<1> SUFFICES ASSUME TypeOK, SignedByCurrentKeys, [Next]_vars
             PROVE  SignedByCurrentKeys'
  OBVIOUS
<1> USE DEF SignedByCurrentKeys, history
<1>1. ASSUME UNCHANGED <<proofs, credentials, generation>> PROVE SignedByCurrentKeys'
  BY <1>1
<1>2. ASSUME NEW issuer \in Issuers, IssueCredential(issuer) PROVE SignedByCurrentKeys'
  BY <1>2 DEF IssueCredential, Put, Signed
<1>3. ASSUME NEW id \in Credentials, NEW code \in Codes, CreateProof(id, code)
      PROVE  SignedByCurrentKeys'
  BY <1>3 DEF CreateProof, Put
<1>4. ASSUME NEW client \in Clients, NEW code \in Codes, VerifyAccepted(client, code)
      PROVE  SignedByCurrentKeys'
  <2>1. \A k \in DOMAIN proofs' :
            k \in DOMAIN proofs /\ proofs'[k].credential = proofs[k].credential
    BY <1>4 DEF VerifyAccepted, MarkUsed, TypeOK, Proof
  <2> QED
    BY <1>4, <2>1 DEF VerifyAccepted
<1>5. CASE Restart
  BY <1>5, WorkerAssumption DEF Restart, AtStartup, SeededCredentials, Signed
<1> QED
  BY <1>1, <1>2, <1>3, <1>4, <1>5 DEF Next, Verify, vars, RevokeCredential,
                                      VerifyRefused, VerifyFailed, Tick

\* The reasons that mean forgery are never given for a code the worker issued.
THEOREM SignaturesHold == Spec => []SignaturesStayValid
<1>1. Init => SignedByCurrentKeys
  BY WorkerAssumption DEF Init, SignedByCurrentKeys, SeededCredentials, Signed
<1>2. SignedByCurrentKeys => SignaturesStayValid
  BY DEF SignedByCurrentKeys, SignaturesStayValid, Outcome, PublicKey
<1> QED
  BY <1>1, <1>2, InitType, NextType, SignedInductive, PTL DEF Spec

-----------------------------------------------------------------------------
(***************************************************************************)
(* The worker implements OneTimeProof                                      *)
(***************************************************************************)

\* The abstract record a live proof is seen as.
Seen(code) ==
    [code |-> code, holder |-> proofs[code].credential, deadline |-> proofs[code].expiresAt]

LEMMA StepSimulation == TypeOK /\ [Next]_vars => [Promise!Next]_Promise!vars
<1> SUFFICES ASSUME TypeOK, [Next]_vars PROVE [Promise!Next]_Promise!vars
  OBVIOUS
<1> USE DEF history
<1> DEFINE Stutters == UNCHANGED <<now, proofs, revoked>>
<1>1. ASSUME Stutters PROVE UNCHANGED Promise!vars
  BY <1>1 DEF Promise!vars, LiveProofs, SpentCodes
<1>2. ASSUME NEW id \in Credentials, RevokeCredential(id) PROVE Promise!Withdraw(id)
  BY <1>2 DEF RevokeCredential, Promise!Withdraw, LiveProofs, SpentCodes
<1>3. ASSUME NEW id \in Credentials, NEW code \in Codes, CreateProof(id, code)
      PROVE  Promise!Mint(code, id)
  <2>1. code \notin DOMAIN proofs /\ id \notin revoked
    BY <1>3 DEF CreateProof, FreeCode
  <2>2. ~Promise!Taken(code)
    BY <2>1 DEF Promise!Taken, LiveProofs, SpentCodes
  <2>3. SpentCodes' = SpentCodes
    BY <1>3, <2>1 DEF CreateProof, Put, SpentCodes
  <2>4. DOMAIN proofs' \ SpentCodes' = (DOMAIN proofs \ SpentCodes) \cup {code}
    BY <1>3, <2>1, <2>3 DEF CreateProof, Put, SpentCodes
  <2>5. /\ \A k \in DOMAIN proofs : proofs'[k] = proofs[k]
        /\ proofs'[code] = [credential |-> id, expiresAt |-> now + Ttl, used |-> FALSE]
    BY <1>3, <2>1 DEF CreateProof, Put
  <2>6. LiveProofs' = LiveProofs \cup {[code |-> code, holder |-> id, deadline |-> now + Ttl]}
    BY <2>4, <2>5 DEF LiveProofs, SpentCodes
  <2> QED
    BY <1>3, <2>1, <2>2, <2>3, <2>6 DEF CreateProof, Promise!Mint
<1>4. ASSUME NEW client \in Clients, NEW code \in Codes, VerifyAccepted(client, code)
      PROVE  \E p \in LiveProofs : Promise!Accept(p)
  <2> DEFINE p == Seen(code)
  <2>1. /\ code \in DOMAIN proofs
        /\ ~proofs[code].used
        /\ proofs[code].credential \notin revoked
        /\ ~(now >= proofs[code].expiresAt)
    BY <1>4 DEF VerifyAccepted, Outcome
  <2>2. now < proofs[code].expiresAt
    BY <2>1, WorkerAssumption DEF TypeOK, Proof
  <2>3. p \in LiveProofs
    BY <2>1 DEF LiveProofs, SpentCodes, Seen
  <2>4. /\ DOMAIN proofs' = DOMAIN proofs
        /\ \A k \in DOMAIN proofs :
            /\ proofs'[k].credential = proofs[k].credential
            /\ proofs'[k].expiresAt = proofs[k].expiresAt
            /\ proofs'[k].used <=> (proofs[k].used \/ k = code)
    BY <1>4, <2>1 DEF VerifyAccepted, MarkUsed, TypeOK, Proof
  <2>5. SpentCodes' = SpentCodes \cup {code}
    BY <2>1, <2>4 DEF SpentCodes
  <2>6. LiveProofs' = LiveProofs \ {p}
    BY <2>1, <2>4, <2>5 DEF LiveProofs, SpentCodes, Seen
  <2>7. Promise!Accept(p)
    BY <1>4, <2>1, <2>2, <2>3, <2>5, <2>6 DEF Promise!Accept, VerifyAccepted, Seen
  <2> QED
    BY <2>3, <2>7
<1>5. CASE Restart
  <2>1. proofs' = << >> /\ revoked' = {} /\ now' = now
    BY <1>5 DEF Restart
  <2>2. LiveProofs' = {} /\ SpentCodes' = {}
    BY <2>1 DEF LiveProofs, SpentCodes
  <2>3. Promise!Forget
    BY <2>1, <2>2 DEF Promise!Forget
  <2> QED
    BY <2>3 DEF Promise!Next
<1>6. CASE Tick
  BY <1>6 DEF Tick, Promise!Tick, Promise!Next, LiveProofs, SpentCodes
<1>7. ASSUME NEW issuer \in Issuers, IssueCredential(issuer) PROVE Stutters
  BY <1>7 DEF IssueCredential
<1>8. ASSUME NEW client \in Clients, VerifyRefused(client) PROVE Stutters
  BY <1>8 DEF VerifyRefused
<1>9. ASSUME NEW client \in Clients, NEW code \in Codes, VerifyFailed(client, code)
      PROVE  Stutters
  BY <1>9 DEF VerifyFailed
<1>10. CASE UNCHANGED vars
  BY <1>1, <1>10 DEF vars
<1> HIDE DEF Stutters
<1> QED
  BY <1>1, <1>2, <1>3, <1>4, <1>5, <1>6, <1>7, <1>8, <1>9, <1>10
     DEF Next, Verify, Promise!Next

\* Every behaviour of the worker, restarts included, is one that the abstract
\* verifier of one-time proofs allows.
THEOREM RefinesOneTimeProof == Spec => ImplementsOneTimeProof
<1>1. Init => Promise!Init
  BY WorkerAssumption DEF Init, Promise!Init, LiveProofs, SpentCodes
<1> QED
  BY <1>1, InitType, NextType, StepSimulation, PTL
     DEF Spec, ImplementsOneTimeProof, Promise!Spec

-----------------------------------------------------------------------------
(***************************************************************************)
(* The limiter                                                             *)
(***************************************************************************)

\* Each deque is what the window leaves of the client's history.
DequesFollowHistory ==
    \A client \in Clients : Limits(evaluated[client], failures[client], now)

LEMMA DequeTypes ==
    ASSUME TypeOK
    PROVE  /\ now \in Int
           /\ \A client \in Clients :
                /\ evaluated[client] \in Times
                /\ failures[client] \in Times
<1>1. 0..MaxTime \subseteq Int
  BY WorkerAssumption
<1> QED
  BY <1>1, SeqMonotonic DEF TypeOK, Times

LEMMA LimiterInductive ==
    TypeOK /\ DequesFollowHistory /\ [Next]_vars => DequesFollowHistory'
<1> SUFFICES ASSUME TypeOK, DequesFollowHistory, [Next]_vars
             PROVE  DequesFollowHistory'
  OBVIOUS
<1> USE DEF DequesFollowHistory, history
<1>1. ASSUME UNCHANGED <<now, failures, evaluated>> PROVE DequesFollowHistory'
  BY <1>1
<1>2. ASSUME NEW client \in Clients,
             failures' = [failures EXCEPT ![client] = Recent(client)],
             UNCHANGED <<now, evaluated>>
      PROVE  DequesFollowHistory'
  <2>1. Limits(evaluated[client], Recent(client), now)
    BY DequeTypes, PurgeKeepsLimits DEF Recent
  <2> QED
    BY <1>2, <2>1 DEF TypeOK
<1>3. ASSUME NEW client \in Clients, NEW code \in Codes, VerifyFailed(client, code)
      PROVE  DequesFollowHistory'
  <2>1. Limits(Append(evaluated[client], now), Append(Recent(client), now), now)
    BY <1>3, DequeTypes, AppendKeepsLimits DEF VerifyFailed, Limited, Recent
  <2>2. /\ failures' = [failures EXCEPT ![client] = Append(Recent(client), now)]
        /\ evaluated' = [evaluated EXCEPT ![client] = Append(evaluated[client], now)]
        /\ now' = now
    BY <1>3 DEF VerifyFailed, RecordFailure
  <2> QED
    BY <2>1, <2>2 DEF TypeOK
<1>4. CASE Restart
  BY <1>4, PolicyAssumption DEF Restart, Limits
<1>5. CASE Tick
  BY <1>5, DequeTypes, TimeKeepsLimits DEF Tick
<1>6. ASSUME NEW client \in Clients, VerifyRefused(client) PROVE DequesFollowHistory'
  BY <1>2, <1>6 DEF VerifyRefused
<1>7. ASSUME NEW client \in Clients, NEW code \in Codes, VerifyAccepted(client, code)
      PROVE  DequesFollowHistory'
  BY <1>2, <1>7 DEF VerifyAccepted
<1> QED
  BY <1>1, <1>3, <1>4, <1>5, <1>6, <1>7
     DEF Next, Verify, vars, IssueCredential, RevokeCredential, CreateProof

LEMMA DequesAlwaysFollow == Spec => [](TypeOK /\ DequesFollowHistory)
<1>1. Init => DequesFollowHistory
  BY WorkerAssumption DEF Init, DequesFollowHistory, Limits
<1> QED
  BY <1>1, InitType, NextType, LimiterInductive, PTL DEF Spec

\* No client gets more than MaxFailures wrong codes evaluated in any window,
\* wherever the window begins and however the limiter forgets old failures.
THEOREM BudgetHolds == Spec => []FailureBudget
<1>1. ASSUME TypeOK, DequesFollowHistory PROVE FailureBudget
  <2>1. 0..MaxTime \subseteq Int
    BY WorkerAssumption
  <2> QED
    BY <1>1, <2>1, DequeTypes, LimitsBoundWindow DEF DequesFollowHistory, FailureBudget
<1> QED
  BY <1>1, DequesAlwaysFollow, PTL

\* The purged deque is an exact count, so no client is refused too early.
THEOREM CountIsExact == Spec => []StoreIsExact
<1>1. ASSUME TypeOK, DequesFollowHistory PROVE StoreIsExact
  BY <1>1, DequeTypes, LimitsMakeExact DEF DequesFollowHistory, StoreIsExact, Recent
<1> QED
  BY <1>1, DequesAlwaysFollow, PTL
=============================================================================
