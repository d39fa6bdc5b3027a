------------------------ MODULE IdentityVerification ------------------------
(***************************************************************************)
(* A citizen's code end to end: the api (CallVerification) calls the       *)
(* verify-worker (VerifyWorker) over HTTP.                                 *)
(*                                                                         *)
(* The module extends the model of the api, which leaves the worker open,  *)
(* and puts an instance of the modelled worker behind it: each action here *)
(* is an action of one of the two, or of both when they exchange a         *)
(* message.  The call may fail at the api although the worker executes it: *)
(* a reply can be lost, and a request the api has given up on can still be *)
(* handled later.  A restart of the worker breaks the connections it       *)
(* serves.  Both processes read the same clock and have the same limiter   *)
(* policy, which both take from the environment variables of the same name.*)
(***************************************************************************)
EXTENDS CallVerification

CONSTANTS
    Issuers, Credentials, DemoCredentials, DemoIssuer, Ttl, MaxRestarts,
    ApiAddress,         \* where the processes of the api connect from
    TrustedProxies      \* VERIFY_TRUSTED_PROXIES of the worker

VARIABLES
    generation, credentials, revoked, proofs, workerFailures, minted,
    workerEvaluated, accepted,
    wire,       \* per thread: "none", "asked", "broken", or the worker's answer
    late,       \* requests the api gave up on that the worker may still handle
    tally       \* history: acceptances, and how many of them the api never learnt

\* The variables of the api alone; the clock is shared.
apiVars == <<pc, request, failures, log, sent, received, evaluated, overlapped>>
workerVars == <<generation, credentials, revoked, proofs, workerFailures, minted,
                workerEvaluated, accepted>>
netVars == <<wire, late, tally>>
systemVars == <<now, apiVars, workerVars, netVars>>

\* A client as the worker sees it: an address.
Addresses == Clients \cup {ApiAddress}

Worker == INSTANCE VerifyWorker WITH
    Clients <- Addresses, failures <- workerFailures, evaluated <- workerEvaluated

Answers == Worker!Reasons \cup {"rate_limited"}

ASSUME NetworkAssumption ==
    /\ WorkerAnswers = Answers
    /\ ApiAddress \notin Clients
    /\ TrustedProxies \subseteq {ApiAddress}

SystemInit ==
    /\ Init
    /\ Worker!Init
    /\ wire = [t \in Threads |-> "none"]
    /\ late = [x \in Clients \X Codes |-> 0]
    /\ tally = [granted |-> 0, lost |-> 0]

-----------------------------------------------------------------------------
\* Mutant: the X-Forwarded-For header is never looked at.
PeerOnly(client) == ApiAddress

\* _client_key: the header the api sends is believed if the api is trusted.
ClientKey(client) == IF ApiAddress \in TrustedProxies THEN client ELSE ApiAddress

ApiReceives(t) ==
    /\ \E call \in Calls, client \in Clients, code \in Codes :
            Receive(t, call, client, code)
    /\ UNCHANGED <<workerVars, netVars>>

\* A request that is not refused at once leaves for the worker.
ApiChecksLimit(t) ==
    /\ CheckLimit(t)
    /\ wire' = [wire EXCEPT ![t] = IF pc'[t] = "calling" THEN "asked" ELSE "none"]
    /\ UNCHANGED <<workerVars, late, tally>>

\* The rest of the handler, after the reply.
ApiFinishes(t) ==
    /\ \/ CountFailure(t)
       \/ ReadLog(t)
       \/ NotifyGuardian(t)
       \/ AddRecord(t)
    /\ UNCHANGED <<workerVars, netVars>>

\* The worker handles the request of thread t and sends its answer.
WorkerHandles(t) ==
    LET key == ClientKey(request[t].client)
        code == request[t].code
        answer == Worker!Answer(key, code)
    IN  /\ wire[t] = "asked"
        /\ Worker!Verify(key, code)
        /\ wire' = [wire EXCEPT ![t] = answer]
        /\ tally' = [tally EXCEPT !.granted = @ + IF answer = "verified" THEN 1 ELSE 0]
        /\ UNCHANGED <<now, apiVars, late>>

ReplyArrives(t) ==
    /\ wire[t] \in Answers
    /\ WorkerReplies(t, wire[t])
    /\ wire' = [wire EXCEPT ![t] = "none"]
    /\ UNCHANGED <<workerVars, late, tally>>

\* Mutant: the api waits for the worker without a timeout.
Broken(t) == wire[t] = "broken"

\* httpx raises: refused or broken connections at once, timeouts at any time.
CallRaises(t) == wire[t] # "none"

\* The request fails at the api.  If the worker had not handled it, it still may.
CallFails(t) ==
    LET x == <<request[t].client, request[t].code>> IN
    /\ CallRaises(t)
    /\ WorkerFails(t)
    /\ wire' = [wire EXCEPT ![t] = "none"]
    /\ \/ UNCHANGED late
       \/ wire[t] = "asked" /\ late' = [late EXCEPT ![x] = @ + 1]
    /\ tally' = [tally EXCEPT !.lost = @ + IF wire[t] = "verified" THEN 1 ELSE 0]
    /\ UNCHANGED workerVars

\* The worker handles a request nobody waits for.
LateExecution(client, code) ==
    LET isGrant == IF Worker!Answer(ClientKey(client), code) = "verified" THEN 1 ELSE 0
    IN  /\ late[<<client, code>>] > 0
        /\ Worker!Verify(ClientKey(client), code)
        /\ late' = [late EXCEPT ![<<client, code>>] = @ - 1]
        /\ tally' = [granted |-> tally.granted + isGrant, lost |-> tally.lost + isGrant]
        /\ UNCHANGED <<now, apiVars, wire>>

\* Staff and institutions use the worker directly.
StaffActs ==
    /\ \/ \E issuer \in Issuers : Worker!IssueCredential(issuer)
       \/ \E id \in Credentials : Worker!RevokeCredential(id)
       \/ \E id \in Credentials, code \in Codes : Worker!CreateProof(id, code)
    /\ UNCHANGED <<now, apiVars, netVars>>

WorkerRestarts ==
    /\ Worker!Restart
    /\ wire' = [t \in Threads |-> IF wire[t] = "asked" THEN "broken" ELSE wire[t]]
    /\ late' = [x \in Clients \X Codes |-> 0]
    /\ UNCHANGED <<apiVars, tally>>

ClockTicks ==
    /\ Tick
    /\ UNCHANGED <<workerVars, netVars>>

SystemIsDone ==
    /\ BoundsReached
    /\ UNCHANGED <<workerVars, netVars>>

SystemNext ==
    \/ \E t \in Threads :
        \/ ApiReceives(t)
        \/ ApiChecksLimit(t)
        \/ ApiFinishes(t)
        \/ WorkerHandles(t)
        \/ ReplyArrives(t)
        \/ CallFails(t)
    \/ \E client \in Clients, code \in Codes : LateExecution(client, code)
    \/ StaffActs
    \/ WorkerRestarts
    \/ ClockTicks
    \/ SystemIsDone

SystemSpec == SystemInit /\ [][SystemNext]_systemVars

\* A thread that has something to do runs, and httpx gives every call an end.
\* Nothing is assumed of the worker, of staff or of the network.
Fairness ==
    \A t \in Threads :
        /\ WF_systemVars(ApiChecksLimit(t))
        /\ WF_systemVars(ApiFinishes(t))
        /\ WF_systemVars(ReplyArrives(t) \/ CallFails(t))

FairSpec == SystemSpec /\ Fairness

-----------------------------------------------------------------------------
(***************************************************************************)
(* Properties                                                              *)
(***************************************************************************)

\* Wrong codes of a client, counted by any process of the api.
AllWrongCodes(client, seconds, t) ==
    {x \in Processes \X (1..MaxRequests) :
        x[2] \in WrongCodes(x[1], client, seconds, t)}

\* Threads of the api can outrun its own limiter, and its replicas do not know
\* of each other's counts, but nobody outruns the worker's limiter: in one life
\* of the worker no client has more than MaxFailures wrong codes evaluated
\* within a window shortened by the duration of one request.
EndToEndBudget ==
    generation = 0 =>
        \A client \in Clients, t \in 0..MaxTime :
            Cardinality(AllWrongCodes(client, WindowSeconds - MaxRequestSeconds, t))
                <= MaxFailures

\* A client is refused only for wrong codes typed from its own address.
OnlyOwnFailuresLimit ==
    \A t \in DOMAIN request :
        request[t].reason = "rate_limited" =>
            \/ evaluated[ProcessOf[t]][request[t].client] # << >>
            \/ workerEvaluated[request[t].client] # << >>
            \/ generation > 0

\* The records of an acceptance, by call log and position.
VerifiedRecords ==
    {x \in Processes \X Calls \X (1..MaxRequests) :
        LET records == log[x[1]][x[2]]
        IN x[3] \in DOMAIN records /\ records[x[3]].reason = "verified"}

\* The threads an acceptance is on its way to, or that have not recorded it yet.
VerifiedInFlight ==
    {t \in Threads :
        wire[t] = "verified" \/ (t \in DOMAIN request /\ request[t].reason = "verified")}

\* Whatever is lost or late, every acceptance of the worker is on exactly one
\* call, or on its way there, or was lost with its reply: no proof confirms two
\* calls, and none is spent unaccounted.
AcceptancesAreAccounted ==
    tally.granted =
        Cardinality(VerifiedRecords) + Cardinality(VerifiedInFlight) + tally.lost

\* Every request ends: with a record, or with an error status.
EveryRequestEnds == \A t \in Threads : pc[t] # "idle" ~> pc[t] = "idle"
=============================================================================
