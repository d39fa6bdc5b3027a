-------------------------- MODULE CallVerification --------------------------
(***************************************************************************)
(* apps/api, POST /api/v1/calls/{call_id}/verification: a citizen's code   *)
(* is checked by the verify-worker and the outcome is attached to a call.  *)
(*                                                                         *)
(* The handler is a plain `def', so FastAPI runs each request in a thread  *)
(* of its pool, and CallVerificationService.execute holds no lock from one *)
(* statement to the next: only the single accesses to the attempt store,   *)
(* to the log and to the notifier are atomic.  A request is therefore a    *)
(* sequence of actions of one thread, interleaved with those of others.    *)
(* The verify-worker is left open here: it gives any reason.  Module       *)
(* IdentityVerification puts the modelled worker in its place.             *)
(***************************************************************************)
EXTENDS AttemptStore, VerificationRules

CONSTANTS
    Threads,            \* threads of the pools that serve this endpoint
    ProcessOf,          \* the process each thread is of: a replica of apps/api
    Calls,              \* call ids a citizen's screen may name
    Clients,            \* request.client.host
    Codes,              \* what a citizen may type
    WorkerAnswers,      \* the reasons the worker may give
    MaxRequestSeconds,  \* how long one request may take
    MaxRequests,        \* bound: requests received
    MaxTime             \* bound: the clock stops here

\* The worker is called with a timeout of 5 seconds (httpx applies it to each
\* phase of the call); the window is 600 seconds by default.  Requests that
\* live as long as the window are outside this model.
ASSUME CallAssumption ==
    /\ IsFiniteSet(Threads)
    /\ Threads # {}
    /\ DOMAIN ProcessOf = Threads
    /\ WorkerAnswers \subseteq WorkerReasons
    /\ MaxRequestSeconds \in Nat
    /\ MaxRequestSeconds < WindowSeconds
    /\ MaxRequests \in Nat
    /\ MaxTime \in Nat

VARIABLES
    now,        \* the clock the service reads
    pc,         \* what each thread does next
    request,    \* the request each thread serves, with what it has learned
    failures,   \* InMemoryFailedAttemptStore._failures of each process
    log,        \* InMemoryCallVerificationLog._records of each process
    sent,       \* MockGuardianNotifier.sent, as a count per call and reason
    received,   \* bound: how many requests have been received
    evaluated,  \* history: `now' of each code found wrong for each process
    overlapped  \* history: two requests have been served at a time

vars == <<now, pc, request, failures, log, sent, received, evaluated, overlapped>>

Processes == {ProcessOf[t] : t \in Threads}

Steps == {"idle", "received", "calling", "failed", "answered", "notifying", "logging"}

Request == [call : Calls, client : Clients, code : Codes, at : 0..MaxTime,
            reason : WorkerReasons \cup {""}, retryAllowed : BOOLEAN, notified : BOOLEAN]

\* CallVerificationRecord, without the fields that only display the staff.
Record == [reason : WorkerReasons, retryAllowed : BOOLEAN, notified : BOOLEAN]

TypeOK ==
    /\ now \in 0..MaxTime
    /\ pc \in [Threads -> Steps]
    /\ DOMAIN request \subseteq Threads
    /\ \A t \in DOMAIN request : request[t] \in Request
    /\ failures \in [Processes -> [Clients -> Seq(0..MaxTime)]]
    /\ log \in [Processes -> [Calls -> Seq(Record)]]
    /\ sent \in [Calls \X WorkerReasons -> Nat]
    /\ received \in 0..MaxRequests
    /\ evaluated \in [Processes -> [Clients -> Seq(0..MaxTime)]]
    /\ overlapped \in BOOLEAN

Init ==
    /\ now = 0
    /\ pc = [t \in Threads |-> "idle"]
    /\ request = << >>
    /\ failures = [p \in Processes |-> [c \in Clients |-> << >>]]
    /\ log = [p \in Processes |-> [c \in Calls |-> << >>]]
    /\ sent = [x \in Calls \X WorkerReasons |-> 0]
    /\ received = 0
    /\ evaluated = [p \in Processes |-> [c \in Clients |-> << >>]]
    /\ overlapped = FALSE

-----------------------------------------------------------------------------
\* The steps of CallVerificationService.execute in thread t.

\* self._now(): the one reading of the clock the request uses throughout.
Receive(t, call, client, code) ==
    /\ pc[t] = "idle"
    /\ received < MaxRequests
    /\ received' = received + 1
    /\ pc' = [pc EXCEPT ![t] = "received"]
    /\ request' = [u \in DOMAIN request \cup {t} |->
                      IF u = t
                      THEN [call |-> call, client |-> client, code |-> code, at |-> now,
                            reason |-> "", retryAllowed |-> FALSE, notified |-> FALSE]
                      ELSE request[u]]
    /\ overlapped' = (overlapped \/ DOMAIN request # {})
    /\ UNCHANGED <<now, failures, log, sent, evaluated>>

\* The thread's deque after count_failures_since.
Recent(t) ==
    AfterPurge(failures[ProcessOf[t]][request[t].client], WindowStart(request[t].at))

Limited(t) == IsLimited(Len(Recent(t)))

\* _is_rate_limited: a client at its limit never reaches the worker.
CheckLimit(t) ==
    /\ pc[t] = "received"
    /\ failures' = [failures EXCEPT ![ProcessOf[t]][request[t].client] = Recent(t)]
    /\ \/ /\ Limited(t)
          /\ request' = [request EXCEPT ![t].reason = "rate_limited"]
          /\ pc' = [pc EXCEPT ![t] = "answered"]
       \/ /\ ~Limited(t)
          /\ pc' = [pc EXCEPT ![t] = "calling"]
          /\ UNCHANGED request
    /\ UNCHANGED <<now, log, sent, received, evaluated, overlapped>>

IsFailure(reason) == reason \notin {"verified", "rate_limited"}

\* The worker's answer arrives, a 429 of the worker's own limiter included.
WorkerReplies(t, reason) ==
    /\ pc[t] = "calling"
    /\ request' = [request EXCEPT ![t].reason = reason]
    /\ pc' = [pc EXCEPT ![t] = IF IsFailure(reason) THEN "failed" ELSE "answered"]
    /\ evaluated' = IF IsFailure(reason)
                    THEN [evaluated EXCEPT ![ProcessOf[t]][request[t].client] =
                              Append(@, request[t].at)]
                    ELSE evaluated
    /\ UNCHANGED <<now, failures, log, sent, received, overlapped>>

\* httpx raises: connection refused, timeout, or an error status.  The handler
\* answers 502 or 422 and the request leaves no trace.
WorkerFails(t) ==
    /\ pc[t] = "calling"
    /\ pc' = [pc EXCEPT ![t] = "idle"]
    /\ request' = [u \in DOMAIN request \ {t} |-> request[u]]
    /\ UNCHANGED <<now, failures, log, sent, received, evaluated, overlapped>>

\* Mutant: the start of the window is stored instead of the time.
StampedTooEarly(t) == WindowStart(request[t].at)

\* record_failure is given the time the request began, not the time of the reply.
FailureTime(t) == request[t].at

\* record_failure(client_key, now)
CountFailure(t) ==
    /\ pc[t] = "failed"
    /\ failures' = [failures EXCEPT ![ProcessOf[t]][request[t].client] =
                        Append(@, FailureTime(t))]
    /\ pc' = [pc EXCEPT ![t] = "answered"]
    /\ UNCHANGED <<now, request, log, sent, received, evaluated, overlapped>>

\* list_for_call and the two decisions taken on the copy it returns.
ReadLog(t) ==
    LET reason == request[t].reason
        previous == log[ProcessOf[t]][request[t].call]
        retry == AllowsCodeRetry(reason, previous)
        skip == \/ reason = "verified"
                \/ retry
                \/ IsRepeatedRateLimit(reason, previous)
    IN  /\ pc[t] = "answered"
        /\ request' = [request EXCEPT ![t].retryAllowed = retry]
        /\ pc' = [pc EXCEPT ![t] = IF skip THEN "logging" ELSE "notifying"]
        /\ UNCHANGED <<now, failures, log, sent, received, evaluated, overlapped>>

NotifyGuardian(t) ==
    /\ pc[t] = "notifying"
    /\ sent' = [sent EXCEPT ![<<request[t].call, request[t].reason>>] = @ + 1]
    /\ request' = [request EXCEPT ![t].notified = TRUE]
    /\ pc' = [pc EXCEPT ![t] = "logging"]
    /\ UNCHANGED <<now, failures, log, received, evaluated, overlapped>>

\* Mutant: a call keeps its last record only.
KeepsLast(records, record) == <<record>>

\* InMemoryCallVerificationLog.add
Recorded(records, record) == Append(records, record)

AddRecord(t) ==
    LET r == request[t] IN
    /\ pc[t] = "logging"
    /\ log' = [log EXCEPT ![ProcessOf[t]][r.call] =
                  Recorded(@, [reason |-> r.reason, retryAllowed |-> r.retryAllowed,
                               notified |-> r.notified])]
    /\ pc' = [pc EXCEPT ![t] = "idle"]
    /\ request' = [u \in DOMAIN request \ {t} |-> request[u]]
    /\ UNCHANGED <<now, failures, sent, received, evaluated, overlapped>>

\* Time passes, but no request is held up longer than MaxRequestSeconds.
Tick ==
    /\ now < MaxTime
    /\ \A t \in DOMAIN request : now + 1 <= request[t].at + MaxRequestSeconds
    /\ now' = now + 1
    /\ UNCHANGED <<pc, request, failures, log, sent, received, evaluated, overlapped>>

\* The bounds are used up and every request has been answered.
BoundsReached ==
    /\ received = MaxRequests
    /\ now = MaxTime
    /\ \A t \in Threads : pc[t] = "idle"
    /\ UNCHANGED vars

\* The steps a thread takes on its own.
ThreadStep(t) ==
    \/ CheckLimit(t)
    \/ CountFailure(t)
    \/ ReadLog(t)
    \/ NotifyGuardian(t)
    \/ AddRecord(t)

Next ==
    \/ \E t \in Threads :
        \/ \E call \in Calls, client \in Clients, code \in Codes :
                Receive(t, call, client, code)
        \/ \E reason \in WorkerAnswers : WorkerReplies(t, reason)
        \/ WorkerFails(t)
        \/ ThreadStep(t)
    \/ Tick
    \/ BoundsReached

Spec == Init /\ [][Next]_vars

-----------------------------------------------------------------------------
(***************************************************************************)
(* Properties of any number of threads and processes                       *)
(***************************************************************************)

\* A process's wrong codes of a client, of requests begun in the `seconds' up to t.
WrongCodes(p, client, seconds, t) ==
    {i \in DOMAIN evaluated[p][client] :
        /\ evaluated[p][client][i] > t - seconds
        /\ evaluated[p][client][i] <= t}

ThreadsOf(p) == {t \in Threads : ProcessOf[t] = p}

\* Checking and counting are not one step, and a younger request may purge what
\* an older one still ought to see.  Requests that run together can therefore
\* push a client over the limit of the process, but, in a window shortened by
\* the duration of one request, never by more than the number of its other threads.
OvershootIsBounded ==
    \A p \in Processes, client \in Clients, t \in 0..MaxTime :
        Cardinality(WrongCodes(p, client, WindowSeconds - MaxRequestSeconds, t))
            <= MaxFailures - 1 + Cardinality(ThreadsOf(p))

\* Requests may append their times out of order and hide an old time behind a
\* younger one; what is still counted is late by one request's duration at most.
OvercountIsBounded ==
    \A p \in Processes, client \in Clients :
        LET counted == AfterPurge(failures[p][client], WindowStart(now)) IN
        \A i \in DOMAIN counted : counted[i] > WindowStart(now) - MaxRequestSeconds

\* A call on which a code was refused for good, by whichever interleaving, has
\* a guardian alert, also when the refusal itself was a repeated limit.
RefusalsReachGuardian ==
    \A p \in Processes, call \in Calls :
        (\E i \in DOMAIN log[p][call] :
            log[p][call][i].reason # "verified" /\ ~log[p][call][i].retryAllowed)
        => \E reason \in WorkerReasons : sent[<<call, reason>>] > 0

(***************************************************************************)
(* Properties of requests that follow one another, as the rules of          *)
(* domain/identity_verification.py and the stores of one process state them *)
(***************************************************************************)

\* Only the first of consecutive unknown codes of a call may be re-entered, and
\* none once the call has met the limit (allows_code_retry).
RetryOncePerRun ==
    \A p \in Processes, call \in Calls :
        LET records == log[p][call] IN
        \A i \in DOMAIN records :
            records[i].retryAllowed =>
                /\ i > 1 => records[i - 1].reason # "code_not_found"
                /\ \A j \in 1..(i - 1) : records[j].reason # "rate_limited"

\* The guardian hears of the limit once per call, not of every refused request
\* (is_repeated_rate_limit).
OneAlertPerLimitedCall ==
    \A call \in Calls : sent[<<call, "rate_limited">>] <= 1

\* A deque counts failures of the window and nothing else (count_failures_since).
CountsOnlyTheWindow ==
    \A p \in Processes, client \in Clients :
        Len(AfterPurge(failures[p][client], WindowStart(now)))
            <= FailuresSince(evaluated[p][client], WindowStart(now))

\* As long as no two requests were served at a time, the rules hold exactly, in
\* each process by itself: one retry per run of unknown codes, an alert for the
\* first refused request only, and no failure counted longer than the window.
RulesHoldInSequence ==
    ~overlapped =>
        /\ RetryOncePerRun
        /\ \A call \in Calls : sent[<<call, "rate_limited">>] <= Cardinality(Processes)
        /\ CountsOnlyTheWindow
=============================================================================
