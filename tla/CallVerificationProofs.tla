----------------------- MODULE CallVerificationProofs -----------------------
(***************************************************************************)
(* Proofs about CallVerification for any number of threads, processes,     *)
(* calls and clients, and every limit, window and duration of a request;   *)
(* and, in the second half, about IdentityVerification, which extends it   *)
(* with the worker: each component of the composition behaves as it does   *)
(* by itself, and what holds only of the two together.                     *)
(***************************************************************************)
EXTENDS IdentityVerification, AttemptStoreProofs

-----------------------------------------------------------------------------
(***************************************************************************)
(* Type correctness                                                        *)
(***************************************************************************)

\* A thread holds a request from Receive to its end, and a reason from the
\* moment it has one.
Running ==
    /\ DOMAIN request = {t \in Threads : pc[t] # "idle"}
    /\ \A t \in DOMAIN request :
        pc[t] \in {"failed", "answered", "notifying", "logging"}
            => request[t].reason \in WorkerReasons

Typed == TypeOK /\ Running

LEMMA RecentType ==
    ASSUME Typed, NEW t \in DOMAIN request
    PROVE  /\ ProcessOf[t] \in Processes
           /\ request[t] \in Request
           /\ failures[ProcessOf[t]][request[t].client] \in Seq(0..MaxTime)
           /\ Recent(t) \in Seq(0..MaxTime)
           /\ Append(failures[ProcessOf[t]][request[t].client], FailureTime(t)) \in Seq(0..MaxTime)
<1>1. t \in Threads /\ ProcessOf[t] \in Processes /\ request[t] \in Request
  BY DEF Typed, TypeOK, Processes
<1>2. request[t].client \in Clients /\ request[t].at \in 0..MaxTime
  BY <1>1 DEF Request
<1>3. failures[ProcessOf[t]][request[t].client] \in Seq(0..MaxTime)
  BY <1>1, <1>2 DEF Typed, TypeOK
<1>4. WindowStart(request[t].at) \in Int /\ 0..MaxTime \in SUBSET Int
  BY <1>2, CallAssumption, PolicyAssumption DEF WindowStart
<1>5. Recent(t) \in Seq(0..MaxTime)
  BY <1>3, <1>4, AfterPurgeProperties DEF Recent
<1> QED
  BY <1>1, <1>2, <1>3, <1>5, AppendProperties DEF FailureTime

LEMMA InitTyped == Init => Typed
<1> SUFFICES ASSUME Init PROVE Typed
  OBVIOUS
<1>1. << >> \in Seq(0..MaxTime) /\ << >> \in Seq(Record)
  BY EmptySeq
<1>2. DOMAIN request = {}
  BY DEF Init
<1>3. failures \in [Processes -> [Clients -> Seq(0..MaxTime)]]
  BY <1>1 DEF Init
<1>4. log \in [Processes -> [Calls -> Seq(Record)]]
  BY <1>1 DEF Init
<1>5. evaluated \in [Processes -> [Clients -> Seq(0..MaxTime)]]
  BY <1>1 DEF Init
<1>6. pc \in [Threads -> Steps] /\ \A t \in Threads : pc[t] = "idle"
  BY DEF Init, Steps
<1>7. 0 \in 0..MaxTime /\ 0 \in 0..MaxRequests
  BY CallAssumption
<1> QED
  BY <1>2, <1>3, <1>4, <1>5, <1>6, <1>7 DEF Init, Typed, TypeOK, Running

\* What a change of one thread's request and step leaves of the types.
LEMMA ThreadTyped ==
    ASSUME Typed, NEW t \in DOMAIN request, NEW r \in Request, NEW step \in Steps \ {"idle"},
           request' = [request EXCEPT ![t] = r],
           pc' = [pc EXCEPT ![t] = step],
           step \in {"failed", "answered", "notifying", "logging"} => r.reason \in WorkerReasons
    PROVE  /\ pc' \in [Threads -> Steps]
           /\ DOMAIN request' \subseteq Threads
           /\ \A u \in DOMAIN request' : request'[u] \in Request
           /\ Running'
BY DEF Typed, TypeOK, Running

LEMMA NextTyped == Typed /\ [Next]_vars => Typed'
<1> SUFFICES ASSUME Typed, [Next]_vars PROVE Typed'
  OBVIOUS
<1> USE DEF Typed
<1>1. ASSUME NEW t \in Threads, NEW call \in Calls, NEW client \in Clients, NEW code \in Codes,
             Receive(t, call, client, code)
      PROVE  Typed'
  <2>1. now \in 0..MaxTime
    BY DEF TypeOK
  <2>2. [call |-> call, client |-> client, code |-> code, at |-> now,
         reason |-> "", retryAllowed |-> FALSE, notified |-> FALSE] \in Request
    BY <2>1 DEF Request
  <2>3. /\ DOMAIN request' = DOMAIN request \cup {t}
        /\ request'[t] \in Request
        /\ \A u \in DOMAIN request' \ {t} : request'[u] = request[u]
    BY <1>1, <2>2 DEF Receive
  <2>4. pc' = [pc EXCEPT ![t] = "received"] /\ "received" \in Steps
    BY <1>1 DEF Receive, Steps
  <2>5. received' \in 0..MaxRequests
    <3>1. /\ received \in 0..MaxRequests
          /\ received < MaxRequests
          /\ received' = received + 1
      BY <1>1 DEF Receive, TypeOK
    <3>2. MaxRequests \in Nat
      BY CallAssumption
    <3> QED
      BY <3>1, <3>2
  <2>6. /\ pc' \in [Threads -> Steps]
        /\ DOMAIN request' \subseteq Threads
        /\ \A u \in DOMAIN request' : request'[u] \in Request
    BY <2>3, <2>4 DEF TypeOK
  <2>7. overlapped' \in BOOLEAN
    BY <1>1 DEF Receive, TypeOK
  <2>9. TypeOK'
    BY <1>1, <2>5, <2>6, <2>7 DEF Receive, TypeOK
  <2>8. Running'
    BY <2>3, <2>4 DEF Running, TypeOK
  <2> QED
    BY <2>8, <2>9
<1>2. ASSUME NEW t \in Threads, CheckLimit(t) PROVE Typed'
  <2>1. t \in DOMAIN request
    BY <1>2 DEF CheckLimit, Running
  <2>2. failures' \in [Processes -> [Clients -> Seq(0..MaxTime)]]
    BY <1>2, <2>1, RecentType DEF CheckLimit, TypeOK, Request
  <2>3. CASE Limited(t)
    <3>1. [request[t] EXCEPT !.reason = "rate_limited"] \in Request
      BY <2>1 DEF TypeOK, Request, WorkerReasons
    <3>2. [request[t] EXCEPT !.reason = "rate_limited"].reason \in WorkerReasons
      BY <2>1 DEF TypeOK, Request, WorkerReasons
    <3>3. /\ request' = [request EXCEPT ![t] = [request[t] EXCEPT !.reason = "rate_limited"]]
          /\ pc' = [pc EXCEPT ![t] = "answered"]
      BY <1>2, <2>3 DEF CheckLimit
    <3>4. "answered" \in Steps \ {"idle"}
      BY DEF Steps
    <3> QED
      BY <1>2, <2>1, <2>2, <3>1, <3>2, <3>3, <3>4, ThreadTyped DEF CheckLimit, TypeOK
  <2>4. CASE ~Limited(t)
    <3>1. request' = request /\ pc' = [pc EXCEPT ![t] = "calling"] /\ "calling" \in Steps
      BY <1>2, <2>4 DEF CheckLimit, Steps
    <3>2. Running'
      BY <2>1, <3>1 DEF Running, TypeOK
    <3> QED
      BY <1>2, <2>2, <3>1, <3>2 DEF CheckLimit, TypeOK
  <2> QED
    BY <2>3, <2>4
<1>3. ASSUME NEW t \in Threads, NEW reason \in WorkerAnswers, WorkerReplies(t, reason)
      PROVE  Typed'
  <2>1. t \in DOMAIN request /\ reason \in WorkerReasons
    BY <1>3, CallAssumption DEF WorkerReplies, Running
  <2>2. [request[t] EXCEPT !.reason = reason] \in Request
    BY <2>1 DEF TypeOK, Request
  <2>3. [request[t] EXCEPT !.reason = reason].reason = reason
    BY <2>1 DEF TypeOK, Request
  <2>4. PICK step \in {"failed", "answered"} : pc' = [pc EXCEPT ![t] = step]
    BY <1>3 DEF WorkerReplies
  <2>5. step \in Steps \ {"idle"}
    BY DEF Steps
  <2>6. request' = [request EXCEPT ![t] = [request[t] EXCEPT !.reason = reason]]
    BY <1>3 DEF WorkerReplies
  <2>7. evaluated' \in [Processes -> [Clients -> Seq(0..MaxTime)]]
    <3>1. /\ request[t].client \in Clients /\ ProcessOf[t] \in Processes
          /\ request[t].at \in 0..MaxTime
      BY <2>1, RecentType DEF Request
    <3>2. Append(evaluated[ProcessOf[t]][request[t].client], request[t].at)
              \in Seq(0..MaxTime)
      BY <3>1, AppendProperties DEF TypeOK
    <3> QED
      BY <1>3, <3>1, <3>2 DEF WorkerReplies, TypeOK
  <2>8. /\ pc' \in [Threads -> Steps]
        /\ DOMAIN request' \subseteq Threads
        /\ \A u \in DOMAIN request' : request'[u] \in Request
        /\ Running'
    BY <2>1, <2>2, <2>3, <2>4, <2>5, <2>6, ThreadTyped
  <2> QED
    BY <1>3, <2>7, <2>8 DEF WorkerReplies, TypeOK
<1>4. ASSUME NEW t \in Threads, WorkerFails(t) PROVE Typed'
  <2>1. /\ DOMAIN request' = DOMAIN request \ {t}
        /\ \A u \in DOMAIN request' : request'[u] = request[u]
        /\ pc' = [pc EXCEPT ![t] = "idle"]
    BY <1>4 DEF WorkerFails
  <2> QED
    BY <1>4, <2>1 DEF WorkerFails, TypeOK, Running, Steps
<1>5. ASSUME NEW t \in Threads, CountFailure(t) PROVE Typed'
  <2>1. t \in DOMAIN request
    BY <1>5 DEF CountFailure, Running
  <2>2. failures' \in [Processes -> [Clients -> Seq(0..MaxTime)]]
    BY <1>5, <2>1, RecentType DEF CountFailure, TypeOK, Request
  <2>3. pc' \in [Threads -> Steps] /\ Running'
    BY <1>5, <2>1 DEF CountFailure, TypeOK, Running, Steps
  <2> QED
    BY <1>5, <2>2, <2>3 DEF CountFailure, TypeOK
<1>6. ASSUME NEW t \in Threads, ReadLog(t) PROVE Typed'
  <2>1. t \in DOMAIN request /\ pc[t] = "answered"
    BY <1>6 DEF ReadLog, Running
  <2>2. PICK retry \in BOOLEAN, step \in {"logging", "notifying"} :
            /\ request' = [request EXCEPT ![t].retryAllowed = retry]
            /\ pc' = [pc EXCEPT ![t] = step]
    BY <1>6 DEF ReadLog, AllowsCodeRetry
  <2>3. /\ request' = [request EXCEPT ![t] = [request[t] EXCEPT !.retryAllowed = retry]]
        /\ [request[t] EXCEPT !.retryAllowed = retry] \in Request
        /\ [request[t] EXCEPT !.retryAllowed = retry].reason = request[t].reason
        /\ request[t].reason \in WorkerReasons
    BY <2>1, <2>2 DEF TypeOK, Running, Request
  <2>4. step \in Steps \ {"idle"}
    BY DEF Steps
  <2>5. /\ pc' \in [Threads -> Steps]
        /\ DOMAIN request' \subseteq Threads
        /\ \A u \in DOMAIN request' : request'[u] \in Request
        /\ Running'
    BY <2>1, <2>2, <2>3, <2>4, ThreadTyped
  <2> QED
    BY <1>6, <2>5 DEF ReadLog, TypeOK
<1>7. ASSUME NEW t \in Threads, NotifyGuardian(t) PROVE Typed'
  <2>1. t \in DOMAIN request /\ pc[t] = "notifying"
    BY <1>7 DEF NotifyGuardian, Running
  <2>2. /\ request' = [request EXCEPT ![t] = [request[t] EXCEPT !.notified = TRUE]]
        /\ [request[t] EXCEPT !.notified = TRUE] \in Request
        /\ [request[t] EXCEPT !.notified = TRUE].reason = request[t].reason
        /\ request[t].reason \in WorkerReasons
        /\ request[t].call \in Calls
    BY <1>7, <2>1 DEF NotifyGuardian, TypeOK, Running, Request
  <2>3. pc' = [pc EXCEPT ![t] = "logging"] /\ "logging" \in Steps \ {"idle"}
    BY <1>7 DEF NotifyGuardian, Steps
  <2>4. sent' \in [Calls \X WorkerReasons -> Nat]
    BY <1>7, <2>2 DEF NotifyGuardian, TypeOK
  <2>5. /\ pc' \in [Threads -> Steps]
        /\ DOMAIN request' \subseteq Threads
        /\ \A u \in DOMAIN request' : request'[u] \in Request
        /\ Running'
    BY <2>1, <2>2, <2>3, ThreadTyped
  <2> QED
    BY <1>7, <2>4, <2>5 DEF NotifyGuardian, TypeOK
<1>8. ASSUME NEW t \in Threads, AddRecord(t) PROVE Typed'
  <2>1. t \in DOMAIN request /\ ProcessOf[t] \in Processes
    BY <1>8 DEF AddRecord, Running, Processes
  <2>2. request[t].call \in Calls
    BY <2>1 DEF TypeOK, Request
  <2>3. [reason |-> request[t].reason, retryAllowed |-> request[t].retryAllowed,
         notified |-> request[t].notified] \in Record
    BY <1>8, <2>1 DEF AddRecord, TypeOK, Running, Request, Record
  <2>4. log[ProcessOf[t]][request[t].call] \in Seq(Record)
    BY <2>1, <2>2 DEF TypeOK
  <2>5. Recorded(log[ProcessOf[t]][request[t].call],
                 [reason |-> request[t].reason, retryAllowed |-> request[t].retryAllowed,
                  notified |-> request[t].notified]) \in Seq(Record)
    BY <2>3, <2>4, AppendProperties DEF Recorded
  <2>6. log' \in [Processes -> [Calls -> Seq(Record)]]
    BY <1>8, <2>1, <2>2, <2>5 DEF AddRecord, TypeOK
  <2>7. /\ DOMAIN request' = DOMAIN request \ {t}
        /\ \A u \in DOMAIN request' : request'[u] = request[u]
        /\ pc' = [pc EXCEPT ![t] = "idle"]
    BY <1>8 DEF AddRecord
  <2> QED
    BY <1>8, <2>6, <2>7 DEF AddRecord, TypeOK, Running, Steps
<1>9. ASSUME Tick PROVE Typed'
  BY <1>9, CallAssumption DEF Tick, TypeOK, Running
<1>10. ASSUME UNCHANGED vars PROVE Typed'
  BY <1>10 DEF vars, TypeOK, Running
<1> QED
  BY <1>1, <1>2, <1>3, <1>4, <1>5, <1>6, <1>7, <1>8, <1>9, <1>10
     DEF Next, ThreadStep, BoundsReached

\* Every reachable state of the service is well typed: a thread has a request
\* exactly while it serves one, and a reason before it counts or records.
THEOREM TypeCorrect == Spec => []TypeOK
<1>1. Typed => TypeOK
  BY DEF Typed
<1> QED
  BY InitTyped, NextTyped, <1>1, PTL DEF Spec

-----------------------------------------------------------------------------
(***************************************************************************)
(* Every call with a final refusal has an alert                            *)
(*                                                                         *)
(* A refused request that alerts nobody leans on an earlier record of the  *)
(* same call that met the limit.  The argument is that such a record is    *)
(* always final, so that its own request has alerted the guardian or has   *)
(* leant on a record that is older still.                                  *)
(***************************************************************************)
Final(record) == record.reason # "verified" /\ ~record.retryAllowed

Alerted(call) == \E reason \in WorkerReasons : sent[<<call, reason>>] > 0

\* A code may be re-entered only when no limit was met.
LimitIsFinal(record) == record.reason = "rate_limited" => ~record.retryAllowed

RecordIsAlerted(call, record) == LimitIsFinal(record) /\ (Final(record) => Alerted(call))

LogIsAlerted ==
    \A p \in Processes, call \in Calls : \A i \in DOMAIN log[p][call] :
        RecordIsAlerted(call, log[p][call][i])

\* What a request knows at its step.
Known(r, step) ==
    /\ LimitIsFinal(r)
    /\ step \notin {"notifying", "logging"} => ~r.retryAllowed
    /\ step = "logging" /\ Final(r) => Alerted(r.call)

RequestsAreAlerted == \A t \in DOMAIN request : Known(request[t], pc[t])

GuardianInv == LogIsAlerted /\ RequestsAreAlerted

LEMMA InitGuardian == Init => GuardianInv
<1> SUFFICES ASSUME Init PROVE GuardianInv
  OBVIOUS
<1>1. \A p \in Processes, call \in Calls : DOMAIN log[p][call] = {}
  BY DEF Init
<1>2. DOMAIN request = {}
  BY DEF Init
<1> QED
  BY <1>1, <1>2 DEF GuardianInv, LogIsAlerted, RequestsAreAlerted

\* A step of one thread that writes neither the log nor an alert.
LEMMA RequestStepGuardian ==
    ASSUME Typed, GuardianInv, NEW t \in DOMAIN request, NEW r \in Request, NEW step \in Steps,
           DOMAIN request' = DOMAIN request, request'[t] = r,
           \A u \in DOMAIN request \ {t} : request'[u] = request[u],
           pc' = [pc EXCEPT ![t] = step], UNCHANGED <<log, sent>>, Known(r, step)
    PROVE  GuardianInv'
<1>1. LogIsAlerted'
  BY DEF GuardianInv, LogIsAlerted, RecordIsAlerted, Alerted
<1>2. ASSUME NEW u \in DOMAIN request' PROVE Known(request[u], pc[u])' 
  <2>1. u \in DOMAIN request /\ u \in Threads /\ t \in Threads
    BY DEF Typed, TypeOK
  <2>2. CASE u = t
    <3>1. request'[u] = r /\ pc'[u] = step
      BY <2>1, <2>2 DEF Typed, TypeOK
    <3> QED
      BY <3>1 DEF Known, Alerted
  <2>3. CASE u # t
    <3>1. request'[u] = request[u] /\ pc'[u] = pc[u]
      BY <2>1, <2>3 DEF Typed, TypeOK
    <3>2. Known(request[u], pc[u])
      BY <2>1 DEF GuardianInv, RequestsAreAlerted
    <3> QED
      BY <3>1, <3>2 DEF Known, Alerted, Final
  <2> QED
    BY <2>2, <2>3
<1> QED
  BY <1>1, <1>2 DEF GuardianInv, RequestsAreAlerted

\* A step that ends a request without a record, or changes none.
LEMMA QuietGuardian ==
    ASSUME Typed, GuardianInv, UNCHANGED <<log, sent>>, DOMAIN request' \subseteq DOMAIN request,
           \A u \in DOMAIN request' : request'[u] = request[u] /\ pc'[u] = pc[u]
    PROVE  GuardianInv'
BY DEF GuardianInv, LogIsAlerted, RequestsAreAlerted, RecordIsAlerted, Known, Alerted

LEMMA NextGuardian == Typed /\ GuardianInv /\ [Next]_vars => GuardianInv'
<1> SUFFICES ASSUME Typed, GuardianInv, [Next]_vars PROVE GuardianInv'
  OBVIOUS
<1>1. ASSUME NEW t \in Threads, NEW call \in Calls, NEW client \in Clients, NEW code \in Codes,
             Receive(t, call, client, code)
      PROVE  GuardianInv'
  <2>1. /\ DOMAIN request' = DOMAIN request \cup {t}
        /\ request'[t].reason = "" /\ ~request'[t].retryAllowed
        /\ \A u \in DOMAIN request' \ {t} : request'[u] = request[u]
    BY <1>1 DEF Receive
  <2>2. /\ pc'[t] = "received"
        /\ \A u \in DOMAIN request' \ {t} : pc'[u] = pc[u]
    BY <1>1, <2>1 DEF Receive, Typed, TypeOK
  <2>3. Known(request[t], pc[t])'
    BY <2>1, <2>2 DEF Known, LimitIsFinal
  <2>4. \A u \in DOMAIN request' \ {t} : Known(request[u], pc[u])'
    <3>1. SUFFICES ASSUME NEW u \in DOMAIN request' \ {t} PROVE Known(request[u], pc[u])'
      OBVIOUS
    <3>2. u \in DOMAIN request /\ Known(request[u], pc[u])
      BY <2>1 DEF GuardianInv, RequestsAreAlerted
    <3>3. request'[u] = request[u] /\ pc'[u] = pc[u] /\ sent' = sent
      BY <1>1, <2>1, <2>2 DEF Receive
    <3> QED
      BY <3>2, <3>3 DEF Known, Alerted
  <2>5. LogIsAlerted'
    BY <1>1 DEF Receive, GuardianInv, LogIsAlerted, RecordIsAlerted, Alerted
  <2> QED
    BY <2>3, <2>4, <2>5 DEF GuardianInv, RequestsAreAlerted
<1>2. ASSUME NEW t \in Threads, CheckLimit(t) PROVE GuardianInv'
  <2>1. t \in DOMAIN request /\ request[t] \in Request /\ ~request[t].retryAllowed
    BY <1>2 DEF CheckLimit, Typed, TypeOK, Running, GuardianInv, RequestsAreAlerted, Known
  <2>2. CASE Limited(t)
    <3> DEFINE r == [request[t] EXCEPT !.reason = "rate_limited"]
    <3>1. r \in Request /\ ~r.retryAllowed
      BY <2>1 DEF Request, WorkerReasons
    <3>2. "answered" \in Steps /\ Known(r, "answered")
      BY <3>1 DEF Steps, Known, LimitIsFinal
    <3>3. /\ request' = [request EXCEPT ![t] = r]
          /\ pc' = [pc EXCEPT ![t] = "answered"]
          /\ UNCHANGED <<log, sent>>
      BY <1>2, <2>2 DEF CheckLimit
    <3> HIDE DEF r
    <3> QED
      BY <2>1, <3>1, <3>2, <3>3, RequestStepGuardian
  <2>3. CASE ~Limited(t)
    <3>1. /\ request' = request
          /\ pc' = [pc EXCEPT ![t] = "calling"]
          /\ UNCHANGED <<log, sent>>
      BY <1>2, <2>3 DEF CheckLimit
    <3>2. "calling" \in Steps /\ Known(request[t], "calling")
      BY <2>1 DEF Steps, Known, LimitIsFinal
    <3> QED
      BY <2>1, <3>1, <3>2, RequestStepGuardian
  <2> QED
    BY <2>2, <2>3
<1>3. ASSUME NEW t \in Threads, NEW reason \in WorkerAnswers, WorkerReplies(t, reason)
      PROVE  GuardianInv'
  <2> DEFINE r == [request[t] EXCEPT !.reason = reason]
  <2>1. t \in DOMAIN request /\ request[t] \in Request /\ ~request[t].retryAllowed
    BY <1>3 DEF WorkerReplies, Typed, TypeOK, Running, GuardianInv, RequestsAreAlerted, Known
  <2>2. r \in Request /\ ~r.retryAllowed
    BY <2>1, CallAssumption DEF Request
  <2>3. PICK step \in {"failed", "answered"} : pc' = [pc EXCEPT ![t] = step]
    BY <1>3 DEF WorkerReplies
  <2>4. step \in Steps /\ Known(r, step)
    BY <2>2 DEF Steps, Known, LimitIsFinal
  <2>5. request' = [request EXCEPT ![t] = r] /\ UNCHANGED <<log, sent>>
    BY <1>3 DEF WorkerReplies
  <2> HIDE DEF r
  <2> QED
    BY <2>1, <2>2, <2>3, <2>4, <2>5, RequestStepGuardian
<1>4. ASSUME NEW t \in Threads, WorkerFails(t) PROVE GuardianInv'
  <2>1. /\ DOMAIN request' = DOMAIN request \ {t}
        /\ \A u \in DOMAIN request' : request'[u] = request[u] /\ pc'[u] = pc[u]
        /\ UNCHANGED <<log, sent>>
    BY <1>4 DEF WorkerFails, Typed, TypeOK
  <2> QED
    BY <2>1, QuietGuardian
<1>5. ASSUME NEW t \in Threads, CountFailure(t) PROVE GuardianInv'
  <2>1. t \in DOMAIN request /\ request[t] \in Request /\ ~request[t].retryAllowed
    BY <1>5 DEF CountFailure, Typed, TypeOK, Running, GuardianInv, RequestsAreAlerted, Known
  <2>2. /\ request' = request
        /\ pc' = [pc EXCEPT ![t] = "answered"]
        /\ UNCHANGED <<log, sent>>
    BY <1>5 DEF CountFailure
  <2>3. "answered" \in Steps /\ Known(request[t], "answered")
    BY <2>1 DEF Steps, Known, LimitIsFinal
  <2> QED
    BY <2>1, <2>2, <2>3, RequestStepGuardian
<1>6. ASSUME NEW t \in Threads, ReadLog(t) PROVE GuardianInv'
  <2> DEFINE reason == request[t].reason
             previous == log[ProcessOf[t]][request[t].call]
             retry == AllowsCodeRetry(reason, previous)
             skip == reason = "verified" \/ retry \/ IsRepeatedRateLimit(reason, previous)
             step == IF skip THEN "logging" ELSE "notifying"
             r == [request[t] EXCEPT !.retryAllowed = retry]
  <2>1. /\ t \in DOMAIN request /\ request[t] \in Request
        /\ request[t].call \in Calls /\ ProcessOf[t] \in Processes
    BY <1>6 DEF ReadLog, Typed, TypeOK, Running, Request, Processes
  <2>2. retry \in BOOLEAN
    BY DEF AllowsCodeRetry
  <2>3. /\ r \in Request /\ r.retryAllowed = retry /\ r.reason = reason /\ r.call = request[t].call
    <3> HIDE DEF retry
    <3> QED
      BY <2>1, <2>2 DEF Request
  <2>4. LimitIsFinal(r)
    <3>1. reason = "rate_limited" => ~retry
      BY DEF AllowsCodeRetry
    <3> QED
      BY <2>3, <3>1 DEF LimitIsFinal
  <2>5. IsRepeatedRateLimit(reason, previous) => Alerted(request[t].call)
    <3>1. SUFFICES ASSUME WasLimited(previous) PROVE Alerted(request[t].call)
      BY DEF IsRepeatedRateLimit
    <3>2. PICK i \in DOMAIN previous : previous[i].reason = "rate_limited"
      BY <3>1 DEF WasLimited
    <3>3. RecordIsAlerted(request[t].call, previous[i])
      BY <2>1 DEF GuardianInv, LogIsAlerted
    <3> QED
      BY <3>2, <3>3 DEF RecordIsAlerted, LimitIsFinal, Final
  <2>6. step = "logging" /\ Final(r) => Alerted(r.call)
    BY <2>3, <2>5 DEF Final
  <2>7. step \in Steps /\ Known(r, step)
    BY <2>4, <2>6 DEF Steps, Known
  <2>8. request' = [request EXCEPT ![t] = r] /\ pc' = [pc EXCEPT ![t] = step]
        /\ UNCHANGED <<log, sent>>
    BY <1>6 DEF ReadLog
  <2> HIDE DEF r, step
  <2> QED
    BY <2>1, <2>3, <2>7, <2>8, RequestStepGuardian
<1>7. ASSUME NEW t \in Threads, NotifyGuardian(t) PROVE GuardianInv'
  <2> DEFINE r == [request[t] EXCEPT !.notified = TRUE]
  <2>1. /\ t \in DOMAIN request /\ request[t] \in Request /\ request[t].reason \in WorkerReasons
        /\ request[t].call \in Calls /\ Known(request[t], pc[t])
    BY <1>7 DEF NotifyGuardian, Typed, TypeOK, Running, Request, GuardianInv, RequestsAreAlerted
  <2>2. /\ sent' = [sent EXCEPT ![<<request[t].call, request[t].reason>>] = @ + 1]
        /\ sent \in [Calls \X WorkerReasons -> Nat]
    BY <1>7 DEF NotifyGuardian, Typed, TypeOK
  <2>3. \A call \in Calls : Alerted(call) => Alerted(call)'
    BY <2>1, <2>2 DEF Alerted
  <2>4. \E reason \in WorkerReasons : sent'[<<request[t].call, reason>>] > 0
    <3>1. <<request[t].call, request[t].reason>> \in Calls \X WorkerReasons
      BY <2>1
    <3>2. sent'[<<request[t].call, request[t].reason>>] > 0
      BY <2>2, <3>1
    <3> QED
      BY <2>1, <3>2
  <2>5. LogIsAlerted'
    <3>1. log' = log
      BY <1>7 DEF NotifyGuardian
    <3> QED
      BY <2>3, <3>1 DEF GuardianInv, LogIsAlerted, RecordIsAlerted
  <2>6. /\ request' = [request EXCEPT ![t] = r]
        /\ pc' = [pc EXCEPT ![t] = "logging"]
    BY <1>7 DEF NotifyGuardian
  <2>7. r.call = request[t].call /\ r.reason = request[t].reason
        /\ r.retryAllowed = request[t].retryAllowed
    BY <2>1 DEF Request
  <2> HIDE DEF r
  <2>8. ASSUME NEW u \in DOMAIN request' PROVE Known(request[u], pc[u])'
    <3>1. u \in DOMAIN request /\ u \in Threads /\ t \in Threads /\ request[u].call \in Calls
      BY <2>6 DEF Typed, TypeOK, Request
    <3>2. CASE u = t
      <4>1. request'[u] = r /\ pc'[u] = "logging"
        BY <2>6, <3>1, <3>2 DEF Typed, TypeOK
      <4> QED
        BY <2>1, <2>4, <2>7, <4>1 DEF Known, LimitIsFinal, Alerted
    <3>3. CASE u # t
      <4>1. request'[u] = request[u] /\ pc'[u] = pc[u]
        BY <2>6, <3>1, <3>3 DEF Typed, TypeOK
      <4>2. Known(request[u], pc[u])
        BY <3>1 DEF GuardianInv, RequestsAreAlerted
      <4> QED
        BY <2>3, <3>1, <4>1, <4>2 DEF Known
    <3> QED
      BY <3>2, <3>3
  <2> QED
    BY <2>5, <2>8 DEF GuardianInv, RequestsAreAlerted
<1>8. ASSUME NEW t \in Threads, AddRecord(t) PROVE GuardianInv'
  <2> DEFINE p == ProcessOf[t]
             call == request[t].call
             record == [reason |-> request[t].reason, retryAllowed |-> request[t].retryAllowed,
                        notified |-> request[t].notified]
  <2>1. /\ t \in DOMAIN request /\ call \in Calls /\ p \in Processes
        /\ Known(request[t], "logging")
    BY <1>8 DEF AddRecord, Typed, TypeOK, Running, Request, Processes, GuardianInv,
       RequestsAreAlerted
  <2>2. RecordIsAlerted(call, record)
    BY <2>1 DEF Known, RecordIsAlerted, LimitIsFinal, Final
  <2>3. log[p][call] \in Seq(Record) /\ log \in [Processes -> [Calls -> Seq(Record)]]
    BY <2>1 DEF Typed, TypeOK
  <2>4. record \in Record
    BY <1>8, <2>1 DEF AddRecord, Typed, TypeOK, Running, Request, Record
  <2>5. /\ log' = [log EXCEPT ![p][call] = Append(log[p][call], record)]
        /\ sent' = sent
    BY <1>8 DEF AddRecord, Recorded
  <2>6. /\ DOMAIN request' = DOMAIN request \ {t}
        /\ \A u \in DOMAIN request' : request'[u] = request[u] /\ pc'[u] = pc[u]
    BY <1>8 DEF AddRecord, Typed, TypeOK
  <2> HIDE DEF record
  <2>7. \A i \in DOMAIN Append(log[p][call], record) :
            RecordIsAlerted(call, Append(log[p][call], record)[i])
    <3> HIDE DEF p, call
    <3> SUFFICES ASSUME NEW i \in DOMAIN Append(log[p][call], record)
                 PROVE  RecordIsAlerted(call, Append(log[p][call], record)[i])
      OBVIOUS
    <3>1. /\ i \in DOMAIN log[p][call] \/ i = Len(log[p][call]) + 1
          /\ i \in DOMAIN log[p][call] => Append(log[p][call], record)[i] = log[p][call][i]
          /\ i = Len(log[p][call]) + 1 => Append(log[p][call], record)[i] = record
      BY <2>3, <2>4, AppendProperties
    <3>2. \A j \in DOMAIN log[p][call] : RecordIsAlerted(call, log[p][call][j])
      BY <2>1 DEF GuardianInv, LogIsAlerted
    <3> QED
      BY <2>2, <3>1, <3>2
  <2>8. ASSUME NEW q \in Processes, NEW c \in Calls, NEW i \in DOMAIN log'[q][c]
        PROVE  RecordIsAlerted(c, log'[q][c][i])
    <3> HIDE DEF p, call
    <3>1. CASE q = p /\ c = call
      <4>1. log'[q][c] = Append(log[p][call], record)
        BY <2>1, <2>3, <2>5, <3>1
      <4> QED
        BY <2>7, <3>1, <4>1
    <3>2. CASE ~(q = p /\ c = call)
      <4>1. log'[q][c] = log[q][c]
        BY <2>1, <2>3, <2>5, <3>2
      <4> QED
        BY <4>1 DEF GuardianInv, LogIsAlerted
    <3> QED
      BY <3>1, <3>2
  <2>9. LogIsAlerted'
    BY <2>5, <2>8 DEF LogIsAlerted, RecordIsAlerted, Alerted, Processes
  <2>10. RequestsAreAlerted'
    BY <2>5, <2>6 DEF GuardianInv, RequestsAreAlerted, Known, Alerted
  <2> QED
    BY <2>9, <2>10 DEF GuardianInv
<1>9. ASSUME Tick PROVE GuardianInv'
  BY <1>9, QuietGuardian DEF Tick
<1>10. ASSUME UNCHANGED vars PROVE GuardianInv'
  BY <1>10, QuietGuardian DEF vars
<1> QED
  BY <1>1, <1>2, <1>3, <1>4, <1>5, <1>6, <1>7, <1>8, <1>9, <1>10
     DEF Next, ThreadStep, BoundsReached

\* A call on which a code was refused for good has a guardian alert, whatever
\* the interleaving of its requests (CallVerificationService.execute).
THEOREM RefusalsAreAlerted == Spec => []RefusalsReachGuardian
<1>1. GuardianInv => RefusalsReachGuardian
  BY DEF GuardianInv, LogIsAlerted, RecordIsAlerted, Final, Alerted, RefusalsReachGuardian
<1> QED
  BY InitTyped, NextTyped, InitGuardian, NextGuardian, <1>1, PTL DEF Spec

-----------------------------------------------------------------------------
(***************************************************************************)
(* A counted failure is late by one request at most                        *)
(*                                                                         *)
(* Times are appended in the order in which the threads get there, so a    *)
(* deque is not sorted; but no entry is older than an earlier one by more  *)
(* than a request may take, and the head that ends a purge is young.       *)
(***************************************************************************)
NearlySorted(times) ==
    \A i, j \in DOMAIN times : i < j => times[j] >= times[i] - MaxRequestSeconds

InThePast(times) == \A i \in DOMAIN times : times[i] <= now

DequesInv ==
    /\ \A t \in DOMAIN request : request[t].at <= now /\ now <= request[t].at + MaxRequestSeconds
    /\ \A p \in Processes, client \in Clients :
        NearlySorted(failures[p][client]) /\ InThePast(failures[p][client])

LEMMA InitDeques == Init => DequesInv
<1> SUFFICES ASSUME Init PROVE DequesInv
  OBVIOUS
<1>1. DOMAIN request = {}
  BY DEF Init
<1>2. \A p \in Processes, client \in Clients : failures[p][client] = << >>
  BY DEF Init
<1> QED
  BY <1>1, <1>2 DEF DequesInv, NearlySorted, InThePast

LEMMA PurgeKeepsDeque ==
    ASSUME NEW times \in Seq(0..MaxTime), NEW since \in Int, NearlySorted(times), InThePast(times)
    PROVE  /\ NearlySorted(AfterPurge(times, since))
           /\ InThePast(AfterPurge(times, since))
           /\ \A i \in DOMAIN AfterPurge(times, since) :
                AfterPurge(times, since)[i] > since - MaxRequestSeconds
<1> DEFINE n == StaleHead(times, since)
           left == AfterPurge(times, since)
<1>1. 0..MaxTime \in SUBSET Int /\ MaxRequestSeconds \in Nat
  BY CallAssumption
<1>2. /\ n \in 0..Len(times)
      /\ n < Len(times) => times[n + 1] > since
  BY <1>1, StaleHeadProperties
<1>3. /\ left \in Seq(0..MaxTime)
      /\ Len(left) = Len(times) - n
      /\ \A i \in 1..(Len(times) - n) : left[i] = times[n + i]
  BY <1>1, AfterPurgeProperties
<1> HIDE DEF n, left
<1>4. /\ DOMAIN times = 1..Len(times) /\ Len(times) \in Nat
      /\ DOMAIN left = 1..(Len(times) - n)
      /\ \A i \in 1..Len(times) : times[i] \in Int
  <2>1. DOMAIN times = 1..Len(times) /\ Len(times) \in Nat /\ DOMAIN left = 1..Len(left)
    BY <1>3, LenProperties
  <2>2. \A i \in 1..Len(times) : times[i] \in 0..MaxTime
    BY ElementOfSeq
  <2> QED
    BY <1>1, <1>3, <2>1, <2>2
<1>5. \A i \in DOMAIN left : left[i] = times[n + i] /\ n + i \in 1..Len(times)
  BY <1>2, <1>3, <1>4
<1>6. NearlySorted(left)
  BY <1>2, <1>4, <1>5 DEF NearlySorted
<1>7. InThePast(left)
  BY <1>4, <1>5 DEF InThePast
<1>8. ASSUME NEW i \in DOMAIN left PROVE left[i] > since - MaxRequestSeconds
  <2>1. times[n + 1] > since /\ n + 1 \in 1..Len(times) /\ n + i \in 1..Len(times) /\ i >= 1
    BY <1>2, <1>4, <1>5
  <2>2. CASE i = 1
    BY <1>1, <1>4, <1>5, <2>1, <2>2
  <2>3. CASE i # 1
    <3>1. times[n + i] >= times[n + 1] - MaxRequestSeconds
      BY <1>2, <1>4, <2>1, <2>3 DEF NearlySorted
    <3>2. left[i] = times[n + i] /\ times[n + i] \in Int /\ times[n + 1] \in Int
      BY <1>4, <1>5, <2>1
    <3> QED
      BY <1>1, <2>1, <3>1, <3>2
  <2> QED
    BY <2>2, <2>3
<1> QED
  BY <1>6, <1>7, <1>8 DEF left

LEMMA AppendKeepsDeque ==
    ASSUME NEW times \in Seq(0..MaxTime), NEW at \in 0..MaxTime, now \in 0..MaxTime,
           at <= now, now <= at + MaxRequestSeconds, NearlySorted(times), InThePast(times)
    PROVE  NearlySorted(Append(times, at)) /\ InThePast(Append(times, at))
<1> DEFINE more == Append(times, at)
<1>1. MaxRequestSeconds \in Nat /\ MaxTime \in Nat
  BY CallAssumption
<1>2. /\ DOMAIN times = 1..Len(times) /\ Len(times) \in Nat
      /\ DOMAIN more = 1..(Len(times) + 1)
      /\ \A i \in 1..Len(times) : more[i] = times[i] /\ times[i] \in Int
      /\ more[Len(times) + 1] = at
  BY <1>1, AppendProperties
<1> HIDE DEF more
<1>3. InThePast(more)
  BY <1>2 DEF InThePast
<1>4. ASSUME NEW i \in DOMAIN more, NEW j \in DOMAIN more, i < j
      PROVE  more[j] >= more[i] - MaxRequestSeconds
  <2>1. i \in 1..Len(times) /\ times[i] <= now
    BY <1>2, <1>4 DEF InThePast
  <2>2. CASE j \in 1..Len(times)
    BY <1>1, <1>2, <1>4, <2>1, <2>2 DEF NearlySorted
  <2>3. CASE j = Len(times) + 1
    BY <1>1, <1>2, <2>1, <2>3
  <2> QED
    BY <1>2, <2>2, <2>3
<1> QED
  BY <1>3, <1>4 DEF more, NearlySorted

\* A step that changes the deque of one client of one process and no clock.
LEMMA OneDeque ==
    ASSUME Typed, DequesInv, NEW p \in Processes, NEW client \in Clients, NEW times,
           failures' = [failures EXCEPT ![p][client] = times], now' = now,
           NearlySorted(times), InThePast(times),
           DOMAIN request' \subseteq DOMAIN request,
           \A t \in DOMAIN request' : request'[t].at = request[t].at
    PROVE  DequesInv'
<1>1. ASSUME NEW q \in Processes, NEW c \in Clients
      PROVE  NearlySorted(failures'[q][c]) /\ InThePast(failures'[q][c])
  <2>1. failures'[q][c] = times \/ failures'[q][c] = failures[q][c]
    BY DEF Typed, TypeOK
  <2> QED
    BY <2>1 DEF DequesInv
<1> QED
  BY <1>1 DEF DequesInv, InThePast, Processes

\* A step that leaves the deques, the clock and the beginnings of requests.
LEMMA QuietDeques ==
    ASSUME DequesInv, UNCHANGED <<failures, now>>, DOMAIN request' \subseteq DOMAIN request,
           \A t \in DOMAIN request' : request'[t].at = request[t].at
    PROVE  DequesInv'
BY DEF DequesInv, InThePast, Processes

LEMMA NextDeques == Typed /\ DequesInv /\ [Next]_vars => DequesInv'
<1> SUFFICES ASSUME Typed, DequesInv, [Next]_vars PROVE DequesInv'
  OBVIOUS
<1>a. now \in 0..MaxTime /\ MaxTime \in Nat /\ MaxRequestSeconds \in Nat
  BY CallAssumption DEF Typed, TypeOK
<1>b. ASSUME NEW t \in DOMAIN request
      PROVE  /\ ProcessOf[t] \in Processes /\ request[t].client \in Clients
             /\ request[t].at \in 0..MaxTime /\ WindowStart(request[t].at) \in Int
             /\ failures[ProcessOf[t]][request[t].client] \in Seq(0..MaxTime)
  <2>1. request[t] \in Request /\ ProcessOf[t] \in Processes
    BY RecentType
  <2>2. request[t].client \in Clients /\ request[t].at \in 0..MaxTime
    BY <2>1 DEF Request
  <2>3. WindowStart(request[t].at) \in Int
    BY <1>a, <2>2, PolicyAssumption DEF WindowStart
  <2>4. failures[ProcessOf[t]][request[t].client] \in Seq(0..MaxTime)
    BY RecentType
  <2> QED
    BY <2>1, <2>2, <2>3, <2>4
<1>1. ASSUME NEW t \in Threads, NEW call \in Calls, NEW client \in Clients, NEW code \in Codes,
             Receive(t, call, client, code)
      PROVE  DequesInv'
  <2>1. /\ DOMAIN request' = DOMAIN request \cup {t}
        /\ request'[t].at = now
        /\ \A u \in DOMAIN request' \ {t} : u \in DOMAIN request /\ request'[u] = request[u]
        /\ UNCHANGED <<failures, now>>
    BY <1>1 DEF Receive
  <2>2. \A u \in DOMAIN request' :
            request'[u].at <= now' /\ now' <= request'[u].at + MaxRequestSeconds
    BY <1>a, <2>1 DEF DequesInv
  <2> QED
    BY <2>1, <2>2 DEF DequesInv, InThePast, Processes
<1>2. ASSUME NEW t \in Threads, CheckLimit(t) PROVE DequesInv'
  <2> DEFINE p == ProcessOf[t]
             client == request[t].client
             times == Recent(t)
  <2>1. t \in DOMAIN request
    BY <1>2 DEF CheckLimit, Typed, Running
  <2>2. NearlySorted(times) /\ InThePast(times)
    BY <1>b, <2>1, PurgeKeepsDeque DEF Recent, DequesInv
  <2>3. p \in Processes /\ client \in Clients /\ now' = now
    BY <1>2, <1>b, <2>1 DEF CheckLimit
  <2>4. failures' = [failures EXCEPT ![p][client] = times]
    BY <1>2 DEF CheckLimit
  <2>5. /\ DOMAIN request' \subseteq DOMAIN request
        /\ \A u \in DOMAIN request' : request'[u].at = request[u].at
    <3>1. request' = [request EXCEPT ![t].reason = "rate_limited"] \/ request' = request
      BY <1>2 DEF CheckLimit
    <3>2. CASE request' = [request EXCEPT ![t].reason = "rate_limited"]
      <4>1. request[t] \in Request
        BY <2>1 DEF Typed, TypeOK
      <4>2. [request[t] EXCEPT !.reason = "rate_limited"].at = request[t].at
        BY <4>1 DEF Request
      <4> QED
        BY <2>1, <3>2, <4>2
    <3> QED
      BY <3>1, <3>2
  <2> HIDE DEF p, client, times
  <2> QED
    BY <2>2, <2>3, <2>4, <2>5, OneDeque
<1>3. ASSUME NEW t \in Threads, NEW reason \in WorkerAnswers, WorkerReplies(t, reason)
      PROVE  DequesInv'
  <2>1. /\ DOMAIN request' \subseteq DOMAIN request
        /\ \A u \in DOMAIN request' : request'[u].at = request[u].at
    BY <1>3 DEF WorkerReplies, Typed, TypeOK, Request
  <2> QED
    BY <1>3, <2>1, QuietDeques DEF WorkerReplies
<1>4. ASSUME NEW t \in Threads, WorkerFails(t) PROVE DequesInv'
  BY <1>4, QuietDeques DEF WorkerFails
<1>5. ASSUME NEW t \in Threads, CountFailure(t) PROVE DequesInv'
  <2> DEFINE p == ProcessOf[t]
             client == request[t].client
             times == Append(failures[p][client], request[t].at)
  <2>1. t \in DOMAIN request
    BY <1>5 DEF CountFailure, Typed, Running
  <2>2. NearlySorted(times) /\ InThePast(times)
    BY <1>a, <1>b, <2>1, AppendKeepsDeque DEF DequesInv
  <2>3. p \in Processes /\ client \in Clients /\ now' = now /\ request' = request
    BY <1>5, <1>b, <2>1 DEF CountFailure
  <2>4. failures' = [failures EXCEPT ![p][client] = times]
    BY <1>5 DEF CountFailure, FailureTime
  <2> HIDE DEF p, client, times
  <2> QED
    BY <2>2, <2>3, <2>4, OneDeque
<1>6. ASSUME NEW t \in Threads, ReadLog(t) PROVE DequesInv'
  <2>1. PICK retry \in BOOLEAN : request' = [request EXCEPT ![t].retryAllowed = retry]
    BY <1>6 DEF ReadLog, AllowsCodeRetry
  <2>2. /\ DOMAIN request' \subseteq DOMAIN request
        /\ \A u \in DOMAIN request' : request'[u].at = request[u].at
    BY <2>1 DEF Typed, TypeOK, Request
  <2> QED
    BY <1>6, <2>2, QuietDeques DEF ReadLog
<1>7. ASSUME NEW t \in Threads, NotifyGuardian(t) PROVE DequesInv'
  <2>1. /\ DOMAIN request' \subseteq DOMAIN request
        /\ \A u \in DOMAIN request' : request'[u].at = request[u].at
    BY <1>7 DEF NotifyGuardian, Typed, TypeOK, Request
  <2> QED
    BY <1>7, <2>1, QuietDeques DEF NotifyGuardian
<1>8. ASSUME NEW t \in Threads, AddRecord(t) PROVE DequesInv'
  BY <1>8, QuietDeques DEF AddRecord
<1>9. ASSUME Tick PROVE DequesInv'
  <2>1. /\ now' = now + 1 /\ UNCHANGED <<request, failures>>
        /\ \A t \in DOMAIN request : now + 1 <= request[t].at + MaxRequestSeconds
    BY <1>9 DEF Tick
  <2>2. \A t \in DOMAIN request : request[t].at \in Int
    BY <1>a, <1>b
  <2>3. \A p \in Processes, client \in Clients :
            InThePast(failures[p][client]) => InThePast(failures[p][client])'
    <3>1. ASSUME NEW p \in Processes, NEW client \in Clients, NEW i \in DOMAIN failures[p][client]
          PROVE  failures[p][client][i] \in Int
      <4>1. failures[p][client] \in Seq(0..MaxTime)
        BY DEF Typed, TypeOK
      <4>2. failures[p][client][i] \in 0..MaxTime
        BY <4>1, LenProperties, ElementOfSeq
      <4> QED
        BY <1>a, <4>2
    <3> QED
      BY <1>a, <2>1, <3>1 DEF InThePast
  <2> QED
    BY <1>a, <2>1, <2>2, <2>3 DEF DequesInv, Processes
<1>10. ASSUME UNCHANGED vars PROVE DequesInv'
  BY <1>10, QuietDeques DEF vars
<1> QED
  BY <1>1, <1>2, <1>3, <1>4, <1>5, <1>6, <1>7, <1>8, <1>9, <1>10
     DEF Next, ThreadStep, BoundsReached

\* Whatever the order in which concurrent requests are counted, no failure is
\* held against a client for longer than the window and one request
\* (InMemoryFailedAttemptStore.count_failures_since and record_failure).
THEOREM LateByOneRequest == Spec => []OvercountIsBounded
<1>1. Typed /\ DequesInv => OvercountIsBounded
  <2> SUFFICES ASSUME Typed, DequesInv, NEW p \in Processes, NEW client \in Clients,
                      NEW i \in DOMAIN AfterPurge(failures[p][client], WindowStart(now))
               PROVE  AfterPurge(failures[p][client], WindowStart(now))[i]
                          > WindowStart(now) - MaxRequestSeconds
    BY DEF OvercountIsBounded
  <2>1. failures[p][client] \in Seq(0..MaxTime) /\ WindowStart(now) \in Int
    BY PolicyAssumption, CallAssumption DEF Typed, TypeOK, WindowStart
  <2> QED
    BY <2>1, PurgeKeepsDeque DEF DequesInv
<1> QED
  BY InitTyped, NextTyped, InitDeques, NextDeques, <1>1, PTL DEF Spec

-----------------------------------------------------------------------------
(***************************************************************************)
(* The rules hold of requests that follow one another                      *)
(*                                                                         *)
(* While `overlapped' is FALSE the only request there is has the stores to *)
(* itself: what it read is still true when it acts on it.  The three parts *)
(* of RulesHoldInSequence have an invariant each.                          *)
(***************************************************************************)
Alone == ~overlapped => \A t, u \in DOMAIN request : t = u

\* A step that keeps `overlapped' FALSE begins the only request or begins none.
LEMMA StepsInSequence ==
    ASSUME Typed, [Next]_vars, ~overlapped'
    PROVE  /\ ~overlapped
           /\ \/ DOMAIN request' \subseteq DOMAIN request
              \/ \E t \in Threads : DOMAIN request = {} /\ DOMAIN request' = {t}
<1>1. ASSUME NEW t \in Threads, NEW call \in Calls, NEW client \in Clients, NEW code \in Codes,
             Receive(t, call, client, code)
      PROVE  ~overlapped /\ DOMAIN request = {} /\ DOMAIN request' = {t}
  BY <1>1 DEF Receive
<1>2. ASSUME NEW t \in Threads,
             \/ \E reason \in WorkerAnswers : WorkerReplies(t, reason)
             \/ WorkerFails(t)
             \/ ThreadStep(t)
      PROVE  ~overlapped /\ DOMAIN request' \subseteq DOMAIN request
  <2>1. CASE \E reason \in WorkerAnswers : WorkerReplies(t, reason)
    BY <2>1 DEF WorkerReplies
  <2>2. CASE WorkerFails(t)
    BY <2>2 DEF WorkerFails
  <2>3. CASE CheckLimit(t)
    BY <2>3 DEF CheckLimit
  <2>4. CASE CountFailure(t)
    BY <2>4 DEF CountFailure
  <2>5. CASE ReadLog(t)
    BY <2>5 DEF ReadLog
  <2>6. CASE NotifyGuardian(t)
    BY <2>6 DEF NotifyGuardian
  <2>7. CASE AddRecord(t)
    BY <2>7 DEF AddRecord
  <2> QED
    BY <1>2, <2>1, <2>2, <2>3, <2>4, <2>5, <2>6, <2>7 DEF ThreadStep
<1>3. ASSUME Tick PROVE ~overlapped /\ DOMAIN request' \subseteq DOMAIN request
  BY <1>3 DEF Tick
<1>4. ASSUME UNCHANGED vars PROVE ~overlapped /\ DOMAIN request' \subseteq DOMAIN request
  BY <1>4 DEF vars
<1> QED
  BY <1>1, <1>2, <1>3, <1>4 DEF Next, BoundsReached

LEMMA InitAlone == Init => Alone
BY DEF Init, Alone

LEMMA NextAlone == Typed /\ Alone /\ [Next]_vars => Alone'
BY StepsInSequence DEF Alone

\* What the step from `received' or `calling' gives a request: a reason.
LEMMA ReasonGiven ==
    ASSUME Typed, NEW t \in Threads,
           CheckLimit(t) \/ \E reason \in WorkerAnswers : WorkerReplies(t, reason)
    PROVE  /\ t \in DOMAIN request /\ pc[t] \in {"received", "calling"}
           /\ DOMAIN request' = DOMAIN request
           /\ \A u \in DOMAIN request \ {t} : request'[u] = request[u] /\ pc'[u] = pc[u]
           /\ pc'[t] \in {"calling", "failed", "answered"}
           /\ request'[t].call = request[t].call
           /\ request'[t].client = request[t].client
           /\ request'[t].at = request[t].at
           /\ request'[t].retryAllowed = request[t].retryAllowed
           /\ UNCHANGED <<now, log, sent, overlapped>>
<1>1. t \in DOMAIN request /\ pc[t] \in {"received", "calling"}
  BY DEF CheckLimit, WorkerReplies, Typed, Running
<1>2. /\ UNCHANGED <<now, log, sent, overlapped>>
      /\ \/ request' = request
         \/ \E reason \in WorkerReasons : request' = [request EXCEPT ![t].reason = reason]
      /\ \E step \in {"calling", "failed", "answered"} : pc' = [pc EXCEPT ![t] = step]
  BY CallAssumption DEF CheckLimit, WorkerReplies, WorkerReasons
<1>3. request[t] \in Request /\ t \in DOMAIN pc /\ DOMAIN request \subseteq DOMAIN pc
  BY <1>1 DEF Typed, TypeOK
<1>4. ASSUME NEW reason \in WorkerReasons, request' = [request EXCEPT ![t].reason = reason]
      PROVE  /\ DOMAIN request' = DOMAIN request
             /\ \A u \in DOMAIN request \ {t} : request'[u] = request[u]
             /\ request'[t].call = request[t].call
             /\ request'[t].client = request[t].client
             /\ request'[t].at = request[t].at
             /\ request'[t].retryAllowed = request[t].retryAllowed
  BY <1>1, <1>3, <1>4 DEF Request
<1> QED
  BY <1>1, <1>2, <1>3, <1>4

\* What NotifyGuardian leaves of a request.
LEMMA NotifiedRequest ==
    ASSUME Typed, NEW t \in Threads, NotifyGuardian(t)
    PROVE  /\ t \in DOMAIN request /\ pc[t] = "notifying"
           /\ request[t].call \in Calls /\ request[t].reason \in WorkerReasons
           /\ DOMAIN request' = DOMAIN request
           /\ \A u \in DOMAIN request \ {t} : request'[u] = request[u] /\ pc'[u] = pc[u]
           /\ pc'[t] = "logging"
           /\ request'[t].call = request[t].call
           /\ request'[t].client = request[t].client
           /\ request'[t].at = request[t].at
           /\ request'[t].reason = request[t].reason
           /\ request'[t].retryAllowed = request[t].retryAllowed
<1>1. t \in DOMAIN request /\ request[t] \in Request /\ request[t].reason \in WorkerReasons
      /\ pc[t] = "notifying" /\ pc \in [Threads -> Steps] /\ DOMAIN request \subseteq Threads
  BY DEF NotifyGuardian, Typed, TypeOK, Running
<1>2. request' = [request EXCEPT ![t].notified = TRUE] /\ pc' = [pc EXCEPT ![t] = "logging"]
  BY DEF NotifyGuardian
<1>3. /\ request'[t].call = request[t].call
      /\ request'[t].client = request[t].client
      /\ request'[t].at = request[t].at
      /\ request'[t].reason = request[t].reason
      /\ request'[t].retryAllowed = request[t].retryAllowed
  BY <1>1, <1>2 DEF Request
<1> QED
  BY <1>1, <1>2, <1>3 DEF Request

-----------------------------------------------------------------------------
\* A code a request may re-enter is still one that may be re-entered: nothing
\* has joined the call's records since they were read.
RetryIsDue(t) ==
    request[t].retryAllowed =>
        AllowsCodeRetry(request[t].reason, log[ProcessOf[t]][request[t].call])

RetryInv == ~overlapped => RetryOncePerRun /\ \A t \in DOMAIN request : RetryIsDue(t)

\* allows_code_retry looks at nothing but the limit and the last record.
LEMMA RetryNeedsOtherRecord ==
    ASSUME NEW previous \in Seq(Record), NEW reason, AllowsCodeRetry(reason, previous)
    PROVE  /\ Len(previous) > 0 => previous[Len(previous)].reason # "code_not_found"
           /\ \A j \in 1..Len(previous) : previous[j].reason # "rate_limited"
<1> DEFINE Trailing == {i \in DOMAIN previous :
                           \A j \in i..Len(previous) : previous[j].reason = "code_not_found"}
<1>1. DOMAIN previous = 1..Len(previous) /\ Len(previous) \in Nat
  BY LenProperties
<1>2. IsFiniteSet(Trailing) /\ Cardinality(Trailing) \in Nat
  <2>1. IsFiniteSet(1..Len(previous)) /\ Trailing \in SUBSET (1..Len(previous))
    BY <1>1, FS_Interval
  <2> HIDE DEF Trailing
  <2> QED
    BY <2>1, FS_Subset, FS_CardinalityType
<1>3. Cardinality(Trailing) + 1 < 2
  BY DEF AllowsCodeRetry, TrailingNotFound, MaxCodeEntryAttempts
<1>4. Trailing = {}
  <2> HIDE DEF Trailing
  <2> QED
    BY <1>2, <1>3, FS_EmptySet
<1>5. ASSUME Len(previous) > 0, previous[Len(previous)].reason = "code_not_found" PROVE FALSE
  <2>1. Len(previous) \in Trailing
    BY <1>1, <1>5
  <2> QED
    BY <1>4, <2>1
<1> QED
  BY <1>1, <1>5 DEF AllowsCodeRetry, WasLimited

LEMMA InitRetry == Init => RetryInv
<1> SUFFICES ASSUME Init PROVE RetryInv
  OBVIOUS
<1>1. DOMAIN request = {} /\ \A p \in Processes, call \in Calls : DOMAIN log[p][call] = {}
  BY DEF Init
<1> QED
  BY <1>1 DEF RetryInv, RetryOncePerRun

\* A step that writes no record, and gives no request a retry.
LEMMA QuietRetry ==
    ASSUME RetryInv, log' = log, ~overlapped' => ~overlapped,
           \A t \in DOMAIN request' :
                \/ ~request'[t].retryAllowed
                \/ /\ t \in DOMAIN request
                   /\ request'[t].reason = request[t].reason
                   /\ request'[t].call = request[t].call
                   /\ request'[t].retryAllowed = request[t].retryAllowed
    PROVE  RetryInv'
<1>1. RetryOncePerRun => RetryOncePerRun'
  BY DEF RetryOncePerRun, Processes
<1> QED
  BY <1>1 DEF RetryInv, RetryIsDue

LEMMA NextRetry == Typed /\ GuardianInv /\ Alone /\ RetryInv /\ [Next]_vars => RetryInv'
<1> SUFFICES ASSUME Typed, GuardianInv, Alone, RetryInv, [Next]_vars PROVE RetryInv'
  OBVIOUS
<1>0. ~overlapped' => ~overlapped
  BY StepsInSequence
<1>1. ASSUME NEW t \in Threads, NEW call \in Calls, NEW client \in Clients, NEW code \in Codes,
             Receive(t, call, client, code)
      PROVE  RetryInv'
  <2>1. /\ log' = log
        /\ DOMAIN request' = DOMAIN request \cup {t}
        /\ ~request'[t].retryAllowed
        /\ \A u \in DOMAIN request' \ {t} : request'[u] = request[u]
    BY <1>1 DEF Receive
  <2> QED
    BY <1>0, <2>1, QuietRetry
<1>2. ASSUME NEW t \in Threads,
             CheckLimit(t) \/ \E reason \in WorkerAnswers : WorkerReplies(t, reason)
      PROVE  RetryInv'
  <2>1. ~request[t].retryAllowed
    BY <1>2, ReasonGiven DEF GuardianInv, RequestsAreAlerted, Known
  <2> QED
    BY <1>0, <1>2, <2>1, ReasonGiven, QuietRetry
<1>3. ASSUME NEW t \in Threads, WorkerFails(t) PROVE RetryInv'
  BY <1>0, <1>3, QuietRetry DEF WorkerFails
<1>4. ASSUME NEW t \in Threads, CountFailure(t) PROVE RetryInv'
  BY <1>0, <1>4, QuietRetry DEF CountFailure
<1>5. ASSUME NEW t \in Threads, ReadLog(t) PROVE RetryInv'
  <2> DEFINE retry == AllowsCodeRetry(request[t].reason, log[ProcessOf[t]][request[t].call])
  <2>1. t \in DOMAIN request /\ request[t] \in Request
    BY <1>5 DEF ReadLog, Typed, TypeOK, Running
  <2>2. request' = [request EXCEPT ![t].retryAllowed = retry] /\ log' = log
    BY <1>5 DEF ReadLog
  <2>3. /\ DOMAIN request' = DOMAIN request
        /\ \A u \in DOMAIN request \ {t} : request'[u] = request[u]
        /\ request'[t].retryAllowed = retry
        /\ request'[t].reason = request[t].reason
        /\ request'[t].call = request[t].call
    <3> HIDE DEF retry
    <3> QED
      BY <2>1, <2>2 DEF Request
  <2>4. ~overlapped => \A u \in DOMAIN request' : RetryIsDue(u)'
    BY <2>2, <2>3 DEF RetryInv, RetryIsDue
  <2>5. RetryOncePerRun => RetryOncePerRun'
    BY <2>2 DEF RetryOncePerRun, Processes
  <2> QED
    BY <1>0, <2>4, <2>5 DEF RetryInv
<1>6. ASSUME NEW t \in Threads, NotifyGuardian(t) PROVE RetryInv'
  BY <1>0, <1>6, NotifiedRequest, QuietRetry DEF NotifyGuardian
<1>7. ASSUME NEW t \in Threads, AddRecord(t) PROVE RetryInv'
  <2> DEFINE p == ProcessOf[t]
             call == request[t].call
             record == [reason |-> request[t].reason, retryAllowed |-> request[t].retryAllowed,
                        notified |-> request[t].notified]
  <2> SUFFICES ASSUME ~overlapped' PROVE RetryInv'
    BY DEF RetryInv
  <2>1. /\ t \in DOMAIN request /\ call \in Calls /\ p \in Processes
        /\ log \in [Processes -> [Calls -> Seq(Record)]]
        /\ log[p][call] \in Seq(Record)
    <3>1. t \in DOMAIN request /\ call \in Calls /\ p \in Processes
      BY <1>7 DEF AddRecord, Typed, TypeOK, Running, Request, Processes
    <3>2. log \in [Processes -> [Calls -> Seq(Record)]]
      BY DEF Typed, TypeOK
    <3> HIDE DEF p, call
    <3> QED
      BY <3>1, <3>2
  <2>2. record \in Record
    BY <1>7, <2>1 DEF AddRecord, Typed, TypeOK, Running, Request, Record
  <2>3. log' = [log EXCEPT ![p][call] = Append(log[p][call], record)]
    BY <1>7 DEF AddRecord, Recorded
  <2>4. DOMAIN request' = {}
    BY <1>0, <1>7, <2>1 DEF AddRecord, Alone
  <2>5. RetryOncePerRun /\ RetryIsDue(t)
    BY <1>0, <2>1 DEF RetryInv
  <2>6. record.retryAllowed => AllowsCodeRetry(request[t].reason, log[p][call])
    BY <2>5 DEF RetryIsDue
  <2>7. record.retryAllowed =>
            /\ Len(log[p][call]) > 0 => log[p][call][Len(log[p][call])].reason # "code_not_found"
            /\ \A j \in 1..Len(log[p][call]) : log[p][call][j].reason # "rate_limited"
    BY <2>1, <2>6, RetryNeedsOtherRecord
  <2> HIDE DEF record, p, call
  <2>8. ASSUME NEW q \in Processes, NEW c \in Calls, NEW i \in DOMAIN log'[q][c],
               log'[q][c][i].retryAllowed
        PROVE  /\ i > 1 => log'[q][c][i - 1].reason # "code_not_found"
               /\ \A j \in 1..(i - 1) : log'[q][c][j].reason # "rate_limited"
    <3>1. CASE q = p /\ c = call
      <4> DEFINE old == log[p][call]
                 new == Append(old, record)
      <4>1. log'[q][c] = new /\ old \in Seq(Record)
        BY <2>1, <2>3, <3>1
      <4>2. /\ Len(old) \in Nat /\ DOMAIN old = 1..Len(old) /\ DOMAIN new = 1..(Len(old) + 1)
            /\ \A j \in 1..Len(old) : new[j] = old[j]
            /\ new[Len(old) + 1] = record
        BY <2>2, <4>1, AppendProperties
      <4>3. \A k \in DOMAIN old : old[k].retryAllowed =>
                /\ k > 1 => old[k - 1].reason # "code_not_found"
                /\ \A j \in 1..(k - 1) : old[j].reason # "rate_limited"
        BY <2>1, <2>5 DEF RetryOncePerRun
      <4>4. record.retryAllowed =>
                /\ Len(old) > 0 => old[Len(old)].reason # "code_not_found"
                /\ \A j \in 1..Len(old) : old[j].reason # "rate_limited"
        BY <2>7
      <4>5. i \in DOMAIN new /\ new[i].retryAllowed
        BY <2>8, <4>1
      <4> HIDE DEF old, new
      <4>6. CASE i \in 1..Len(old)
        BY <4>1, <4>2, <4>3, <4>5, <4>6
      <4>7. CASE i = Len(old) + 1
        BY <4>1, <4>2, <4>4, <4>5, <4>7
      <4> QED
        BY <4>2, <4>5, <4>6, <4>7
    <3>2. CASE ~(q = p /\ c = call)
      <4>1. log'[q][c] = log[q][c]
        BY <2>1, <2>3, <3>2
      <4>2. \A k \in DOMAIN log[q][c] : log[q][c][k].retryAllowed =>
                /\ k > 1 => log[q][c][k - 1].reason # "code_not_found"
                /\ \A j \in 1..(k - 1) : log[q][c][j].reason # "rate_limited"
        BY <2>5 DEF RetryOncePerRun
      <4> QED
        BY <2>8, <4>1, <4>2
    <3> QED
      BY <3>1, <3>2
  <2>9. RetryOncePerRun'
    BY <2>8 DEF RetryOncePerRun, Processes
  <2> QED
    BY <2>4, <2>9 DEF RetryInv
<1>8. ASSUME Tick PROVE RetryInv'
  BY <1>0, <1>8, QuietRetry DEF Tick
<1>9. ASSUME UNCHANGED vars PROVE RetryInv'
  BY <1>0, <1>9, QuietRetry DEF vars
<1> QED
  BY <1>1, <1>2, <1>3, <1>4, <1>5, <1>6, <1>7, <1>8, <1>9 DEF Next, ThreadStep, BoundsReached

-----------------------------------------------------------------------------
\* The guardian has been told of the limit of the call, and the request that
\* told it is about to write the record that says so.
AlertWritten(t, call) ==
    request[t].call = call /\ request[t].reason = "rate_limited" /\ pc[t] = "logging"

\* The processes that tell the guardian no more of the limit of the call.
Warned(call) ==
    {p \in Processes : \/ WasLimited(log[p][call])
                       \/ \E t \in DOMAIN request : ProcessOf[t] = p /\ AlertWritten(t, call)}

AboutToWarn(t) == pc[t] = "notifying" /\ request[t].reason = "rate_limited"

\* One alert for each process that is warned, and a request on its way to the
\* notifier belongs to a process that is not.
AlertsInv ==
    ~overlapped =>
        /\ \A call \in Calls : sent[<<call, "rate_limited">>] <= Cardinality(Warned(call))
        /\ \A t \in DOMAIN request :
                AboutToWarn(t) => ~WasLimited(log[ProcessOf[t]][request[t].call])

LEMMA ProcessesAreFinite == IsFiniteSet(Processes)
<1> DEFINE f == [t \in Threads |-> ProcessOf[t]]
<1>1. f \in Surjection(Threads, Processes)
  BY DEF Surjection, Processes
<1> HIDE DEF f
<1> QED
  BY <1>1, CallAssumption, FS_Surjection

LEMMA WarnedIsFinite ==
    ASSUME NEW call
    PROVE  /\ IsFiniteSet(Warned(call)) /\ Cardinality(Warned(call)) \in Nat
           /\ Cardinality(Warned(call)) <= Cardinality(Processes)
<1>1. Warned(call) \in SUBSET Processes
  BY DEF Warned
<1> QED
  BY <1>1, ProcessesAreFinite, FS_Subset, FS_CardinalityType

LEMMA WarnedIsFinitePrime ==
    ASSUME NEW call
    PROVE  IsFiniteSet(Warned(call)') /\ Cardinality(Warned(call)') \in Nat
<1>1. Warned(call)' \in SUBSET Processes
  BY DEF Warned, Processes
<1> QED
  BY <1>1, ProcessesAreFinite, FS_Subset, FS_CardinalityType

\* Alerts that were accounted for stay so while no process is forgotten.
LEMMA MoreWarned ==
    ASSUME Typed, AlertsInv, ~overlapped, UNCHANGED sent,
           NEW call \in Calls, Warned(call) \subseteq Warned(call)'
    PROVE  sent'[<<call, "rate_limited">>] <= Cardinality(Warned(call)')
<1>1. Cardinality(Warned(call)) <= Cardinality(Warned(call)')
  BY WarnedIsFinitePrime, FS_Subset
<1>2. sent[<<call, "rate_limited">>] \in Nat
  BY DEF Typed, TypeOK, WorkerReasons
<1>3. sent[<<call, "rate_limited">>] <= Cardinality(Warned(call))
  BY DEF AlertsInv
<1> QED
  BY <1>1, <1>2, <1>3, WarnedIsFinite, WarnedIsFinitePrime

LEMMA InitAlerts == Init => AlertsInv
<1> SUFFICES ASSUME Init PROVE AlertsInv
  OBVIOUS
<1>1. DOMAIN request = {}
  BY DEF Init
<1>2. \A call \in Calls : sent[<<call, "rate_limited">>] = 0
  BY DEF Init, WorkerReasons
<1>3. \A call \in Calls : 0 <= Cardinality(Warned(call))
  BY WarnedIsFinite
<1> QED
  BY <1>1, <1>2, <1>3 DEF AlertsInv

\* A step that alerts nobody, writes no record, and neither takes a request
\* away from its record nor sends one to the notifier.
LEMMA QuietAlerts ==
    ASSUME Typed, AlertsInv, UNCHANGED <<log, sent>>, ~overlapped' => ~overlapped,
           \A t \in DOMAIN request : pc[t] = "logging" =>
                /\ t \in DOMAIN request' /\ pc'[t] = "logging"
                /\ request'[t] = request[t],
           \A t \in DOMAIN request' : pc'[t] = "notifying" =>
                /\ t \in DOMAIN request /\ pc[t] = "notifying"
                /\ request'[t] = request[t]
    PROVE  AlertsInv'
<1> SUFFICES ASSUME ~overlapped' PROVE AlertsInv'
  BY DEF AlertsInv
<1>1. ASSUME NEW call \in Calls PROVE Warned(call) \subseteq Warned(call)'
  BY DEF Warned, AlertWritten, Processes
<1>2. \A call \in Calls : sent'[<<call, "rate_limited">>] <= Cardinality(Warned(call)')
  BY <1>1, MoreWarned
<1>3. \A t \in DOMAIN request' :
            AboutToWarn(t)' => ~WasLimited(log'[ProcessOf[t]][request'[t].call])
  BY DEF AlertsInv, AboutToWarn
<1> QED
  BY <1>2, <1>3 DEF AlertsInv

LEMMA NextAlerts == Typed /\ Alone /\ AlertsInv /\ [Next]_vars => AlertsInv'
<1> SUFFICES ASSUME Typed, Alone, AlertsInv, [Next]_vars PROVE AlertsInv'
  OBVIOUS
<1>0. ~overlapped' => ~overlapped
  BY StepsInSequence
<1>1. ASSUME NEW t \in Threads, NEW call \in Calls, NEW client \in Clients, NEW code \in Codes,
             Receive(t, call, client, code)
      PROVE  AlertsInv'
  <2>1. /\ UNCHANGED <<log, sent>>
        /\ DOMAIN request' = DOMAIN request \cup {t} /\ t \notin DOMAIN request
        /\ pc'[t] = "received"
        /\ \A u \in DOMAIN request : request'[u] = request[u] /\ pc'[u] = pc[u]
    BY <1>1 DEF Receive, Typed, TypeOK, Running
  <2> QED
    BY <1>0, <2>1, QuietAlerts
<1>2. ASSUME NEW t \in Threads,
             CheckLimit(t) \/ \E reason \in WorkerAnswers : WorkerReplies(t, reason)
      PROVE  AlertsInv'
  BY <1>0, <1>2, ReasonGiven, QuietAlerts
<1>3. ASSUME NEW t \in Threads, WorkerFails(t) PROVE AlertsInv'
  <2>1. /\ UNCHANGED <<log, sent>>
        /\ pc[t] = "calling" /\ DOMAIN request' = DOMAIN request \ {t}
        /\ \A u \in DOMAIN request' : request'[u] = request[u] /\ pc'[u] = pc[u]
    BY <1>3 DEF WorkerFails, Typed, TypeOK
  <2> QED
    BY <1>0, <2>1, QuietAlerts
<1>4. ASSUME NEW t \in Threads, CountFailure(t) PROVE AlertsInv'
  <2>1. /\ UNCHANGED <<log, sent, request>>
        /\ pc[t] = "failed" /\ pc'[t] = "answered"
        /\ \A u \in DOMAIN request \ {t} : pc'[u] = pc[u]
    BY <1>4 DEF CountFailure, Typed, TypeOK
  <2> QED
    BY <1>0, <2>1, QuietAlerts
<1>5. ASSUME NEW t \in Threads, ReadLog(t) PROVE AlertsInv'
  <2> SUFFICES ASSUME ~overlapped' PROVE AlertsInv'
    BY DEF AlertsInv
  <2> DEFINE reason == request[t].reason
             previous == log[ProcessOf[t]][request[t].call]
  <2>1. /\ t \in DOMAIN request /\ request[t] \in Request /\ pc[t] = "answered"
        /\ UNCHANGED <<log, sent>>
    BY <1>5 DEF ReadLog, Typed, TypeOK, Running
  <2>2. PICK retry \in BOOLEAN : request' = [request EXCEPT ![t].retryAllowed = retry]
    BY <1>5 DEF ReadLog, AllowsCodeRetry
  <2>3. /\ DOMAIN request' = DOMAIN request
        /\ \A u \in DOMAIN request \ {t} : request'[u] = request[u] /\ pc'[u] = pc[u]
        /\ request'[t].reason = reason
        /\ request'[t].call = request[t].call
    BY <1>5, <2>1, <2>2 DEF ReadLog, Request, Typed, TypeOK
  <2>4. pc'[t] = "notifying" => ~IsRepeatedRateLimit(reason, previous)
    BY <1>5 DEF ReadLog, Typed, TypeOK
  <2>5. ASSUME NEW call \in Calls PROVE Warned(call) \subseteq Warned(call)'
    BY <2>1, <2>3 DEF Warned, AlertWritten, Processes
  <2>6. \A call \in Calls : sent'[<<call, "rate_limited">>] <= Cardinality(Warned(call)')
    BY <1>0, <2>1, <2>5, MoreWarned
  <2>7. ASSUME NEW u \in DOMAIN request', AboutToWarn(u)'
        PROVE  ~WasLimited(log'[ProcessOf[u]][request'[u].call])
    <3>1. CASE u = t
      BY <2>1, <2>3, <2>4, <2>7, <3>1 DEF AboutToWarn, IsRepeatedRateLimit
    <3>2. CASE u # t
      BY <1>0, <2>1, <2>3, <2>7, <3>2 DEF AboutToWarn, AlertsInv
    <3> QED
      BY <3>1, <3>2
  <2> QED
    BY <2>6, <2>7 DEF AlertsInv
<1>6. ASSUME NEW t \in Threads, NotifyGuardian(t) PROVE AlertsInv'
  <2> SUFFICES ASSUME ~overlapped' PROVE AlertsInv'
    BY DEF AlertsInv
  <2> DEFINE call == request[t].call
             p == ProcessOf[t]
  <2>1. /\ t \in DOMAIN request /\ pc[t] = "notifying" /\ call \in Calls
        /\ request[t].reason \in WorkerReasons
        /\ DOMAIN request' = DOMAIN request
        /\ pc'[t] = "logging" /\ request'[t].call = call
        /\ request'[t].reason = request[t].reason
    BY <1>6, NotifiedRequest
  <2>2. \A u \in DOMAIN request : u = t
    BY <1>0, <2>1 DEF Alone
  <2>3. /\ sent' = [sent EXCEPT ![<<call, request[t].reason>>] = @ + 1]
        /\ sent \in [Calls \X WorkerReasons -> Nat]
        /\ log' = log
    BY <1>6 DEF NotifyGuardian, Typed, TypeOK
  <2>4. p \in Processes
    BY DEF Processes
  <2>5. ASSUME NEW c \in Calls PROVE Warned(c) \subseteq Warned(c)'
    BY <2>1, <2>2, <2>3 DEF Warned, AlertWritten, Processes
  <2>6. ASSUME NEW c \in Calls
        PROVE  sent'[<<c, "rate_limited">>] <= Cardinality(Warned(c)')
    <3>0. "rate_limited" \in WorkerReasons
      BY DEF WorkerReasons
    <3>1. CASE c = call /\ request[t].reason = "rate_limited"
      <4>1. sent'[<<c, "rate_limited">>] = sent[<<c, "rate_limited">>] + 1
            /\ sent[<<c, "rate_limited">>] \in Nat
        <5> HIDE DEF call
        <5> QED
          BY <2>3, <3>0, <3>1
      <4>2. sent[<<c, "rate_limited">>] <= Cardinality(Warned(c))
        BY <1>0 DEF AlertsInv
      <4>3. p \notin Warned(c)
        <5>1. ~WasLimited(log[p][c])
          BY <1>0, <2>1, <3>1 DEF AlertsInv, AboutToWarn
        <5>2. \A u \in DOMAIN request : ~AlertWritten(u, c)
          BY <2>1, <2>2 DEF AlertWritten
        <5> QED
          BY <5>1, <5>2 DEF Warned
      <4>4. p \in Warned(c)'
        BY <2>1, <2>4, <3>1 DEF Warned, AlertWritten, Processes
      <4>5. Cardinality(Warned(c) \cup {p}) = Cardinality(Warned(c)) + 1
        <5> HIDE DEF p
        <5> QED
          BY <4>3, WarnedIsFinite, FS_AddElement
      <4>6. Cardinality(Warned(c) \cup {p}) <= Cardinality(Warned(c)')
        <5>1. Warned(c) \cup {p} \in SUBSET Warned(c)'
          BY <2>5, <4>4
        <5> HIDE DEF p
        <5> QED
          BY <5>1, WarnedIsFinitePrime, FS_Subset
      <4> QED
        BY <4>1, <4>2, <4>5, <4>6, WarnedIsFinite, WarnedIsFinitePrime
    <3>2. CASE ~(c = call /\ request[t].reason = "rate_limited")
      <4>1. sent'[<<c, "rate_limited">>] = sent[<<c, "rate_limited">>]
        <5> HIDE DEF call
        <5>1. <<c, "rate_limited">> # <<call, request[t].reason>>
          BY <3>2
        <5> QED
          BY <2>3, <3>0, <5>1
      <4>2. sent[<<c, "rate_limited">>] \in Nat
        BY <2>3, <3>0
      <4>3. sent[<<c, "rate_limited">>] <= Cardinality(Warned(c))
        BY <1>0 DEF AlertsInv
      <4>4. Cardinality(Warned(c)) <= Cardinality(Warned(c)')
        BY <2>5, WarnedIsFinitePrime, FS_Subset
      <4> QED
        BY <4>1, <4>2, <4>3, <4>4, WarnedIsFinite, WarnedIsFinitePrime
    <3> QED
      BY <3>1, <3>2
  <2>7. \A u \in DOMAIN request' : ~AboutToWarn(u)'
    BY <2>1, <2>2 DEF AboutToWarn
  <2> QED
    BY <2>6, <2>7 DEF AlertsInv
<1>7. ASSUME NEW t \in Threads, AddRecord(t) PROVE AlertsInv'
  <2> SUFFICES ASSUME ~overlapped' PROVE AlertsInv'
    BY DEF AlertsInv
  <2> DEFINE p == ProcessOf[t]
             call == request[t].call
             record == [reason |-> request[t].reason, retryAllowed |-> request[t].retryAllowed,
                        notified |-> request[t].notified]
  <2>1. t \in DOMAIN request /\ call \in Calls /\ p \in Processes
    BY <1>7 DEF AddRecord, Typed, TypeOK, Running, Request, Processes
  <2>2. record \in Record
    BY <1>7, <2>1 DEF AddRecord, Typed, TypeOK, Running, Request, Record
  <2>3. /\ log' = [log EXCEPT ![p][call] = Append(log[p][call], record)]
        /\ sent' = sent
        /\ DOMAIN request' = DOMAIN request \ {t}
    BY <1>7 DEF AddRecord, Recorded
  <2>4. \A u \in DOMAIN request : u = t
    BY <1>0, <2>1 DEF Alone
  <2>5. record.reason = request[t].reason
    OBVIOUS
  <2>6. log \in [Processes -> [Calls -> Seq(Record)]]
    BY DEF Typed, TypeOK
  <2>7. ASSUME NEW c \in Calls PROVE Warned(c) \subseteq Warned(c)'
    <3> HIDE DEF record, p, call
    <3> SUFFICES ASSUME NEW q \in Processes, q \in Warned(c) PROVE q \in Warned(c)'
      BY DEF Warned
    <3> DEFINE old == log[p][call]
               new == Append(old, record)
    <3>1. /\ Len(old) \in Nat /\ DOMAIN old = 1..Len(old) /\ DOMAIN new = 1..(Len(old) + 1)
          /\ \A j \in 1..Len(old) : new[j] = old[j]
          /\ new[Len(old) + 1] = record
      <4>1. old \in Seq(Record)
        BY <2>1, <2>6
      <4> HIDE DEF old
      <4> QED
        BY <2>2, <4>1, AppendProperties
    <3>2. \/ log'[q][c] = log[q][c]
          \/ q = p /\ c = call /\ log'[q][c] = new
      BY <2>1, <2>3, <2>6
    <3>3. \A j \in DOMAIN old : j \in DOMAIN new /\ new[j] = old[j]
      <4> HIDE DEF old, new
      <4> QED
        BY <3>1
    <3>4. CASE WasLimited(log[q][c])
      <4>1. PICK j \in DOMAIN log[q][c] : log[q][c][j].reason = "rate_limited"
        BY <3>4 DEF WasLimited
      <4>2. WasLimited(log'[q][c])
        <5> HIDE DEF new
        <5> QED
          BY <3>2, <3>3, <4>1 DEF WasLimited
      <4> QED
        BY <4>2 DEF Warned, Processes
    <3>5. CASE \E u \in DOMAIN request : ProcessOf[u] = q /\ AlertWritten(u, c)
      <4>1. q = p /\ c = call /\ record.reason = "rate_limited"
        BY <2>4, <2>5, <3>5 DEF AlertWritten, p, call
      <4>2. log'[q][c] = new
        BY <2>1, <2>3, <2>6, <4>1
      <4>3. Len(old) + 1 \in DOMAIN new /\ new[Len(old) + 1].reason = "rate_limited"
        <5> HIDE DEF old, new
        <5> QED
          BY <3>1, <4>1
      <4>4. WasLimited(log'[q][c])
        BY <4>2, <4>3 DEF WasLimited
      <4> QED
        BY <4>4 DEF Warned, Processes
    <3> QED
      BY <3>4, <3>5 DEF Warned
  <2>8. \A c \in Calls : sent'[<<c, "rate_limited">>] <= Cardinality(Warned(c)')
    BY <1>0, <2>3, <2>7, MoreWarned
  <2>9. DOMAIN request' = {}
    BY <2>3, <2>4
  <2> QED
    BY <2>8, <2>9 DEF AlertsInv
<1>8. ASSUME Tick PROVE AlertsInv'
  BY <1>0, <1>8, QuietAlerts DEF Tick
<1>9. ASSUME UNCHANGED vars PROVE AlertsInv'
  BY <1>0, <1>9, QuietAlerts DEF vars
<1> QED
  BY <1>1, <1>2, <1>3, <1>4, <1>5, <1>6, <1>7, <1>8, <1>9 DEF Next, ThreadStep, BoundsReached

-----------------------------------------------------------------------------
Sorted(times) == \A i, j \in DOMAIN times : i < j => times[i] <= times[j]

\* Each entry of `few' stands for an entry of `many' of its own.
Embeds(few, many) ==
    \E f \in Injection(DOMAIN few, DOMAIN many) : \A i \in DOMAIN few : many[f[i]] = few[i]

\* The deques are sorted parts of the history; the running request is younger
\* than what they hold, and the failure it is about to count is in the history.
CountsInv ==
    ~overlapped =>
        /\ \A p \in Processes, client \in Clients :
                Sorted(failures[p][client]) /\ Embeds(failures[p][client], evaluated[p][client])
        /\ \A t \in DOMAIN request :
                /\ \A p \in Processes, client \in Clients : \A i \in DOMAIN failures[p][client] :
                        failures[p][client][i] <= request[t].at
                /\ pc[t] = "failed" =>
                        Embeds(Append(failures[ProcessOf[t]][request[t].client], request[t].at),
                               evaluated[ProcessOf[t]][request[t].client])

LEMMA EmptyEmbeds == ASSUME NEW many PROVE Sorted(<< >>) /\ Embeds(<< >>, many)
<1>1. DOMAIN << >> = {}
  OBVIOUS
<1>2. [i \in {} |-> 0] \in Injection({}, DOMAIN many)
  BY DEF Injection, IsInjective
<1> QED
  BY <1>1, <1>2 DEF Sorted, Embeds

LEMMA PurgeEmbeds ==
    ASSUME NEW few \in Seq(0..MaxTime), NEW many, NEW since \in Int,
           Sorted(few), Embeds(few, many)
    PROVE  LET left == AfterPurge(few, since) IN
           /\ left \in Seq(0..MaxTime) /\ Sorted(left) /\ Embeds(left, many)
           /\ \A i \in DOMAIN left :
                left[i] > since /\ \E j \in DOMAIN few : left[i] = few[j]
<1> DEFINE n == StaleHead(few, since)
           left == AfterPurge(few, since)
<1>1. 0..MaxTime \in SUBSET Int
  BY CallAssumption
<1>2. n \in 0..Len(few) /\ (n < Len(few) => few[n + 1] > since)
  BY <1>1, StaleHeadProperties
<1>3. /\ left \in Seq(0..MaxTime)
      /\ Len(left) = Len(few) - n
      /\ \A i \in 1..(Len(few) - n) : left[i] = few[n + i]
  BY <1>1, AfterPurgeProperties
<1> HIDE DEF n, left
<1>4. /\ DOMAIN few = 1..Len(few) /\ Len(few) \in Nat /\ DOMAIN left = 1..(Len(few) - n)
      /\ \A i \in 1..Len(few) : few[i] \in Int
  <2>1. DOMAIN few = 1..Len(few) /\ Len(few) \in Nat /\ DOMAIN left = 1..Len(left)
    BY <1>3, LenProperties
  <2>2. \A i \in 1..Len(few) : few[i] \in 0..MaxTime
    BY ElementOfSeq
  <2> QED
    BY <1>1, <1>3, <2>1, <2>2
<1>5. \A i \in DOMAIN left : n + i \in DOMAIN few /\ left[i] = few[n + i]
  BY <1>2, <1>3, <1>4
<1>6. Sorted(left)
  BY <1>2, <1>4, <1>5 DEF Sorted
<1>7. ASSUME NEW i \in DOMAIN left PROVE left[i] > since
  <2>1. n + 1 \in DOMAIN few /\ few[n + 1] > since /\ i >= 1
    BY <1>2, <1>4, <1>7
  <2>2. few[n + 1] <= few[n + i]
    <3>1. CASE i = 1
      BY <1>4, <2>1, <3>1
    <3>2. CASE i # 1
      <4>1. n + i \in DOMAIN few /\ n + 1 < n + i
        BY <1>2, <1>4, <1>5, <1>7, <2>1, <3>2
      <4> QED
        BY <2>1, <4>1 DEF Sorted
    <3> QED
      BY <3>1, <3>2
  <2> QED
    BY <1>1, <1>4, <1>5, <2>1, <2>2
<1>8. Embeds(left, many)
  <2>1. PICK f \in Injection(DOMAIN few, DOMAIN many) : \A i \in DOMAIN few : many[f[i]] = few[i]
    BY DEF Embeds
  <2> DEFINE g == [i \in DOMAIN left |-> f[n + i]]
  <2>2. \A i \in DOMAIN few : f[i] \in DOMAIN many
    BY <2>1 DEF Injection, IsInjective
  <2>3. \A i, j \in DOMAIN left : i # j => f[n + i] # f[n + j]
    <3>1. ASSUME NEW i \in DOMAIN left, NEW j \in DOMAIN left, i # j PROVE n + i # n + j
      BY <1>2, <1>4, <3>1
    <3> QED
      BY <1>5, <2>1, <3>1 DEF Injection, IsInjective
  <2>4. g \in [DOMAIN left -> DOMAIN many]
    BY <1>5, <2>2
  <2>5. g \in Injection(DOMAIN left, DOMAIN many)
    BY <2>3, <2>4 DEF Injection, IsInjective
  <2>6. \A i \in DOMAIN left : many[g[i]] = left[i]
    BY <1>5, <2>1
  <2> HIDE DEF g
  <2> QED
    BY <2>5, <2>6 DEF Embeds
<1> QED
  BY <1>3, <1>5, <1>6, <1>7, <1>8 DEF left

LEMMA AppendEmbeds ==
    ASSUME NEW few \in Seq(0..MaxTime), NEW many \in Seq(0..MaxTime), NEW at \in 0..MaxTime,
           Embeds(few, many)
    PROVE  Embeds(few, Append(many, at)) /\ Embeds(Append(few, at), Append(many, at))
<1> DEFINE longer == Append(many, at)
           more == Append(few, at)
<1>1. PICK f \in Injection(DOMAIN few, DOMAIN many) : \A i \in DOMAIN few : many[f[i]] = few[i]
  BY DEF Embeds
<1>2. /\ Len(many) \in Nat /\ DOMAIN many = 1..Len(many) /\ DOMAIN longer = 1..(Len(many) + 1)
      /\ \A i \in 1..Len(many) : longer[i] = many[i]
      /\ longer[Len(many) + 1] = at
  BY AppendProperties
<1>3. /\ Len(few) \in Nat /\ DOMAIN few = 1..Len(few) /\ DOMAIN more = 1..(Len(few) + 1)
      /\ \A i \in 1..Len(few) : more[i] = few[i]
      /\ more[Len(few) + 1] = at
  BY AppendProperties
<1>4. f \in [DOMAIN few -> DOMAIN many] /\ \A i, j \in DOMAIN few : i # j => f[i] # f[j]
  BY <1>1 DEF Injection, IsInjective
<1> HIDE DEF longer, more
<1>5. Embeds(few, longer)
  <2>1. f \in [DOMAIN few -> DOMAIN longer]
    BY <1>2, <1>4
  <2>2. f \in Injection(DOMAIN few, DOMAIN longer)
    BY <1>4, <2>1 DEF Injection, IsInjective
  <2>3. \A i \in DOMAIN few : longer[f[i]] = few[i]
    BY <1>1, <1>2, <1>4
  <2> QED
    BY <2>2, <2>3 DEF Embeds
<1>6. Embeds(more, longer)
  <2> DEFINE g == [i \in DOMAIN more |-> IF i \in DOMAIN few THEN f[i] ELSE Len(many) + 1]
  <2>1. \A i \in DOMAIN few : f[i] \in 1..Len(many) /\ longer[f[i]] = few[i]
    BY <1>1, <1>2, <1>4
  <2>2. \A i \in DOMAIN more : i \in DOMAIN few \/ i = Len(few) + 1
    BY <1>3
  <2>3. Len(few) + 1 \notin DOMAIN few
    BY <1>3
  <2>4. g \in [DOMAIN more -> DOMAIN longer]
    BY <1>2, <2>1
  <2>5. \A i, j \in DOMAIN more : i # j => g[i] # g[j]
    <3>1. Len(many) + 1 \notin 1..Len(many)
      BY <1>2
    <3> QED
      BY <1>4, <2>1, <2>2, <3>1
  <2>6. g \in Injection(DOMAIN more, DOMAIN longer)
    BY <2>4, <2>5 DEF Injection, IsInjective
  <2>7. \A i \in DOMAIN more : longer[g[i]] = more[i]
    BY <1>2, <1>3, <2>1, <2>2, <2>3
  <2> HIDE DEF g
  <2> QED
    BY <2>6, <2>7 DEF Embeds
<1> QED
  BY <1>5, <1>6 DEF longer, more

LEMMA AppendSorted ==
    ASSUME NEW times \in Seq(0..MaxTime), NEW at \in 0..MaxTime, Sorted(times),
           \A i \in DOMAIN times : times[i] <= at
    PROVE  /\ Sorted(Append(times, at))
           /\ \A i \in DOMAIN Append(times, at) : Append(times, at)[i] <= at
<1> DEFINE more == Append(times, at)
<1>1. /\ Len(times) \in Nat /\ DOMAIN times = 1..Len(times)
      /\ DOMAIN more = 1..(Len(times) + 1)
      /\ \A i \in 1..Len(times) : more[i] = times[i]
      /\ more[Len(times) + 1] = at /\ at \in Int
  BY CallAssumption, AppendProperties
<1> HIDE DEF more
<1>2. \A i \in DOMAIN more : more[i] <= at
  BY <1>1
<1>3. Sorted(more)
  BY <1>1 DEF Sorted
<1> QED
  BY <1>2, <1>3 DEF more

\* What a sorted deque counts of the window has happened in the window.
LEMMA SortedCounts ==
    ASSUME NEW few \in Seq(0..MaxTime), NEW many \in Seq(0..MaxTime), NEW since \in Int,
           Sorted(few), Embeds(few, many)
    PROVE  Len(AfterPurge(few, since)) <= FailuresSince(many, since)
<1> DEFINE left == AfterPurge(few, since)
           young == {i \in DOMAIN many : many[i] > since}
<1>1. /\ left \in Seq(0..MaxTime) /\ Embeds(left, many)
      /\ \A i \in DOMAIN left : left[i] > since
  BY PurgeEmbeds
<1> HIDE DEF left
<1>2. PICK f \in Injection(DOMAIN left, DOMAIN many) : \A i \in DOMAIN left : many[f[i]] = left[i]
  BY <1>1 DEF Embeds
<1>3. f \in Injection(DOMAIN left, young)
  BY <1>1, <1>2 DEF Injection, IsInjective
<1>4. IsFiniteSet(young)
  <2>0. DOMAIN many = 1..Len(many) /\ Len(many) \in Int /\ 1 \in Int
    BY LenProperties
  <2>1. IsFiniteSet(1..Len(many)) /\ young \in SUBSET (1..Len(many))
    BY <2>0, FS_Interval
  <2> HIDE DEF young
  <2> QED
    BY <2>1, FS_Subset
<1>5. Cardinality(DOMAIN left) <= Cardinality(young)
  <2> HIDE DEF young
  <2> QED
    BY <1>3, <1>4, FS_Injection
<1>6. DOMAIN left = 1..Len(left) /\ Len(left) \in Nat
  BY <1>1, LenProperties
<1>7. Cardinality(DOMAIN left) = Len(left)
  <2>1. Cardinality(1..Len(left)) = IF 1 > Len(left) THEN 0 ELSE Len(left) - 1 + 1
    <3>1. Len(left) \in Int /\ 1 \in Int
      BY <1>6
    <3> QED
      BY <3>1, FS_Interval
  <2> QED
    BY <1>6, <2>1
<1> QED
  BY <1>5, <1>7 DEF FailuresSince, left

LEMMA InitCounts == Init => CountsInv
<1> SUFFICES ASSUME Init PROVE CountsInv
  OBVIOUS
<1>1. DOMAIN request = {} /\ \A p \in Processes, client \in Clients : failures[p][client] = << >>
  BY DEF Init
<1> QED
  BY <1>1, EmptyEmbeds DEF CountsInv

\* A step that leaves the deques, the history and the age of the request, and
\* finds no code wrong.
LEMMA QuietCounts ==
    ASSUME CountsInv, UNCHANGED <<failures, evaluated>>, ~overlapped' => ~overlapped,
           \A t \in DOMAIN request' :
                /\ t \in DOMAIN request /\ request'[t].at = request[t].at
                /\ pc'[t] = "failed" => pc[t] = "failed" /\ request'[t] = request[t]
    PROVE  CountsInv'
BY DEF CountsInv, Processes

LEMMA NextCounts ==
    Typed /\ DequesInv /\ Alone /\ CountsInv /\ [Next]_vars => CountsInv'
<1> SUFFICES ASSUME Typed, DequesInv, Alone, CountsInv, [Next]_vars PROVE CountsInv'
  OBVIOUS
<1>0. ~overlapped' => ~overlapped
  BY StepsInSequence
<1>a. /\ failures \in [Processes -> [Clients -> Seq(0..MaxTime)]]
      /\ evaluated \in [Processes -> [Clients -> Seq(0..MaxTime)]]
  BY DEF Typed, TypeOK
<1>b. ASSUME NEW t \in DOMAIN request
      PROVE  /\ ProcessOf[t] \in Processes /\ request[t].client \in Clients
             /\ request[t].at \in 0..MaxTime /\ WindowStart(request[t].at) \in Int
  <2>1. request[t] \in Request /\ ProcessOf[t] \in Processes
    BY RecentType
  <2>2. request[t].client \in Clients /\ request[t].at \in 0..MaxTime
    BY <2>1 DEF Request
  <2> QED
    BY <2>1, <2>2, CallAssumption, PolicyAssumption DEF WindowStart
<1>1. ASSUME NEW t \in Threads, NEW call \in Calls, NEW client \in Clients, NEW code \in Codes,
             Receive(t, call, client, code)
      PROVE  CountsInv'
  <2> SUFFICES ASSUME ~overlapped' PROVE CountsInv'
    BY DEF CountsInv
  <2>1. /\ UNCHANGED <<failures, evaluated>>
        /\ DOMAIN request = {} /\ DOMAIN request' = {t}
        /\ request'[t].at = now
        /\ pc'[t] = "received"
    BY <1>1 DEF Receive, Typed, TypeOK
  <2>2. \A p \in Processes, c \in Clients : \A i \in DOMAIN failures[p][c] :
            failures[p][c][i] <= now
    BY DEF DequesInv, InThePast
  <2> QED
    BY <1>0, <2>1, <2>2 DEF CountsInv, Processes
<1>2. ASSUME NEW t \in Threads, CheckLimit(t) PROVE CountsInv'
  <2> SUFFICES ASSUME ~overlapped' PROVE CountsInv'
    BY DEF CountsInv
  <2> DEFINE p == ProcessOf[t]
             client == request[t].client
             left == Recent(t)
  <2>1. /\ t \in DOMAIN request
        /\ DOMAIN request' = DOMAIN request /\ request'[t].at = request[t].at
        /\ pc'[t] # "failed"
    BY <1>2, ReasonGiven DEF CheckLimit, Typed, TypeOK
  <2>2. \A u \in DOMAIN request : u = t
    BY <1>0, <2>1 DEF Alone
  <2>3. p \in Processes /\ client \in Clients /\ WindowStart(request[t].at) \in Int
    BY <1>b, <2>1
  <2>4. failures' = [failures EXCEPT ![p][client] = left] /\ evaluated' = evaluated
    BY <1>2 DEF CheckLimit
  <2>5. /\ Sorted(left) /\ Embeds(left, evaluated[p][client])
        /\ \A i \in DOMAIN left : \E j \in DOMAIN failures[p][client] :
                left[i] = failures[p][client][j]
    <3>1. Sorted(failures[p][client]) /\ Embeds(failures[p][client], evaluated[p][client])
      BY <1>0, <2>3 DEF CountsInv
    <3>2. failures[p][client] \in Seq(0..MaxTime)
      BY <1>a, <2>3
    <3> QED
      BY <2>3, <3>1, <3>2, PurgeEmbeds DEF Recent
  <2> HIDE DEF p, client, left
  <2>6. ASSUME NEW q \in Processes, NEW c \in Clients
        PROVE  /\ Sorted(failures'[q][c]) /\ Embeds(failures'[q][c], evaluated'[q][c])
               /\ \A i \in DOMAIN failures'[q][c] : failures'[q][c][i] <= request'[t].at
    <3>1. CASE q = p /\ c = client
      <4>1. failures'[q][c] = left
        BY <1>a, <2>3, <2>4, <3>1
      <4>2. \A j \in DOMAIN failures[p][client] : failures[p][client][j] <= request[t].at
        BY <1>0, <2>1, <2>3 DEF CountsInv
      <4> QED
        BY <2>1, <2>4, <2>5, <3>1, <4>1, <4>2
    <3>2. CASE ~(q = p /\ c = client)
      <4>1. failures'[q][c] = failures[q][c]
        BY <1>a, <2>3, <2>4, <3>2
      <4> QED
        BY <1>0, <2>1, <2>4, <4>1 DEF CountsInv
    <3> QED
      BY <3>1, <3>2
  <2> QED
    BY <2>1, <2>2, <2>6 DEF CountsInv, Processes
<1>3. ASSUME NEW t \in Threads, NEW reason \in WorkerAnswers, WorkerReplies(t, reason)
      PROVE  CountsInv'
  <2> SUFFICES ASSUME ~overlapped' PROVE CountsInv'
    BY DEF CountsInv
  <2> DEFINE p == ProcessOf[t]
             client == request[t].client
             at == request[t].at
  <2>1. /\ t \in DOMAIN request
        /\ DOMAIN request' = DOMAIN request /\ request'[t].at = at
        /\ request'[t].client = client
    BY <1>3, ReasonGiven
  <2>2. \A u \in DOMAIN request : u = t
    BY <1>0, <2>1 DEF Alone
  <2>3. p \in Processes /\ client \in Clients /\ at \in 0..MaxTime
    BY <1>b, <2>1
  <2>4. /\ failures' = failures
        /\ evaluated' = IF IsFailure(reason)
                        THEN [evaluated EXCEPT ![p][client] = Append(evaluated[p][client], at)]
                        ELSE evaluated
        /\ pc'[t] = "failed" => IsFailure(reason)
    BY <1>3 DEF WorkerReplies, Typed, TypeOK
  <2> HIDE DEF p, client, at
  <2>5. /\ Embeds(failures[p][client], Append(evaluated[p][client], at))
        /\ Embeds(Append(failures[p][client], at), Append(evaluated[p][client], at))
    <3>1. Embeds(failures[p][client], evaluated[p][client])
      BY <1>0, <2>3 DEF CountsInv
    <3>2. failures[p][client] \in Seq(0..MaxTime) /\ evaluated[p][client] \in Seq(0..MaxTime)
      BY <1>a, <2>3
    <3> QED
      BY <2>3, <3>1, <3>2, AppendEmbeds
  <2>6. ASSUME NEW q \in Processes, NEW c \in Clients
        PROVE  /\ Sorted(failures'[q][c]) /\ Embeds(failures'[q][c], evaluated'[q][c])
               /\ \A i \in DOMAIN failures'[q][c] : failures'[q][c][i] <= at
    <3>1. \/ evaluated'[q][c] = evaluated[q][c]
          \/ q = p /\ c = client /\ evaluated'[q][c] = Append(evaluated[p][client], at)
      BY <1>a, <2>3, <2>4
    <3>2. /\ Sorted(failures[q][c]) /\ Embeds(failures[q][c], evaluated[q][c])
          /\ \A i \in DOMAIN failures[q][c] : failures[q][c][i] <= at
      BY <1>0, <2>1 DEF CountsInv, at
    <3> QED
      BY <2>4, <2>5, <3>1, <3>2
  <2>7. pc'[t] = "failed" =>
            Embeds(Append(failures'[p][client], at), evaluated'[p][client])
    BY <1>a, <2>3, <2>4, <2>5
  <2> QED
    BY <2>1, <2>2, <2>6, <2>7 DEF CountsInv, Processes, p
<1>4. ASSUME NEW t \in Threads, WorkerFails(t) PROVE CountsInv'
  <2>1. /\ UNCHANGED <<failures, evaluated>>
        /\ DOMAIN request' = DOMAIN request \ {t}
        /\ \A u \in DOMAIN request' : request'[u] = request[u] /\ pc'[u] = pc[u]
    BY <1>4 DEF WorkerFails, Typed, TypeOK
  <2> QED
    BY <1>0, <2>1, QuietCounts
<1>5. ASSUME NEW t \in Threads, CountFailure(t) PROVE CountsInv'
  <2> SUFFICES ASSUME ~overlapped' PROVE CountsInv'
    BY DEF CountsInv
  <2> DEFINE p == ProcessOf[t]
             client == request[t].client
             at == request[t].at
             more == Append(failures[p][client], at)
  <2>1. /\ t \in DOMAIN request /\ pc[t] = "failed"
        /\ UNCHANGED <<request, evaluated>>
        /\ pc'[t] # "failed"
    BY <1>5 DEF CountFailure, Typed, TypeOK, Running
  <2>2. \A u \in DOMAIN request : u = t
    BY <1>0, <2>1 DEF Alone
  <2>3. p \in Processes /\ client \in Clients /\ at \in 0..MaxTime
    BY <1>b, <2>1
  <2>4. failures' = [failures EXCEPT ![p][client] = more]
    BY <1>5 DEF CountFailure, FailureTime
  <2>5. Embeds(more, evaluated[p][client])
    BY <1>0, <2>1 DEF CountsInv
  <2>6. Sorted(more) /\ \A i \in DOMAIN more : more[i] <= at
    <3>1. /\ Sorted(failures[p][client])
          /\ \A i \in DOMAIN failures[p][client] : failures[p][client][i] <= at
      BY <1>0, <2>1, <2>3 DEF CountsInv
    <3>2. failures[p][client] \in Seq(0..MaxTime)
      BY <1>a, <2>3
    <3> HIDE DEF p, client, at
    <3> QED
      BY <2>3, <3>1, <3>2, AppendSorted
  <2> HIDE DEF p, client, more
  <2>7. ASSUME NEW q \in Processes, NEW c \in Clients
        PROVE  /\ Sorted(failures'[q][c]) /\ Embeds(failures'[q][c], evaluated'[q][c])
               /\ \A i \in DOMAIN failures'[q][c] : failures'[q][c][i] <= at
    <3>1. CASE q = p /\ c = client
      <4>1. failures'[q][c] = more
        BY <1>a, <2>3, <2>4, <3>1
      <4> QED
        BY <2>1, <2>5, <2>6, <3>1, <4>1
    <3>2. CASE ~(q = p /\ c = client)
      <4>1. failures'[q][c] = failures[q][c]
        BY <1>a, <2>3, <2>4, <3>2
      <4> QED
        BY <1>0, <2>1, <4>1 DEF CountsInv
    <3> QED
      BY <3>1, <3>2
  <2> QED
    BY <2>1, <2>2, <2>7 DEF CountsInv, Processes
<1>6. ASSUME NEW t \in Threads, ReadLog(t) PROVE CountsInv'
  <2>1. /\ t \in DOMAIN request /\ request[t] \in Request
        /\ UNCHANGED <<failures, evaluated>> /\ pc'[t] # "failed"
        /\ \A u \in DOMAIN request \ {t} : pc'[u] = pc[u]
    BY <1>6 DEF ReadLog, Typed, TypeOK, Running
  <2>2. PICK retry \in BOOLEAN : request' = [request EXCEPT ![t].retryAllowed = retry]
    BY <1>6 DEF ReadLog, AllowsCodeRetry
  <2>3. /\ DOMAIN request' = DOMAIN request
        /\ \A u \in DOMAIN request \ {t} : request'[u] = request[u]
        /\ request'[t].at = request[t].at
    BY <2>1, <2>2 DEF Request
  <2> QED
    BY <1>0, <2>1, <2>3, QuietCounts
<1>7. ASSUME NEW t \in Threads, NotifyGuardian(t) PROVE CountsInv'
  <2>1. UNCHANGED <<failures, evaluated>>
    BY <1>7 DEF NotifyGuardian
  <2> QED
    BY <1>0, <1>7, <2>1, NotifiedRequest, QuietCounts
<1>8. ASSUME NEW t \in Threads, AddRecord(t) PROVE CountsInv'
  <2>1. /\ UNCHANGED <<failures, evaluated>>
        /\ DOMAIN request' = DOMAIN request \ {t}
        /\ \A u \in DOMAIN request' : request'[u] = request[u] /\ pc'[u] = pc[u]
    BY <1>8 DEF AddRecord, Typed, TypeOK
  <2> QED
    BY <1>0, <2>1, QuietCounts
<1>9. ASSUME Tick PROVE CountsInv'
  BY <1>0, <1>9, QuietCounts DEF Tick
<1>10. ASSUME UNCHANGED vars PROVE CountsInv'
  BY <1>0, <1>10, QuietCounts DEF vars
<1> QED
  BY <1>1, <1>2, <1>3, <1>4, <1>5, <1>6, <1>7, <1>8, <1>9, <1>10
     DEF Next, ThreadStep, BoundsReached

\* While requests follow one another, however many threads and processes serve
\* them, a run of unknown codes is granted one retry, each process tells the
\* guardian of the limit of a call once, and no failure is counted that is not
\* of the window (allows_code_retry, is_repeated_rate_limit and
\* count_failures_since).
THEOREM RulesInSequence == Spec => []RulesHoldInSequence
<1>1. Typed /\ RetryInv /\ AlertsInv /\ CountsInv => RulesHoldInSequence
  <2> SUFFICES ASSUME Typed, RetryInv, AlertsInv, CountsInv, ~overlapped
               PROVE  /\ RetryOncePerRun
                      /\ \A call \in Calls :
                            sent[<<call, "rate_limited">>] <= Cardinality(Processes)
                      /\ CountsOnlyTheWindow
    BY DEF RulesHoldInSequence
  <2>1. RetryOncePerRun
    BY DEF RetryInv
  <2>2. ASSUME NEW call \in Calls
        PROVE  sent[<<call, "rate_limited">>] <= Cardinality(Processes)
    <3>1. sent[<<call, "rate_limited">>] \in Nat
      BY DEF Typed, TypeOK, WorkerReasons
    <3>2. sent[<<call, "rate_limited">>] <= Cardinality(Warned(call))
      BY DEF AlertsInv
    <3>3. Cardinality(Processes) \in Nat
      BY ProcessesAreFinite, FS_CardinalityType
    <3> QED
      BY <3>1, <3>2, <3>3, WarnedIsFinite
  <2>3. ASSUME NEW p \in Processes, NEW client \in Clients
        PROVE  Len(AfterPurge(failures[p][client], WindowStart(now)))
                    <= FailuresSince(evaluated[p][client], WindowStart(now))
    <3>1. /\ failures[p][client] \in Seq(0..MaxTime)
          /\ evaluated[p][client] \in Seq(0..MaxTime)
          /\ WindowStart(now) \in Int
      BY CallAssumption, PolicyAssumption DEF Typed, TypeOK, WindowStart
    <3> QED
      BY <3>1, SortedCounts DEF CountsInv
  <2> QED
    BY <2>1, <2>2, <2>3 DEF CountsOnlyTheWindow
<1> QED
  BY InitTyped, NextTyped, InitGuardian, NextGuardian, InitDeques, NextDeques, InitAlone,
     NextAlone, InitRetry, NextRetry, InitAlerts, NextAlerts, InitCounts, NextCounts, <1>1,
     PTL DEF Spec

-----------------------------------------------------------------------------
(***************************************************************************)
(* Concurrent requests outrun the limit by their own number only           *)
(*                                                                         *)
(* A wrong code of the window is counted in the deque or on its way there  *)
(* in a thread, so a request that passes the limit finds fewer than        *)
(* MaxFailures of them counted; the others, and the requests that are at   *)
(* the worker, have a thread of the process each.  The purges of younger   *)
(* requests do not reach the shortened window.                             *)
(***************************************************************************)
FailedSince(p, client, since) ==
    {t \in DOMAIN request : /\ pc[t] = "failed" /\ ProcessOf[t] = p
                            /\ request[t].client = client /\ request[t].at > since}

CallingIn(p, client, seconds, t) ==
    {u \in DOMAIN request : /\ pc[u] = "calling" /\ ProcessOf[u] = p
                            /\ request[u].client = client
                            /\ request[u].at > t - seconds /\ request[u].at <= t}

Shortened == WindowSeconds - MaxRequestSeconds

NoFailureForgotten(p, client) ==
    \A since \in Int : now - WindowSeconds <= since =>
        FailuresSince(evaluated[p][client], since)
            <= FailuresSince(failures[p][client], since)
               + Cardinality(FailedSince(p, client, since))

ThreadsBoundWindow(p, client) ==
    \A t \in 0..MaxTime :
        Cardinality(WrongCodes(p, client, Shortened, t))
        + Cardinality(CallingIn(p, client, Shortened, t))
            <= MaxFailures - 1 + Cardinality(ThreadsOf(p))

LimitInv ==
    \A p \in Processes, client \in Clients :
        NoFailureForgotten(p, client) /\ ThreadsBoundWindow(p, client)

-----------------------------------------------------------------------------
\* Sets of positions of a sequence are finite.
LEMMA PositionsAreFinite ==
    ASSUME NEW times \in Seq(0..MaxTime), NEW S \in SUBSET DOMAIN times
    PROVE  IsFiniteSet(S) /\ Cardinality(S) \in Nat
<1>1. DOMAIN times = 1..Len(times) /\ Len(times) \in Int /\ 1 \in Int
  BY LenProperties
<1>2. IsFiniteSet(1..Len(times))
  BY <1>1, FS_Interval
<1> QED
  BY <1>1, <1>2, FS_Subset, FS_CardinalityType

LEMMA ThreadSetsAreFinite ==
    ASSUME NEW S \in SUBSET Threads PROVE IsFiniteSet(S) /\ Cardinality(S) \in Nat
BY CallAssumption, FS_Subset, FS_CardinalityType

LEMMA FailuresSinceType ==
    ASSUME NEW times \in Seq(0..MaxTime), NEW since \in Int
    PROVE  FailuresSince(times, since) \in Nat /\ FailuresSince(times, since) <= Len(times)
<1> DEFINE young == {i \in DOMAIN times : times[i] > since}
<1>1. DOMAIN times = 1..Len(times) /\ Len(times) \in Nat
  BY LenProperties
<1>2. young \in SUBSET (1..Len(times))
  BY <1>1
<1>3. IsFiniteSet(1..Len(times)) /\ Cardinality(1..Len(times)) = Len(times)
  <2>1. 1 \in Int /\ Len(times) \in Int
    BY <1>1
  <2>2. /\ IsFiniteSet(1..Len(times))
        /\ Cardinality(1..Len(times)) = IF 1 > Len(times) THEN 0 ELSE Len(times) - 1 + 1
    BY <2>1, FS_Interval
  <2> QED
    BY <1>1, <2>2
<1>4. Cardinality(young) <= Cardinality(1..Len(times))
  <2> HIDE DEF young
  <2> QED
    BY <1>2, <1>3, FS_Subset
<1>5. Cardinality(young) \in Nat
  BY PositionsAreFinite
<1> QED
  BY <1>3, <1>4, <1>5 DEF FailuresSince

\* An appended time counts when it is young.
LEMMA SinceAppend ==
    ASSUME NEW times \in Seq(0..MaxTime), NEW at \in 0..MaxTime, NEW since \in Int
    PROVE  FailuresSince(Append(times, at), since)
               = FailuresSince(times, since) + (IF at > since THEN 1 ELSE 0)
<1> DEFINE more == Append(times, at)
           young == {i \in DOMAIN times : times[i] > since}
           youngOfMore == {i \in DOMAIN more : more[i] > since}
<1>1. /\ Len(times) \in Nat /\ DOMAIN times = 1..Len(times)
      /\ DOMAIN more = 1..(Len(times) + 1)
      /\ \A i \in 1..Len(times) : more[i] = times[i]
      /\ more[Len(times) + 1] = at
  BY AppendProperties
<1> HIDE DEF more
<1>2. youngOfMore = IF at > since THEN young \cup {Len(times) + 1} ELSE young
  BY <1>1
<1>3. Len(times) + 1 \notin young
  BY <1>1
<1>4. IsFiniteSet(young) /\ Cardinality(young) \in Nat
  BY PositionsAreFinite
<1>5. Cardinality(young \cup {Len(times) + 1}) = Cardinality(young) + 1
  <2> HIDE DEF young
  <2> QED
    BY <1>3, <1>4, FS_AddElement
<1>6. FailuresSince(more, since) = Cardinality(youngOfMore)
  BY DEF FailuresSince
<1>7. FailuresSince(times, since) = Cardinality(young)
  BY DEF FailuresSince
<1> HIDE DEF young, youngOfMore
<1>8. FailuresSince(more, since) = FailuresSince(times, since) + (IF at > since THEN 1 ELSE 0)
  BY <1>2, <1>4, <1>5, <1>6, <1>7
<1> QED
  BY <1>8 DEF more

\* A purge takes nothing that is younger than its own limit.
LEMMA SincePurge ==
    ASSUME NEW times \in Seq(0..MaxTime), NEW since \in Int, NEW later \in Int, since <= later
    PROVE  FailuresSince(times, later) <= FailuresSince(AfterPurge(times, since), later)
<1> DEFINE n == StaleHead(times, since)
           left == AfterPurge(times, since)
           young == {i \in DOMAIN times : times[i] > later}
           youngOfLeft == {i \in DOMAIN left : left[i] > later}
           f == [i \in young |-> i - n]
<1>1. 0..MaxTime \in SUBSET Int
  BY CallAssumption
<1>2. n \in 0..Len(times) /\ \A i \in 1..n : times[i] <= since
  BY <1>1, StaleHeadProperties
<1>3. /\ left \in Seq(0..MaxTime)
      /\ Len(left) = Len(times) - n
      /\ \A i \in 1..(Len(times) - n) : left[i] = times[n + i]
  BY <1>1, AfterPurgeProperties
<1> HIDE DEF n, left
<1>4. /\ DOMAIN times = 1..Len(times) /\ Len(times) \in Nat
      /\ DOMAIN left = 1..(Len(times) - n)
      /\ \A i \in 1..Len(times) : times[i] \in Int
  <2>1. DOMAIN times = 1..Len(times) /\ Len(times) \in Nat /\ DOMAIN left = 1..Len(left)
    BY <1>3, LenProperties
  <2>2. \A i \in 1..Len(times) : times[i] \in 0..MaxTime
    BY ElementOfSeq
  <2> QED
    BY <1>1, <1>3, <2>1, <2>2
<1>5. ASSUME NEW i \in young PROVE i - n \in youngOfLeft
  <2>1. i \in 1..Len(times) /\ times[i] > later
    BY <1>4, <1>5
  <2>2. i \notin 1..n
    BY <1>2, <1>4, <2>1
  <2>3. i - n \in 1..(Len(times) - n) /\ n + (i - n) = i
    BY <1>2, <1>4, <2>1, <2>2
  <2>4. left[i - n] = times[i]
    BY <1>3, <2>3
  <2> QED
    BY <1>4, <2>1, <2>3, <2>4
<1>6. f \in Injection(young, youngOfLeft)
  <2>1. f \in [young -> youngOfLeft]
    BY <1>5
  <2>2. \A i, j \in young : i - n = j - n => i = j
    BY <1>2, <1>4
  <2> QED
    BY <2>1, <2>2 DEF Injection, IsInjective
<1>7. IsFiniteSet(youngOfLeft)
  <2>1. youngOfLeft \in SUBSET DOMAIN left
    OBVIOUS
  <2> QED
    BY <1>3, <2>1, PositionsAreFinite
<1>8. Cardinality(young) <= Cardinality(youngOfLeft)
  <2> HIDE DEF young, youngOfLeft, f
  <2> QED
    BY <1>6, <1>7, FS_Injection
<1> QED
  BY <1>8 DEF FailuresSince, left

\* The sets of the invariant are sets of positions and of threads.
LEMMA SinceTypes ==
    ASSUME Typed, NEW p \in Processes, NEW client \in Clients, NEW since \in Int
    PROVE  /\ IsFiniteSet(FailedSince(p, client, since))
           /\ Cardinality(FailedSince(p, client, since)) \in Nat
           /\ FailuresSince(evaluated[p][client], since) \in Nat
           /\ FailuresSince(failures[p][client], since) \in Nat
<1>1. /\ failures[p][client] \in Seq(0..MaxTime) /\ evaluated[p][client] \in Seq(0..MaxTime)
      /\ DOMAIN request \subseteq Threads
  BY DEF Typed, TypeOK
<1>2. FailedSince(p, client, since) \in SUBSET Threads
  BY <1>1 DEF FailedSince
<1> QED
  BY <1>1, <1>2, ThreadSetsAreFinite, FailuresSinceType

LEMMA WindowTypes ==
    ASSUME Typed, NEW p \in Processes, NEW client \in Clients, NEW t \in Int
    PROVE  /\ IsFiniteSet(WrongCodes(p, client, Shortened, t))
           /\ Cardinality(WrongCodes(p, client, Shortened, t)) \in Nat
           /\ IsFiniteSet(CallingIn(p, client, Shortened, t))
           /\ Cardinality(CallingIn(p, client, Shortened, t)) \in Nat
<1>1. evaluated[p][client] \in Seq(0..MaxTime) /\ DOMAIN request \subseteq Threads
  BY DEF Typed, TypeOK
<1>2. WrongCodes(p, client, Shortened, t) \in SUBSET DOMAIN evaluated[p][client]
  BY DEF WrongCodes
<1>3. CallingIn(p, client, Shortened, t) \in SUBSET Threads
  BY <1>1 DEF CallingIn
<1> QED
  BY <1>1, <1>2, <1>3, PositionsAreFinite, ThreadSetsAreFinite

LEMMA SinceTypesPrime ==
    ASSUME Typed', NEW p \in Processes, NEW client \in Clients, NEW since \in Int
    PROVE  /\ IsFiniteSet(FailedSince(p, client, since)')
           /\ Cardinality(FailedSince(p, client, since)') \in Nat
           /\ FailuresSince(evaluated'[p][client], since) \in Nat
           /\ FailuresSince(failures'[p][client], since) \in Nat
<1>1. /\ failures'[p][client] \in Seq(0..MaxTime) /\ evaluated'[p][client] \in Seq(0..MaxTime)
      /\ DOMAIN request' \subseteq Threads
  BY DEF Typed, TypeOK, Processes
<1>2. FailedSince(p, client, since)' \in SUBSET Threads
  BY <1>1 DEF FailedSince
<1> QED
  BY <1>1, <1>2, ThreadSetsAreFinite, FailuresSinceType

LEMMA WindowTypesPrime ==
    ASSUME Typed', NEW p \in Processes, NEW client \in Clients, NEW t \in Int
    PROVE  /\ IsFiniteSet(CallingIn(p, client, Shortened, t)')
           /\ Cardinality(CallingIn(p, client, Shortened, t)') \in Nat
<1>1. DOMAIN request' \subseteq Threads
  BY DEF Typed, TypeOK
<1>2. CallingIn(p, client, Shortened, t)' \in SUBSET Threads
  BY <1>1 DEF CallingIn
<1> QED
  BY <1>2, ThreadSetsAreFinite

LEMMA InitLimit == Init => LimitInv
<1> SUFFICES ASSUME Init, NEW p \in Processes, NEW client \in Clients
             PROVE  NoFailureForgotten(p, client) /\ ThreadsBoundWindow(p, client)
  BY DEF LimitInv
<1>1. /\ DOMAIN request = {} /\ evaluated[p][client] = << >> /\ failures[p][client] = << >>
  BY DEF Init
<1>2. \A since : FailedSince(p, client, since) = {}
  BY <1>1 DEF FailedSince
<1>3. \A t : /\ CallingIn(p, client, Shortened, t) = {}
             /\ WrongCodes(p, client, Shortened, t) = {}
  BY <1>1 DEF CallingIn, WrongCodes
<1>4. \A since : FailuresSince(<< >>, since) = 0
  BY FS_EmptySet DEF FailuresSince
<1>5. NoFailureForgotten(p, client)
  <2>1. Cardinality({}) = 0
    BY FS_EmptySet
  <2> SUFFICES ASSUME NEW since \in Int
               PROVE  FailuresSince(evaluated[p][client], since)
                          <= FailuresSince(failures[p][client], since)
                             + Cardinality(FailedSince(p, client, since))
    BY DEF NoFailureForgotten
  <2>2. /\ FailuresSince(evaluated[p][client], since) = 0
        /\ FailuresSince(failures[p][client], since) = 0
    BY <1>1, <1>4
  <2>3. Cardinality(FailedSince(p, client, since)) = 0
    BY <1>2, <2>1
  <2> QED
    BY <2>2, <2>3
<1>6. Cardinality(ThreadsOf(p)) \in Nat
  BY ThreadSetsAreFinite DEF ThreadsOf
<1>7. ThreadsBoundWindow(p, client)
  BY <1>3, <1>6, PolicyAssumption, FS_EmptySet DEF ThreadsBoundWindow
<1> QED
  BY <1>5, <1>7

\* What holds of a client of a process goes on holding when a step counts
\* nothing, forgets no failure on its way to the deque, and sends no request to
\* the worker.
LEMMA QuietLimit ==
    ASSUME Typed, Typed', NEW p \in Processes, NEW client \in Clients,
           NoFailureForgotten(p, client), ThreadsBoundWindow(p, client),
           failures'[p][client] = failures[p][client],
           evaluated'[p][client] = evaluated[p][client], now <= now',
           \A u \in DOMAIN request' :
                pc'[u] = "calling" /\ ProcessOf[u] = p /\ request'[u].client = client =>
                /\ u \in DOMAIN request /\ pc[u] = "calling"
                /\ request'[u].client = request[u].client /\ request'[u].at = request[u].at,
           \A u \in DOMAIN request :
                pc[u] = "failed" /\ ProcessOf[u] = p /\ request[u].client = client =>
                /\ u \in DOMAIN request' /\ pc'[u] = "failed"
                /\ request'[u].client = request[u].client /\ request'[u].at = request[u].at
    PROVE  (NoFailureForgotten(p, client) /\ ThreadsBoundWindow(p, client))'
<1>0. 0..MaxTime \in SUBSET Int
  BY CallAssumption
<1>1. now \in Int /\ now' \in Int /\ WindowSeconds \in Int
  BY <1>0, PolicyAssumption DEF Typed, TypeOK
<1>2. ASSUME NEW since \in Int, now' - WindowSeconds <= since
      PROVE  FailuresSince(evaluated'[p][client], since)
                 <= FailuresSince(failures'[p][client], since)
                    + Cardinality(FailedSince(p, client, since)')
  <2>1. now - WindowSeconds <= since
    <3>1. \A a, b, c, d \in Int : a <= b /\ b - c <= d => a - c <= d
      OBVIOUS
    <3> QED
      BY <1>1, <1>2, <3>1
  <2>2. FailedSince(p, client, since) \in SUBSET FailedSince(p, client, since)'
    BY DEF FailedSince
  <2>3. Cardinality(FailedSince(p, client, since)) <= Cardinality(FailedSince(p, client, since)')
    BY <2>2, SinceTypesPrime, FS_Subset
  <2>4. FailuresSince(evaluated[p][client], since)
            <= FailuresSince(failures[p][client], since)
               + Cardinality(FailedSince(p, client, since))
    BY <2>1 DEF NoFailureForgotten
  <2> QED
    BY <2>3, <2>4, SinceTypes, SinceTypesPrime
<1>3. ASSUME NEW t \in 0..MaxTime
      PROVE  Cardinality(WrongCodes(p, client, Shortened, t)')
             + Cardinality(CallingIn(p, client, Shortened, t)')
                 <= MaxFailures - 1 + Cardinality(ThreadsOf(p))
  <2>1. t \in Int
    BY <1>0
  <2>2. WrongCodes(p, client, Shortened, t)' = WrongCodes(p, client, Shortened, t)
    BY DEF WrongCodes
  <2>3. CallingIn(p, client, Shortened, t)' \in SUBSET CallingIn(p, client, Shortened, t)
    BY DEF CallingIn
  <2>4. Cardinality(CallingIn(p, client, Shortened, t)')
            <= Cardinality(CallingIn(p, client, Shortened, t))
    BY <2>1, <2>3, WindowTypes, FS_Subset
  <2>5. Cardinality(WrongCodes(p, client, Shortened, t))
        + Cardinality(CallingIn(p, client, Shortened, t))
            <= MaxFailures - 1 + Cardinality(ThreadsOf(p))
    BY DEF ThreadsBoundWindow
  <2>6. Cardinality(ThreadsOf(p)) \in Nat /\ MaxFailures \in Int
    BY ThreadSetsAreFinite, PolicyAssumption DEF ThreadsOf
  <2> QED
    BY <2>1, <2>2, <2>4, <2>5, <2>6, WindowTypes, WindowTypesPrime
<1>4. NoFailureForgotten(p, client)'
  BY <1>2 DEF NoFailureForgotten
<1>5. ThreadsBoundWindow(p, client)'
  BY <1>3 DEF ThreadsBoundWindow, ThreadsOf
<1> QED
  BY <1>4, <1>5

\* A request that passes the limit finds every wrong code of its window in the
\* deque or in a thread.
LEMMA PassedLimit ==
    ASSUME Typed, DequesInv, LimitInv, NEW t \in Threads, CheckLimit(t), Typed',
           NEW p, p = ProcessOf[t], NEW client, client = request[t].client
    PROVE  (NoFailureForgotten(p, client) /\ ThreadsBoundWindow(p, client))'
<1> DEFINE at == request[t].at
           left == Recent(t)
<1>1. /\ t \in DOMAIN request /\ pc[t] = "received" /\ p \in Processes /\ client \in Clients
      /\ failures[p][client] \in Seq(0..MaxTime) /\ left \in Seq(0..MaxTime)
      /\ at \in 0..MaxTime
  BY RecentType DEF CheckLimit, Typed, Running, Request
<1>2. /\ now \in Int /\ MaxTime \in Nat /\ WindowSeconds \in Int /\ MaxRequestSeconds \in Nat
      /\ MaxFailures \in Nat /\ 0..MaxTime \in SUBSET Int
  BY CallAssumption, PolicyAssumption DEF Typed, TypeOK
<1>3. at <= now /\ now <= at + MaxRequestSeconds
  BY <1>1 DEF DequesInv
<1>4. /\ DOMAIN request' = DOMAIN request
      /\ \A u \in DOMAIN request \ {t} : request'[u] = request[u] /\ pc'[u] = pc[u]
      /\ request'[t].client = client /\ request'[t].at = at
      /\ now' = now
  BY ReasonGiven
<1>5. /\ pc'[t] = "calling" => ~IsLimited(Len(left))
      /\ pc'[t] # "failed"
  BY DEF CheckLimit, Limited, Typed, TypeOK
<1>6. /\ failures' = [failures EXCEPT ![p][client] = left] /\ evaluated' = evaluated
      /\ failures \in [Processes -> [Clients -> Seq(0..MaxTime)]]
  BY DEF CheckLimit, Typed, TypeOK
<1>7. left = AfterPurge(failures[p][client], at - WindowSeconds)
  BY DEF Recent, WindowStart
<1> HIDE DEF at, left
<1>8. failures'[p][client] = left
  BY <1>1, <1>6
<1>9. ASSUME NEW since \in Int, now - WindowSeconds <= since
      PROVE  /\ FailuresSince(evaluated[p][client], since)
                    <= FailuresSince(left, since) + Cardinality(FailedSince(p, client, since)')
             /\ FailuresSince(left, since) \in Nat
             /\ FailuresSince(left, since) <= Len(left)
             /\ Cardinality(FailedSince(p, client, since)') \in Nat
  <2>1. FailedSince(p, client, since)' = FailedSince(p, client, since)
    BY <1>1, <1>4, <1>5 DEF FailedSince
  <2>2. FailuresSince(failures[p][client], since) <= FailuresSince(left, since)
    <3>1. at - WindowSeconds \in Int /\ at - WindowSeconds <= since
      BY <1>1, <1>2, <1>3, <1>9
    <3> QED
      BY <1>1, <1>7, <3>1, SincePurge
  <2>4. FailuresSince(evaluated[p][client], since)
            <= FailuresSince(failures[p][client], since)
               + Cardinality(FailedSince(p, client, since))
    BY <1>1, <1>9 DEF LimitInv, NoFailureForgotten
  <2>5. FailuresSince(left, since) \in Nat /\ FailuresSince(left, since) <= Len(left)
    BY <1>1, FailuresSinceType
  <2>6. /\ FailuresSince(evaluated[p][client], since) \in Nat
        /\ FailuresSince(failures[p][client], since) \in Nat
        /\ Cardinality(FailedSince(p, client, since)) \in Nat
    BY <1>1, SinceTypes
  <2>7. FailuresSince(evaluated[p][client], since)
            <= FailuresSince(left, since) + Cardinality(FailedSince(p, client, since))
    BY <2>2, <2>4, <2>5, <2>6
  <2> QED
    BY <2>1, <2>5, <2>6, <2>7
<1>10. NoFailureForgotten(p, client)'
  BY <1>4, <1>6, <1>8, <1>9 DEF NoFailureForgotten
<1>11. ASSUME NEW u \in 0..MaxTime
       PROVE  Cardinality(WrongCodes(p, client, Shortened, u)')
              + Cardinality(CallingIn(p, client, Shortened, u)')
                  <= MaxFailures - 1 + Cardinality(ThreadsOf(p))
  <2> DEFINE wrong == WrongCodes(p, client, Shortened, u)
             calling == CallingIn(p, client, Shortened, u)
             since == u - Shortened
  <2> SUFFICES Cardinality(wrong') + Cardinality(calling')
                   <= MaxFailures - 1 + Cardinality(ThreadsOf(p))
    OBVIOUS
  <2>0. u \in Int /\ since \in Int
    BY <1>2 DEF Shortened
  <2>1. wrong' = wrong
    BY <1>6 DEF WrongCodes
  <2>2. /\ IsFiniteSet(wrong) /\ Cardinality(wrong) \in Nat
        /\ IsFiniteSet(calling) /\ Cardinality(calling) \in Nat
        /\ IsFiniteSet(calling') /\ Cardinality(calling') \in Nat
    BY <1>1, <2>0, WindowTypes, WindowTypesPrime
  <2>3. IsFiniteSet(ThreadsOf(p)) /\ Cardinality(ThreadsOf(p)) \in Nat
    BY ThreadSetsAreFinite DEF ThreadsOf
  <2>4. CASE calling' \subseteq calling
    <3>1. Cardinality(calling') <= Cardinality(calling)
      <4> HIDE DEF calling
      <4> QED
        BY <2>2, <2>4, FS_Subset
    <3>2. Cardinality(wrong) + Cardinality(calling) <= MaxFailures - 1 + Cardinality(ThreadsOf(p))
      BY <1>1 DEF LimitInv, ThreadsBoundWindow
    <3> HIDE DEF wrong, calling
    <3> QED
      BY <1>2, <2>1, <2>2, <2>3, <3>1, <3>2
  <2>5. CASE ~(calling' \subseteq calling)
    <3>1. /\ pc'[t] = "calling" /\ at > u - Shortened /\ at <= u
      BY <1>4, <2>5 DEF CallingIn
    <3>2. now - WindowSeconds <= since
      BY <1>1, <1>2, <1>3, <3>1 DEF Shortened
    <3> DEFINE failed == FailedSince(p, client, since)
    <3>3. /\ FailuresSince(evaluated[p][client], since)
                <= FailuresSince(left, since) + Cardinality(failed')
          /\ FailuresSince(left, since) \in Nat
          /\ FailuresSince(left, since) <= Len(left)
          /\ Cardinality(failed') \in Nat
      <4> HIDE DEF since
      <4> QED
        BY <1>9, <2>0, <3>2
    <3>4. Cardinality(wrong) <= FailuresSince(evaluated[p][client], since)
      <4> DEFINE young == {i \in DOMAIN evaluated[p][client] : evaluated[p][client][i] > since}
      <4>1. wrong \in SUBSET young
        BY DEF WrongCodes
      <4>2. evaluated[p][client] \in Seq(0..MaxTime) /\ young \in SUBSET DOMAIN evaluated[p][client]
        BY <1>1 DEF Typed, TypeOK
      <4>3. IsFiniteSet(young)
        <5> HIDE DEF young
        <5> QED
          BY <4>2, PositionsAreFinite
      <4>4. Cardinality(wrong) <= Cardinality(young)
        <5> HIDE DEF young, wrong
        <5> QED
          BY <4>1, <4>3, FS_Subset
      <4> QED
        BY <4>4 DEF FailuresSince
    <3>5. Len(left) <= MaxFailures - 1 /\ Len(left) \in Nat
      BY <1>1, <1>2, <1>5, <3>1, LenProperties DEF IsLimited
    <3>6. Cardinality(failed') + Cardinality(calling') <= Cardinality(ThreadsOf(p))
      <4>1. failed' \cap calling' = {}
        BY DEF FailedSince, CallingIn
      <4>2. failed' \cup calling' \in SUBSET ThreadsOf(p)
        BY DEF FailedSince, CallingIn, ThreadsOf, Typed, TypeOK
      <4>3. IsFiniteSet(failed')
        BY <1>1, <2>0, SinceTypesPrime
      <4> HIDE DEF failed, calling
      <4>4. Cardinality(failed' \cup calling')
                = Cardinality(failed') + Cardinality(calling') - Cardinality({})
        BY <2>2, <4>1, <4>3, FS_Union
      <4>5. Cardinality(failed' \cup calling') <= Cardinality(ThreadsOf(p))
        BY <2>3, <4>2, FS_Subset
      <4>6. Cardinality({}) = 0
        BY FS_EmptySet
      <4> QED
        BY <2>2, <2>3, <3>3, <4>4, <4>5, <4>6
    <3>7. FailuresSince(evaluated[p][client], since) \in Nat
      BY <1>1, <2>0, SinceTypes
    <3> HIDE DEF wrong, calling, failed
    <3> QED
      BY <1>2, <2>1, <2>2, <2>3, <3>3, <3>4, <3>5, <3>6, <3>7
  <2> QED
    BY <2>4, <2>5
<1>12. ThreadsBoundWindow(p, client)'
  BY <1>11 DEF ThreadsBoundWindow, ThreadsOf
<1> QED
  BY <1>10, <1>12

PositionsIn(times, low, high) == {i \in DOMAIN times : times[i] > low /\ times[i] <= high}

\* A window of one more wrong code.
LEMMA WrongAppend ==
    ASSUME NEW times \in Seq(0..MaxTime), NEW at \in 0..MaxTime, NEW low \in Int, NEW high \in Int
    PROVE  Cardinality(PositionsIn(Append(times, at), low, high))
               = Cardinality(PositionsIn(times, low, high))
                 + (IF at > low /\ at <= high THEN 1 ELSE 0)
<1> DEFINE more == Append(times, at)
           wrong == {i \in DOMAIN times : times[i] > low /\ times[i] <= high}
           wrongOfMore == {i \in DOMAIN more : more[i] > low /\ more[i] <= high}
<1>1. /\ Len(times) \in Nat /\ DOMAIN times = 1..Len(times)
      /\ DOMAIN more = 1..(Len(times) + 1)
      /\ \A i \in 1..Len(times) : more[i] = times[i]
      /\ more[Len(times) + 1] = at
  BY AppendProperties
<1> HIDE DEF more
<1>2. wrongOfMore = IF at > low /\ at <= high THEN wrong \cup {Len(times) + 1} ELSE wrong
  BY <1>1
<1>3. Len(times) + 1 \notin wrong
  BY <1>1
<1>4. IsFiniteSet(wrong) /\ Cardinality(wrong) \in Nat
  BY PositionsAreFinite
<1>5. Cardinality(wrong \cup {Len(times) + 1}) = Cardinality(wrong) + 1
  <2> HIDE DEF wrong
  <2> QED
    BY <1>3, <1>4, FS_AddElement
<1>6. Cardinality(wrongOfMore) = Cardinality(wrong) + (IF at > low /\ at <= high THEN 1 ELSE 0)
  <2> HIDE DEF wrong, wrongOfMore
  <2> QED
    BY <1>2, <1>4, <1>5
<1> QED
  BY <1>6 DEF more, PositionsIn

\* A code found wrong leaves the worker for the thread that will count it.
LEMMA FoundWrong ==
    ASSUME Typed, LimitInv, NEW t \in Threads, NEW reason \in WorkerAnswers, IsFailure(reason),
           WorkerReplies(t, reason), Typed',
           NEW p, p = ProcessOf[t], NEW client, client = request[t].client
    PROVE  (NoFailureForgotten(p, client) /\ ThreadsBoundWindow(p, client))'
<1> DEFINE at == request[t].at
           more == Append(evaluated[p][client], at)
<1>1. /\ t \in DOMAIN request /\ pc[t] = "calling" /\ p \in Processes /\ client \in Clients
      /\ evaluated[p][client] \in Seq(0..MaxTime) /\ at \in 0..MaxTime
  <2>1. t \in DOMAIN request /\ pc[t] = "calling"
    BY DEF WorkerReplies, Typed, Running
  <2>2. p \in Processes /\ client \in Clients /\ at \in 0..MaxTime
    BY <2>1, RecentType DEF Request
  <2> QED
    BY <2>1, <2>2 DEF Typed, TypeOK
<1>2. 0..MaxTime \in SUBSET Int /\ Shortened \in Int /\ MaxFailures \in Int
  BY CallAssumption, PolicyAssumption DEF Shortened
<1>3. /\ DOMAIN request' = DOMAIN request
      /\ \A u \in DOMAIN request \ {t} : request'[u] = request[u] /\ pc'[u] = pc[u]
      /\ request'[t].client = client /\ request'[t].at = at
      /\ now' = now
  BY ReasonGiven
<1>4. /\ pc'[t] = "failed"
      /\ failures' = failures
      /\ evaluated' = [evaluated EXCEPT ![p][client] = more]
      /\ evaluated \in [Processes -> [Clients -> Seq(0..MaxTime)]]
  BY DEF WorkerReplies, Typed, TypeOK
<1> HIDE DEF at
<1>5. evaluated'[p][client] = more
  BY <1>1, <1>4
<1>6. ASSUME NEW since \in Int, now - WindowSeconds <= since
      PROVE  FailuresSince(more, since)
                 <= FailuresSince(failures[p][client], since)
                    + Cardinality(FailedSince(p, client, since)')
  <2> DEFINE failed == FailedSince(p, client, since)
  <2>1. failed' = IF at > since THEN failed \cup {t} ELSE failed
    BY <1>1, <1>3, <1>4 DEF FailedSince
  <2>2. t \notin failed /\ IsFiniteSet(failed) /\ Cardinality(failed) \in Nat
    BY <1>1, SinceTypes DEF FailedSince
  <2>3. FailuresSince(more, since)
            = FailuresSince(evaluated[p][client], since) + (IF at > since THEN 1 ELSE 0)
    BY <1>1, SinceAppend
  <2>4. FailuresSince(evaluated[p][client], since)
            <= FailuresSince(failures[p][client], since) + Cardinality(failed)
    BY <1>1, <1>6 DEF LimitInv, NoFailureForgotten
  <2>5. /\ FailuresSince(evaluated[p][client], since) \in Nat
        /\ FailuresSince(failures[p][client], since) \in Nat
    BY <1>1, SinceTypes
  <2> SUFFICES FailuresSince(more, since)
                   <= FailuresSince(failures[p][client], since) + Cardinality(failed')
    OBVIOUS
  <2> HIDE DEF failed, more
  <2>6. Cardinality(failed \cup {t}) = Cardinality(failed) + 1
    BY <2>2, FS_AddElement
  <2> QED
    BY <2>1, <2>2, <2>3, <2>4, <2>5, <2>6
<1>7. NoFailureForgotten(p, client)'
  BY <1>3, <1>4, <1>5, <1>6 DEF NoFailureForgotten
<1>8. ASSUME NEW u \in 0..MaxTime
      PROVE  Cardinality(WrongCodes(p, client, Shortened, u)')
             + Cardinality(CallingIn(p, client, Shortened, u)')
                 <= MaxFailures - 1 + Cardinality(ThreadsOf(p))
  <2> DEFINE wrong == WrongCodes(p, client, Shortened, u)
             calling == CallingIn(p, client, Shortened, u)
             inWindow == at > u - Shortened /\ at <= u
  <2>0. u \in Int /\ u - Shortened \in Int
    BY <1>2
  <2>1. Cardinality(wrong') = Cardinality(wrong) + (IF inWindow THEN 1 ELSE 0)
    <3>1. wrong = PositionsIn(evaluated[p][client], u - Shortened, u)
      BY DEF WrongCodes, PositionsIn
    <3>2. wrong' = PositionsIn(more, u - Shortened, u)
      BY <1>5 DEF WrongCodes, PositionsIn, Shortened
    <3> HIDE DEF wrong
    <3> QED
      BY <1>1, <2>0, <3>1, <3>2, WrongAppend
  <2>2. calling' = calling \ {t}
    BY <1>1, <1>3, <1>4 DEF CallingIn
  <2>3. inWindow => t \in calling
    BY <1>1 DEF CallingIn, at
  <2>4. /\ Cardinality(wrong) \in Nat /\ IsFiniteSet(calling) /\ Cardinality(calling) \in Nat
    BY <1>1, <2>0, WindowTypes
  <2>5. Cardinality(wrong) + Cardinality(calling) <= MaxFailures - 1 + Cardinality(ThreadsOf(p))
    BY <1>1 DEF LimitInv, ThreadsBoundWindow
  <2>6. Cardinality(ThreadsOf(p)) \in Nat
    BY ThreadSetsAreFinite DEF ThreadsOf
  <2> SUFFICES Cardinality(wrong') + Cardinality(calling')
                   <= MaxFailures - 1 + Cardinality(ThreadsOf(p))
    OBVIOUS
  <2> HIDE DEF wrong, calling, inWindow
  <2>7. Cardinality(calling \ {t})
            = IF t \in calling THEN Cardinality(calling) - 1 ELSE Cardinality(calling)
    BY <2>4, FS_RemoveElement
  <2> QED
    BY <1>2, <2>1, <2>2, <2>3, <2>4, <2>5, <2>6, <2>7
<1>9. ThreadsBoundWindow(p, client)'
  BY <1>8 DEF ThreadsBoundWindow, ThreadsOf
<1> QED
  BY <1>7, <1>9

\* A failure leaves its thread for the deque.
LEMMA Counted ==
    ASSUME Typed, LimitInv, NEW t \in Threads, CountFailure(t), Typed',
           NEW p, p = ProcessOf[t], NEW client, client = request[t].client
    PROVE  (NoFailureForgotten(p, client) /\ ThreadsBoundWindow(p, client))'
<1> DEFINE at == request[t].at
           more == Append(failures[p][client], at)
<1>1. /\ t \in DOMAIN request /\ pc[t] = "failed" /\ p \in Processes /\ client \in Clients
      /\ failures[p][client] \in Seq(0..MaxTime) /\ at \in 0..MaxTime
  <2>1. t \in DOMAIN request /\ pc[t] = "failed"
    BY DEF CountFailure, Typed, Running
  <2>2. p \in Processes /\ client \in Clients /\ at \in 0..MaxTime
    BY <2>1, RecentType DEF Request
  <2> QED
    BY <2>1, <2>2 DEF Typed, TypeOK
<1>2. /\ UNCHANGED <<now, request, evaluated>>
      /\ pc' = [pc EXCEPT ![t] = "answered"] /\ pc \in [Threads -> Steps]
      /\ failures' = [failures EXCEPT ![p][client] = more]
      /\ failures \in [Processes -> [Clients -> Seq(0..MaxTime)]]
  BY DEF CountFailure, FailureTime, Typed, TypeOK
<1>3. pc'[t] = "answered" /\ \A u \in DOMAIN request \ {t} : pc'[u] = pc[u]
  BY <1>2 DEF Typed, TypeOK
<1> HIDE DEF at
<1>4. failures'[p][client] = more
  BY <1>1, <1>2
<1>5. ASSUME NEW since \in Int, now - WindowSeconds <= since
      PROVE  FailuresSince(evaluated[p][client], since)
                 <= FailuresSince(more, since) + Cardinality(FailedSince(p, client, since)')
  <2> DEFINE failed == FailedSince(p, client, since)
  <2>1. failed' = failed \ {t}
    BY <1>1, <1>2, <1>3 DEF FailedSince
  <2>2. t \in failed <=> at > since
    BY <1>1 DEF FailedSince, at
  <2>3. FailuresSince(more, since)
            = FailuresSince(failures[p][client], since) + (IF at > since THEN 1 ELSE 0)
    BY <1>1, SinceAppend
  <2>4. FailuresSince(evaluated[p][client], since)
            <= FailuresSince(failures[p][client], since) + Cardinality(failed)
    BY <1>1, <1>5 DEF LimitInv, NoFailureForgotten
  <2>5. /\ FailuresSince(evaluated[p][client], since) \in Nat
        /\ FailuresSince(failures[p][client], since) \in Nat
        /\ IsFiniteSet(failed) /\ Cardinality(failed) \in Nat
    BY <1>1, SinceTypes
  <2> SUFFICES FailuresSince(evaluated[p][client], since)
                   <= FailuresSince(more, since) + Cardinality(failed')
    OBVIOUS
  <2> HIDE DEF failed, more
  <2>6. Cardinality(failed \ {t})
            = IF t \in failed THEN Cardinality(failed) - 1 ELSE Cardinality(failed)
    BY <2>5, FS_RemoveElement
  <2> QED
    BY <2>1, <2>2, <2>3, <2>4, <2>5, <2>6
<1>6. NoFailureForgotten(p, client)'
  BY <1>2, <1>4, <1>5 DEF NoFailureForgotten
<1>7. ASSUME NEW u \in 0..MaxTime
      PROVE  /\ WrongCodes(p, client, Shortened, u)' = WrongCodes(p, client, Shortened, u)
             /\ CallingIn(p, client, Shortened, u)' = CallingIn(p, client, Shortened, u)
  BY <1>1, <1>2, <1>3 DEF WrongCodes, CallingIn
<1>8. ThreadsBoundWindow(p, client)
  BY <1>1 DEF LimitInv
<1>9. ThreadsBoundWindow(p, client)'
  BY <1>7, <1>8 DEF ThreadsBoundWindow, ThreadsOf
<1> QED
  BY <1>6, <1>9

LEMMA NextLimit ==
    Typed /\ DequesInv /\ LimitInv /\ Typed' /\ [Next]_vars => LimitInv'
<1> SUFFICES ASSUME Typed, DequesInv, LimitInv, Typed', [Next]_vars,
                    NEW p \in Processes, NEW client \in Clients
             PROVE  (NoFailureForgotten(p, client) /\ ThreadsBoundWindow(p, client))'
  BY DEF LimitInv, Processes
<1>0. NoFailureForgotten(p, client) /\ ThreadsBoundWindow(p, client)
  BY DEF LimitInv
<1>a. now \in Int /\ now <= now
  BY CallAssumption DEF Typed, TypeOK
<1> DEFINE Kept == (NoFailureForgotten(p, client) /\ ThreadsBoundWindow(p, client))'
<1> HIDE DEF Kept
<1> SUFFICES Kept
  BY DEF Kept
<1>1. ASSUME NEW t \in Threads, NEW call \in Calls, NEW c \in Clients, NEW code \in Codes,
             Receive(t, call, c, code)
      PROVE  Kept
  <2>1. /\ UNCHANGED <<now, failures, evaluated>>
        /\ DOMAIN request' = DOMAIN request \cup {t} /\ t \notin DOMAIN request
        /\ pc'[t] = "received"
        /\ \A u \in DOMAIN request : request'[u] = request[u] /\ pc'[u] = pc[u]
    BY <1>1 DEF Receive, Typed, TypeOK, Running
  <2> QED
    BY <1>0, <1>a, <2>1, QuietLimit DEF Kept
<1>2. ASSUME NEW t \in Threads, CheckLimit(t) PROVE Kept
  <2>1. CASE p = ProcessOf[t] /\ client = request[t].client
    BY <1>2, <2>1, PassedLimit DEF Kept
  <2>2. CASE ~(p = ProcessOf[t] /\ client = request[t].client)
    <3>1. /\ t \in DOMAIN request /\ pc[t] = "received" /\ DOMAIN request' = DOMAIN request
          /\ \A u \in DOMAIN request \ {t} : request'[u] = request[u] /\ pc'[u] = pc[u]
          /\ request'[t].client = request[t].client
          /\ now' = now
      BY <1>2, ReasonGiven DEF CheckLimit
    <3>2. failures'[p][client] = failures[p][client] /\ evaluated' = evaluated
      BY <1>2, <2>2 DEF CheckLimit, Typed, TypeOK
    <3> QED
      BY <1>0, <1>a, <2>2, <3>1, <3>2, QuietLimit DEF Kept
  <2> QED
    BY <2>1, <2>2
<1>3. ASSUME NEW t \in Threads, NEW reason \in WorkerAnswers, WorkerReplies(t, reason)
      PROVE  Kept
  <2>1. CASE IsFailure(reason) /\ p = ProcessOf[t] /\ client = request[t].client
    BY <1>3, <2>1, FoundWrong DEF Kept
  <2>2. CASE ~(IsFailure(reason) /\ p = ProcessOf[t] /\ client = request[t].client)
    <3>1. /\ t \in DOMAIN request /\ pc[t] = "calling" /\ DOMAIN request' = DOMAIN request
          /\ \A u \in DOMAIN request \ {t} : request'[u] = request[u] /\ pc'[u] = pc[u]
          /\ request'[t].client = request[t].client
          /\ now' = now
      BY <1>3, ReasonGiven DEF WorkerReplies
    <3>2. /\ failures' = failures /\ evaluated'[p][client] = evaluated[p][client]
          /\ pc'[t] # "calling"
      BY <1>3, <2>2 DEF WorkerReplies, Typed, TypeOK
    <3> QED
      BY <1>0, <1>a, <3>1, <3>2, QuietLimit DEF Kept
  <2> QED
    BY <2>1, <2>2
<1>4. ASSUME NEW t \in Threads, WorkerFails(t) PROVE Kept
  <2>1. /\ UNCHANGED <<now, failures, evaluated>>
        /\ pc[t] = "calling" /\ DOMAIN request' = DOMAIN request \ {t}
        /\ \A u \in DOMAIN request' : request'[u] = request[u] /\ pc'[u] = pc[u]
    BY <1>4 DEF WorkerFails, Typed, TypeOK
  <2> QED
    BY <1>0, <1>a, <2>1, QuietLimit DEF Kept
<1>5. ASSUME NEW t \in Threads, CountFailure(t) PROVE Kept
  <2>1. CASE p = ProcessOf[t] /\ client = request[t].client
    BY <1>5, <2>1, Counted DEF Kept
  <2>2. CASE ~(p = ProcessOf[t] /\ client = request[t].client)
    <3>1. /\ UNCHANGED <<now, request, evaluated>>
          /\ pc[t] = "failed" /\ pc'[t] = "answered"
          /\ \A u \in DOMAIN request \ {t} : pc'[u] = pc[u]
          /\ failures'[p][client] = failures[p][client]
      BY <1>5, <2>2 DEF CountFailure, Typed, TypeOK
    <3> QED
      BY <1>0, <1>a, <2>2, <3>1, QuietLimit DEF Kept
  <2> QED
    BY <2>1, <2>2
<1>6. ASSUME NEW t \in Threads, ReadLog(t) PROVE Kept
  <2>1. /\ t \in DOMAIN request /\ request[t] \in Request /\ pc[t] = "answered"
        /\ UNCHANGED <<now, failures, evaluated>>
        /\ pc'[t] \in {"logging", "notifying"}
        /\ \A u \in DOMAIN request \ {t} : pc'[u] = pc[u]
    BY <1>6 DEF ReadLog, Typed, TypeOK, Running
  <2>2. PICK retry \in BOOLEAN : request' = [request EXCEPT ![t].retryAllowed = retry]
    BY <1>6 DEF ReadLog, AllowsCodeRetry
  <2>3. /\ DOMAIN request' = DOMAIN request
        /\ \A u \in DOMAIN request \ {t} : request'[u] = request[u]
    BY <2>1, <2>2
  <2> QED
    BY <1>0, <1>a, <2>1, <2>3, QuietLimit DEF Kept
<1>7. ASSUME NEW t \in Threads, NotifyGuardian(t) PROVE Kept
  <2>1. UNCHANGED <<now, failures, evaluated>>
    BY <1>7 DEF NotifyGuardian
  <2> QED
    BY <1>0, <1>a, <1>7, <2>1, NotifiedRequest, QuietLimit DEF Kept
<1>8. ASSUME NEW t \in Threads, AddRecord(t) PROVE Kept
  <2>1. /\ UNCHANGED <<now, failures, evaluated>>
        /\ pc[t] = "logging" /\ DOMAIN request' = DOMAIN request \ {t}
        /\ \A u \in DOMAIN request' : request'[u] = request[u] /\ pc'[u] = pc[u]
    BY <1>8 DEF AddRecord, Typed, TypeOK
  <2> QED
    BY <1>0, <1>a, <2>1, QuietLimit DEF Kept
<1>9. ASSUME Tick PROVE Kept
  <2>1. now <= now' /\ UNCHANGED <<pc, request, failures, evaluated>>
    BY <1>9, <1>a DEF Tick
  <2> QED
    BY <1>0, <2>1, QuietLimit DEF Kept
<1>10. ASSUME UNCHANGED vars PROVE Kept
  BY <1>0, <1>a, <1>10, QuietLimit DEF Kept, vars
<1> QED
  BY <1>1, <1>2, <1>3, <1>4, <1>5, <1>6, <1>7, <1>8, <1>9, <1>10
     DEF Next, ThreadStep, BoundsReached

\* Requests of any number of threads check the limit, ask the worker and count
\* the answer in any order, and yet a process lets no client have more wrong
\* codes in a shortened window than the limit and one for each further thread
\* (CallVerificationService.execute, _is_rate_limited).
THEOREM OvershootByThreads == Spec => []OvershootIsBounded
<1>1. Typed /\ LimitInv => OvershootIsBounded
  <2> SUFFICES ASSUME Typed, LimitInv, NEW p \in Processes, NEW client \in Clients,
                      NEW t \in 0..MaxTime
               PROVE  Cardinality(WrongCodes(p, client, Shortened, t))
                          <= MaxFailures - 1 + Cardinality(ThreadsOf(p))
    BY DEF OvershootIsBounded, Shortened
  <2>1. Cardinality(WrongCodes(p, client, Shortened, t))
        + Cardinality(CallingIn(p, client, Shortened, t))
            <= MaxFailures - 1 + Cardinality(ThreadsOf(p))
    BY DEF LimitInv, ThreadsBoundWindow
  <2>2. t \in Int
    BY CallAssumption
  <2>3. Cardinality(ThreadsOf(p)) \in Nat /\ MaxFailures \in Int
    BY ThreadSetsAreFinite, PolicyAssumption DEF ThreadsOf
  <2> QED
    BY <2>1, <2>2, <2>3, WindowTypes
<1> QED
  BY InitTyped, NextTyped, InitDeques, NextDeques, InitLimit, NextLimit, <1>1, PTL DEF Spec

-----------------------------------------------------------------------------
(***************************************************************************)
(* The worker behind the api: module IdentityVerification                  *)
(*                                                                         *)
(* What is proved above of the api with a worker that answers anything     *)
(* holds of the two together, because every step of the system is a step   *)
(* of the api or leaves the api alone.                                     *)
(***************************************************************************)
LEMMA ApiSteps == [SystemNext]_systemVars => [Next]_vars
<1> SUFFICES ASSUME [SystemNext]_systemVars PROVE [Next]_vars
  OBVIOUS
<1>1. ASSUME NEW t \in Threads, ApiReceives(t) PROVE Next
  BY <1>1 DEF ApiReceives, Next
<1>2. ASSUME NEW t \in Threads, ApiChecksLimit(t) PROVE Next
  BY <1>2 DEF ApiChecksLimit, Next, ThreadStep
<1>3. ASSUME NEW t \in Threads, ApiFinishes(t) PROVE Next
  BY <1>3 DEF ApiFinishes, Next, ThreadStep
<1>4. ASSUME NEW t \in Threads, WorkerHandles(t) PROVE UNCHANGED vars
  BY <1>4 DEF WorkerHandles, vars, apiVars
<1>5. ASSUME NEW t \in Threads, ReplyArrives(t) PROVE Next
  BY <1>5, NetworkAssumption DEF ReplyArrives, Next
<1>6. ASSUME NEW t \in Threads, CallFails(t) PROVE Next
  BY <1>6 DEF CallFails, Next
<1>7. ASSUME NEW client \in Clients, NEW code \in Codes, LateExecution(client, code)
      PROVE  UNCHANGED vars
  BY <1>7 DEF LateExecution, vars, apiVars
<1>8. CASE StaffActs
  BY <1>8 DEF StaffActs, vars, apiVars
<1>9. CASE WorkerRestarts
  BY <1>9 DEF WorkerRestarts, Worker!Restart, vars, apiVars
<1>10. CASE ClockTicks
  BY <1>10 DEF ClockTicks, Next
<1>11. CASE SystemIsDone
  BY <1>11 DEF SystemIsDone, Next
<1>12. CASE UNCHANGED systemVars
  BY <1>12 DEF systemVars, vars, apiVars
<1> QED
  BY <1>1, <1>2, <1>3, <1>4, <1>5, <1>6, <1>7, <1>8, <1>9, <1>10, <1>11, <1>12
     DEF SystemNext

\* The api with the modelled worker behind it behaves as one of the behaviours
\* of the api with an open worker: lost replies, late executions and restarts
\* add nothing that CallVerification leaves out.
THEOREM SystemRefinesApi == SystemSpec => Spec
<1>1. SystemInit => Init
  BY DEF SystemInit
<1> QED
  BY <1>1, ApiSteps, PTL DEF SystemSpec, Spec

-----------------------------------------------------------------------------
\* A thread waits on the wire exactly while it is calling, and knows no reason
\* before that call has an end.
OnTheWire ==
    /\ wire \in [Threads -> Answers \cup {"none", "asked", "broken"}]
    /\ \A t \in Threads : wire[t] # "none" <=> pc[t] = "calling"
    /\ \A t \in DOMAIN request : pc[t] \in {"received", "calling"} => request[t].reason = ""

NetTyped ==
    /\ OnTheWire
    /\ late \in [Clients \X Codes -> Nat]
    /\ tally \in [granted : Nat, lost : Nat]

WorkerTyped ==
    /\ generation \in Nat
    /\ workerFailures \in [Addresses -> Seq(0..MaxTime)]
    /\ workerEvaluated \in [Addresses -> Seq(0..MaxTime)]

SystemTyped == Typed /\ NetTyped /\ WorkerTyped

LEMMA AnswerType ==
    ASSUME NEW key, NEW code PROVE Worker!Answer(key, code) \in Answers
BY DEF Worker!Answer, Worker!Outcome, Answers, Worker!Reasons

\* The names on the wire that are no answers.
LEMMA AnswerNames == Answers = WorkerReasons /\ {"none", "asked", "broken"} \cap Answers = {}
BY DEF Answers, Worker!Reasons, WorkerReasons

\* Who asks: a thread with a request, under an address of its client.
LEMMA AskerKnown ==
    ASSUME SystemTyped, NEW t \in Threads, wire[t] # "none"
    PROVE  /\ t \in DOMAIN request /\ pc[t] = "calling" /\ request[t].reason = ""
           /\ request[t].client \in Clients /\ request[t].code \in Codes
           /\ ProcessOf[t] \in Processes
<1>1. pc[t] = "calling"
  BY DEF SystemTyped, NetTyped, OnTheWire
<1>2. t \in DOMAIN request
  BY <1>1 DEF SystemTyped, Typed, Running
<1>3. request[t] \in Request
  BY <1>2 DEF SystemTyped, Typed, TypeOK
<1> QED
  BY <1>1, <1>2, <1>3 DEF SystemTyped, NetTyped, OnTheWire, Request, Processes

LEMMA KeyType == ASSUME NEW client \in Clients PROVE ClientKey(client) \in Addresses
BY DEF ClientKey, Addresses

\* Every step of the system is a step of the worker or leaves it alone.
LEMMA WorkerSteps == SystemTyped /\ [SystemNext]_systemVars => [Worker!Next]_Worker!vars
<1> SUFFICES ASSUME SystemTyped, [SystemNext]_systemVars PROVE [Worker!Next]_Worker!vars
  OBVIOUS
<1> DEFINE Quiet == UNCHANGED <<now, workerVars>>
<1>1. ASSUME Quiet PROVE UNCHANGED Worker!vars
  BY <1>1 DEF workerVars, Worker!vars, Worker!history
<1>2. ASSUME NEW t \in Threads,
             \/ ApiReceives(t) \/ ApiChecksLimit(t) \/ ApiFinishes(t)
             \/ ReplyArrives(t) \/ CallFails(t)
      PROVE  Quiet
  BY <1>2 DEF ApiReceives, ApiChecksLimit, ApiFinishes, ReplyArrives, CallFails, Receive,
              CheckLimit, CountFailure, ReadLog, NotifyGuardian, AddRecord, WorkerReplies,
              WorkerFails
<1>3. ASSUME NEW t \in Threads, WorkerHandles(t) PROVE Worker!Next
  <2>1. ClientKey(request[t].client) \in Addresses /\ request[t].code \in Codes
    BY <1>3, AskerKnown, KeyType DEF WorkerHandles
  <2>2. Worker!Verify(ClientKey(request[t].client), request[t].code)
    BY <1>3 DEF WorkerHandles
  <2> QED
    BY <2>1, <2>2 DEF Worker!Next
<1>4. ASSUME NEW client \in Clients, NEW code \in Codes, LateExecution(client, code)
      PROVE  Worker!Next
  BY <1>4, KeyType DEF LateExecution, Worker!Next
<1>5. CASE StaffActs
  BY <1>5 DEF StaffActs, Worker!Next
<1>6. CASE WorkerRestarts
  BY <1>6 DEF WorkerRestarts, Worker!Next
<1>7. CASE ClockTicks
  <2>1. Worker!Tick
    BY <1>7 DEF ClockTicks, Tick, workerVars, Worker!Tick, Worker!history
  <2> QED
    BY <2>1 DEF Worker!Next
<1>8. CASE SystemIsDone \/ UNCHANGED systemVars
  <2>1. Quiet
    BY <1>8 DEF SystemIsDone, BoundsReached, vars, systemVars
  <2> QED
    BY <1>1, <2>1
<1> QED
  BY <1>1, <1>2, <1>3, <1>4, <1>5, <1>6, <1>7, <1>8 DEF SystemNext

-----------------------------------------------------------------------------
\* The worker's deque is the deque of AttemptStore.
LEMMA WorkerDeque ==
    ASSUME NEW key
    PROVE  /\ Worker!Recent(key) = AfterPurge(workerFailures[key], WindowStart(now))
           /\ Worker!Limited(key) <=> IsLimited(Len(Worker!Recent(key)))
BY DEF Worker!Recent, Worker!AfterPurge, AfterPurge, Worker!StaleHead, StaleHead,
       Worker!WindowStart, WindowStart, Worker!Limited, Worker!IsLimited, IsLimited

LEMMA WorkerRecentType ==
    ASSUME SystemTyped, NEW key \in Addresses
    PROVE  /\ Worker!Recent(key) \in Seq(0..MaxTime)
           /\ Append(Worker!Recent(key), now) \in Seq(0..MaxTime)
           /\ Append(workerEvaluated[key], now) \in Seq(0..MaxTime)
<1>1. now \in 0..MaxTime /\ MaxTime \in Nat
  BY CallAssumption DEF SystemTyped, Typed, TypeOK
<1>2. WindowStart(now) \in Int /\ 0..MaxTime \in SUBSET Int
  BY <1>1, PolicyAssumption DEF WindowStart
<1>3. workerFailures[key] \in Seq(0..MaxTime) /\ workerEvaluated[key] \in Seq(0..MaxTime)
  BY DEF SystemTyped, WorkerTyped
<1>4. Worker!Recent(key) \in Seq(0..MaxTime)
  BY <1>2, <1>3, WorkerDeque, AfterPurgeProperties
<1> QED
  BY <1>1, <1>3, <1>4, AppendProperties

\* What one execution of the worker's handler does to the limiter, and what it
\* answers.
LEMMA VerifyEffect ==
    ASSUME NEW key, NEW code, Worker!Verify(key, code)
    PROVE  LET answer == Worker!Answer(key, code) IN
           /\ UNCHANGED <<now, generation>>
           /\ answer = "rate_limited" <=> Worker!Limited(key)
           /\ IF IsFailure(answer)
              THEN /\ workerFailures' = [workerFailures EXCEPT ![key] =
                                            Append(Worker!Recent(key), now)]
                   /\ workerEvaluated' = [workerEvaluated EXCEPT ![key] = Append(@, now)]
              ELSE /\ workerFailures' = [workerFailures EXCEPT ![key] = Worker!Recent(key)]
                   /\ UNCHANGED workerEvaluated
<1>1. Worker!Outcome(code) # "rate_limited"
  BY DEF Worker!Outcome
<1>2. CASE Worker!VerifyRefused(key)
  BY <1>1, <1>2 DEF Worker!VerifyRefused, Worker!Answer, Worker!history, IsFailure
<1>3. CASE Worker!VerifyFailed(key, code)
  BY <1>1, <1>3 DEF Worker!VerifyFailed, Worker!RecordFailure, Worker!Answer, IsFailure
<1>4. CASE Worker!VerifyAccepted(key, code)
  BY <1>1, <1>4 DEF Worker!VerifyAccepted, Worker!Answer, IsFailure
<1> QED
  BY <1>2, <1>3, <1>4 DEF Worker!Verify

LEMMA VerifyTyped ==
    ASSUME SystemTyped, NEW key \in Addresses, NEW code, Worker!Verify(key, code)
    PROVE  WorkerTyped'
<1> DEFINE answer == Worker!Answer(key, code)
<1>1. /\ generation' = generation
      /\ \/ /\ workerFailures' = [workerFailures EXCEPT ![key] = Append(Worker!Recent(key), now)]
            /\ workerEvaluated' = [workerEvaluated EXCEPT ![key] =
                                      Append(workerEvaluated[key], now)]
         \/ /\ workerFailures' = [workerFailures EXCEPT ![key] = Worker!Recent(key)]
            /\ workerEvaluated' = workerEvaluated
  BY VerifyEffect
<1> QED
  BY <1>1, WorkerRecentType DEF SystemTyped, WorkerTyped

LEMMA InitSystem == SystemInit => SystemTyped
<1> SUFFICES ASSUME SystemInit PROVE SystemTyped
  OBVIOUS
<1>1. Typed /\ \A t \in Threads : pc[t] = "idle"
  BY InitTyped DEF SystemInit, Init
<1>2. DOMAIN request = {}
  BY DEF SystemInit, Init
<1>3. NetTyped
  BY <1>1, <1>2 DEF SystemInit, NetTyped, OnTheWire
<1>4. WorkerTyped
  BY EmptySeq DEF SystemInit, Worker!Init, WorkerTyped
<1> QED
  BY <1>1, <1>3, <1>4 DEF SystemTyped

\* What the api's own actions do to the wire and to what a thread knows.
LEMMA ReceiveEffect ==
    ASSUME SystemTyped, NEW t \in Threads, NEW call \in Calls, NEW client \in Clients,
           NEW code \in Codes, Receive(t, call, client, code)
    PROVE  /\ t \notin DOMAIN request /\ wire[t] = "none"
           /\ DOMAIN request' = DOMAIN request \cup {t}
           /\ request'[t].reason = "" /\ request'[t].client = client /\ request'[t].at = now
           /\ \A u \in DOMAIN request : request'[u] = request[u] /\ pc'[u] = pc[u]
           /\ pc' = [pc EXCEPT ![t] = "received"]
           /\ received' = received + 1 /\ received < MaxRequests
           /\ UNCHANGED <<now, failures, log, sent, evaluated>>
<1>1. t \notin DOMAIN request /\ wire[t] = "none"
  BY DEF Receive, SystemTyped, Typed, Running, NetTyped, OnTheWire
<1>2. DOMAIN request \subseteq Threads /\ pc \in [Threads -> Steps]
  BY DEF SystemTyped, Typed, TypeOK
<1> QED
  BY <1>1, <1>2 DEF Receive

LEMMA CheckEffect ==
    ASSUME SystemTyped, NEW t \in Threads, CheckLimit(t)
    PROVE  /\ t \in DOMAIN request /\ pc[t] = "received" /\ wire[t] = "none"
           /\ DOMAIN request' = DOMAIN request
           /\ \A u \in DOMAIN request \ {t} : request'[u] = request[u]
           /\ request'[t].client = request[t].client /\ request'[t].at = request[t].at
           /\ \/ /\ pc' = [pc EXCEPT ![t] = "calling"]
                 /\ request'[t].reason = ""
              \/ /\ pc' = [pc EXCEPT ![t] = "answered"]
                 /\ request'[t].reason = "rate_limited" /\ Limited(t)
           /\ failures' = [failures EXCEPT ![ProcessOf[t]][request[t].client] = Recent(t)]
           /\ UNCHANGED <<now, log, sent, received, evaluated>>
<1>1. /\ t \in DOMAIN request /\ pc[t] = "received"
      /\ DOMAIN request' = DOMAIN request
      /\ \A u \in DOMAIN request \ {t} : request'[u] = request[u]
      /\ request'[t].client = request[t].client /\ request'[t].at = request[t].at
  BY ReasonGiven DEF CheckLimit, SystemTyped
<1>2. wire[t] = "none" /\ request[t].reason = "" /\ request[t] \in Request
  BY <1>1 DEF SystemTyped, NetTyped, OnTheWire, Typed, TypeOK
<1>3. ASSUME Limited(t), request' = [request EXCEPT ![t].reason = "rate_limited"]
      PROVE  request'[t].reason = "rate_limited"
  BY <1>1, <1>2, <1>3 DEF Request
<1> QED
  BY <1>1, <1>2, <1>3 DEF CheckLimit

LEMMA ReplyEffect ==
    ASSUME SystemTyped, NEW t \in Threads, ReplyArrives(t)
    PROVE  /\ t \in DOMAIN request /\ wire[t] \in Answers
           /\ wire' = [wire EXCEPT ![t] = "none"]
           /\ DOMAIN request' = DOMAIN request
           /\ \A u \in DOMAIN request \ {t} : request'[u] = request[u] /\ pc'[u] = pc[u]
           /\ request'[t].client = request[t].client /\ request'[t].at = request[t].at
           /\ request'[t].reason = wire[t]
           /\ pc' = [pc EXCEPT ![t] = IF IsFailure(wire[t]) THEN "failed" ELSE "answered"]
           /\ evaluated' = IF IsFailure(wire[t])
                           THEN [evaluated EXCEPT ![ProcessOf[t]][request[t].client] =
                                    Append(@, request[t].at)]
                           ELSE evaluated
           /\ UNCHANGED <<now, failures, log, sent, received, workerVars, late, tally>>
<1>1. wire[t] \in Answers /\ WorkerReplies(t, wire[t]) /\ wire[t] \in WorkerAnswers
  BY NetworkAssumption DEF ReplyArrives
<1>2. /\ t \in DOMAIN request
      /\ DOMAIN request' = DOMAIN request
      /\ \A u \in DOMAIN request \ {t} : request'[u] = request[u] /\ pc'[u] = pc[u]
      /\ request'[t].client = request[t].client /\ request'[t].at = request[t].at
  BY <1>1, ReasonGiven DEF SystemTyped
<1>3. request[t] \in Request
  BY <1>2 DEF SystemTyped, Typed, TypeOK
<1>4. request'[t].reason = wire[t]
  BY <1>1, <1>2, <1>3 DEF WorkerReplies, Request
<1> QED
  BY <1>1, <1>2, <1>4 DEF WorkerReplies, ReplyArrives

LEMMA FailEffect ==
    ASSUME SystemTyped, NEW t \in Threads, CallFails(t)
    PROVE  /\ t \in DOMAIN request /\ wire[t] # "none"
           /\ wire' = [wire EXCEPT ![t] = "none"]
           /\ DOMAIN request' = DOMAIN request \ {t}
           /\ \A u \in DOMAIN request \ {t} : request'[u] = request[u]
           /\ pc' = [pc EXCEPT ![t] = "idle"]
           /\ UNCHANGED <<now, failures, log, sent, received, evaluated, workerVars>>
BY AskerKnown DEF CallFails, CallRaises, WorkerFails

\* After the reply: no step here touches the wire or the reason.
LEMMA FinishEffect ==
    ASSUME SystemTyped, NEW t \in Threads, CountFailure(t) \/ ReadLog(t) \/ NotifyGuardian(t)
    PROVE  /\ t \in DOMAIN request /\ wire[t] = "none"
           /\ DOMAIN request' = DOMAIN request
           /\ \A u \in DOMAIN request \ {t} : request'[u] = request[u]
           /\ request'[t].client = request[t].client /\ request'[t].at = request[t].at
           /\ request'[t].reason = request[t].reason
           /\ \E step \in {"answered", "notifying", "logging"} : pc' = [pc EXCEPT ![t] = step]
           /\ UNCHANGED <<now, log, received, evaluated>>
<1>1. t \in DOMAIN request /\ request[t] \in Request /\ wire[t] = "none"
  BY DEF CountFailure, ReadLog, NotifyGuardian, SystemTyped, Typed, TypeOK, Running, NetTyped,
         OnTheWire
<1>2. CASE CountFailure(t)
  BY <1>1, <1>2 DEF CountFailure
<1>3. CASE ReadLog(t)
  <2>1. \E b \in BOOLEAN : request' = [request EXCEPT ![t].retryAllowed = b]
    BY <1>3 DEF ReadLog, AllowsCodeRetry
  <2> QED
    BY <1>1, <1>3, <2>1 DEF ReadLog, Request
<1>4. CASE NotifyGuardian(t)
  BY <1>1, <1>4 DEF NotifyGuardian, Request
<1> QED
  BY <1>2, <1>3, <1>4

LEMMA RecordEffect ==
    ASSUME SystemTyped, NEW t \in Threads, AddRecord(t)
    PROVE  /\ t \in DOMAIN request /\ wire[t] = "none"
           /\ DOMAIN request' = DOMAIN request \ {t}
           /\ \A u \in DOMAIN request \ {t} : request'[u] = request[u]
           /\ pc' = [pc EXCEPT ![t] = "idle"]
           /\ UNCHANGED <<now, failures, sent, received, evaluated>>
<1>1. t \in DOMAIN request /\ wire[t] = "none"
  BY DEF AddRecord, SystemTyped, Typed, Running, NetTyped, OnTheWire
<1> QED
  BY <1>1 DEF AddRecord

-----------------------------------------------------------------------------
\* A step of one thread at the api that leaves the wire of the others alone.
LEMMA ThreadOnTheWire ==
    ASSUME SystemTyped, NEW t \in Threads, NEW step \in Steps,
           NEW message \in Answers \cup {"none", "asked", "broken"},
           pc' = [pc EXCEPT ![t] = step], wire' = [wire EXCEPT ![t] = message],
           message # "none" <=> step = "calling",
           DOMAIN request' \subseteq DOMAIN request \cup {t},
           \A u \in DOMAIN request' \ {t} : request'[u] = request[u],
           t \in DOMAIN request' /\ step \in {"received", "calling"} => request'[t].reason = ""
    PROVE  OnTheWire'
<1>1. pc \in [Threads -> Steps] /\ DOMAIN request \subseteq Threads
  BY DEF SystemTyped, Typed, TypeOK
<1>2. OnTheWire
  BY DEF SystemTyped, NetTyped
<1>3. wire' \in [Threads -> Answers \cup {"none", "asked", "broken"}]
  BY <1>2 DEF OnTheWire
<1>4. /\ pc'[t] = step /\ wire'[t] = message
      /\ \A u \in Threads \ {t} : pc'[u] = pc[u] /\ wire'[u] = wire[u]
  BY <1>1, <1>2 DEF OnTheWire
<1>5. \A u \in Threads : wire'[u] # "none" <=> pc'[u] = "calling"
  BY <1>2, <1>4 DEF OnTheWire
<1>6. ASSUME NEW u \in Threads, u \in DOMAIN request', pc'[u] \in {"received", "calling"}
      PROVE  request'[u].reason = ""
  <2>1. CASE u = t
    <3>1. pc'[u] = step
      BY <1>4, <2>1
    <3>2. t \in DOMAIN request'
      BY <1>6, <2>1
    <3>3. step \in {"received", "calling"}
      BY <1>6, <3>1
    <3>4. request'[t].reason = ""
      BY <3>2, <3>3
    <3> QED
      BY <2>1, <3>4
  <2>2. CASE u # t
    <3>1. u \in DOMAIN request /\ request'[u] = request[u]
      BY <1>6, <2>2
    <3>2. pc'[u] = pc[u]
      BY <1>4, <2>2
    <3>3. request[u].reason = ""
      BY <1>2, <1>6, <3>1, <3>2 DEF OnTheWire
    <3> QED
      BY <3>1, <3>3
  <2> QED
    BY <2>1, <2>2
<1> QED
  BY <1>1, <1>3, <1>5, <1>6 DEF OnTheWire

LEMMA NextNet == SystemTyped /\ [SystemNext]_systemVars => NetTyped'
<1> SUFFICES ASSUME SystemTyped, [SystemNext]_systemVars PROVE NetTyped'
  OBVIOUS
<1>1. /\ NetTyped /\ OnTheWire
      /\ wire \in [Threads -> Answers \cup {"none", "asked", "broken"}]
      /\ late \in [Clients \X Codes -> Nat]
      /\ tally \in [granted : Nat, lost : Nat]
  BY DEF SystemTyped, NetTyped, OnTheWire
<1>2. \A step \in {"idle", "received", "calling", "failed", "answered", "notifying", "logging"} :
          step \in Steps
  BY DEF Steps
<1>3. ASSUME NEW t \in Threads, ApiReceives(t) PROVE NetTyped'
  <2>1. PICK call \in Calls, client \in Clients, code \in Codes : Receive(t, call, client, code)
    BY <1>3 DEF ApiReceives
  <2>0. wire' = wire /\ late' = late /\ tally' = tally
    BY <1>3 DEF ApiReceives, netVars
  <2>2. /\ wire[t] = "none" /\ pc' = [pc EXCEPT ![t] = "received"]
        /\ DOMAIN request' = DOMAIN request \cup {t} /\ request'[t].reason = ""
        /\ \A u \in DOMAIN request : request'[u] = request[u]
    BY <2>1, ReceiveEffect
  <2>4. wire' = [wire EXCEPT ![t] = "none"]
    BY <1>1, <2>0, <2>2
  <2>3. OnTheWire'
    BY <1>2, <2>2, <2>4, ThreadOnTheWire
  <2> QED
    BY <1>1, <2>0, <2>3 DEF NetTyped
<1>4. ASSUME NEW t \in Threads, ApiChecksLimit(t) PROVE NetTyped'
  <2>1. CheckLimit(t) /\ late' = late /\ tally' = tally
    BY <1>4 DEF ApiChecksLimit
  <2>2. PICK step \in {"calling", "answered"} : pc' = [pc EXCEPT ![t] = step]
    BY <2>1, CheckEffect
  <2>3. step = pc'[t]
    BY <2>2 DEF SystemTyped, Typed, TypeOK
  <2>4. wire' = [wire EXCEPT ![t] = IF step = "calling" THEN "asked" ELSE "none"]
    BY <1>4, <2>3 DEF ApiChecksLimit
  <2>5. step = "calling" => request'[t].reason = ""
    BY <2>1, <2>3, CheckEffect DEF SystemTyped, Typed, TypeOK
  <2> DEFINE message == IF step = "calling" THEN "asked" ELSE "none"
  <2>7. /\ message \in Answers \cup {"none", "asked", "broken"}
        /\ message # "none" <=> step = "calling"
        /\ wire' = [wire EXCEPT ![t] = message]
    BY <2>4
  <2> HIDE DEF message
  <2>8. /\ DOMAIN request' \subseteq DOMAIN request \cup {t}
        /\ \A u \in DOMAIN request' \ {t} : request'[u] = request[u]
        /\ step \in Steps
        /\ t \in DOMAIN request' /\ step \in {"received", "calling"} => request'[t].reason = ""
    BY <1>2, <2>1, <2>5, CheckEffect
  <2>6. OnTheWire'
    BY <2>2, <2>7, <2>8, ThreadOnTheWire
  <2> QED
    BY <1>1, <2>1, <2>6 DEF NetTyped
<1>5. ASSUME NEW t \in Threads, ApiFinishes(t) PROVE NetTyped'
  <2>1. UNCHANGED netVars
    BY <1>5 DEF ApiFinishes
  <2>2. CASE AddRecord(t)
    <3>1. wire' = [wire EXCEPT ![t] = "none"]
      BY <1>1, <2>1, <2>2, RecordEffect DEF netVars
    <3>2. OnTheWire'
      BY <1>2, <2>2, <3>1, RecordEffect, ThreadOnTheWire
    <3> QED
      BY <1>1, <2>1, <3>2 DEF NetTyped, netVars
  <2>3. CASE CountFailure(t) \/ ReadLog(t) \/ NotifyGuardian(t)
    <3>1. wire' = [wire EXCEPT ![t] = "none"]
      BY <1>1, <2>1, <2>3, FinishEffect DEF netVars
    <3>2. PICK step \in {"answered", "notifying", "logging"} : pc' = [pc EXCEPT ![t] = step]
      BY <2>3, FinishEffect
    <3>4. /\ DOMAIN request' \subseteq DOMAIN request \cup {t}
          /\ \A u \in DOMAIN request' \ {t} : request'[u] = request[u]
          /\ step \in Steps /\ step \notin {"received", "calling"}
      BY <1>2, <2>3, FinishEffect
    <3>3. OnTheWire'
      BY <3>1, <3>2, <3>4, ThreadOnTheWire
    <3> QED
      BY <1>1, <2>1, <3>3 DEF NetTyped, netVars
  <2> QED
    BY <1>5, <2>2, <2>3 DEF ApiFinishes
<1>6. ASSUME NEW t \in Threads, WorkerHandles(t) PROVE NetTyped'
  <2> DEFINE answer == Worker!Answer(ClientKey(request[t].client), request[t].code)
  <2>1. /\ wire[t] = "asked" /\ wire' = [wire EXCEPT ![t] = answer] /\ answer \in Answers
        /\ tally' = [tally EXCEPT !.granted = @ + IF answer = "verified" THEN 1 ELSE 0]
        /\ UNCHANGED <<pc, request, late>>
    BY <1>6, AnswerType DEF WorkerHandles, apiVars
  <2> HIDE DEF answer
  <2>2. OnTheWire'
    BY <1>1, <2>1, AnswerNames DEF OnTheWire
  <2>3. tally' \in [granted : Nat, lost : Nat]
    BY <1>1, <2>1
  <2> QED
    BY <1>1, <2>1, <2>2, <2>3 DEF NetTyped
<1>7. ASSUME NEW t \in Threads, ReplyArrives(t) PROVE NetTyped'
  <2>2. PICK step \in {"failed", "answered"} : pc' = [pc EXCEPT ![t] = step]
    BY <1>7, ReplyEffect
  <2>3. /\ wire' = [wire EXCEPT ![t] = "none"]
        /\ DOMAIN request' \subseteq DOMAIN request \cup {t}
        /\ \A u \in DOMAIN request' \ {t} : request'[u] = request[u]
        /\ step \in Steps /\ step \notin {"received", "calling"}
    BY <1>2, <1>7, ReplyEffect
  <2>1. OnTheWire'
    BY <2>2, <2>3, ThreadOnTheWire
  <2> QED
    BY <1>1, <1>7, <2>1, ReplyEffect DEF NetTyped
<1>8. ASSUME NEW t \in Threads, CallFails(t) PROVE NetTyped'
  <2>1. OnTheWire'
    BY <1>2, <1>8, FailEffect, ThreadOnTheWire
  <2>2. tally' = [tally EXCEPT !.lost = @ + IF wire[t] = "verified" THEN 1 ELSE 0]
    BY <1>8 DEF CallFails
  <2>3. tally' \in [granted : Nat, lost : Nat]
    BY <1>1, <2>2
  <2>4. <<request[t].client, request[t].code>> \in Clients \X Codes
    BY <1>8, AskerKnown DEF CallFails, CallRaises
  <2>5. late' \in [Clients \X Codes -> Nat]
    BY <1>1, <1>8, <2>4 DEF CallFails
  <2> QED
    BY <2>1, <2>3, <2>5 DEF NetTyped
<1>9. ASSUME NEW client \in Clients, NEW code \in Codes, LateExecution(client, code)
      PROVE  NetTyped'
  <2>1. /\ late[<<client, code>>] > 0
        /\ late' = [late EXCEPT ![<<client, code>>] = @ - 1]
        /\ \E n \in {0, 1} : tally' = [granted |-> tally.granted + n, lost |-> tally.lost + n]
        /\ UNCHANGED <<pc, request, wire>>
    BY <1>9 DEF LateExecution, apiVars
  <2>2. late' \in [Clients \X Codes -> Nat]
    BY <1>1, <2>1
  <2>3. tally' \in [granted : Nat, lost : Nat]
    BY <1>1, <2>1
  <2> QED
    BY <1>1, <2>1, <2>2, <2>3 DEF NetTyped, OnTheWire
<1>10. CASE WorkerRestarts
  BY <1>1, <1>10, AnswerNames DEF WorkerRestarts, NetTyped, OnTheWire, apiVars
<1>11. CASE UNCHANGED <<pc, request, netVars>>
  BY <1>1, <1>11 DEF NetTyped, OnTheWire, netVars
<1>12. StaffActs \/ ClockTicks \/ SystemIsDone \/ UNCHANGED systemVars
           => UNCHANGED <<pc, request, netVars>>
  BY DEF StaffActs, ClockTicks, Tick, SystemIsDone, BoundsReached, systemVars, apiVars, vars
<1> QED
  BY <1>3, <1>4, <1>5, <1>6, <1>7, <1>8, <1>9, <1>10, <1>11, <1>12 DEF SystemNext

\* The steps that leave the worker's limiter alone.
LEMMA QuietWorker ==
    ASSUME \/ \E t \in Threads : ApiReceives(t) \/ ApiChecksLimit(t) \/ ApiFinishes(t)
                                 \/ ReplyArrives(t) \/ CallFails(t)
           \/ StaffActs \/ ClockTicks \/ SystemIsDone \/ UNCHANGED systemVars
    PROVE  UNCHANGED <<generation, workerFailures, workerEvaluated>>
<1>1. ASSUME NEW t \in Threads,
             \/ ApiReceives(t) \/ ApiChecksLimit(t) \/ ApiFinishes(t)
             \/ ReplyArrives(t) \/ CallFails(t)
      PROVE  UNCHANGED workerVars
  BY <1>1 DEF ApiReceives, ApiChecksLimit, ApiFinishes, ReplyArrives, CallFails
<1>2. CASE StaffActs
  BY <1>2 DEF StaffActs, Worker!IssueCredential, Worker!RevokeCredential, Worker!CreateProof,
              Worker!history
<1>3. CASE ClockTicks \/ SystemIsDone \/ UNCHANGED systemVars
  BY <1>3 DEF ClockTicks, SystemIsDone, systemVars, workerVars
<1> QED
  BY <1>1, <1>2, <1>3 DEF workerVars

LEMMA NextWorker == SystemTyped /\ [SystemNext]_systemVars => WorkerTyped'
<1> SUFFICES ASSUME SystemTyped, [SystemNext]_systemVars PROVE WorkerTyped'
  OBVIOUS
<1>1. ASSUME NEW t \in Threads, WorkerHandles(t) PROVE WorkerTyped'
  BY <1>1, AskerKnown, KeyType, VerifyTyped DEF WorkerHandles
<1>2. ASSUME NEW client \in Clients, NEW code \in Codes, LateExecution(client, code)
      PROVE  WorkerTyped'
  BY <1>2, KeyType, VerifyTyped DEF LateExecution
<1>3. CASE WorkerRestarts
  BY <1>3, EmptySeq DEF WorkerRestarts, Worker!Restart, SystemTyped, WorkerTyped
<1>4. CASE UNCHANGED <<generation, workerFailures, workerEvaluated>>
  BY <1>4 DEF SystemTyped, WorkerTyped
<1> QED
  BY <1>1, <1>2, <1>3, <1>4, QuietWorker DEF SystemNext

LEMMA NextSystem == SystemTyped /\ [SystemNext]_systemVars => SystemTyped'
BY ApiSteps, NextTyped, NextNet, NextWorker DEF SystemTyped

\* The worker behind the api behaves as one of the behaviours of the worker by
\* itself, for all the addresses it is asked from: what VerifyWorkerProofs says
\* of every such behaviour holds of it.
THEOREM SystemRefinesWorker == SystemSpec => Worker!Spec
<1>1. SystemInit => Worker!Init
  BY DEF SystemInit
<1> QED
  BY <1>1, InitSystem, NextSystem, WorkerSteps, PTL DEF SystemSpec, Worker!Spec

-----------------------------------------------------------------------------
(***************************************************************************)
(* Every acceptance is accounted for                                       *)
(***************************************************************************)

\* A log never outgrows the requests received: the open ones still have room.
RoomForRecords ==
    \A p \in Processes, call \in Calls :
        Len(log[p][call]) + Cardinality(DOMAIN request) <= received

AccountInv ==
    /\ AcceptancesAreAccounted
    /\ IsFiniteSet(VerifiedRecords)
    /\ RoomForRecords

InFlight(t) == wire[t] = "verified" \/ (t \in DOMAIN request /\ request[t].reason = "verified")

LEMMA InitAccount == SystemInit => AccountInv
<1> SUFFICES ASSUME SystemInit PROVE AccountInv
  OBVIOUS
<1>1. /\ DOMAIN request = {} /\ received = 0
      /\ \A p \in Processes, call \in Calls : log[p][call] = << >>
  BY DEF SystemInit, Init
<1>2. VerifiedRecords = {}
  BY <1>1 DEF VerifiedRecords
<1>3. VerifiedInFlight = {}
  BY <1>1 DEF SystemInit, VerifiedInFlight
<1>4. Cardinality({}) = 0 /\ IsFiniteSet({})
  BY FS_EmptySet
<1> QED
  BY <1>1, <1>2, <1>3, <1>4
     DEF SystemInit, AccountInv, AcceptancesAreAccounted, RoomForRecords

\* The requests being served are finitely many.
LEMMA RequestsAreFinite ==
    ASSUME SystemTyped
    PROVE  /\ IsFiniteSet(DOMAIN request) /\ Cardinality(DOMAIN request) \in Nat
           /\ received \in 0..MaxRequests /\ MaxRequests \in Nat
           /\ \A p \in Processes, call \in Calls :
                log[p][call] \in Seq(Record) /\ Len(log[p][call]) \in Nat
BY ThreadSetsAreFinite, CallAssumption, LenProperties DEF SystemTyped, Typed, TypeOK

LEMMA QuietRoom ==
    ASSUME SystemTyped, RoomForRecords, UNCHANGED <<log, received>>,
           DOMAIN request' \in SUBSET DOMAIN request
    PROVE  RoomForRecords'
<1>1. Cardinality(DOMAIN request') <= Cardinality(DOMAIN request)
  BY RequestsAreFinite, FS_Subset
<1>2. Cardinality(DOMAIN request') \in Nat
  BY RequestsAreFinite, FS_Subset, FS_CardinalityType
<1>3. /\ Cardinality(DOMAIN request) \in Nat /\ received \in Int
      /\ \A p \in Processes, call \in Calls : Len(log[p][call]) \in Nat
  BY RequestsAreFinite
<1>4. ASSUME NEW p \in Processes, NEW call \in Calls
      PROVE  Len(log[p][call]) + Cardinality(DOMAIN request') <= received
  <2>1. Len(log[p][call]) + Cardinality(DOMAIN request) <= received
    BY DEF RoomForRecords
  <2>2. Len(log[p][call]) \in Nat
    BY <1>3
  <2> QED
    BY <1>1, <1>2, <1>3, <2>1, <2>2
<1>5. Processes' = Processes
  BY DEF Processes
<1> QED
  BY <1>4, <1>5 DEF RoomForRecords

\* A step that adds no record and lets no acceptance pass the wire.
LEMMA QuietAccount ==
    ASSUME SystemTyped, AccountInv, UNCHANGED <<log, received, tally>>,
           DOMAIN request' \in SUBSET DOMAIN request,
           \A u \in Threads : InFlight(u)' <=> InFlight(u)
    PROVE  AccountInv'
<1>1. VerifiedInFlight' = VerifiedInFlight
  BY DEF VerifiedInFlight, InFlight
<1>2. VerifiedRecords' = VerifiedRecords
  BY DEF VerifiedRecords, Processes
<1> QED
  BY <1>1, <1>2, QuietRoom DEF AccountInv, AcceptancesAreAccounted

LEMMA FlightsAreFinite ==
    ASSUME AccountInv
    PROVE  /\ IsFiniteSet(VerifiedInFlight) /\ Cardinality(VerifiedInFlight) \in Nat
           /\ IsFiniteSet(VerifiedRecords) /\ Cardinality(VerifiedRecords) \in Nat
<1>1. VerifiedInFlight \in SUBSET Threads
  BY DEF VerifiedInFlight
<1> QED
  BY <1>1, ThreadSetsAreFinite, FS_CardinalityType DEF AccountInv

\* An acceptance takes off.
LEMMA FlightBegins ==
    ASSUME AccountInv, NEW t \in Threads, ~InFlight(t), InFlight(t)',
           \A u \in Threads \ {t} : InFlight(u)' <=> InFlight(u)
    PROVE  Cardinality(VerifiedInFlight') = Cardinality(VerifiedInFlight) + 1
<1>1. VerifiedInFlight' = VerifiedInFlight \cup {t} /\ t \notin VerifiedInFlight
  BY DEF VerifiedInFlight, InFlight
<1> QED
  BY <1>1, FlightsAreFinite, FS_AddElement

\* An acceptance lands, on a record or nowhere.
LEMMA FlightEnds ==
    ASSUME AccountInv, NEW t \in Threads, InFlight(t), ~InFlight(t)',
           \A u \in Threads \ {t} : InFlight(u)' <=> InFlight(u)
    PROVE  Cardinality(VerifiedInFlight') = Cardinality(VerifiedInFlight) - 1
<1>1. VerifiedInFlight' = VerifiedInFlight \ {t} /\ t \in VerifiedInFlight
  BY DEF VerifiedInFlight, InFlight
<1> QED
  BY <1>1, FlightsAreFinite, FS_RemoveElement

LEMMA AddAccount ==
    ASSUME SystemTyped, AccountInv, NEW t \in Threads, AddRecord(t), UNCHANGED netVars
    PROVE  AccountInv'
<1> DEFINE p == ProcessOf[t]
           call == request[t].call
           r == [reason |-> request[t].reason, retryAllowed |-> request[t].retryAllowed,
                 notified |-> request[t].notified]
           n == Len(log[p][call])
           new == <<p, call, n + 1>>
<1>1. /\ t \in DOMAIN request /\ wire[t] = "none"
      /\ DOMAIN request' = DOMAIN request \ {t}
      /\ \A u \in DOMAIN request \ {t} : request'[u] = request[u]
      /\ UNCHANGED <<wire, tally, received>>
  BY RecordEffect DEF netVars
<1>2. p \in Processes /\ call \in Calls
  BY <1>1 DEF SystemTyped, Typed, TypeOK, Request, Processes
<1>3. /\ log \in [Processes -> [Calls -> Seq(Record)]]
      /\ log' = [log EXCEPT ![p][call] = Append(log[p][call], r)]
  BY DEF AddRecord, Recorded, SystemTyped, Typed, TypeOK
<1>4. n \in Nat /\ log[p][call] \in Seq(Record) /\ DOMAIN log[p][call] = 1..n
  BY <1>2, RequestsAreFinite, LenProperties
<1>5. /\ log'[p][call] = Append(log[p][call], r)
      /\ \A q \in Processes, c \in Calls : q # p \/ c # call => log'[q][c] = log[q][c]
  BY <1>2, <1>3
<1> HIDE DEF p, call
<1>6. /\ DOMAIN Append(log[p][call], r) = 1..(n + 1)
      /\ Append(log[p][call], r)[n + 1] = r
      /\ \A i \in 1..n : Append(log[p][call], r)[i] = log[p][call][i]
      /\ Len(Append(log[p][call], r)) = n + 1
  BY <1>4
<1>7. Cardinality(DOMAIN request') = Cardinality(DOMAIN request) - 1
  BY <1>1, RequestsAreFinite, FS_RemoveElement
<1>8. \A q \in Processes, c \in Calls :
          Len(log[q][c]) + Cardinality(DOMAIN request) <= received
  BY DEF AccountInv, RoomForRecords
<1>9. RoomForRecords'
  <2> SUFFICES ASSUME NEW q \in Processes, NEW c \in Calls
               PROVE  Len(log'[q][c]) + Cardinality(DOMAIN request') <= received'
    BY DEF RoomForRecords, Processes
  <2>1. CASE q = p /\ c = call
    <3>1. Len(log'[q][c]) = n + 1
      BY <1>5, <1>6, <2>1
    <3>2. n + Cardinality(DOMAIN request) <= received
      BY <1>2, <1>8
    <3>3. (n + 1) + (Cardinality(DOMAIN request) - 1) <= received
      BY <1>4, <3>2, RequestsAreFinite
    <3> QED
      BY <1>1, <1>7, <3>1, <3>3
  <2>2. CASE q # p \/ c # call
    <3>1. Len(log'[q][c]) = Len(log[q][c]) /\ Len(log[q][c]) \in Nat
      BY <1>5, <2>2, RequestsAreFinite
    <3>2. Len(log[q][c]) + Cardinality(DOMAIN request) <= received
      BY <1>8
    <3>3. Len(log[q][c]) + (Cardinality(DOMAIN request) - 1) <= received
      BY <3>1, <3>2, RequestsAreFinite
    <3> QED
      BY <1>1, <1>7, <3>1, <3>3
  <2> QED
    BY <2>1, <2>2
<1>10. n + 1 \in 1..MaxRequests
  <2>1. Cardinality(DOMAIN request) >= 1
    BY <1>1, <1>7, RequestsAreFinite, FS_RemoveElement, FS_CardinalityType
  <2> QED
    BY <1>2, <1>4, <1>8, <2>1, RequestsAreFinite
<1>11. ASSUME NEW q \in Processes, NEW c \in Calls, NEW i \in 1..MaxRequests
       PROVE  <<q, c, i>> \in VerifiedRecords'
              <=> \/ <<q, c, i>> \in VerifiedRecords
                  \/ r.reason = "verified" /\ <<q, c, i>> = new
  <2>1. /\ <<q, c, i>> \in VerifiedRecords'
              <=> i \in DOMAIN log'[q][c] /\ log'[q][c][i].reason = "verified"
        /\ <<q, c, i>> \in VerifiedRecords
              <=> i \in DOMAIN log[q][c] /\ log[q][c][i].reason = "verified"
    BY DEF VerifiedRecords, Processes
  <2>2. CASE q = p /\ c = call
    <3>1. <<q, c, i>> = new <=> i = n + 1
      BY <2>2
    <3>2. i \in 1..(n + 1) <=> i \in 1..n \/ i = n + 1
      BY <1>4
    <3>3. log[q][c] = log[p][call] /\ log'[q][c] = Append(log[p][call], r)
      BY <1>5, <2>2
    <3>4. CASE i = n + 1
      BY <1>4, <1>6, <2>1, <3>1, <3>3, <3>4
    <3>5. CASE i # n + 1
      BY <1>4, <1>6, <2>1, <3>1, <3>2, <3>3, <3>5
    <3> QED
      BY <3>4, <3>5
  <2>3. CASE q # p \/ c # call
    BY <1>5, <2>1, <2>3
  <2> QED
    BY <2>2, <2>3
<1>12. /\ VerifiedRecords' = IF r.reason = "verified" THEN VerifiedRecords \cup {new}
                                                      ELSE VerifiedRecords
       /\ new \notin VerifiedRecords
  <2>1. VerifiedRecords' \subseteq Processes \X Calls \X (1..MaxRequests)
    BY DEF VerifiedRecords, Processes
  <2>2. VerifiedRecords \subseteq Processes \X Calls \X (1..MaxRequests)
    BY DEF VerifiedRecords
  <2>3. new \in Processes \X Calls \X (1..MaxRequests)
    BY <1>2, <1>10
  <2>4. new \notin VerifiedRecords
    BY <1>4 DEF VerifiedRecords
  <2> HIDE DEF new, r
  <2>5. ASSUME NEW x \in Processes \X Calls \X (1..MaxRequests)
        PROVE  x \in VerifiedRecords' <=> x \in VerifiedRecords \/ (r.reason = "verified" /\ x = new)
    BY <1>11
  <2>6. CASE r.reason = "verified"
    BY <2>1, <2>2, <2>3, <2>4, <2>5, <2>6
  <2>7. CASE r.reason # "verified"
    BY <2>1, <2>2, <2>4, <2>5, <2>7
  <2> QED
    BY <2>6, <2>7
<1>13. \A u \in Threads \ {t} : InFlight(u)' <=> InFlight(u)
  BY <1>1 DEF InFlight
<1>14. (InFlight(t) <=> r.reason = "verified") /\ ~InFlight(t)'
  BY <1>1 DEF InFlight
<1> HIDE DEF r, new
<1>15. CASE r.reason = "verified"
  <2>1. Cardinality(VerifiedInFlight') = Cardinality(VerifiedInFlight) - 1
    BY <1>13, <1>14, <1>15, FlightEnds
  <2>2. /\ Cardinality(VerifiedRecords') = Cardinality(VerifiedRecords) + 1
        /\ IsFiniteSet(VerifiedRecords')
    BY <1>12, <1>15, FlightsAreFinite, FS_AddElement
  <2>4. tally' = tally /\ tally.lost \in Nat
    BY <1>1 DEF SystemTyped, NetTyped
  <2>5. tally.granted = Cardinality(VerifiedRecords) + Cardinality(VerifiedInFlight) + tally.lost
    BY DEF AccountInv, AcceptancesAreAccounted
  <2>6. tally.granted
            = (Cardinality(VerifiedRecords) + 1) + (Cardinality(VerifiedInFlight) - 1) + tally.lost
    BY <2>4, <2>5, FlightsAreFinite
  <2>3. AcceptancesAreAccounted'
    BY <2>1, <2>2, <2>4, <2>6 DEF AcceptancesAreAccounted
  <2> QED
    BY <1>9, <2>2, <2>3 DEF AccountInv
<1>16. CASE r.reason # "verified"
  <2>1. VerifiedInFlight' = VerifiedInFlight
    BY <1>13, <1>14, <1>16 DEF VerifiedInFlight, InFlight
  <2>2. VerifiedRecords' = VerifiedRecords
    BY <1>12, <1>16
  <2> QED
    BY <1>1, <1>9, <2>1, <2>2 DEF AccountInv, AcceptancesAreAccounted
<1> QED
  BY <1>15, <1>16

LEMMA NextAccount == SystemTyped /\ AccountInv /\ [SystemNext]_systemVars => AccountInv'
<1> SUFFICES ASSUME SystemTyped, AccountInv, [SystemNext]_systemVars PROVE AccountInv'
  OBVIOUS
<1>1. /\ tally \in [granted : Nat, lost : Nat]
      /\ wire \in [Threads -> Answers \cup {"none", "asked", "broken"}]
      /\ DOMAIN request \subseteq Threads
      /\ tally.granted = Cardinality(VerifiedRecords) + Cardinality(VerifiedInFlight) + tally.lost
  BY DEF SystemTyped, NetTyped, OnTheWire, Typed, TypeOK, AccountInv, AcceptancesAreAccounted
<1>2. ASSUME NEW t \in Threads, ApiReceives(t) PROVE AccountInv'
  <2>1. PICK call \in Calls, client \in Clients, code \in Codes : Receive(t, call, client, code)
    BY <1>2 DEF ApiReceives
  <2>2. /\ t \notin DOMAIN request /\ DOMAIN request' = DOMAIN request \cup {t}
        /\ request'[t].reason = ""
        /\ \A u \in DOMAIN request : request'[u] = request[u]
        /\ received' = received + 1
        /\ UNCHANGED <<log, wire, tally>>
    BY <1>2, <2>1, ReceiveEffect DEF ApiReceives, netVars
  <2>3. Cardinality(DOMAIN request') = Cardinality(DOMAIN request) + 1
    BY <2>2, RequestsAreFinite, FS_AddElement
  <2>4. RoomForRecords'
    <3> SUFFICES ASSUME NEW p \in Processes, NEW c \in Calls
                 PROVE  Len(log'[p][c]) + Cardinality(DOMAIN request') <= received'
      BY DEF RoomForRecords, Processes
    <3>1. Len(log[p][c]) + Cardinality(DOMAIN request) <= received
      BY DEF AccountInv, RoomForRecords
    <3>2. Len(log[p][c]) + (Cardinality(DOMAIN request) + 1) <= received + 1
      BY <3>1, RequestsAreFinite
    <3> QED
      BY <2>2, <2>3, <3>2
  <2>5. \A u \in Threads : InFlight(u)' <=> InFlight(u)
    BY <2>2 DEF InFlight
  <2>6. VerifiedInFlight' = VerifiedInFlight
    BY <2>5 DEF VerifiedInFlight, InFlight
  <2>7. VerifiedRecords' = VerifiedRecords
    BY <2>2 DEF VerifiedRecords, Processes
  <2> QED
    BY <2>2, <2>4, <2>6, <2>7 DEF AccountInv, AcceptancesAreAccounted
<1>3. ASSUME NEW t \in Threads, ApiChecksLimit(t) PROVE AccountInv'
  <2>1. CheckLimit(t) /\ \E m \in {"asked", "none"} : wire' = [wire EXCEPT ![t] = m]
    BY <1>3 DEF ApiChecksLimit
  <2>2. request[t].reason = ""
    BY <2>1, CheckEffect DEF SystemTyped, NetTyped, OnTheWire
  <2>4. /\ t \in DOMAIN request /\ wire[t] = "none"
        /\ DOMAIN request' = DOMAIN request
        /\ \A u \in DOMAIN request \ {t} : request'[u] = request[u]
        /\ request'[t].reason # "verified"
    BY <2>1, CheckEffect
  <2>5. /\ wire'[t] # "verified"
        /\ \A u \in Threads \ {t} : wire'[u] = wire[u]
    BY <1>1, <2>1
  <2>3. \A u \in Threads : InFlight(u)' <=> InFlight(u)
    BY <2>2, <2>4, <2>5 DEF InFlight
  <2> QED
    BY <1>3, <2>1, <2>3, CheckEffect, QuietAccount DEF ApiChecksLimit
<1>4. ASSUME NEW t \in Threads, ApiFinishes(t) PROVE AccountInv'
  <2>1. UNCHANGED netVars
    BY <1>4 DEF ApiFinishes
  <2>2. CASE CountFailure(t) \/ ReadLog(t) \/ NotifyGuardian(t)
    <3>1. \A u \in Threads : InFlight(u)' <=> InFlight(u)
      BY <2>1, <2>2, FinishEffect DEF InFlight, netVars
    <3> QED
      BY <2>1, <2>2, <3>1, FinishEffect, QuietAccount DEF netVars
  <2> QED
    BY <1>4, <2>1, <2>2, AddAccount DEF ApiFinishes
<1>5. ASSUME NEW t \in Threads, WorkerHandles(t) PROVE AccountInv'
  <2> DEFINE answer == Worker!Answer(ClientKey(request[t].client), request[t].code)
  <2>1. /\ wire[t] = "asked" /\ wire' = [wire EXCEPT ![t] = answer]
        /\ tally' = [tally EXCEPT !.granted = @ + IF answer = "verified" THEN 1 ELSE 0]
        /\ UNCHANGED <<request, log, received>>
    BY <1>5 DEF WorkerHandles, apiVars
  <2>2. t \in DOMAIN request /\ request[t].reason = ""
    BY <2>1, AskerKnown
  <2> HIDE DEF answer
  <2>3. /\ \A u \in Threads \ {t} : InFlight(u)' <=> InFlight(u)
        /\ ~InFlight(t)
        /\ InFlight(t)' <=> answer = "verified"
    BY <1>1, <2>1, <2>2 DEF InFlight
  <2>4. CASE answer = "verified"
    <3>1. Cardinality(VerifiedInFlight') = Cardinality(VerifiedInFlight) + 1
      BY <2>3, <2>4, FlightBegins
    <3>2. VerifiedRecords' = VerifiedRecords /\ RoomForRecords'
      BY <2>1, QuietRoom DEF AccountInv, VerifiedRecords, Processes
    <3>3. tally'.granted = tally.granted + 1 /\ tally'.lost = tally.lost
      BY <1>1, <2>1, <2>4
    <3>4. tally.granted + 1
              = Cardinality(VerifiedRecords) + (Cardinality(VerifiedInFlight) + 1) + tally.lost
      BY <1>1, FlightsAreFinite
    <3> QED
      BY <3>1, <3>2, <3>3, <3>4 DEF AccountInv, AcceptancesAreAccounted
  <2>5. CASE answer # "verified"
    <3>1. tally' = tally
      BY <1>1, <2>1, <2>5
    <3> QED
      BY <2>1, <2>3, <2>5, <3>1, QuietAccount
  <2> QED
    BY <2>4, <2>5
<1>6. ASSUME NEW t \in Threads, ReplyArrives(t) PROVE AccountInv'
  <2>1. /\ t \in DOMAIN request /\ request[t].reason = "" /\ request'[t].reason = wire[t]
        /\ wire' = [wire EXCEPT ![t] = "none"]
        /\ DOMAIN request' = DOMAIN request
        /\ \A u \in DOMAIN request \ {t} : request'[u] = request[u]
        /\ UNCHANGED <<log, received, tally>>
    BY <1>6, ReplyEffect, AskerKnown, AnswerNames
  <2>2. wire'[t] = "none" /\ \A u \in Threads \ {t} : wire'[u] = wire[u]
    BY <1>1, <2>1
  <2>3. \A u \in Threads : InFlight(u)' <=> InFlight(u)
    BY <2>1, <2>2 DEF InFlight
  <2> QED
    BY <2>1, <2>3, QuietAccount
<1>7. ASSUME NEW t \in Threads, CallFails(t) PROVE AccountInv'
  <2>1. /\ t \in DOMAIN request /\ wire[t] # "none" /\ request[t].reason = ""
        /\ wire' = [wire EXCEPT ![t] = "none"]
        /\ DOMAIN request' = DOMAIN request \ {t}
        /\ \A u \in DOMAIN request \ {t} : request'[u] = request[u]
        /\ UNCHANGED <<log, received>>
        /\ tally' = [tally EXCEPT !.lost = @ + IF wire[t] = "verified" THEN 1 ELSE 0]
    BY <1>7, FailEffect, AskerKnown DEF CallFails
  <2>2. /\ \A u \in Threads \ {t} : InFlight(u)' <=> InFlight(u)
        /\ InFlight(t) <=> wire[t] = "verified"
        /\ ~InFlight(t)'
    BY <1>1, <2>1 DEF InFlight
  <2>3. CASE wire[t] = "verified"
    <3>1. Cardinality(VerifiedInFlight') = Cardinality(VerifiedInFlight) - 1
      BY <2>2, <2>3, FlightEnds
    <3>2. VerifiedRecords' = VerifiedRecords /\ RoomForRecords'
      BY <2>1, QuietRoom DEF AccountInv, VerifiedRecords, Processes
    <3>3. tally'.granted = tally.granted /\ tally'.lost = tally.lost + 1
      BY <1>1, <2>1, <2>3
    <3>4. tally.granted
              = Cardinality(VerifiedRecords) + (Cardinality(VerifiedInFlight) - 1) + (tally.lost + 1)
      BY <1>1, FlightsAreFinite
    <3> QED
      BY <3>1, <3>2, <3>3, <3>4 DEF AccountInv, AcceptancesAreAccounted
  <2>4. CASE wire[t] # "verified"
    <3>0. tally.lost + 0 = tally.lost
      BY <1>1
    <3>1. tally' = [tally EXCEPT !.lost = tally.lost]
      BY <2>1, <2>4, <3>0
    <3>2. tally' = tally
      BY <1>1, <3>1
    <3> QED
      BY <2>1, <2>2, <2>4, <3>2, QuietAccount
  <2> QED
    BY <2>3, <2>4
<1>8. ASSUME NEW client \in Clients, NEW code \in Codes, LateExecution(client, code)
      PROVE  AccountInv'
  <2>1. PICK n \in {0, 1} : tally' = [granted |-> tally.granted + n, lost |-> tally.lost + n]
    BY <1>8 DEF LateExecution
  <2>2. UNCHANGED <<request, log, received, wire>>
    BY <1>8 DEF LateExecution, apiVars
  <2>3. VerifiedRecords' = VerifiedRecords /\ VerifiedInFlight' = VerifiedInFlight
    BY <2>2 DEF VerifiedRecords, VerifiedInFlight, Processes
  <2>4. tally.granted + n
            = Cardinality(VerifiedRecords) + Cardinality(VerifiedInFlight) + (tally.lost + n)
    BY <1>1, FlightsAreFinite
  <2>5. RoomForRecords'
    BY <2>2, QuietRoom DEF AccountInv
  <2> QED
    BY <2>1, <2>3, <2>4, <2>5 DEF AccountInv, AcceptancesAreAccounted
<1>9. CASE WorkerRestarts
  <2>1. \A u \in Threads : InFlight(u)' <=> InFlight(u)
    BY <1>1, <1>9 DEF WorkerRestarts, apiVars, InFlight
  <2> QED
    BY <1>9, <2>1, QuietAccount DEF WorkerRestarts, apiVars
<1>10. CASE UNCHANGED <<request, log, received, wire, tally>>
  BY <1>10, QuietAccount DEF InFlight
<1>11. StaffActs \/ ClockTicks \/ SystemIsDone \/ UNCHANGED systemVars
           => UNCHANGED <<request, log, received, wire, tally>>
  BY DEF StaffActs, ClockTicks, Tick, SystemIsDone, BoundsReached, systemVars, apiVars, vars,
         netVars
<1> QED
  BY <1>2, <1>3, <1>4, <1>5, <1>6, <1>7, <1>8, <1>9, <1>10, <1>11 DEF SystemNext

\* However replies are lost, requests executed late and the worker restarted,
\* every code it accepted is on one call's log, on its way there, or lost.
THEOREM AcceptancesAccounted == SystemSpec => []AcceptancesAreAccounted
<1>1. AccountInv => AcceptancesAreAccounted
  BY DEF AccountInv
<1> QED
  BY <1>1, InitSystem, NextSystem, InitAccount, NextAccount, PTL DEF SystemSpec

-----------------------------------------------------------------------------
(***************************************************************************)
(* The worker's limiter bounds what all processes of the api count         *)
(***************************************************************************)

\* What VerifyWorkerProofs calls DequesFollowHistory, of the worker in place.
WorkerLimits ==
    \A key \in Addresses : Limits(workerEvaluated[key], workerFailures[key], now)

LEMMA WorkerTimes ==
    ASSUME SystemTyped
    PROVE  /\ now \in Int
           /\ \A key \in Addresses :
                workerEvaluated[key] \in Times /\ workerFailures[key] \in Times
<1>1. 0..MaxTime \subseteq Int
  BY CallAssumption
<1> QED
  BY <1>1, SeqMonotonic DEF SystemTyped, Typed, TypeOK, WorkerTyped, Times

LEMMA VerifyLimits ==
    ASSUME SystemTyped, WorkerLimits, NEW key \in Addresses, NEW code, Worker!Verify(key, code)
    PROVE  WorkerLimits'
<1> DEFINE e == workerEvaluated[key]
           r == Worker!Recent(key)
<1>1. /\ now' = now
      /\ \/ /\ workerFailures' = [workerFailures EXCEPT ![key] = Append(r, now)]
            /\ workerEvaluated' = [workerEvaluated EXCEPT ![key] = Append(e, now)]
            /\ ~Worker!Limited(key)
         \/ /\ workerFailures' = [workerFailures EXCEPT ![key] = r]
            /\ workerEvaluated' = workerEvaluated
  BY VerifyEffect DEF IsFailure
<1>2. r = AfterPurge(workerFailures[key], WindowStart(now))
  BY WorkerDeque
<1>3. Limits(e, r, now)
  BY <1>2, WorkerTimes, PurgeKeepsLimits DEF WorkerLimits
<1>4. ~Worker!Limited(key) => Limits(Append(e, now), Append(r, now), now)
  BY <1>2, WorkerDeque, WorkerTimes, AppendKeepsLimits DEF WorkerLimits
<1>5. /\ workerFailures \in [Addresses -> Seq(0..MaxTime)]
      /\ workerEvaluated \in [Addresses -> Seq(0..MaxTime)]
  BY DEF SystemTyped, WorkerTyped
<1> HIDE DEF e, r
<1>6. CASE /\ workerFailures' = [workerFailures EXCEPT ![key] = Append(r, now)]
           /\ workerEvaluated' = [workerEvaluated EXCEPT ![key] = Append(e, now)]
           /\ ~Worker!Limited(key)
  BY <1>1, <1>4, <1>5, <1>6 DEF WorkerLimits, Addresses
<1>7. CASE /\ workerFailures' = [workerFailures EXCEPT ![key] = r]
           /\ workerEvaluated' = workerEvaluated
  BY <1>1, <1>3, <1>5, <1>7 DEF WorkerLimits, Addresses, e
<1> QED
  BY <1>1, <1>6, <1>7

LEMMA NextWorkerLimits == SystemTyped /\ WorkerLimits /\ [SystemNext]_systemVars => WorkerLimits'
<1> SUFFICES ASSUME SystemTyped, WorkerLimits, [SystemNext]_systemVars PROVE WorkerLimits'
  OBVIOUS
<1>1. ASSUME NEW t \in Threads, WorkerHandles(t) PROVE WorkerLimits'
  BY <1>1, AskerKnown, KeyType, VerifyLimits DEF WorkerHandles
<1>2. ASSUME NEW client \in Clients, NEW code \in Codes, LateExecution(client, code)
      PROVE  WorkerLimits'
  BY <1>2, KeyType, VerifyLimits DEF LateExecution
<1>3. CASE WorkerRestarts
  BY <1>3, PolicyAssumption DEF WorkerRestarts, Worker!Restart, WorkerLimits, Addresses, Limits
<1>4. CASE ClockTicks
  <2>1. UNCHANGED <<workerFailures, workerEvaluated>> /\ now' = now + 1
    BY <1>4 DEF ClockTicks, Tick, workerVars
  <2> QED
    BY <2>1, WorkerTimes, TimeKeepsLimits DEF WorkerLimits, Addresses
<1>5. CASE UNCHANGED <<now, workerFailures, workerEvaluated>>
  BY <1>5 DEF WorkerLimits, Addresses
<1>6. ASSUME \/ \E t \in Threads : ApiReceives(t) \/ ApiChecksLimit(t) \/ ApiFinishes(t)
                                   \/ ReplyArrives(t) \/ CallFails(t)
             \/ StaffActs \/ SystemIsDone \/ UNCHANGED systemVars
      PROVE  UNCHANGED <<now, workerFailures, workerEvaluated>>
  <2>1. UNCHANGED now
    BY <1>6 DEF ApiReceives, ApiChecksLimit, ApiFinishes, ReplyArrives, CallFails, StaffActs,
                SystemIsDone, systemVars, Receive, CheckLimit, CountFailure, ReadLog,
                NotifyGuardian, AddRecord, WorkerReplies, WorkerFails, BoundsReached, vars
  <2> QED
    BY <1>6, <2>1, QuietWorker
<1> QED
  BY <1>1, <1>2, <1>3, <1>4, <1>5, <1>6 DEF SystemNext

-----------------------------------------------------------------------------
\* The wrong codes of a client that the processes of the api have counted, and
\* those whose answer is on its way, of requests begun after low and up to high.
FoundIn(client, low, high) ==
    {x \in Processes \X Nat : x[2] \in PositionsIn(evaluated[x[1]][client], low, high)}

AnsweredIn(client, low, high) ==
    {t \in Threads :
        /\ wire[t] \in Answers
        /\ IsFailure(wire[t])
        /\ request[t].client = client
        /\ request[t].at > low
        /\ request[t].at <= high}

SeenByWorker(client, low, high) == PositionsIn(workerEvaluated[ClientKey(client)], low, high)

\* The worker has counted each of them under the client's key, in its own time:
\* when the request began or at most MaxRequestSeconds later.
CountedByWorker ==
    \A client \in Clients, low \in Int, high \in Int :
        /\ IsFiniteSet(FoundIn(client, low, high))
        /\ Cardinality(FoundIn(client, low, high)) + Cardinality(AnsweredIn(client, low, high))
             <= Cardinality(SeenByWorker(client, low, high + MaxRequestSeconds))

BudgetInv == generation = 0 => CountedByWorker

LEMMA SeenIsFinite ==
    ASSUME SystemTyped, NEW client \in Clients, NEW low \in Int, NEW high \in Int
    PROVE  /\ workerEvaluated[ClientKey(client)] \in Seq(0..MaxTime)
           /\ Cardinality(SeenByWorker(client, low, high)) \in Nat
<1>1. workerEvaluated[ClientKey(client)] \in Seq(0..MaxTime)
  BY KeyType DEF SystemTyped, WorkerTyped
<1>2. SeenByWorker(client, low, high) \in SUBSET DOMAIN workerEvaluated[ClientKey(client)]
  BY DEF SeenByWorker, PositionsIn
<1> QED
  BY <1>1, <1>2, PositionsAreFinite

LEMMA AnsweredIsFinite ==
    ASSUME NEW client, NEW low, NEW high
    PROVE  /\ IsFiniteSet(AnsweredIn(client, low, high))
           /\ Cardinality(AnsweredIn(client, low, high)) \in Nat
<1>1. AnsweredIn(client, low, high) \in SUBSET Threads
  BY DEF AnsweredIn
<1> QED
  BY <1>1, ThreadSetsAreFinite

LEMMA InitBudget == SystemInit => BudgetInv
<1> SUFFICES ASSUME SystemInit, NEW client \in Clients, NEW low \in Int, NEW high \in Int
             PROVE  /\ IsFiniteSet(FoundIn(client, low, high))
                    /\ Cardinality(FoundIn(client, low, high))
                         + Cardinality(AnsweredIn(client, low, high))
                         <= Cardinality(SeenByWorker(client, low, high + MaxRequestSeconds))
  BY DEF BudgetInv, CountedByWorker
<1>1. FoundIn(client, low, high) = {}
  BY DEF SystemInit, Init, FoundIn, PositionsIn
<1>2. AnsweredIn(client, low, high) = {}
  BY AnswerNames DEF SystemInit, AnsweredIn
<1>3. Cardinality({}) = 0 /\ IsFiniteSet({})
  BY FS_EmptySet
<1>4. SystemTyped /\ high + MaxRequestSeconds \in Int
  BY InitSystem, CallAssumption
<1>5. Cardinality(SeenByWorker(client, low, high + MaxRequestSeconds)) \in Nat
  BY <1>4, SeenIsFinite
<1> QED
  BY <1>1, <1>2, <1>3, <1>5

\* A step that neither counts a wrong code nor answers one.
LEMMA QuietBudget ==
    ASSUME SystemTyped, BudgetInv, UNCHANGED <<generation, evaluated, workerEvaluated>>,
           \A u \in Threads :
               wire'[u] \in Answers /\ IsFailure(wire'[u]) =>
                   /\ wire'[u] = wire[u]
                   /\ request'[u].client = request[u].client
                   /\ request'[u].at = request[u].at
    PROVE  BudgetInv'
<1> SUFFICES ASSUME generation = 0, NEW client \in Clients, NEW low \in Int, NEW high \in Int
             PROVE  /\ IsFiniteSet(FoundIn(client, low, high)')
                    /\ Cardinality(FoundIn(client, low, high)')
                         + Cardinality(AnsweredIn(client, low, high)')
                         <= Cardinality(SeenByWorker(client, low, high + MaxRequestSeconds)')
  BY DEF BudgetInv, CountedByWorker
<1> DEFINE found == FoundIn(client, low, high)
           answered == AnsweredIn(client, low, high)
           seen == SeenByWorker(client, low, high + MaxRequestSeconds)
<1>1. found' = found /\ seen' = seen
  BY DEF FoundIn, SeenByWorker, Processes, PositionsIn
<1>2. answered' \in SUBSET answered
  BY DEF AnsweredIn
<1>3. /\ IsFiniteSet(found)
      /\ Cardinality(found) + Cardinality(answered) <= Cardinality(seen)
  BY DEF BudgetInv, CountedByWorker
<1>4. IsFiniteSet(answered) /\ Cardinality(answered) \in Nat
  BY AnsweredIsFinite
<1>5. Cardinality(seen) \in Nat
  BY CallAssumption, SeenIsFinite
<1> HIDE DEF found, answered, seen
<1>6. Cardinality(answered') <= Cardinality(answered) /\ Cardinality(answered') \in Nat
  BY <1>2, <1>4, FS_Subset, FS_CardinalityType
<1>7. Cardinality(found) \in Nat
  BY <1>3, FS_CardinalityType
<1> USE DEF found, answered, seen
<1> QED
  BY <1>1, <1>3, <1>4, <1>5, <1>6, <1>7

\* One more execution of the worker's handler, seen in any window of any key.
LEMMA SeenGrows ==
    ASSUME SystemTyped, NEW key \in Addresses, NEW code, Worker!Verify(key, code),
           NEW client \in Clients, NEW low \in Int, NEW high \in Int
    PROVE  LET counted == /\ IsFailure(Worker!Answer(key, code))
                          /\ key = ClientKey(client)
                          /\ now > low /\ now <= high
           IN  Cardinality(SeenByWorker(client, low, high)')
                 = Cardinality(SeenByWorker(client, low, high)) + (IF counted THEN 1 ELSE 0)
<1> DEFINE answer == Worker!Answer(key, code)
           e == workerEvaluated[ClientKey(client)]
<1>1. e \in Seq(0..MaxTime) /\ Cardinality(SeenByWorker(client, low, high)) \in Nat
  BY SeenIsFinite
<1>2. now \in 0..MaxTime /\ workerEvaluated \in [Addresses -> Seq(0..MaxTime)]
  BY DEF SystemTyped, Typed, TypeOK, WorkerTyped
<1>3. workerEvaluated' = IF IsFailure(answer)
                         THEN [workerEvaluated EXCEPT ![key] = Append(workerEvaluated[key], now)]
                         ELSE workerEvaluated
  BY VerifyEffect
<1> HIDE DEF answer
<1>4. SeenByWorker(client, low, high)' = PositionsIn(workerEvaluated'[ClientKey(client)], low, high)
  BY DEF SeenByWorker, ClientKey, PositionsIn
<1>5. SeenByWorker(client, low, high) = PositionsIn(e, low, high)
  BY DEF SeenByWorker
<1>6. CASE IsFailure(answer) /\ key = ClientKey(client)
  <2>1. workerEvaluated'[ClientKey(client)] = Append(e, now)
    BY <1>2, <1>3, <1>6
  <2>2. Cardinality(PositionsIn(Append(e, now), low, high))
            = Cardinality(PositionsIn(e, low, high)) + (IF now > low /\ now <= high THEN 1 ELSE 0)
    BY <1>1, <1>2, WrongAppend
  <2> QED
    BY <1>4, <1>5, <1>6, <2>1, <2>2 DEF answer
<1>7. CASE ~(IsFailure(answer) /\ key = ClientKey(client))
  <2>1. workerEvaluated'[ClientKey(client)] = e
    BY <1>2, <1>3, <1>7, KeyType
  <2>2. Cardinality(SeenByWorker(client, low, high)) + 0
            = Cardinality(SeenByWorker(client, low, high))
    BY <1>1
  <2> QED
    BY <1>4, <1>5, <1>7, <2>1, <2>2 DEF answer
<1> QED
  BY <1>6, <1>7

\* The worker handles a request a thread waits for.  What it counts, it counts
\* while the request is open: at most MaxRequestSeconds after its beginning.
LEMMA HandledBudget ==
    ASSUME SystemTyped, DequesInv, BudgetInv, NEW t \in Threads, WorkerHandles(t)
    PROVE  BudgetInv'
<1> DEFINE key == ClientKey(request[t].client)
           answer == Worker!Answer(key, request[t].code)
           at == request[t].at
<1>1. /\ wire[t] = "asked" /\ wire' = [wire EXCEPT ![t] = answer] /\ answer \in Answers
      /\ Worker!Verify(key, request[t].code)
      /\ UNCHANGED <<now, request, evaluated>>
  BY AnswerType DEF WorkerHandles, apiVars
<1>2. t \in DOMAIN request /\ request[t].client \in Clients /\ key \in Addresses
  BY <1>1, AskerKnown, KeyType
<1>3. generation' = generation
  BY <1>1, VerifyEffect
<1>4. at <= now /\ now <= at + MaxRequestSeconds /\ at \in Int /\ now \in Int
      /\ MaxRequestSeconds \in Nat
  <2>1. request[t] \in Request /\ now \in 0..MaxTime
    BY <1>2 DEF SystemTyped, Typed, TypeOK
  <2>2. at \in 0..MaxTime
    BY <2>1 DEF Request
  <2>3. at <= now /\ now <= at + MaxRequestSeconds
    BY <1>2 DEF DequesInv
  <2>4. MaxTime \in Nat /\ MaxRequestSeconds \in Nat
    BY CallAssumption
  <2> HIDE DEF at
  <2> QED
    BY <2>1, <2>2, <2>3, <2>4
<1> SUFFICES ASSUME generation = 0, NEW client \in Clients, NEW low \in Int, NEW high \in Int
             PROVE  /\ IsFiniteSet(FoundIn(client, low, high)')
                    /\ Cardinality(FoundIn(client, low, high)')
                         + Cardinality(AnsweredIn(client, low, high)')
                         <= Cardinality(SeenByWorker(client, low, high + MaxRequestSeconds)')
  BY <1>3 DEF BudgetInv, CountedByWorker
<1> DEFINE found == FoundIn(client, low, high)
           answered == AnsweredIn(client, low, high)
           seen == SeenByWorker(client, low, high + MaxRequestSeconds)
           joins == /\ IsFailure(answer) /\ request[t].client = client
                    /\ at > low /\ at <= high
           counted == /\ IsFailure(answer) /\ key = ClientKey(client)
                      /\ now > low /\ now <= high + MaxRequestSeconds
<1>5. high + MaxRequestSeconds \in Int
  BY <1>4
<1>6. Cardinality(seen') = Cardinality(seen) + (IF counted THEN 1 ELSE 0)
  BY <1>1, <1>2, <1>5, SeenGrows
<1>7. found' = found
  BY <1>1 DEF FoundIn, Processes, PositionsIn
<1>8. t \notin answered
  BY <1>1, AnswerNames DEF AnsweredIn
<1>9. answered' = IF joins THEN answered \cup {t} ELSE answered
  <2>1. wire'[t] = answer /\ \A u \in Threads \ {t} : wire'[u] = wire[u]
    BY <1>1 DEF SystemTyped, NetTyped, OnTheWire
  <2> QED
    BY <1>1, <1>8, <2>1 DEF AnsweredIn
<1>10. joins => counted
  BY <1>4
<1>11. /\ IsFiniteSet(found)
       /\ Cardinality(found) + Cardinality(answered) <= Cardinality(seen)
  BY DEF BudgetInv, CountedByWorker
<1>12. IsFiniteSet(answered) /\ Cardinality(answered) \in Nat
  BY AnsweredIsFinite
<1>13. Cardinality(seen) \in Nat
  BY <1>5, SeenIsFinite
<1> HIDE DEF found, answered, seen, joins, counted
<1>14. Cardinality(answered') = Cardinality(answered) + (IF joins THEN 1 ELSE 0)
  <2>1. Cardinality(answered \cup {t}) = Cardinality(answered) + 1
    BY <1>8, <1>12, FS_AddElement
  <2>2. CASE joins
    BY <1>9, <2>1, <2>2
  <2>3. CASE ~joins
    BY <1>9, <1>12, <2>3
  <2> QED
    BY <2>2, <2>3
<1>15. Cardinality(found) \in Nat
  BY <1>11, FS_CardinalityType
<1>16. IsFiniteSet(found') /\ Cardinality(found') + Cardinality(answered') <= Cardinality(seen')
  BY <1>6, <1>7, <1>10, <1>11, <1>12, <1>13, <1>14, <1>15
<1> QED
  BY <1>16 DEF found, answered, seen

\* The worker handles a request nobody waits for: it only counts more.
LEMMA LateBudget ==
    ASSUME SystemTyped, BudgetInv, NEW c \in Clients, NEW code \in Codes, LateExecution(c, code)
    PROVE  BudgetInv'
<1>1. Worker!Verify(ClientKey(c), code) /\ UNCHANGED <<now, request, evaluated, wire>>
  BY DEF LateExecution, apiVars
<1>2. generation' = generation
  BY <1>1, VerifyEffect
<1> SUFFICES ASSUME generation = 0, NEW client \in Clients, NEW low \in Int, NEW high \in Int
             PROVE  /\ IsFiniteSet(FoundIn(client, low, high)')
                    /\ Cardinality(FoundIn(client, low, high)')
                         + Cardinality(AnsweredIn(client, low, high)')
                         <= Cardinality(SeenByWorker(client, low, high + MaxRequestSeconds)')
  BY <1>2 DEF BudgetInv, CountedByWorker
<1> DEFINE found == FoundIn(client, low, high)
           answered == AnsweredIn(client, low, high)
           seen == SeenByWorker(client, low, high + MaxRequestSeconds)
<1>3. high + MaxRequestSeconds \in Int
  BY CallAssumption
<1>4. found' = found /\ answered' = answered
  BY <1>1 DEF FoundIn, AnsweredIn, Processes, PositionsIn
<1>5. \E n \in {0, 1} : Cardinality(seen') = Cardinality(seen) + n
  BY <1>1, <1>3, KeyType, SeenGrows
<1>6. /\ IsFiniteSet(found)
      /\ Cardinality(found) + Cardinality(answered) <= Cardinality(seen)
  BY DEF BudgetInv, CountedByWorker
<1>7. Cardinality(seen) \in Nat /\ Cardinality(answered) \in Nat
  BY <1>3, SeenIsFinite, AnsweredIsFinite
<1> HIDE DEF found, answered, seen
<1>8. Cardinality(found) \in Nat
  BY <1>6, FS_CardinalityType
<1>9. Cardinality(found') + Cardinality(answered') <= Cardinality(seen')
  BY <1>4, <1>5, <1>6, <1>7, <1>8
<1> QED
  BY <1>4, <1>6, <1>9 DEF found, answered, seen

\* A wrong code is counted at the api: it was on its way, now it is found.
LEMMA CountedBudget ==
    ASSUME SystemTyped, BudgetInv, NEW t \in Threads, ReplyArrives(t), IsFailure(wire[t])
    PROVE  BudgetInv'
<1> DEFINE p == ProcessOf[t]
           c == request[t].client
           at == request[t].at
           times == evaluated[p][c]
           n == Len(times)
<1>1. /\ t \in DOMAIN request /\ wire[t] \in Answers
      /\ wire' = [wire EXCEPT ![t] = "none"]
      /\ DOMAIN request' = DOMAIN request
      /\ \A u \in DOMAIN request \ {t} : request'[u] = request[u]
      /\ evaluated' = [evaluated EXCEPT ![p][c] = Append(times, at)]
      /\ UNCHANGED <<now, generation, workerEvaluated>>
  BY ReplyEffect DEF workerVars
<1>2. p \in Processes /\ c \in Clients /\ request[t] \in Request
  BY <1>1 DEF SystemTyped, Typed, TypeOK, Request, Processes
<1>3. /\ at \in 0..MaxTime /\ 0..MaxTime \in SUBSET Int
      /\ evaluated \in [Processes -> [Clients -> Seq(0..MaxTime)]]
      /\ times \in Seq(0..MaxTime)
  <2>1. evaluated \in [Processes -> [Clients -> Seq(0..MaxTime)]]
    BY DEF SystemTyped, Typed, TypeOK
  <2>2. at \in 0..MaxTime
    BY <1>2 DEF Request
  <2>3. 0..MaxTime \in SUBSET Int
    BY CallAssumption
  <2> QED
    BY <1>2, <2>1, <2>2, <2>3
<1>4. /\ evaluated'[p][c] = Append(times, at)
      /\ \A q \in Processes, d \in Clients : q # p \/ d # c => evaluated'[q][d] = evaluated[q][d]
  BY <1>1, <1>2, <1>3
<1> HIDE DEF p, c, at, times
<1>5. /\ n \in Nat /\ DOMAIN times = 1..n
      /\ DOMAIN Append(times, at) = 1..(n + 1)
      /\ Append(times, at)[n + 1] = at
      /\ \A i \in 1..n : Append(times, at)[i] = times[i]
  BY <1>3, LenProperties, AppendProperties
<1> HIDE DEF n
<1> SUFFICES ASSUME generation = 0, NEW client \in Clients, NEW low \in Int, NEW high \in Int
             PROVE  /\ IsFiniteSet(FoundIn(client, low, high)')
                    /\ Cardinality(FoundIn(client, low, high)')
                         + Cardinality(AnsweredIn(client, low, high)')
                         <= Cardinality(SeenByWorker(client, low, high + MaxRequestSeconds)')
  BY <1>1 DEF BudgetInv, CountedByWorker
<1> DEFINE found == FoundIn(client, low, high)
           answered == AnsweredIn(client, low, high)
           seen == SeenByWorker(client, low, high + MaxRequestSeconds)
           moves == c = client /\ at > low /\ at <= high
           new == <<p, n + 1>>
<1>6. seen' = seen
  BY <1>1 DEF SeenByWorker, ClientKey, PositionsIn
<1>7. /\ IsFiniteSet(found)
      /\ Cardinality(found) + Cardinality(answered) <= Cardinality(seen)
  BY DEF BudgetInv, CountedByWorker
<1>8. IsFiniteSet(answered) /\ Cardinality(answered) \in Nat
  BY AnsweredIsFinite
<1>9. Cardinality(seen) \in Nat
  BY CallAssumption, SeenIsFinite
<1>10. t \in answered <=> moves
  BY <1>1 DEF AnsweredIn, c, at
<1>11. answered' = answered \ {t}
  <2>1. wire'[t] = "none" /\ \A u \in Threads \ {t} : wire'[u] = wire[u]
    BY <1>1 DEF SystemTyped, NetTyped, OnTheWire
  <2>2. "none" \notin Answers
    BY AnswerNames
  <2>3. \A u \in Threads \ {t} : wire[u] \in Answers => request'[u] = request[u]
    <3> SUFFICES ASSUME NEW u \in Threads \ {t}, wire[u] \in Answers PROVE request'[u] = request[u]
      OBVIOUS
    <3>1. u \in DOMAIN request
      BY <2>2, AskerKnown
    <3> QED
      BY <1>1, <3>1
  <2> QED
    BY <2>1, <2>2, <2>3 DEF AnsweredIn
<1>12. moves => new \notin found
  BY <1>5 DEF FoundIn, PositionsIn, times
<1>13. found' = IF moves THEN found \cup {new} ELSE found
  <2>1. ASSUME NEW q \in Processes, NEW i \in Nat
        PROVE  <<q, i>> \in found' <=> <<q, i>> \in found \/ (moves /\ <<q, i>> = new)
    <3>1. /\ <<q, i>> \in found'
                <=> /\ i \in DOMAIN evaluated'[q][client]
                    /\ evaluated'[q][client][i] > low /\ evaluated'[q][client][i] <= high
          /\ <<q, i>> \in found
                <=> /\ i \in DOMAIN evaluated[q][client]
                    /\ evaluated[q][client][i] > low /\ evaluated[q][client][i] <= high
      BY DEF FoundIn, PositionsIn, Processes
    <3>2. CASE q = p /\ client = c
      <4>1. <<q, i>> = new <=> i = n + 1
        BY <3>2
      <4>2. i \in 1..(n + 1) <=> i \in 1..n \/ i = n + 1
        BY <1>5
      <4>3. evaluated[q][client] = times
        BY <3>2 DEF times
      <4> QED
        BY <1>4, <1>5, <3>1, <3>2, <4>1, <4>2, <4>3
    <3>3. CASE q # p \/ client # c
      BY <1>4, <3>1, <3>3
    <3> QED
      BY <3>2, <3>3
  <2>2. found' \subseteq Processes \X Nat /\ found \subseteq Processes \X Nat
    BY DEF FoundIn, Processes
  <2>3. new \in Processes \X Nat
    BY <1>2, <1>5
  <2> HIDE DEF found, moves, new
  <2> QED
    BY <2>1, <2>2, <2>3
<1> HIDE DEF found, answered, seen, moves, new
<1>14. Cardinality(found) \in Nat
  BY <1>7, FS_CardinalityType
<1>15. CASE moves
  <2>1. Cardinality(found') = Cardinality(found) + 1 /\ IsFiniteSet(found')
    BY <1>7, <1>12, <1>13, <1>15, FS_AddElement
  <2>2. Cardinality(answered') = Cardinality(answered) - 1
    BY <1>8, <1>10, <1>11, <1>15, FS_RemoveElement
  <2>3. Cardinality(found') + Cardinality(answered') <= Cardinality(seen')
    BY <1>6, <1>7, <1>8, <1>9, <1>14, <2>1, <2>2
  <2> QED
    BY <2>1, <2>3 DEF found, answered, seen
<1>16. CASE ~moves
  <2>1. found' = found /\ answered' = answered
    BY <1>10, <1>11, <1>13, <1>16
  <2>2. Cardinality(found') + Cardinality(answered') <= Cardinality(seen')
    BY <1>6, <1>7, <2>1
  <2> QED
    BY <1>7, <2>1, <2>2 DEF found, answered, seen
<1> QED
  BY <1>15, <1>16

LEMMA NextBudget ==
    SystemTyped /\ DequesInv /\ BudgetInv /\ [SystemNext]_systemVars => BudgetInv'
<1> SUFFICES ASSUME SystemTyped, DequesInv, BudgetInv, [SystemNext]_systemVars PROVE BudgetInv'
  OBVIOUS
<1>1. /\ wire \in [Threads -> Answers \cup {"none", "asked", "broken"}]
      /\ \A u \in Threads : wire[u] \in Answers => u \in DOMAIN request
  BY AskerKnown, AnswerNames DEF SystemTyped, NetTyped, OnTheWire
<1>2. ASSUME NEW t \in Threads, ApiReceives(t) PROVE BudgetInv'
  <2>1. PICK call \in Calls, client \in Clients, code \in Codes : Receive(t, call, client, code)
    BY <1>2 DEF ApiReceives
  <2>2. UNCHANGED <<wire, generation, evaluated, workerEvaluated>>
    BY <1>2, <2>1, QuietWorker, ReceiveEffect DEF ApiReceives, netVars
  <2> QED
    BY <1>1, <2>1, <2>2, ReceiveEffect, QuietBudget
<1>3. ASSUME NEW t \in Threads, ApiChecksLimit(t) PROVE BudgetInv'
  <2>1. CheckLimit(t) /\ \E m \in {"asked", "none"} : wire' = [wire EXCEPT ![t] = m]
    BY <1>3 DEF ApiChecksLimit
  <2>2. UNCHANGED <<generation, evaluated, workerEvaluated>>
    BY <1>3, <2>1, QuietWorker, CheckEffect
  <2>3. wire'[t] \notin Answers /\ \A u \in Threads \ {t} : wire'[u] = wire[u]
    BY <1>1, <2>1, AnswerNames
  <2> QED
    BY <1>1, <2>1, <2>2, <2>3, CheckEffect, QuietBudget
<1>4. ASSUME NEW t \in Threads, ApiFinishes(t) PROVE BudgetInv'
  <2>1. UNCHANGED <<wire, generation, workerEvaluated>>
    BY <1>4, QuietWorker DEF ApiFinishes, netVars
  <2>2. CASE CountFailure(t) \/ ReadLog(t) \/ NotifyGuardian(t)
    BY <1>1, <2>1, <2>2, FinishEffect, QuietBudget
  <2>3. CASE AddRecord(t)
    <3>1. wire[t] = "none" /\ evaluated' = evaluated
          /\ \A u \in DOMAIN request \ {t} : request'[u] = request[u]
      BY <2>3, RecordEffect
    <3> QED
      BY <1>1, <2>1, <3>1, AnswerNames, QuietBudget
  <2> QED
    BY <1>4, <2>2, <2>3 DEF ApiFinishes
<1>5. ASSUME NEW t \in Threads, ReplyArrives(t) PROVE BudgetInv'
  <2>1. CASE IsFailure(wire[t])
    BY <1>5, <2>1, CountedBudget
  <2>2. CASE ~IsFailure(wire[t])
    <3>0. wire' = [wire EXCEPT ![t] = "none"]
      BY <1>5 DEF ReplyArrives
    <3>1. wire'[t] \notin Answers /\ \A u \in Threads \ {t} : wire'[u] = wire[u]
      BY <1>1, <3>0, AnswerNames
    <3>2. /\ UNCHANGED <<generation, evaluated, workerEvaluated>>
          /\ \A u \in DOMAIN request \ {t} : request'[u] = request[u]
      BY <1>5, <2>2, ReplyEffect DEF workerVars
    <3> QED
      BY <1>1, <3>1, <3>2, QuietBudget
  <2> QED
    BY <2>1, <2>2
<1>6. ASSUME NEW t \in Threads, CallFails(t) PROVE BudgetInv'
  <2>1. wire'[t] \notin Answers /\ \A u \in Threads \ {t} : wire'[u] = wire[u]
    BY <1>1, <1>6, FailEffect, AnswerNames
  <2>2. /\ UNCHANGED <<generation, evaluated, workerEvaluated>>
        /\ \A u \in DOMAIN request \ {t} : request'[u] = request[u]
    BY <1>6, FailEffect DEF workerVars
  <2> QED
    BY <1>1, <2>1, <2>2, QuietBudget
<1>7. CASE WorkerRestarts
  <2>1. generation' # 0
    BY <1>7 DEF WorkerRestarts, Worker!Restart, SystemTyped, WorkerTyped
  <2> QED
    BY <2>1 DEF BudgetInv
<1>8. CASE StaffActs \/ ClockTicks \/ SystemIsDone \/ UNCHANGED systemVars
  <2>1. UNCHANGED <<generation, workerEvaluated>>
    BY <1>8, QuietWorker
  <2>2. UNCHANGED <<wire, request, evaluated>>
    BY <1>8 DEF StaffActs, ClockTicks, Tick, SystemIsDone, BoundsReached, systemVars, apiVars,
                vars, netVars
  <2> QED
    BY <2>1, <2>2, QuietBudget
<1> QED
  BY <1>2, <1>3, <1>4, <1>5, <1>6, <1>7, <1>8, HandledBudget, LateBudget DEF SystemNext

\* The worker's own budget, of the codes it evaluated under a client's key.
LEMMA WorkerBoundsSeen ==
    ASSUME SystemTyped, WorkerLimits, NEW client \in Clients, NEW end \in Int
    PROVE  Cardinality(SeenByWorker(client, end - WindowSeconds, end)) <= MaxFailures
<1> DEFINE e == workerEvaluated[ClientKey(client)]
           f == workerFailures[ClientKey(client)]
<1>1. e \in Times /\ f \in Times /\ now \in Int
  BY WorkerTimes, KeyType
<1>2. Limits(e, f, now)
  BY KeyType DEF WorkerLimits
<1>3. SeenByWorker(client, end - WindowSeconds, end)
        = {i \in DOMAIN e : e[i] > end - WindowSeconds /\ e[i] <= end}
  BY DEF SeenByWorker, PositionsIn
<1> HIDE DEF e, f
<1>4. Cardinality({i \in DOMAIN e : e[i] > end - WindowSeconds /\ e[i] <= end}) <= MaxFailures
  BY <1>1, <1>2, LimitsBoundWindow
<1> QED
  BY <1>3, <1>4

\* However many processes and threads the api has, and however its requests
\* overlap, are lost or executed late: until the worker restarts, no window
\* shortened by the duration of a request holds more than MaxFailures evaluated
\* wrong codes of a client.
THEOREM EndToEndLimit == SystemSpec => []EndToEndBudget
<1>1. SystemInit => DequesInv
  BY InitDeques DEF SystemInit
<1>2. SystemInit => WorkerLimits
  BY PolicyAssumption DEF SystemInit, Worker!Init, WorkerLimits, Limits
<1>3. SystemTyped /\ DequesInv /\ [SystemNext]_systemVars => DequesInv'
  BY ApiSteps, NextDeques DEF SystemTyped
<1>4. ASSUME SystemTyped, WorkerLimits, BudgetInv PROVE EndToEndBudget
  <2> SUFFICES ASSUME generation = 0, NEW client \in Clients, NEW t \in 0..MaxTime
               PROVE  Cardinality(AllWrongCodes(client, WindowSeconds - MaxRequestSeconds, t))
                          <= MaxFailures
    BY DEF EndToEndBudget
  <2> DEFINE low == t - (WindowSeconds - MaxRequestSeconds)
             found == FoundIn(client, low, t)
             seen == SeenByWorker(client, low, t + MaxRequestSeconds)
             wrong == AllWrongCodes(client, WindowSeconds - MaxRequestSeconds, t)
  <2>1. /\ t \in Int /\ low \in Int /\ t + MaxRequestSeconds \in Int
        /\ low = t + MaxRequestSeconds - WindowSeconds
        /\ MaxRequests \in Nat /\ MaxFailures \in Nat
    BY CallAssumption, PolicyAssumption
  <2>2. IsFiniteSet(found) /\ Cardinality(found) + Cardinality(AnsweredIn(client, low, t))
                                  <= Cardinality(seen)
    BY <1>4, <2>1 DEF BudgetInv, CountedByWorker
  <2>3. wrong \in SUBSET found
    BY <2>1 DEF AllWrongCodes, WrongCodes, FoundIn, PositionsIn
  <2>4. Cardinality(seen) <= MaxFailures
    <3> DEFINE end == t + MaxRequestSeconds
    <3>1. end \in Int /\ low = end - WindowSeconds
      BY <2>1, CallAssumption, PolicyAssumption
    <3> HIDE DEF end
    <3>2. Cardinality(SeenByWorker(client, end - WindowSeconds, end)) <= MaxFailures
      BY <1>4, <3>1, WorkerBoundsSeen
    <3>3. seen = SeenByWorker(client, end - WindowSeconds, end)
      BY <3>1 DEF end
    <3> QED
      BY <3>2, <3>3
  <2>5. Cardinality(AnsweredIn(client, low, t)) \in Nat /\ Cardinality(seen) \in Nat
    BY <1>4, <2>1, AnsweredIsFinite, SeenIsFinite
  <2> HIDE DEF found, seen, wrong, low
  <2>6. Cardinality(wrong) <= Cardinality(found) /\ Cardinality(wrong) \in Nat
        /\ Cardinality(found) \in Nat
    BY <2>2, <2>3, FS_Subset, FS_CardinalityType
  <2>7. Cardinality(wrong) <= MaxFailures
    BY <2>1, <2>2, <2>4, <2>5, <2>6
  <2> QED
    BY <2>7 DEF wrong
<1> QED
  BY <1>1, <1>2, <1>3, <1>4, InitSystem, NextSystem, NextWorkerLimits, InitBudget, NextBudget, PTL
     DEF SystemSpec

-----------------------------------------------------------------------------
(***************************************************************************)
(* Nobody is refused for what others typed                                 *)
(***************************************************************************)
WrongSeen(p, client) == evaluated[p][client] # << >>

\* What a process counts was found wrong there before.
FailuresAreFound ==
    /\ \A p \in Processes, client \in Clients :
            failures[p][client] # << >> => WrongSeen(p, client)
    /\ \A t \in DOMAIN request : pc[t] = "failed" => WrongSeen(ProcessOf[t], request[t].client)

LEMMA NoFailures ==
    ASSUME NEW S, NEW times \in Seq(S), NEW x \in S
    PROVE  /\ times # << >> <=> Len(times) > 0
           /\ Append(times, x) # << >>
<1>1. /\ Len(times) \in Nat /\ DOMAIN times = 1..Len(times)
      /\ Len(Append(times, x)) = Len(times) + 1 /\ Len(<< >>) = 0
  BY LenProperties, AppendProperties
<1>2. Len(times) = 0 => times = << >>
  BY <1>1
<1> QED
  BY <1>1, <1>2

LEMMA PurgeFindsNothing ==
    ASSUME Typed, NEW t \in DOMAIN request, Recent(t) # << >>
    PROVE  failures[ProcessOf[t]][request[t].client] # << >>
<1> DEFINE times == failures[ProcessOf[t]][request[t].client]
           since == WindowStart(request[t].at)
<1>1. times \in Seq(0..MaxTime) /\ request[t] \in Request
  BY RecentType
<1>2. request[t].at \in 0..MaxTime
  BY <1>1 DEF Request
<1>8. since \in Int /\ 0..MaxTime \in SUBSET Int
  BY <1>2, CallAssumption, PolicyAssumption DEF WindowStart
<1>3. Recent(t) = AfterPurge(times, since)
  BY DEF Recent
<1> HIDE DEF times, since
<1>4. Len(AfterPurge(times, since)) <= Len(times) /\ AfterPurge(times, since) \in Seq(0..MaxTime)
  <2>1. StaleHead(times, since) \in 0..Len(times)
    BY <1>1, <1>8, StaleHeadProperties
  <2>2. /\ Len(AfterPurge(times, since)) = Len(times) - StaleHead(times, since)
        /\ AfterPurge(times, since) \in Seq(0..MaxTime)
    BY <1>1, <1>8, AfterPurgeProperties
  <2> QED
    BY <1>1, <2>1, <2>2, LenProperties
<1>5. Len(AfterPurge(times, since)) > 0
  BY <1>3, <1>4, LenProperties, NoFailures
<1>6. Len(times) > 0
  BY <1>1, <1>4, <1>5, LenProperties
<1>7. times # << >>
  BY <1>1, <1>6, LenProperties
<1> QED
  BY <1>7 DEF times

LEMMA InitFound == Init => FailuresAreFound
<1> SUFFICES ASSUME Init PROVE FailuresAreFound
  OBVIOUS
<1>1. DOMAIN request = {}
  BY DEF Init
<1>2. \A p \in Processes, client \in Clients : failures[p][client] = << >>
  BY DEF Init
<1> QED
  BY <1>1, <1>2 DEF FailuresAreFound

\* A step that counts nothing and begins no counting.
LEMMA QuietFound ==
    ASSUME FailuresAreFound, UNCHANGED <<failures, evaluated>>,
           \A u \in DOMAIN request' :
               pc'[u] = "failed" =>
                   /\ u \in DOMAIN request /\ pc[u] = "failed"
                   /\ request'[u].client = request[u].client
    PROVE  FailuresAreFound'
BY DEF FailuresAreFound, WrongSeen, Processes

LEMMA NextFound == SystemTyped /\ FailuresAreFound /\ [SystemNext]_systemVars => FailuresAreFound'
<1> SUFFICES ASSUME SystemTyped, FailuresAreFound, [SystemNext]_systemVars PROVE FailuresAreFound'
  OBVIOUS
<1>1. /\ failures \in [Processes -> [Clients -> Seq(0..MaxTime)]]
      /\ evaluated \in [Processes -> [Clients -> Seq(0..MaxTime)]]
      /\ pc \in [Threads -> Steps] /\ DOMAIN request = {t \in Threads : pc[t] # "idle"}
      /\ \A t \in DOMAIN request : request[t] \in Request /\ ProcessOf[t] \in Processes
  BY DEF SystemTyped, Typed, TypeOK, Running, Processes
<1>2. ASSUME NEW t \in Threads, ApiReceives(t) PROVE FailuresAreFound'
  <2>1. PICK call \in Calls, client \in Clients, code \in Codes : Receive(t, call, client, code)
    BY <1>2 DEF ApiReceives
  <2>2. /\ UNCHANGED <<failures, evaluated>>
        /\ DOMAIN request' = DOMAIN request \cup {t}
        /\ \A u \in DOMAIN request : request'[u] = request[u] /\ pc'[u] = pc[u]
        /\ pc' = [pc EXCEPT ![t] = "received"]
    BY <2>1, ReceiveEffect
  <2>3. pc'[t] # "failed"
    BY <1>1, <2>2
  <2> QED
    BY <2>2, <2>3, QuietFound
<1>3. ASSUME NEW t \in Threads, ApiChecksLimit(t) PROVE FailuresAreFound'
  <2> DEFINE p == ProcessOf[t]
             c == request[t].client
  <2>1. CheckLimit(t)
    BY <1>3 DEF ApiChecksLimit
  <2>2. /\ t \in DOMAIN request /\ p \in Processes /\ c \in Clients
        /\ failures' = [failures EXCEPT ![p][c] = Recent(t)]
        /\ evaluated' = evaluated
        /\ DOMAIN request' = DOMAIN request
        /\ \A u \in DOMAIN request : request'[u].client = request[u].client
    BY <1>1, <2>1, CheckEffect DEF Request
  <2>3. pc'[t] # "failed" /\ \A u \in DOMAIN request \ {t} : pc'[u] = pc[u]
    <3>1. \E step \in {"answered", "calling"} : pc' = [pc EXCEPT ![t] = step]
      BY <2>1 DEF CheckLimit
    <3> QED
      BY <1>1, <3>1
  <2>4. Recent(t) # << >> => WrongSeen(p, c)
    <3>1. Recent(t) # << >> => failures[p][c] # << >>
      BY <2>2, PurgeFindsNothing DEF SystemTyped
    <3> HIDE DEF p, c
    <3> QED
      BY <2>2, <3>1 DEF FailuresAreFound
  <2> HIDE DEF p, c
  <2>5. \A q \in Processes, d \in Clients : failures'[q][d] # << >> => WrongSeen(q, d)
    BY <1>1, <2>2, <2>4 DEF FailuresAreFound
  <2> QED
    BY <2>2, <2>3, <2>5 DEF FailuresAreFound, WrongSeen, Processes
<1>4. ASSUME NEW t \in Threads, ApiFinishes(t) PROVE FailuresAreFound'
  <2>1. CASE CountFailure(t)
    <3> DEFINE p == ProcessOf[t]
               c == request[t].client
    <3>1. /\ t \in DOMAIN request /\ p \in Processes /\ c \in Clients
          /\ failures' = [failures EXCEPT ![p][c] = Append(failures[p][c], FailureTime(t))]
          /\ evaluated' = evaluated /\ request' = request
          /\ pc[t] = "failed" /\ pc' = [pc EXCEPT ![t] = "answered"]
      BY <1>1, <2>1 DEF CountFailure, Request
    <3>2. WrongSeen(p, c)
      BY <3>1 DEF FailuresAreFound
    <3> HIDE DEF p, c
    <3>3. \A q \in Processes, d \in Clients : failures'[q][d] # << >> => WrongSeen(q, d)
      BY <1>1, <3>1, <3>2 DEF FailuresAreFound
    <3>4. \A u \in DOMAIN request : pc'[u] = "failed" => pc[u] = "failed"
      BY <1>1, <3>1
    <3> QED
      BY <3>1, <3>3, <3>4 DEF FailuresAreFound, WrongSeen, Processes
  <2>2. CASE ReadLog(t) \/ NotifyGuardian(t)
    <3>1. UNCHANGED failures
      BY <2>2 DEF ReadLog, NotifyGuardian
    <3> QED
      BY <1>1, <2>2, <3>1, FinishEffect, QuietFound
  <2>3. CASE AddRecord(t)
    BY <1>1, <2>3, RecordEffect, QuietFound
  <2> QED
    BY <1>4, <2>1, <2>2, <2>3 DEF ApiFinishes
<1>5. ASSUME NEW t \in Threads, ReplyArrives(t) PROVE FailuresAreFound'
  <2> DEFINE p == ProcessOf[t]
             c == request[t].client
  <2>1. /\ t \in DOMAIN request /\ p \in Processes /\ c \in Clients /\ request[t].at \in 0..MaxTime
        /\ failures' = failures
        /\ DOMAIN request' = DOMAIN request
        /\ \A u \in DOMAIN request \ {t} : request'[u] = request[u]
        /\ request'[t].client = request[t].client
        /\ \A u \in DOMAIN request \ {t} : pc'[u] = pc[u]
        /\ pc' = [pc EXCEPT ![t] = IF IsFailure(wire[t]) THEN "failed" ELSE "answered"]
        /\ evaluated' = IF IsFailure(wire[t])
                        THEN [evaluated EXCEPT ![p][c] = Append(evaluated[p][c], request[t].at)]
                        ELSE evaluated
    <3>1. t \in DOMAIN request
      BY <1>5, ReplyEffect
    <3>2. p \in Processes /\ c \in Clients /\ request[t].at \in 0..MaxTime
      BY <1>1, <3>1 DEF Request
    <3> QED
      BY <1>5, <3>1, <3>2, ReplyEffect
  <2>6. pc'[t] = "failed" => IsFailure(wire[t])
    BY <1>1, <2>1
  <2>7. \A u \in DOMAIN request : request'[u].client = request[u].client
    BY <2>1
  <2>2. Append(evaluated[p][c], request[t].at) # << >>
    <3> HIDE DEF p, c
    <3>1. evaluated[p][c] \in Seq(0..MaxTime)
      BY <1>1, <2>1
    <3> QED
      BY <2>1, <3>1, NoFailures
  <2> HIDE DEF p, c
  <2>3. \A q \in Processes, d \in Clients : WrongSeen(q, d) => WrongSeen(q, d)'
    BY <1>1, <2>1, <2>2 DEF WrongSeen
  <2>4. IsFailure(wire[t]) => evaluated'[p][c] # << >>
    BY <1>1, <2>1, <2>2
  <2>5. \A u \in DOMAIN request :
            pc'[u] = "failed" => evaluated'[ProcessOf[u]][request'[u].client] # << >>
    <3> SUFFICES ASSUME NEW u \in DOMAIN request, pc'[u] = "failed"
                 PROVE  evaluated'[ProcessOf[u]][request'[u].client] # << >>
      OBVIOUS
    <3>1. ProcessOf[u] \in Processes /\ request[u].client \in Clients
          /\ request'[u].client = request[u].client
      BY <1>1, <2>7 DEF Request
    <3>2. CASE u = t
      BY <2>4, <2>6, <3>1, <3>2 DEF p, c
    <3>3. CASE u # t
      BY <2>1, <2>3, <3>1, <3>3 DEF WrongSeen, FailuresAreFound
    <3> QED
      BY <3>2, <3>3
  <2> QED
    BY <2>1, <2>3, <2>5 DEF FailuresAreFound, WrongSeen, Processes
<1>6. ASSUME NEW t \in Threads, CallFails(t) PROVE FailuresAreFound'
  BY <1>1, <1>6, FailEffect, QuietFound
<1>7. ASSUME UNCHANGED <<pc, request, failures, evaluated>> PROVE FailuresAreFound'
  BY <1>7, QuietFound
<1> QED
  BY <1>2, <1>3, <1>4, <1>5, <1>6, <1>7
     DEF SystemNext, WorkerHandles, LateExecution, StaffActs, WorkerRestarts, ClockTicks, Tick,
         SystemIsDone, BoundsReached, systemVars, apiVars, vars

Refused(t) == wire[t] = "rate_limited" \/ request[t].reason = "rate_limited"

\* The client typed a wrong code itself, or the worker has lost its history.
OwnReason(t) ==
    \/ WrongSeen(ProcessOf[t], request[t].client)
    \/ workerEvaluated[request[t].client] # << >>
    \/ generation > 0

OwnInv == \A t \in DOMAIN request : Refused(t) => OwnReason(t)

LEMMA WorkerLimitIsOwn ==
    ASSUME SystemTyped, WorkerLimits, NEW key \in Addresses, Worker!Limited(key)
    PROVE  workerEvaluated[key] # << >>
<1> DEFINE e == workerEvaluated[key]
           r == Worker!Recent(key)
<1>1. r = AfterPurge(workerFailures[key], WindowStart(now)) /\ Len(r) >= MaxFailures
  BY WorkerDeque DEF IsLimited
<1>2. e \in Times /\ r \in Times /\ Limits(e, r, now)
  BY <1>1, WorkerTimes, PurgeKeepsLimits DEF WorkerLimits
<1> HIDE DEF e, r
<1>3. Len(e) \in Nat /\ Len(r) \in Nat /\ Len(e) - Len(r) \in Nat /\ Len(<< >>) = 0
  BY <1>2, LenProperties DEF Limits, Times
<1>4. Len(e) # 0
  BY <1>1, <1>3, PolicyAssumption
<1> QED
  BY <1>3, <1>4 DEF e

LEMMA ApiLimitIsOwn ==
    ASSUME SystemTyped, FailuresAreFound, NEW t \in DOMAIN request, Limited(t)
    PROVE  WrongSeen(ProcessOf[t], request[t].client)
<1>1. ProcessOf[t] \in Processes /\ request[t].client \in Clients /\ Recent(t) \in Seq(0..MaxTime)
  BY RecentType DEF SystemTyped, Request
<1>2. Len(Recent(t)) >= MaxFailures /\ Len(<< >>) = 0
  BY DEF Limited, IsLimited
<1>3. Recent(t) # << >>
  BY <1>2, PolicyAssumption
<1>4. failures[ProcessOf[t]][request[t].client] # << >>
  BY <1>3, PurgeFindsNothing DEF SystemTyped
<1> QED
  BY <1>1, <1>4 DEF FailuresAreFound

\* Within a life of the worker no history is forgotten.
LEMMA HistoriesGrow ==
    ASSUME SystemTyped, [SystemNext]_systemVars
    PROVE  /\ \A p \in Processes, client \in Clients :
                WrongSeen(p, client) => evaluated'[p][client] # << >>
           /\ generation > 0 => generation' > 0
           /\ \/ generation' > 0
              \/ \A key \in Addresses :
                    workerEvaluated[key] # << >> => workerEvaluated'[key] # << >>
<1>1. /\ evaluated \in [Processes -> [Clients -> Seq(0..MaxTime)]]
      /\ workerEvaluated \in [Addresses -> Seq(0..MaxTime)]
      /\ now \in 0..MaxTime /\ generation \in Nat
  BY DEF SystemTyped, Typed, TypeOK, WorkerTyped
<1>2. ASSUME NEW key \in Addresses, NEW code, Worker!Verify(key, code)
      PROVE  /\ generation' = generation
             /\ \A k \in Addresses : workerEvaluated[k] # << >> => workerEvaluated'[k] # << >>
  <2>1. /\ generation' = generation
        /\ \/ workerEvaluated' = [workerEvaluated EXCEPT ![key] = Append(@, now)]
           \/ workerEvaluated' = workerEvaluated
    BY <1>2, VerifyEffect
  <2>2. Append(workerEvaluated[key], now) # << >>
    BY <1>1, NoFailures
  <2> QED
    BY <1>1, <2>1, <2>2
<1>3. ASSUME NEW t \in Threads, WorkerHandles(t)
      PROVE  /\ UNCHANGED <<evaluated, generation>>
             /\ \A k \in Addresses : workerEvaluated[k] # << >> => workerEvaluated'[k] # << >>
  BY <1>2, <1>3, AskerKnown, KeyType DEF WorkerHandles, apiVars
<1>4. ASSUME NEW client \in Clients, NEW code \in Codes, LateExecution(client, code)
      PROVE  /\ UNCHANGED <<evaluated, generation>>
             /\ \A k \in Addresses : workerEvaluated[k] # << >> => workerEvaluated'[k] # << >>
  BY <1>2, <1>4, KeyType DEF LateExecution, apiVars
<1>5. CASE WorkerRestarts
  BY <1>1, <1>5 DEF WorkerRestarts, Worker!Restart, apiVars, WrongSeen
<1>6. ASSUME NEW t \in Threads, ReplyArrives(t)
      PROVE  \A p \in Processes, client \in Clients :
                WrongSeen(p, client) => evaluated'[p][client] # << >>
  <2> DEFINE q == ProcessOf[t]
             c == request[t].client
  <2>1. /\ t \in DOMAIN request
        /\ \/ evaluated' = [evaluated EXCEPT ![q][c] = Append(evaluated[q][c], request[t].at)]
           \/ evaluated' = evaluated
    BY <1>6, ReplyEffect
  <2>2. q \in Processes /\ c \in Clients /\ request[t].at \in 0..MaxTime
    BY <2>1 DEF SystemTyped, Typed, TypeOK, Request, Processes
  <2> HIDE DEF q, c
  <2>3. evaluated[q][c] \in Seq(0..MaxTime)
    BY <1>1, <2>2
  <2>4. Append(evaluated[q][c], request[t].at) # << >>
    BY <2>2, <2>3, NoFailures
  <2>5. CASE evaluated' = [evaluated EXCEPT ![q][c] = Append(evaluated[q][c], request[t].at)]
    BY <1>1, <2>2, <2>4, <2>5 DEF WrongSeen
  <2>6. CASE evaluated' = evaluated
    BY <2>6 DEF WrongSeen
  <2> QED
    BY <2>1, <2>5, <2>6
<1>7. ASSUME \/ \E t \in Threads : ApiReceives(t) \/ ApiChecksLimit(t) \/ ApiFinishes(t)
                                   \/ CallFails(t)
             \/ StaffActs \/ ClockTicks \/ SystemIsDone \/ UNCHANGED systemVars
      PROVE  UNCHANGED <<evaluated, generation, workerEvaluated>>
  <2>1. UNCHANGED evaluated
    BY <1>7 DEF ApiReceives, ApiChecksLimit, ApiFinishes, CallFails, StaffActs, ClockTicks, Tick,
                SystemIsDone, systemVars, apiVars, Receive, CheckLimit, CountFailure, ReadLog,
                NotifyGuardian, AddRecord, WorkerFails, BoundsReached, vars
  <2> QED
    BY <1>7, <2>1, QuietWorker
<1>8. ASSUME NEW t \in Threads, ReplyArrives(t) PROVE UNCHANGED <<generation, workerEvaluated>>
  BY <1>8, QuietWorker
<1> QED
  BY <1>3, <1>4, <1>5, <1>6, <1>7, <1>8 DEF SystemNext, WrongSeen

\* A step after which nobody is refused who was not before, unless for a reason
\* of his own.
LEMMA KeepsOwn ==
    ASSUME SystemTyped, OwnInv, [SystemNext]_systemVars,
           \A u \in DOMAIN request' :
               wire'[u] = "rate_limited" \/ request'[u].reason = "rate_limited" =>
                   /\ u \in DOMAIN request
                   /\ request'[u].client = request[u].client
                   /\ Refused(u) \/ OwnReason(u)
    PROVE  OwnInv'
<1> SUFFICES ASSUME NEW u \in Threads, u \in DOMAIN request', Refused(u)'
             PROVE  \/ evaluated'[ProcessOf[u]][request'[u].client] # << >>
                    \/ workerEvaluated'[request'[u].client] # << >>
                    \/ generation' > 0
  <2>1. DOMAIN request' \subseteq Threads
    BY NextSystem DEF SystemTyped, Typed, TypeOK
  <2> QED
    BY <2>1 DEF OwnInv, OwnReason, WrongSeen
<1>1. /\ u \in DOMAIN request /\ request'[u].client = request[u].client
      /\ OwnReason(u)
  BY DEF OwnInv, Refused
<1>2. /\ ProcessOf[u] \in Processes /\ request[u].client \in Clients
      /\ request[u].client \in Addresses
  BY <1>1 DEF SystemTyped, Typed, TypeOK, Request, Processes, Addresses
<1> QED
  BY <1>1, <1>2, HistoriesGrow DEF OwnReason

LEMMA NextOwn ==
    ASSUME ApiAddress \in TrustedProxies
    PROVE  /\ SystemTyped /\ WorkerLimits /\ FailuresAreFound /\ OwnInv
           /\ [SystemNext]_systemVars
           => OwnInv'
<1> SUFFICES ASSUME SystemTyped, WorkerLimits, FailuresAreFound, OwnInv, [SystemNext]_systemVars
             PROVE  OwnInv'
  OBVIOUS
<1> DEFINE Kept(u) == wire'[u] = "rate_limited" \/ request'[u].reason = "rate_limited" =>
                          /\ u \in DOMAIN request
                          /\ request'[u].client = request[u].client
                          /\ Refused(u) \/ OwnReason(u)
<1>1. /\ wire \in [Threads -> Answers \cup {"none", "asked", "broken"}]
      /\ \A u \in Threads : wire[u] # "none" => u \in DOMAIN request
      /\ DOMAIN request \subseteq Threads
  BY AskerKnown DEF SystemTyped, NetTyped, OnTheWire, Typed, TypeOK
<1>2. ASSUME NEW t \in Threads, ApiReceives(t), NEW u \in DOMAIN request' PROVE Kept(u)
  <2>1. PICK call \in Calls, client \in Clients, code \in Codes : Receive(t, call, client, code)
    BY <1>2 DEF ApiReceives
  <2>2. UNCHANGED wire
    BY <1>2 DEF ApiReceives, netVars
  <2>3. /\ wire[t] = "none" /\ request'[t].reason = ""
        /\ DOMAIN request' = DOMAIN request \cup {t}
        /\ \A v \in DOMAIN request : request'[v] = request[v]
    BY <2>1, ReceiveEffect
  <2>4. CASE u = t
    BY <2>2, <2>3, <2>4
  <2>5. CASE u # t
    BY <1>2, <2>2, <2>3, <2>5 DEF Refused
  <2> QED
    BY <2>4, <2>5
<1>3. ASSUME NEW t \in Threads, ApiChecksLimit(t), NEW u \in DOMAIN request' PROVE Kept(u)
  <2>1. CheckLimit(t) /\ \E m \in {"asked", "none"} : wire' = [wire EXCEPT ![t] = m]
    BY <1>3 DEF ApiChecksLimit
  <2>2. u \in DOMAIN request /\ request'[u].client = request[u].client
    BY <1>3, <2>1, CheckEffect
  <2>3. CASE u # t
    <3>1. request'[u] = request[u]
      BY <2>1, <2>2, <2>3 DEF CheckLimit
    <3>2. wire'[u] = wire[u]
      BY <1>1, <2>1, <2>2, <2>3
    <3> QED
      BY <2>2, <3>1, <3>2 DEF Refused
  <2>4. CASE u = t /\ Limited(t)
    BY <2>2, <2>4, ApiLimitIsOwn DEF OwnReason
  <2>5. CASE u = t /\ ~Limited(t)
    BY <1>1, <2>1, <2>5, CheckEffect
  <2> QED
    BY <2>3, <2>4, <2>5
<1>4. ASSUME NEW t \in Threads, ApiFinishes(t), NEW u \in DOMAIN request' PROVE Kept(u)
  <2>1. UNCHANGED wire
    BY <1>4 DEF ApiFinishes, netVars
  <2>2. CASE CountFailure(t) \/ ReadLog(t) \/ NotifyGuardian(t)
    BY <1>4, <2>1, <2>2, FinishEffect DEF Refused
  <2>3. CASE AddRecord(t)
    BY <1>4, <2>1, <2>3, RecordEffect DEF Refused
  <2> QED
    BY <1>4, <2>2, <2>3 DEF ApiFinishes
<1>5. ASSUME NEW t \in Threads, WorkerHandles(t), NEW u \in DOMAIN request' PROVE Kept(u)
  <2> DEFINE c == request[t].client
             code == request[t].code
             answer == Worker!Answer(c, code)
  <2>1. /\ wire[t] = "asked" /\ request' = request
        /\ wire' = [wire EXCEPT ![t] = answer]
        /\ Worker!Verify(c, code)
    BY <1>5 DEF WorkerHandles, ClientKey, apiVars
  <2>2. t \in DOMAIN request /\ c \in Addresses
    BY <2>1, AskerKnown DEF Addresses
  <2>3. answer = "rate_limited" => workerEvaluated[c] # << >>
    BY <2>1, <2>2, VerifyEffect, WorkerLimitIsOwn
  <2> QED
    BY <1>1, <2>1, <2>2, <2>3 DEF Refused, OwnReason
<1>6. ASSUME NEW t \in Threads, ReplyArrives(t), NEW u \in DOMAIN request' PROVE Kept(u)
  BY <1>1, <1>6, ReplyEffect DEF Refused
<1>7. ASSUME NEW t \in Threads, CallFails(t), NEW u \in DOMAIN request' PROVE Kept(u)
  BY <1>1, <1>7, FailEffect DEF Refused
<1>8. ASSUME WorkerRestarts, NEW u \in DOMAIN request' PROVE Kept(u)
  BY <1>1, <1>8 DEF WorkerRestarts, apiVars, Refused
<1>9. ASSUME UNCHANGED <<request, wire>>, NEW u \in DOMAIN request' PROVE Kept(u)
  BY <1>9 DEF Refused
<1>10. \A u \in DOMAIN request' : Kept(u)
  BY <1>2, <1>3, <1>4, <1>5, <1>6, <1>7, <1>8, <1>9
     DEF SystemNext, LateExecution, StaffActs, ClockTicks, Tick, SystemIsDone, BoundsReached,
         systemVars, apiVars, netVars, vars
<1> QED
  BY <1>10, KeepsOwn

\* Where the worker trusts the api's X-Forwarded-For header, a client is refused
\* only for wrong codes typed from its own address, whichever limiter refuses
\* it, until a restart of the worker ends the history that shows it.
THEOREM OwnFailuresLimit ==
    ASSUME ApiAddress \in TrustedProxies
    PROVE  SystemSpec => []OnlyOwnFailuresLimit
<1>1. SystemInit => WorkerLimits /\ FailuresAreFound /\ OwnInv
  <2>1. SystemInit => WorkerLimits
    BY PolicyAssumption DEF SystemInit, Worker!Init, WorkerLimits, Limits
  <2>2. SystemInit => OwnInv
    BY DEF SystemInit, Init, OwnInv
  <2> QED
    BY <2>1, <2>2, InitFound DEF SystemInit
<1>2. OwnInv => OnlyOwnFailuresLimit
  BY DEF OwnInv, OwnReason, Refused, WrongSeen, OnlyOwnFailuresLimit
<1> QED
  BY <1>1, <1>2, InitSystem, NextSystem, NextWorkerLimits, NextFound, NextOwn, PTL DEF SystemSpec
=============================================================================
