---------------------- MODULE VerificationScreensProofs ----------------------
(***************************************************************************)
(* Proofs about VerificationScreens for any number of citizens' pages and  *)
(* calls, any code space, and every bound.                                 *)
(***************************************************************************)
EXTENDS VerificationScreens, SequenceTheorems, FiniteSetTheorems, TLAPS

-----------------------------------------------------------------------------
(***************************************************************************)
(* Type correctness                                                        *)
(***************************************************************************)

Submitted == [panel : Panels, code : Codes, stage : Stages,
              reason : WorkerReasons \cup {Nothing}, retry : BOOLEAN,
              waiting : BOOLEAN, lost : BOOLEAN]

Screens == [kind : {"form", "notice", "red", "green", "gray"}, of : 0..MaxRequests]

\* What TypeOK counts, as the values there are.
AtMostOne ==
    /\ made = {} \/ (asking /\ \E a \in Proofs : made = {a})
    /\ shown = {} \/ \E a \in Proofs : shown = {a}

\* A request has a reason from its evaluation on.
Reasoned ==
    \A i \in DOMAIN requests :
        requests[i].stage \in {"evaluated", "decided", "recorded"}
            => requests[i].reason \in WorkerReasons

Typed == TypeOK /\ AtMostOne /\ Reasoned

LEMMA OneIsCounted ==
    ASSUME AtMostOne, asking \in BOOLEAN
    PROVE  /\ (made \cup shown) \subseteq Proofs
           /\ Cardinality(made) <= (IF asking THEN 1 ELSE 0)
           /\ Cardinality(shown) <= 1
<1>1. Cardinality({}) = 0 /\ \A a : Cardinality({a}) = 1
  BY FS_EmptySet, FS_Singleton
<1>2. Cardinality(made) <= (IF asking THEN 1 ELSE 0)
  <2>1. CASE made = {}
    BY <1>1, <2>1
  <2>2. CASE asking /\ \E a \in Proofs : made = {a}
    <3>1. Cardinality(made) = 1
      BY <1>1, <2>2
    <3>2. (IF asking THEN 1 ELSE 0) = 1
      BY <2>2
    <3> QED
      BY <3>1, <3>2
  <2> QED
    BY <2>1, <2>2 DEF AtMostOne
<1>3. Cardinality(shown) <= 1
  BY <1>1 DEF AtMostOne
<1> QED
  BY <1>2, <1>3 DEF AtMostOne

LEMMA RequestsType ==
    ASSUME Typed
    PROVE  /\ requests \in Seq(Submitted)
           /\ Len(requests) \in 0..MaxRequests
           /\ DOMAIN requests = 1..Len(requests)
           /\ DOMAIN requests \subseteq 1..MaxRequests
           /\ \A i \in DOMAIN requests : requests[i] \in Submitted /\ CallOf[requests[i].panel] \in Calls
<1>1. requests \in Seq(Submitted) /\ Len(requests) <= MaxRequests /\ MaxRequests \in Nat
  BY ScreensAssumption DEF Typed, TypeOK, Submitted
<1>2. Len(requests) \in Nat /\ DOMAIN requests = 1..Len(requests)
  BY <1>1, LenProperties
<1>3. \A i \in 1..Len(requests) : requests[i] \in Submitted
  BY <1>1, ElementOfSeq
<1> QED
  BY <1>1, <1>2, <1>3 DEF Submitted, Calls

\* A step changes one request.
Changed(i, r) ==
    /\ requests' \in Seq(Submitted)
    /\ Len(requests') = Len(requests)
    /\ DOMAIN requests' = DOMAIN requests
    /\ requests'[i] = r
    /\ \A j \in DOMAIN requests \ {i} : requests'[j] = requests[j]

LEMMA RequestChanged ==
    ASSUME Typed, NEW i \in DOMAIN requests, NEW r \in Submitted,
           requests' = [requests EXCEPT ![i] = r]
    PROVE  Changed(i, r)
<1>1. requests \in Seq(Submitted) /\ DOMAIN requests = 1..Len(requests)
  BY RequestsType
<1>2. /\ requests' \in Seq(Submitted)
      /\ Len(requests') = Len(requests)
      /\ \A j \in 1..Len(requests) : requests'[j] = IF j = i THEN r ELSE requests[j]
  BY <1>1, ExceptSeq
<1> QED
  BY <1>1, <1>2 DEF Changed

\* A step adds a request at the end.
Added(r) ==
    /\ requests' \in Seq(Submitted)
    /\ Len(requests') = Len(requests) + 1
    /\ DOMAIN requests' = DOMAIN requests \cup {Len(requests) + 1}
    /\ Len(requests) + 1 \notin DOMAIN requests
    /\ requests'[Len(requests) + 1] = r
    /\ \A j \in DOMAIN requests : requests'[j] = requests[j]

LEMMA RequestAdded ==
    ASSUME Typed, NEW r \in Submitted, requests' = Append(requests, r)
    PROVE  Added(r)
<1>1. requests \in Seq(Submitted) /\ DOMAIN requests = 1..Len(requests) /\ Len(requests) \in Nat
  BY RequestsType
<1>2. /\ requests' \in Seq(Submitted)
      /\ Len(requests') = Len(requests) + 1
      /\ \A j \in 1..Len(requests) : requests'[j] = requests[j]
      /\ requests'[Len(requests) + 1] = r
  BY <1>1, AppendProperties
<1>3. DOMAIN requests' = 1..(Len(requests) + 1)
  BY <1>2, LenProperties
<1> QED
  BY <1>1, <1>2, <1>3 DEF Added

New(p, code) ==
    [panel |-> p, code |-> code, stage |-> "sent", reason |-> Nothing,
     retry |-> FALSE, waiting |-> TRUE, lost |-> FALSE]

\* What the steps on one request do to it.
LEMMA SubmitAdds ==
    ASSUME Typed, NEW p \in Panels, NEW code \in Codes, Submit(p, code)
    PROVE  Added(New(p, code))
<1>1. New(p, code) \in Submitted
  BY DEF New, Submitted, Stages
<1> QED
  BY <1>1, RequestAdded DEF Submit, New

LEMMA EvaluatedChanges ==
    ASSUME Typed, NEW i \in DOMAIN requests, NEW reason \in WorkerReasons, Evaluated(i, reason)
    PROVE  Changed(i, [requests[i] EXCEPT !.stage = "evaluated", !.reason = reason])
<1> DEFINE r == [requests[i] EXCEPT !.stage = "evaluated", !.reason = reason]
<1>1. r \in Submitted
  BY RequestsType DEF Submitted, Stages
<1>2. requests' = [requests EXCEPT ![i] = r]
  BY DEF Evaluated
<1> HIDE DEF r
<1>3. Changed(i, r)
  BY <1>1, <1>2, RequestChanged
<1> QED
  BY <1>3 DEF r

LEMMA DecideChanges ==
    ASSUME Typed, NEW i \in DOMAIN requests, Decide(i)
    PROVE  Changed(i, [requests[i] EXCEPT !.stage = "decided",
                          !.retry = AllowsCodeRetry(requests[i].reason, log[CallOf[requests[i].panel]])])
<1> DEFINE retry == AllowsCodeRetry(requests[i].reason, log[CallOf[requests[i].panel]])
           r == [requests[i] EXCEPT !.stage = "decided", !.retry = retry]
<1>1. retry \in BOOLEAN
  BY DEF AllowsCodeRetry
<1>2. requests' = [requests EXCEPT ![i] = r]
  BY DEF Decide
<1> HIDE DEF retry
<1>3. r \in Submitted
  BY <1>1, RequestsType DEF Submitted, Stages
<1> HIDE DEF r
<1>4. Changed(i, r)
  BY <1>2, <1>3, RequestChanged
<1> QED
  BY <1>4 DEF r, retry

LEMMA RecordItChanges ==
    ASSUME Typed, NEW i \in DOMAIN requests, RecordIt(i)
    PROVE  Changed(i, [requests[i] EXCEPT !.stage = "recorded"])
<1> DEFINE r == [requests[i] EXCEPT !.stage = "recorded"]
<1>1. r \in Submitted
  BY RequestsType DEF Submitted, Stages
<1>2. requests' = [requests EXCEPT ![i] = r]
  BY DEF RecordIt
<1> HIDE DEF r
<1>3. Changed(i, r)
  BY <1>1, <1>2, RequestChanged
<1> QED
  BY <1>3 DEF r

LEMMA ReceiveChanges ==
    ASSUME Typed, NEW i \in DOMAIN requests, Receive(i)
    PROVE  Changed(i, [requests[i] EXCEPT !.waiting = FALSE])
<1> DEFINE r == [requests[i] EXCEPT !.waiting = FALSE]
<1>1. r \in Submitted
  BY RequestsType DEF Submitted, Stages
<1>2. requests' = [requests EXCEPT ![i] = r]
  BY DEF Receive
<1> HIDE DEF r
<1>3. Changed(i, r)
  BY <1>1, <1>2, RequestChanged
<1> QED
  BY <1>3 DEF r

LEMMA RequestFailsChanges ==
    ASSUME Typed, NEW i \in DOMAIN requests, RequestFails(i)
    PROVE  \E stage \in Stages :
              /\ stage \in {requests[i].stage, "dropped"}
              /\ requests[i].stage \in {"decided", "recorded"} => stage = requests[i].stage
              /\ Changed(i, [requests[i] EXCEPT !.waiting = FALSE, !.lost = TRUE, !.stage = stage])
<1>1. requests[i] \in Submitted
  BY RequestsType
<1>2. PICK stage \in {requests[i].stage}
                        \cup (IF requests[i].stage \in {"sent", "evaluated"} THEN {"dropped"} ELSE {}) :
          requests' = [requests EXCEPT ![i].waiting = FALSE, ![i].lost = TRUE, ![i].stage = stage]
  BY DEF RequestFails
<1>3. /\ stage \in Stages /\ stage \in {requests[i].stage, "dropped"}
      /\ requests[i].stage \in {"decided", "recorded"} => stage = requests[i].stage
  BY <1>1, <1>2 DEF Submitted, Stages
<1> DEFINE r == [requests[i] EXCEPT !.waiting = FALSE, !.lost = TRUE, !.stage = stage]
<1>4. r \in Submitted
  BY <1>1, <1>3 DEF Submitted
<1>5. requests' = [requests EXCEPT ![i] = r]
  BY <1>2
<1> HIDE DEF r
<1>6. Changed(i, r)
  BY <1>4, <1>5, RequestChanged
<1> QED
  BY <1>3, <1>6 DEF r

LEMMA InitTyped == Init => Typed
<1> SUFFICES ASSUME Init PROVE Typed
  OBVIOUS
<1>1. {MaxRequests, MaxFaults, MaxRestarts, MaxTime} \subseteq Nat
  BY ScreensAssumption
<1>2. /\ requests \in Seq(Submitted) /\ Len(requests) = 0 /\ DOMAIN requests = {}
      /\ log \in [Calls -> Seq([reason : WorkerReasons])]
  <2>1. << >> \in Seq(Submitted) /\ Len(<< >>) = 0 /\ DOMAIN << >> = {}
    BY EmptySeq
  <2>2. << >> \in Seq([reason : WorkerReasons])
    BY EmptySeq
  <2> QED
    BY <2>1, <2>2 DEF Init
<1>3. AtMostOne /\ asking \in BOOLEAN
  BY DEF Init, AtMostOne
<1>4. screen \in [Panels -> Screens] /\ alerts \in [Calls -> Nat]
  BY <1>1 DEF Init, Screens
<1>5. Worker!TypeOK /\ now <= MaxTime /\ restarts \in 0..MaxRestarts /\ faults \in 0..MaxFaults
  BY <1>1 DEF Init, Worker!TypeOK
<1>6. /\ (made \cup shown) \subseteq Proofs
      /\ Cardinality(made) <= (IF asking THEN 1 ELSE 0)
      /\ Cardinality(shown) <= 1
  BY <1>3, OneIsCounted
<1>7. Len(requests) <= MaxRequests /\ Reasoned
  BY <1>1, <1>2 DEF Reasoned
<1> QED
  BY <1>2, <1>3, <1>4, <1>5, <1>6, <1>7 DEF Typed, TypeOK, Submitted, Screens

\* The parts of a well-typed state, one for each group of variables.
WorkerTyped == Worker!TypeOK /\ now <= MaxTime /\ restarts \in 0..MaxRestarts

StaffTyped == asking \in BOOLEAN /\ AtMostOne

CitizensTyped ==
    /\ screen \in [Panels -> Screens]
    /\ requests \in Seq(Submitted)
    /\ Len(requests) <= MaxRequests
    /\ Reasoned

ApiTyped ==
    /\ log \in [Calls -> Seq([reason : WorkerReasons])]
    /\ alerts \in [Calls -> Nat]

LEMMA TypedParts ==
    Typed <=> WorkerTyped /\ StaffTyped /\ CitizensTyped /\ ApiTyped /\ faults \in 0..MaxFaults
BY OneIsCounted
   DEF Typed, TypeOK, WorkerTyped, StaffTyped, CitizensTyped, ApiTyped, Submitted, Screens

LEMMA NextWorkerTyped == Typed /\ [Next]_vars => WorkerTyped'
<1> SUFFICES ASSUME Typed, [Next]_vars PROVE WorkerTyped'
  OBVIOUS
<1>1. /\ WorkerTyped /\ Worker!TypeOK
      /\ now \in Nat /\ restarts \in Nat
      /\ MaxTime \in Nat /\ MaxRestarts \in Nat /\ Ttl \in Nat
  BY TypedParts, ScreensAssumption DEF WorkerTyped, Worker!TypeOK
<1>2. CASE UNCHANGED workerVars
  BY <1>1, <1>2 DEF workerVars, WorkerTyped, Worker!TypeOK
<1>3. ASSUME NEW code \in Codes, MakeProof(code) PROVE WorkerTyped'
  <2>1. /\ live' = live \cup {[code |-> code, holder |-> Staff, deadline |-> now + Ttl]}
        /\ UNCHANGED <<now, spent, withdrawn, restarts>>
    BY <1>3 DEF MakeProof, Worker!Mint
  <2>2. [code |-> code, holder |-> Staff, deadline |-> now + Ttl] \in Worker!Proofs
    BY <1>1 DEF Worker!Proofs
  <2> QED
    BY <1>1, <2>1, <2>2 DEF WorkerTyped, Worker!TypeOK
<1>4. ASSUME NEW i \in DOMAIN requests, AcceptCode(i) PROVE WorkerTyped'
  <2>1. PICK p \in live : Worker!Accept(p)
    BY <1>4 DEF AcceptCode
  <2>2. /\ live' = live \ {p} /\ spent' = spent \cup {p.code}
        /\ UNCHANGED <<now, withdrawn, restarts>>
    BY <1>4, <2>1 DEF AcceptCode, Worker!Accept
  <2>3. p.code \in Codes
    BY <1>1 DEF Worker!TypeOK, Worker!Proofs
  <2> QED
    BY <1>1, <2>2, <2>3 DEF WorkerTyped, Worker!TypeOK
<1>5. ASSUME Revoke PROVE WorkerTyped'
  BY <1>1, <1>5 DEF Revoke, Worker!Withdraw, WorkerTyped, Worker!TypeOK
<1>6. ASSUME Restart PROVE WorkerTyped'
  <2>1. /\ restarts' \in 0..MaxRestarts /\ now' = now
        /\ live' = {} /\ spent' = {} /\ withdrawn' = {}
    BY <1>1, <1>6 DEF Restart, Worker!Forget, WorkerTyped
  <2> QED
    BY <1>1, <2>1 DEF WorkerTyped, Worker!TypeOK
<1>7. ASSUME Tick PROVE WorkerTyped'
  <2>1. now' = now + 1 /\ now < MaxTime /\ UNCHANGED <<live, spent, withdrawn, restarts>>
    BY <1>7 DEF Tick, Worker!Tick
  <2> QED
    BY <1>1, <2>1 DEF WorkerTyped, Worker!TypeOK
<1>8. CASE \/ AskProof \/ ShowProof \/ ProofFails
           \/ \E p \in Panels : (\E code \in Codes : Submit(p, code)) \/ Reset(p) \/ SwitchScene(p)
           \/ \E i \in DOMAIN requests :
                \/ RefuseCode(i) \/ LimitRequest(i) \/ Decide(i) \/ RecordIt(i)
                \/ Receive(i) \/ RequestFails(i)
           \/ UNCHANGED vars
  <2>1. UNCHANGED workerVars
    BY <1>8 DEF AskProof, ShowProof, ProofFails, Submit, Reset, SwitchScene, RefuseCode,
       LimitRequest, Decide, RecordIt, Receive, RequestFails, vars
  <2> QED
    BY <1>2, <2>1
<1> QED
  BY <1>3, <1>4, <1>5, <1>6, <1>7, <1>8 DEF Next

LEMMA NextStaffTyped == Typed /\ [Next]_vars => StaffTyped'
<1> SUFFICES ASSUME Typed, [Next]_vars PROVE StaffTyped'
  OBVIOUS
<1>1. /\ StaffTyped /\ now \in Nat /\ restarts \in 0..MaxRestarts /\ Ttl \in Nat
  BY TypedParts, ScreensAssumption DEF WorkerTyped, Worker!TypeOK
<1>2. CASE UNCHANGED staffVars
  BY <1>1, <1>2 DEF staffVars, StaffTyped, AtMostOne
<1>3. ASSUME NEW code \in Codes, MakeProof(code) PROVE StaffTyped'
  <2>1. [code |-> code, deadline |-> now + Ttl, life |-> restarts] \in Proofs
    BY <1>1 DEF Proofs
  <2>2. /\ asking /\ asking' = asking /\ shown' = shown
        /\ made' = {[code |-> code, deadline |-> now + Ttl, life |-> restarts]}
    BY <1>3 DEF MakeProof
  <2> QED
    BY <1>1, <2>1, <2>2 DEF StaffTyped, AtMostOne
<1>4. ASSUME ShowProof PROVE StaffTyped'
  BY <1>1, <1>4 DEF ShowProof, Countdown, StaffTyped, AtMostOne
<1>5. ASSUME AskProof PROVE StaffTyped'
  BY <1>1, <1>5 DEF AskProof, StaffTyped, AtMostOne
<1>6. ASSUME ProofFails PROVE StaffTyped'
  BY <1>1, <1>6 DEF ProofFails, StaffTyped, AtMostOne
<1>7. CASE \/ \E p \in Panels : (\E code \in Codes : Submit(p, code)) \/ Reset(p) \/ SwitchScene(p)
           \/ \E i \in DOMAIN requests :
                \/ AcceptCode(i) \/ RefuseCode(i) \/ LimitRequest(i) \/ Decide(i) \/ RecordIt(i)
                \/ Receive(i) \/ RequestFails(i)
           \/ Revoke \/ Restart \/ Tick
           \/ UNCHANGED vars
  <2>1. UNCHANGED staffVars
    BY <1>7 DEF Submit, Reset, SwitchScene, AcceptCode, RefuseCode, LimitRequest, Decide,
       RecordIt, Receive, RequestFails, Revoke, Restart, Tick, vars
  <2> QED
    BY <1>2, <2>1
<1> QED
  BY <1>3, <1>4, <1>5, <1>6, <1>7 DEF Next

\* What a step may do to the requests, the screens and the api, the worker and
\* the staff page left aside.
Steps ==
    \/ UNCHANGED <<requests, screen, log, alerts>>
    \/ \E p \in Panels, code \in Codes : Submit(p, code)
    \/ \E p \in Panels :
        /\ screen' = [screen EXCEPT ![p] = [kind |-> "form", of |-> 0]]
        /\ UNCHANGED <<requests, log, alerts>>
    \/ \E i \in DOMAIN requests, reason \in WorkerReasons :
        /\ requests[i].stage = "sent"
        /\ Evaluated(i, reason)
        /\ UNCHANGED <<screen, log, alerts>>
    \/ \E i \in DOMAIN requests : Decide(i) \/ RecordIt(i) \/ Receive(i) \/ RequestFails(i)

LEMMA NextSteps == [Next]_vars => Steps
<1> SUFFICES ASSUME [Next]_vars PROVE Steps
  OBVIOUS
<1>1. ASSUME NEW i \in DOMAIN requests, AcceptCode(i) PROVE Steps
  BY <1>1 DEF AcceptCode, Steps, WorkerReasons, apiVars
<1>2. ASSUME NEW i \in DOMAIN requests, RefuseCode(i) PROVE Steps
  BY <1>2 DEF RefuseCode, Refusals, Steps, WorkerReasons, apiVars
<1>3. ASSUME NEW i \in DOMAIN requests, LimitRequest(i) PROVE Steps
  BY <1>3 DEF LimitRequest, Steps, WorkerReasons, apiVars
<1>4. ASSUME NEW p \in Panels, Reset(p) \/ SwitchScene(p) PROVE Steps
  BY <1>4 DEF Reset, SwitchScene, Steps, apiVars
<1>5. CASE AskProof \/ ShowProof \/ ProofFails \/ (\E code \in Codes : MakeProof(code))
           \/ Revoke \/ Restart \/ Tick \/ UNCHANGED vars
  BY <1>5 DEF AskProof, ShowProof, ProofFails, MakeProof, Revoke, Restart, Tick, vars, apiVars,
     Steps
<1> QED
  BY <1>1, <1>2, <1>3, <1>4, <1>5 DEF Next, Steps

LEMMA NextCitizensTyped == Typed /\ [Next]_vars => CitizensTyped'
<1> SUFFICES ASSUME Typed, Steps PROVE CitizensTyped'
  BY NextSteps
<1>1. /\ CitizensTyped /\ MaxRequests \in Nat
      /\ DOMAIN requests \subseteq 1..MaxRequests
      /\ \A i \in DOMAIN requests : requests[i] \in Submitted
  BY TypedParts, RequestsType, ScreensAssumption
<1>2. CASE UNCHANGED <<requests, screen, log, alerts>>
  BY <1>1, <1>2 DEF CitizensTyped, Reasoned
<1>3. ASSUME NEW p \in Panels, NEW code \in Codes, Submit(p, code) PROVE CitizensTyped'
  <2>1. Added(New(p, code))
    BY <1>3, SubmitAdds
  <2>2. Len(requests) < MaxRequests /\ screen' = screen /\ Len(requests) \in Nat
    BY <1>3, RequestsType DEF Submit
  <2>3. Reasoned'
    BY <1>1, <2>1 DEF Added, New, CitizensTyped, Reasoned
  <2> QED
    BY <1>1, <2>1, <2>2, <2>3 DEF Added, CitizensTyped
<1>4. ASSUME NEW p \in Panels,
             screen' = [screen EXCEPT ![p] = [kind |-> "form", of |-> 0]],
             UNCHANGED <<requests, log, alerts>>
      PROVE  CitizensTyped'
  BY <1>1, <1>4 DEF CitizensTyped, Screens, Reasoned
<1>5. ASSUME NEW i \in DOMAIN requests, NEW r \in Submitted, Changed(i, r),
             r.stage \in {"evaluated", "decided", "recorded"} => r.reason \in WorkerReasons,
             screen' \in [Panels -> Screens]
      PROVE  CitizensTyped'
  <2>1. Reasoned'
    BY <1>1, <1>5 DEF Changed, CitizensTyped, Reasoned
  <2> QED
    BY <1>1, <1>5, <2>1 DEF Changed, CitizensTyped
<1>6. ASSUME NEW i \in DOMAIN requests, NEW reason \in WorkerReasons,
             Evaluated(i, reason), screen' = screen
      PROVE  CitizensTyped'
  <2> DEFINE r == [requests[i] EXCEPT !.stage = "evaluated", !.reason = reason]
  <2>1. r \in Submitted /\ r.reason = reason
    BY <1>1 DEF Submitted, Stages
  <2>2. Changed(i, r)
    BY <1>6, EvaluatedChanges
  <2> HIDE DEF r
  <2> QED
    BY <1>1, <1>5, <1>6, <2>1, <2>2 DEF CitizensTyped
<1>7. ASSUME NEW i \in DOMAIN requests, Decide(i) PROVE CitizensTyped'
  <2> DEFINE retry == AllowsCodeRetry(requests[i].reason, log[CallOf[requests[i].panel]])
             r == [requests[i] EXCEPT !.stage = "decided", !.retry = retry]
  <2>1. retry \in BOOLEAN
    BY DEF AllowsCodeRetry
  <2>2. Changed(i, r)
    BY <1>7, DecideChanges
  <2> HIDE DEF retry
  <2>3. r \in Submitted /\ r.reason = requests[i].reason
    BY <1>1, <2>1 DEF Submitted, Stages
  <2>4. requests[i].reason \in WorkerReasons
    BY <1>7 DEF Decide, Typed, Reasoned
  <2> HIDE DEF r
  <2> QED
    BY <1>1, <1>5, <1>7, <2>2, <2>3, <2>4 DEF CitizensTyped, Decide
<1>8. ASSUME NEW i \in DOMAIN requests, RecordIt(i) PROVE CitizensTyped'
  <2> DEFINE r == [requests[i] EXCEPT !.stage = "recorded"]
  <2>1. r \in Submitted /\ r.reason = requests[i].reason
    BY <1>1 DEF Submitted, Stages
  <2>2. Changed(i, r)
    BY <1>8, RecordItChanges
  <2>3. requests[i].reason \in WorkerReasons
    BY <1>8 DEF RecordIt, Typed, Reasoned
  <2> HIDE DEF r
  <2> QED
    BY <1>1, <1>5, <1>8, <2>1, <2>2, <2>3 DEF CitizensTyped, RecordIt
<1>9. ASSUME NEW i \in DOMAIN requests, Receive(i) PROVE CitizensTyped'
  <2> DEFINE r == [requests[i] EXCEPT !.waiting = FALSE]
  <2>1. r \in Submitted /\ r.reason = requests[i].reason
    BY <1>1 DEF Submitted
  <2>2. Changed(i, r)
    BY <1>9, ReceiveChanges
  <2>3. requests[i].reason \in WorkerReasons
    BY <1>9 DEF Receive, Typed, Reasoned
  <2>4. screen' \in [Panels -> Screens]
    <3>1. [kind |-> Verdict(requests[i]), of |-> i] \in Screens
      BY <1>1 DEF Verdict, Screens
    <3> QED
      BY <1>1, <1>9, <3>1 DEF Receive, CitizensTyped
  <2> HIDE DEF r
  <2> QED
    BY <1>5, <2>1, <2>2, <2>3, <2>4
<1>10. ASSUME NEW i \in DOMAIN requests, RequestFails(i) PROVE CitizensTyped'
  <2>1. PICK stage \in Stages :
            /\ stage \in {requests[i].stage, "dropped"}
            /\ Changed(i, [requests[i] EXCEPT !.waiting = FALSE, !.lost = TRUE, !.stage = stage])
    BY <1>10, RequestFailsChanges
  <2> DEFINE r == [requests[i] EXCEPT !.waiting = FALSE, !.lost = TRUE, !.stage = stage]
  <2>2. r \in Submitted /\ r.reason = requests[i].reason /\ r.stage = stage
    BY <1>1 DEF Submitted
  <2>3. stage \in {"evaluated", "decided", "recorded"} => requests[i].reason \in WorkerReasons
    BY <2>1 DEF Typed, Reasoned
  <2>4. screen' \in [Panels -> Screens]
    <3>1. [kind |-> "gray", of |-> i] \in Screens
      BY <1>1 DEF Screens
    <3> QED
      BY <1>1, <1>10, <3>1 DEF RequestFails, CitizensTyped
  <2>5. Changed(i, r)
    BY <2>1
  <2> HIDE DEF r
  <2> QED
    BY <1>5, <2>2, <2>3, <2>4, <2>5
<1> QED
  BY <1>2, <1>3, <1>4, <1>6, <1>7, <1>8, <1>9, <1>10 DEF Steps

LEMMA NextApiTyped == Typed /\ [Next]_vars => ApiTyped'
<1> SUFFICES ASSUME Typed, Steps PROVE ApiTyped'
  BY NextSteps
<1>1. /\ ApiTyped
      /\ \A i \in DOMAIN requests : requests[i] \in Submitted /\ CallOf[requests[i].panel] \in Calls
  BY TypedParts, RequestsType
<1>2. CASE UNCHANGED <<log, alerts>>
  BY <1>1, <1>2 DEF ApiTyped
<1>3. ASSUME NEW i \in DOMAIN requests, Decide(i) PROVE ApiTyped'
  <2>1. /\ log' = log
        /\ alerts' = alerts
           \/ alerts' = [alerts EXCEPT ![CallOf[requests[i].panel]] = @ + 1]
    BY <1>3 DEF Decide
  <2>2. alerts' \in [Calls -> Nat]
    <3>1. alerts \in [Calls -> Nat] /\ CallOf[requests[i].panel] \in Calls
      BY <1>1 DEF ApiTyped
    <3>2. alerts[CallOf[requests[i].panel]] + 1 \in Nat
      BY <3>1
    <3> QED
      BY <2>1, <3>1, <3>2
  <2> QED
    BY <1>1, <2>1, <2>2 DEF ApiTyped
<1>4. ASSUME NEW i \in DOMAIN requests, RecordIt(i) PROVE ApiTyped'
  <2> DEFINE call == CallOf[requests[i].panel]
             records == Append(log[call], [reason |-> requests[i].reason])
  <2>1. [reason |-> requests[i].reason] \in [reason : WorkerReasons] /\ call \in Calls
    BY <1>1, <1>4 DEF RecordIt, Typed, Reasoned
  <2>2. records \in Seq([reason : WorkerReasons])
    BY <1>1, <2>1, AppendProperties DEF ApiTyped
  <2>3. log' = [log EXCEPT ![call] = records] /\ alerts' = alerts
    BY <1>4 DEF RecordIt
  <2> HIDE DEF call, records
  <2> QED
    BY <1>1, <2>1, <2>2, <2>3 DEF ApiTyped
<1> QED
  BY <1>2, <1>3, <1>4 DEF Steps, Submit, Receive, RequestFails, apiVars

LEMMA NextTyped == Typed /\ [Next]_vars => Typed'
<1> SUFFICES ASSUME Typed, [Next]_vars PROVE Typed'
  OBVIOUS
<1>1. WorkerTyped' /\ StaffTyped' /\ CitizensTyped' /\ ApiTyped'
  BY NextWorkerTyped, NextStaffTyped, NextCitizensTyped, NextApiTyped
<1>2. faults' \in 0..MaxFaults
  <2>1. faults \in 0..MaxFaults /\ MaxFaults \in Nat
    BY ScreensAssumption DEF Typed, TypeOK
  <2>2. faults' = faults \/ Fault
    BY DEF Next, vars, AskProof, MakeProof, ShowProof, ProofFails, Submit, Receive, RequestFails,
       Reset, SwitchScene, AcceptCode, RefuseCode, LimitRequest, Decide, RecordIt, Revoke,
       Restart, Tick
  <2> QED
    BY <2>1, <2>2 DEF Fault
<1>3. Typed' <=> (WorkerTyped /\ StaffTyped /\ CitizensTyped /\ ApiTyped /\ faults \in 0..MaxFaults)'
  BY TypedParts, PTL
<1> QED
  BY <1>1, <1>2, <1>3

\* Every reachable state of the pages, the worker and the api is well typed; at
\* most one proof is under way and one on the staff page.
THEOREM TypeCorrect == Spec => []TypeOK
<1>1. Typed => TypeOK
  BY DEF Typed
<1> QED
  BY InitTyped, NextTyped, <1>1, PTL DEF Spec

-----------------------------------------------------------------------------
(***************************************************************************)
(* Red and the guardian                                                    *)
(*                                                                         *)
(* A refusal that is neither forgiven nor a repeated limit alerts; a limit *)
(* is never forgiven, so that what a repeated limit leans on has alerted.  *)
(***************************************************************************)

\* A citizen reads red only about a recorded, final refusal of the own page.
RedIsFinal ==
    \A p \in Panels : screen[p].kind = "red" =>
        /\ screen[p].of \in DOMAIN requests
        /\ LET r == requests[screen[p].of] IN
            /\ r.panel = p
            /\ r.stage = "recorded"
            /\ ~r.retry
            /\ r.reason # "verified"

Told(r) ==
    r.stage \in {"decided", "recorded"} =>
        /\ r.reason = "rate_limited" => ~r.retry
        /\ r.reason # "verified" /\ ~r.retry => alerts[CallOf[r.panel]] > 0

LimitsAlerted ==
    \A c \in Calls : \A k \in DOMAIN log[c] :
        log[c][k].reason = "rate_limited" => alerts[c] > 0

AlertInv == RedIsFinal /\ LimitsAlerted /\ \A i \in DOMAIN requests : Told(requests[i])

LEMMA InitAlert == Init => AlertInv
<1> SUFFICES ASSUME Init PROVE AlertInv
  OBVIOUS
<1>1. DOMAIN requests = {} /\ \A c \in Calls : DOMAIN log[c] = {}
  BY DEF Init
<1>2. \A p \in Panels : screen[p].kind = "form"
  BY DEF Init
<1> QED
  BY <1>1, <1>2 DEF AlertInv, RedIsFinal, LimitsAlerted

LEMMA NextRedIsFinal == Typed /\ RedIsFinal /\ [Next]_vars => RedIsFinal'
<1> SUFFICES ASSUME Typed, RedIsFinal, Steps PROVE RedIsFinal'
  BY NextSteps
<1>1. /\ screen \in [Panels -> Screens]
      /\ \A i \in DOMAIN requests : requests[i] \in Submitted
  BY RequestsType DEF Typed, TypeOK, Screens
<1>2. CASE UNCHANGED <<requests, screen, log, alerts>>
  BY <1>2 DEF RedIsFinal
<1>3. ASSUME NEW p \in Panels, NEW code \in Codes, Submit(p, code) PROVE RedIsFinal'
  BY <1>3, SubmitAdds DEF Added, Submit, RedIsFinal
<1>4. ASSUME NEW p \in Panels,
             screen' = [screen EXCEPT ![p] = [kind |-> "form", of |-> 0]],
             UNCHANGED <<requests, log, alerts>>
      PROVE  RedIsFinal'
  BY <1>1, <1>4 DEF RedIsFinal
<1>5. ASSUME NEW i \in DOMAIN requests, NEW r, Changed(i, r), screen' = screen,
             requests[i].stage # "recorded"
      PROVE  RedIsFinal'
  BY <1>5 DEF Changed, RedIsFinal
<1>6. ASSUME NEW i \in DOMAIN requests, NEW reason \in WorkerReasons,
             requests[i].stage = "sent", Evaluated(i, reason), screen' = screen
      PROVE  RedIsFinal'
  BY <1>5, <1>6, EvaluatedChanges
<1>7. ASSUME NEW i \in DOMAIN requests, Decide(i) PROVE RedIsFinal'
  BY <1>5, <1>7, DecideChanges DEF Decide
<1>8. ASSUME NEW i \in DOMAIN requests, RecordIt(i) PROVE RedIsFinal'
  BY <1>5, <1>8, RecordItChanges DEF RecordIt
<1>9. ASSUME NEW i \in DOMAIN requests, NEW r \in Submitted, Changed(i, r),
             r.panel = requests[i].panel, r.stage = requests[i].stage,
             r.retry = requests[i].retry, r.reason = requests[i].reason,
             NEW kind, screen' = [screen EXCEPT ![requests[i].panel] = [kind |-> kind, of |-> i]],
             kind = "red" => /\ requests[i].stage = "recorded"
                             /\ ~requests[i].retry
                             /\ requests[i].reason # "verified"
      PROVE  RedIsFinal'
  <2> SUFFICES ASSUME NEW p \in Panels, screen'[p].kind = "red"
               PROVE  /\ screen'[p].of \in DOMAIN requests'
                      /\ requests'[screen'[p].of].panel = p
                      /\ requests'[screen'[p].of].stage = "recorded"
                      /\ ~requests'[screen'[p].of].retry
                      /\ requests'[screen'[p].of].reason # "verified"
    BY DEF RedIsFinal
  <2>1. CASE p = requests[i].panel
    <3>1. screen'[p] = [kind |-> kind, of |-> i]
      BY <1>1, <1>9, <2>1
    <3> QED
      BY <1>9, <2>1, <3>1 DEF Changed
  <2>2. CASE p # requests[i].panel
    <3>1. screen'[p] = screen[p]
      BY <1>1, <1>9, <2>2
    <3>2. screen[p].of \in DOMAIN requests /\ screen[p].of # i
      BY <2>2, <3>1 DEF RedIsFinal
    <3> QED
      BY <1>9, <3>1, <3>2 DEF Changed, RedIsFinal
  <2> QED
    BY <2>1, <2>2
<1>10. ASSUME NEW i \in DOMAIN requests, Receive(i) PROVE RedIsFinal'
  <2> DEFINE r == [requests[i] EXCEPT !.waiting = FALSE]
  <2>1. /\ r \in Submitted /\ r.panel = requests[i].panel /\ r.stage = requests[i].stage
        /\ r.retry = requests[i].retry /\ r.reason = requests[i].reason
    BY <1>1 DEF Submitted
  <2>2. Changed(i, r)
    BY <1>10, ReceiveChanges
  <2> HIDE DEF r
  <2>3. /\ screen' = [screen EXCEPT ![requests[i].panel] = [kind |-> Verdict(requests[i]), of |-> i]]
        /\ requests[i].stage = "recorded"
    BY <1>10 DEF Receive
  <2>4. Verdict(requests[i]) = "red" => ~requests[i].retry /\ requests[i].reason # "verified"
    BY DEF Verdict
  <2> QED
    BY <1>9, <2>1, <2>2, <2>3, <2>4
<1>11. ASSUME NEW i \in DOMAIN requests, RequestFails(i) PROVE RedIsFinal'
  <2>1. PICK stage \in Stages :
            /\ stage \in {requests[i].stage, "dropped"}
            /\ requests[i].stage \in {"decided", "recorded"} => stage = requests[i].stage
            /\ Changed(i, [requests[i] EXCEPT !.waiting = FALSE, !.lost = TRUE, !.stage = stage])
    BY <1>11, RequestFailsChanges
  <2> DEFINE r == [requests[i] EXCEPT !.waiting = FALSE, !.lost = TRUE, !.stage = stage]
  <2>2. /\ Changed(i, r)
        /\ screen' = [screen EXCEPT ![requests[i].panel] = [kind |-> "gray", of |-> i]]
    BY <1>11, <2>1 DEF RequestFails
  <2> HIDE DEF r
  <2> SUFFICES ASSUME NEW p \in Panels, screen'[p].kind = "red"
               PROVE  /\ screen'[p].of \in DOMAIN requests'
                      /\ requests'[screen'[p].of].panel = p
                      /\ requests'[screen'[p].of].stage = "recorded"
                      /\ ~requests'[screen'[p].of].retry
                      /\ requests'[screen'[p].of].reason # "verified"
    BY DEF RedIsFinal
  <2>3. p # requests[i].panel /\ screen'[p] = screen[p]
    BY <1>1, <2>2
  <2>4. screen[p].of \in DOMAIN requests /\ screen[p].of # i
    BY <2>3 DEF RedIsFinal
  <2> QED
    BY <2>2, <2>3, <2>4 DEF Changed, RedIsFinal
<1> QED
  BY <1>2, <1>3, <1>4, <1>6, <1>7, <1>8, <1>10, <1>11 DEF Steps

LEMMA NextAlert == Typed /\ AlertInv /\ [Next]_vars => AlertInv'
<1> SUFFICES ASSUME Typed, AlertInv, [Next]_vars PROVE AlertInv'
  OBVIOUS
<1>1. /\ \A i \in DOMAIN requests :
            requests[i] \in Submitted /\ CallOf[requests[i].panel] \in Calls
      /\ alerts \in [Calls -> Nat]
      /\ log \in [Calls -> Seq([reason : WorkerReasons])]
      /\ Steps
  BY RequestsType, NextSteps DEF Typed, TypeOK
<1>2. RedIsFinal'
  BY NextRedIsFinal DEF AlertInv
\* A step that alerts nobody and records nothing.
<1>3. ASSUME NEW i \in DOMAIN requests, NEW r \in Submitted, Changed(i, r),
             UNCHANGED <<log, alerts>>, Told(r)
      PROVE  AlertInv'
  <2>1. \A j \in DOMAIN requests' : Told(requests[j])'
    BY <1>3 DEF Changed, AlertInv, Told
  <2> QED
    BY <1>2, <1>3, <2>1 DEF AlertInv, LimitsAlerted
<1>4. CASE UNCHANGED <<requests, log, alerts>>
  BY <1>2, <1>4 DEF AlertInv, LimitsAlerted, Told
<1>5. ASSUME NEW p \in Panels, NEW code \in Codes, Submit(p, code) PROVE AlertInv'
  <2>1. Added(New(p, code)) /\ UNCHANGED <<log, alerts>>
    BY <1>5, SubmitAdds DEF Submit, apiVars
  <2>2. \A j \in DOMAIN requests' : Told(requests[j])'
    BY <2>1 DEF Added, New, AlertInv, Told
  <2> QED
    BY <1>2, <2>1, <2>2 DEF AlertInv, LimitsAlerted
<1>6. ASSUME NEW i \in DOMAIN requests, NEW reason \in WorkerReasons,
             Evaluated(i, reason), UNCHANGED <<log, alerts>>
      PROVE  AlertInv'
  <2> DEFINE r == [requests[i] EXCEPT !.stage = "evaluated", !.reason = reason]
  <2>1. r \in Submitted /\ r.stage = "evaluated"
    BY <1>1 DEF Submitted, Stages
  <2>2. Changed(i, r)
    BY <1>6, EvaluatedChanges
  <2> HIDE DEF r
  <2>3. Told(r)
    BY <2>1 DEF Told
  <2> QED
    BY <1>3, <1>6, <2>1, <2>2, <2>3
<1>7. ASSUME NEW i \in DOMAIN requests, Decide(i) PROVE AlertInv'
  <2> DEFINE call == CallOf[requests[i].panel]
             reason == requests[i].reason
             retry == AllowsCodeRetry(reason, log[call])
             r == [requests[i] EXCEPT !.stage = "decided", !.retry = retry]
  <2>1. /\ retry \in BOOLEAN
        /\ reason = "rate_limited" => ~retry
    BY DEF AllowsCodeRetry
  <2>2. Changed(i, r)
    BY <1>7, DecideChanges
  <2>3. /\ log' = log
        /\ alerts' = IF reason = "verified" \/ retry \/ IsRepeatedRateLimit(reason, log[call])
                     THEN alerts ELSE [alerts EXCEPT ![call] = @ + 1]
    BY <1>7 DEF Decide
  <2>4. IsRepeatedRateLimit(reason, log[call]) => alerts[call] > 0
    BY <1>1 DEF IsRepeatedRateLimit, WasLimited, AlertInv, LimitsAlerted
  <2> HIDE DEF retry
  <2>5. /\ r.stage = "decided" /\ r.reason = reason /\ r.retry = retry
        /\ r.panel = requests[i].panel
    BY <1>1, <2>1 DEF Submitted
  <2>6. \A c \in Calls : alerts[c] \in Nat /\ (alerts[c] > 0 => alerts'[c] > 0)
    BY <1>1, <2>3
  <2>7. reason # "verified" /\ ~retry => alerts'[call] > 0
    <3>1. SUFFICES ASSUME reason # "verified", ~retry, ~IsRepeatedRateLimit(reason, log[call])
                   PROVE  alerts'[call] > 0
      BY <1>1, <2>4, <2>6
    <3>2. alerts' = [alerts EXCEPT ![call] = @ + 1]
      BY <2>3, <3>1
    <3>3. alerts'[call] = alerts[call] + 1 /\ alerts[call] \in Nat
      BY <1>1, <3>2
    <3> QED
      BY <3>3
  <2>8. LimitsAlerted'
    BY <2>3, <2>6 DEF AlertInv, LimitsAlerted
  <2>9. ASSUME NEW j \in DOMAIN requests' PROVE Told(requests[j])'
    <3>1. CASE j = i
      <4>1. requests'[j] = r /\ call = CallOf[r.panel]
        BY <2>2, <2>5, <3>1 DEF Changed
      <4> HIDE DEF r, reason, call
      <4> QED
        BY <2>1, <2>5, <2>7, <4>1 DEF Told
    <3>2. CASE j # i
      <4>1. j \in DOMAIN requests /\ requests'[j] = requests[j]
        BY <2>2, <3>2 DEF Changed
      <4> HIDE DEF r, reason, call
      <4> QED
        BY <1>1, <2>6, <4>1 DEF AlertInv, Told
    <3> QED
      BY <3>1, <3>2
  <2> QED
    BY <1>2, <2>8, <2>9 DEF AlertInv
<1>8. ASSUME NEW i \in DOMAIN requests, RecordIt(i) PROVE AlertInv'
  <2> DEFINE call == CallOf[requests[i].panel]
             reason == requests[i].reason
             r == [requests[i] EXCEPT !.stage = "recorded"]
  <2>1. /\ r.stage = "recorded" /\ r.panel = requests[i].panel /\ r.reason = reason
        /\ r.retry = requests[i].retry
        /\ requests[i].stage = "decided"
    BY <1>1, <1>8 DEF Submitted, RecordIt
  <2>2. Changed(i, r) /\ alerts' = alerts
    BY <1>8, RecordItChanges DEF RecordIt
  <2>3. log' = [log EXCEPT ![call] = Append(log[call], [reason |-> reason])]
    BY <1>8 DEF RecordIt
  <2>4. [reason |-> reason] \in [reason : WorkerReasons]
    BY <1>8 DEF RecordIt, Typed, Reasoned
  <2>5. reason = "rate_limited" => alerts[call] > 0
    BY <2>1 DEF AlertInv, Told
  <2> HIDE DEF r, call, reason
  <2>6. ASSUME NEW c \in Calls, NEW k \in DOMAIN log'[c], log'[c][k].reason = "rate_limited"
        PROVE  alerts[c] > 0
    <3>1. CASE c # call
      <4>1. log'[c] = log[c]
        BY <1>1, <2>3, <3>1
      <4> QED
        BY <2>6, <4>1 DEF AlertInv, LimitsAlerted
    <3>2. CASE c = call
      <4>1. log'[c] = Append(log[c], [reason |-> reason]) /\ log[c] \in Seq([reason : WorkerReasons])
        BY <1>1, <2>3, <3>2
      <4>2. \/ k \in DOMAIN log[c] /\ log'[c][k] = log[c][k]
            \/ log'[c][k] = [reason |-> reason]
        BY <2>4, <4>1, AppendProperties, LenProperties
      <4> QED
        BY <2>5, <2>6, <3>2, <4>2 DEF AlertInv, LimitsAlerted
    <3> QED
      BY <3>1, <3>2
  <2>7. LimitsAlerted'
    BY <2>2, <2>6 DEF LimitsAlerted, Calls
  <2>8. \A j \in DOMAIN requests' : Told(requests[j])'
    BY <2>1, <2>2 DEF Changed, AlertInv, Told, reason
  <2> QED
    BY <1>2, <2>7, <2>8 DEF AlertInv
<1>9. ASSUME NEW i \in DOMAIN requests, Receive(i) PROVE AlertInv'
  <2> DEFINE r == [requests[i] EXCEPT !.waiting = FALSE]
  <2>1. /\ r \in Submitted /\ r.panel = requests[i].panel /\ r.stage = requests[i].stage
        /\ r.retry = requests[i].retry /\ r.reason = requests[i].reason
    BY <1>1 DEF Submitted
  <2>2. Changed(i, r) /\ UNCHANGED <<log, alerts>>
    BY <1>9, ReceiveChanges DEF Receive, apiVars
  <2> HIDE DEF r
  <2>3. Told(r)
    BY <2>1 DEF AlertInv, Told
  <2> QED
    BY <1>3, <2>1, <2>2, <2>3
<1>10. ASSUME NEW i \in DOMAIN requests, RequestFails(i) PROVE AlertInv'
  <2>1. PICK stage \in Stages :
            /\ stage \in {requests[i].stage, "dropped"}
            /\ Changed(i, [requests[i] EXCEPT !.waiting = FALSE, !.lost = TRUE, !.stage = stage])
    BY <1>10, RequestFailsChanges
  <2> DEFINE r == [requests[i] EXCEPT !.waiting = FALSE, !.lost = TRUE, !.stage = stage]
  <2>2. /\ r \in Submitted /\ r.panel = requests[i].panel /\ r.stage = stage
        /\ r.retry = requests[i].retry /\ r.reason = requests[i].reason
    BY <1>1 DEF Submitted
  <2>3. Changed(i, r) /\ UNCHANGED <<log, alerts>>
    BY <1>10, <2>1 DEF RequestFails, apiVars
  <2> HIDE DEF r
  <2>4. Told(r)
    BY <2>1, <2>2 DEF AlertInv, Told
  <2> QED
    BY <1>3, <2>2, <2>3, <2>4
<1> QED
  BY <1>1, <1>4, <1>5, <1>6, <1>7, <1>8, <1>9, <1>10 DEF Steps

\* Whoever reads red, on whichever page of a call, has a guardian who was
\* alerted for that call (CitizenVerifyPanel, CallVerificationService).
THEOREM RedIsAlerted == Spec => []RedHasAlert
<1>1. Typed /\ AlertInv => RedHasAlert
  BY RequestsType DEF AlertInv, RedIsFinal, Told, RedHasAlert
<1> QED
  BY InitTyped, NextTyped, InitAlert, NextAlert, <1>1, PTL DEF Spec

-----------------------------------------------------------------------------
(***************************************************************************)
(* Red and an earlier acceptance                                           *)
(*                                                                         *)
(* The button is disabled while a page waits, so that a verdict is always  *)
(* about the page's last request; an acceptance that precedes it has been  *)
(* answered or given up.                                                   *)
(***************************************************************************)

IsLastOfPanel(i) ==
    \A j \in DOMAIN requests : j > i => requests[j].panel # requests[i].panel

OrderInv ==
    /\ \A i \in DOMAIN requests : requests[i].waiting => IsLastOfPanel(i)
    /\ \A p \in Panels : ~OnForm(p) =>
        /\ screen[p].of \in DOMAIN requests
        /\ requests[screen[p].of].panel = p
        /\ ~requests[screen[p].of].waiting
        /\ IsLastOfPanel(screen[p].of)

LEMMA InitOrder == Init => OrderInv
<1> SUFFICES ASSUME Init PROVE OrderInv
  OBVIOUS
<1>1. DOMAIN requests = {} /\ \A p \in Panels : OnForm(p)
  BY DEF Init, OnForm
<1> QED
  BY <1>1 DEF OrderInv

\* A step that leaves the pages and what waits.
LEMMA QuietOrder ==
    ASSUME OrderInv, NEW i \in DOMAIN requests, NEW r, Changed(i, r), screen' = screen,
           r.panel = requests[i].panel, r.waiting = requests[i].waiting
    PROVE  OrderInv'
BY DEF OrderInv, Changed, IsLastOfPanel, OnForm

\* The answer to a request, or its end, is put on its page.
LEMMA ShownOrder ==
    ASSUME Typed, OrderInv, NEW i \in DOMAIN requests, NEW r, Changed(i, r), requests[i].waiting,
           r.panel = requests[i].panel, ~r.waiting, NEW kind,
           screen' = [screen EXCEPT ![requests[i].panel] = [kind |-> kind, of |-> i]]
    PROVE  OrderInv'
<1>1. screen \in [Panels -> Screens] /\ requests[i].panel \in Panels
  BY RequestsType DEF Typed, TypeOK, Screens, Submitted
<1>2. \A j \in DOMAIN requests :
        /\ requests'[j].panel = requests[j].panel
        /\ requests'[j].waiting => requests[j].waiting
  BY DEF Changed
<1>3. \A j \in DOMAIN requests' : requests'[j].waiting => IsLastOfPanel(j)'
  BY <1>2 DEF Changed, OrderInv, IsLastOfPanel
<1>4. ASSUME NEW p \in Panels, ~OnForm(p)'
      PROVE  /\ screen'[p].of \in DOMAIN requests'
             /\ requests'[screen'[p].of].panel = p
             /\ ~requests'[screen'[p].of].waiting
             /\ IsLastOfPanel(screen[p].of)'
  <2>1. CASE p = requests[i].panel
    <3>1. screen'[p].of = i /\ IsLastOfPanel(i) /\ i \in DOMAIN requests'
      BY <1>1, <2>1 DEF OrderInv, Changed
    <3>2. IsLastOfPanel(i)'
      BY <1>2, <3>1 DEF IsLastOfPanel, Changed
    <3>3. IsLastOfPanel(screen[p].of)'
      BY <3>1, <3>2 DEF IsLastOfPanel
    <3> QED
      BY <2>1, <3>1, <3>3 DEF Changed
  <2>2. CASE p # requests[i].panel
    <3>1. screen'[p] = screen[p] /\ ~OnForm(p)
      BY <1>1, <1>4, <2>2 DEF OnForm
    <3>2. screen[p].of \in DOMAIN requests /\ screen[p].of # i /\ IsLastOfPanel(screen[p].of)
      BY <2>2, <3>1 DEF OrderInv
    <3> QED
      BY <1>2, <3>1, <3>2 DEF OrderInv, IsLastOfPanel, Changed
  <2> QED
    BY <2>1, <2>2
<1> QED
  BY <1>3, <1>4 DEF OrderInv

LEMMA NextOrder == Typed /\ OrderInv /\ [Next]_vars => OrderInv'
<1> SUFFICES ASSUME Typed, OrderInv, Steps PROVE OrderInv'
  BY NextSteps
<1>1. /\ screen \in [Panels -> Screens]
      /\ \A i \in DOMAIN requests : requests[i] \in Submitted
      /\ Len(requests) \in Nat /\ DOMAIN requests = 1..Len(requests)
  <2>1. screen \in [Panels -> Screens]
    BY DEF Typed, TypeOK, Screens
  <2>2. Len(requests) \in Nat
    BY RequestsType
  <2> QED
    BY <2>1, <2>2, RequestsType
<1>2. CASE UNCHANGED <<requests, screen, log, alerts>>
  BY <1>2 DEF OrderInv, IsLastOfPanel, OnForm
<1>3. ASSUME NEW p \in Panels, NEW code \in Codes, Submit(p, code) PROVE OrderInv'
  <2>n. PICK n \in Nat : n = Len(requests) + 1
    BY <1>1
  <2>1. /\ Added(New(p, code)) /\ screen' = screen
        /\ OnForm(p) /\ \A i \in DOMAIN requests : requests[i].panel = p => ~requests[i].waiting
    BY <1>3, SubmitAdds DEF Submit, CanSubmit, Loading
  <2>2. /\ DOMAIN requests' = DOMAIN requests \cup {n} /\ n \notin DOMAIN requests
        /\ requests'[n].panel = p /\ requests'[n].waiting
        /\ \A i \in DOMAIN requests : requests'[i] = requests[i] /\ ~(i > n)
    BY <1>1, <2>n, <2>1 DEF Added, New
  <2>3. \A i \in DOMAIN requests : IsLastOfPanel(i) /\ requests[i].panel # p => IsLastOfPanel(i)'
    BY <2>2 DEF IsLastOfPanel
  <2>4. \A i \in DOMAIN requests' : requests'[i].waiting => IsLastOfPanel(i)'
    <3>1. IsLastOfPanel(n)'
      BY <2>2 DEF IsLastOfPanel
    <3> QED
      BY <2>1, <2>2, <2>3, <3>1 DEF OrderInv
  <2>5. ASSUME NEW q \in Panels, ~OnForm(q)'
        PROVE  /\ screen'[q].of \in DOMAIN requests'
               /\ requests'[screen'[q].of].panel = q
               /\ ~requests'[screen'[q].of].waiting
               /\ IsLastOfPanel(screen[q].of)'
    <3>1. ~OnForm(q) /\ q # p /\ screen'[q] = screen[q]
      BY <2>1, <2>5 DEF OnForm
    <3>2. /\ screen[q].of \in DOMAIN requests /\ requests[screen[q].of].panel = q
          /\ ~requests[screen[q].of].waiting /\ IsLastOfPanel(screen[q].of)
      BY <3>1 DEF OrderInv
    <3>3. IsLastOfPanel(screen[q].of)'
      BY <2>2, <3>1, <3>2 DEF IsLastOfPanel
    <3> QED
      BY <2>2, <3>1, <3>2, <3>3
  <2> QED
    BY <2>4, <2>5 DEF OrderInv
<1>4. ASSUME NEW p \in Panels,
             screen' = [screen EXCEPT ![p] = [kind |-> "form", of |-> 0]],
             UNCHANGED <<requests, log, alerts>>
      PROVE  OrderInv'
  BY <1>1, <1>4 DEF OrderInv, IsLastOfPanel, OnForm
<1>5. ASSUME NEW i \in DOMAIN requests, NEW reason \in WorkerReasons,
             Evaluated(i, reason), screen' = screen
      PROVE  OrderInv'
  <2> DEFINE r == [requests[i] EXCEPT !.stage = "evaluated", !.reason = reason]
  <2>1. r.panel = requests[i].panel /\ r.waiting = requests[i].waiting
    BY <1>1 DEF Submitted
  <2>2. Changed(i, r)
    BY <1>5, EvaluatedChanges
  <2> HIDE DEF r
  <2> QED
    BY <1>5, <2>1, <2>2, QuietOrder
<1>6. ASSUME NEW i \in DOMAIN requests, Decide(i) PROVE OrderInv'
  <2> DEFINE retry == AllowsCodeRetry(requests[i].reason, log[CallOf[requests[i].panel]])
             r == [requests[i] EXCEPT !.stage = "decided", !.retry = retry]
  <2>1. Changed(i, r) /\ screen' = screen
    BY <1>6, DecideChanges DEF Decide
  <2> HIDE DEF retry
  <2>2. r.panel = requests[i].panel /\ r.waiting = requests[i].waiting
    BY <1>1 DEF Submitted
  <2> HIDE DEF r
  <2> QED
    BY <2>1, <2>2, QuietOrder
<1>7. ASSUME NEW i \in DOMAIN requests, RecordIt(i) PROVE OrderInv'
  <2> DEFINE r == [requests[i] EXCEPT !.stage = "recorded"]
  <2>1. Changed(i, r) /\ screen' = screen
    BY <1>7, RecordItChanges DEF RecordIt
  <2>2. r.panel = requests[i].panel /\ r.waiting = requests[i].waiting
    BY <1>1 DEF Submitted
  <2> HIDE DEF r
  <2> QED
    BY <2>1, <2>2, QuietOrder
<1>8. ASSUME NEW i \in DOMAIN requests, Receive(i) PROVE OrderInv'
  <2> DEFINE r == [requests[i] EXCEPT !.waiting = FALSE]
  <2>1. /\ Changed(i, r) /\ requests[i].waiting
        /\ screen' = [screen EXCEPT ![requests[i].panel] = [kind |-> Verdict(requests[i]), of |-> i]]
    BY <1>8, ReceiveChanges DEF Receive
  <2>2. r.panel = requests[i].panel /\ ~r.waiting
    BY <1>1 DEF Submitted
  <2> HIDE DEF r
  <2> QED
    BY <2>1, <2>2, ShownOrder
<1>9. ASSUME NEW i \in DOMAIN requests, RequestFails(i) PROVE OrderInv'
  <2>1. PICK stage \in Stages :
            Changed(i, [requests[i] EXCEPT !.waiting = FALSE, !.lost = TRUE, !.stage = stage])
    BY <1>9, RequestFailsChanges
  <2> DEFINE r == [requests[i] EXCEPT !.waiting = FALSE, !.lost = TRUE, !.stage = stage]
  <2>2. /\ Changed(i, r) /\ requests[i].waiting
        /\ screen' = [screen EXCEPT ![requests[i].panel] = [kind |-> "gray", of |-> i]]
    BY <1>9, <2>1 DEF RequestFails
  <2>3. r.panel = requests[i].panel /\ ~r.waiting
    BY <1>1 DEF Submitted
  <2> HIDE DEF r
  <2> QED
    BY <2>2, <2>3, ShownOrder
<1> QED
  BY <1>2, <1>3, <1>4, <1>5, <1>6, <1>7, <1>8, <1>9 DEF Steps

\* A genuine caller is not called a fraud by a late or repeated answer: red is
\* about the page's last code, and an acceptance before it was answered or lost
\* (CitizenVerifyPanel.handleSubmit).
THEOREM NoFalseAccusation == Spec => []GenuineIsNotAccused
<1>1. Typed /\ AlertInv /\ OrderInv => GenuineIsNotAccused
  <2> SUFFICES ASSUME Typed, AlertInv, OrderInv, NEW p \in Panels, NEW i \in DOMAIN requests,
                      screen[p].kind = "red", requests[i].panel = p,
                      requests[i].reason = "verified"
               PROVE  i < screen[p].of /\ ~requests[i].waiting
    BY DEF GenuineIsNotAccused
  <2>1. /\ screen[p].of \in DOMAIN requests /\ requests[screen[p].of].panel = p
        /\ screen[p].of # i
    BY DEF AlertInv, RedIsFinal
  <2>2. IsLastOfPanel(screen[p].of)
    BY DEF OrderInv, OnForm
  <2>3. i \in Int /\ screen[p].of \in Int
    BY <2>1, RequestsType
  <2>4. i < screen[p].of
    BY <2>1, <2>2, <2>3 DEF IsLastOfPanel
  <2>5. ~IsLastOfPanel(i)
    BY <2>1, <2>3, <2>4 DEF IsLastOfPanel
  <2> QED
    BY <2>4, <2>5 DEF OrderInv
<1> QED
  BY InitTyped, NextTyped, InitAlert, NextAlert, InitOrder, NextOrder, <1>1, PTL DEF Spec

-----------------------------------------------------------------------------
(***************************************************************************)
(* The countdown                                                           *)
(***************************************************************************)

\* What the staff page has or gets is a proof the worker knows, until it is
\* used or the worker forgets.
CountInv ==
    \A answer \in made \cup shown :
        (answer.life = restarts /\ answer.code \notin spent)
            => \E p \in live : p.code = answer.code /\ p.deadline = answer.deadline

\* Lives are counted, and a proof in sight is of this life or of an earlier one.
LivesInv == \A answer \in made \cup shown : answer.life <= restarts

LEMMA NextCount == Typed /\ LivesInv /\ CountInv /\ [Next]_vars => LivesInv' /\ CountInv'
<1> SUFFICES ASSUME Typed, LivesInv, CountInv, [Next]_vars PROVE LivesInv' /\ CountInv'
  OBVIOUS
<1>1. /\ restarts \in 0..MaxRestarts /\ MaxRestarts \in Nat
      /\ \A answer \in made \cup shown : answer.life \in 0..MaxRestarts
  <2>1. \A answer \in Proofs : answer.life \in 0..MaxRestarts
    BY DEF Proofs
  <2>2. (made \cup shown) \subseteq Proofs /\ restarts \in 0..MaxRestarts
    BY DEF Typed, TypeOK
  <2> QED
    BY <2>1, <2>2, ScreensAssumption
\* The worker's proofs are only added to, and nothing new comes into sight.
<1>2. ASSUME made' \cup shown' \subseteq made \cup shown,
             UNCHANGED <<restarts, spent>>, live \subseteq live'
      PROVE  LivesInv' /\ CountInv'
  BY <1>2 DEF LivesInv, CountInv
<1>3. ASSUME NEW code \in Codes, MakeProof(code) PROVE LivesInv' /\ CountInv'
  <2> DEFINE answer == [code |-> code, deadline |-> now + Ttl, life |-> restarts]
             p == [code |-> code, holder |-> Staff, deadline |-> now + Ttl]
  <2>1. /\ made' = {answer} /\ shown' = shown
        /\ live' = live \cup {p}
        /\ UNCHANGED <<restarts, spent>>
    BY <1>3 DEF MakeProof, Worker!Mint
  <2>2. p \in live' /\ p.code = answer.code /\ p.deadline = answer.deadline /\ answer.life = restarts
    BY <2>1
  <2> HIDE DEF answer, p
  <2> QED
    BY <1>1, <2>1, <2>2 DEF LivesInv, CountInv
<1>4. ASSUME NEW i \in DOMAIN requests, AcceptCode(i) PROVE LivesInv' /\ CountInv'
  <2>1. PICK p \in live : Worker!Accept(p)
    BY <1>4 DEF AcceptCode
  <2>2. /\ live' = live \ {p} /\ spent' = spent \cup {p.code}
        /\ UNCHANGED <<restarts, made, shown>>
    BY <1>4, <2>1 DEF AcceptCode, Worker!Accept, staffVars
  <2> QED
    BY <2>2 DEF LivesInv, CountInv
<1>5. ASSUME Restart PROVE LivesInv' /\ CountInv'
  <2>1. restarts' = restarts + 1 /\ UNCHANGED <<made, shown>>
    BY <1>5 DEF Restart, staffVars
  <2>2. \A answer \in made \cup shown : answer.life <= restarts /\ answer.life \in Int
    BY <1>1 DEF LivesInv
  <2> QED
    BY <1>1, <2>1, <2>2 DEF LivesInv, CountInv
<1>6. CASE ShowProof
  BY <1>2, <1>6 DEF ShowProof, Countdown, workerVars
<1>7. CASE AskProof \/ ProofFails
  BY <1>2, <1>7 DEF AskProof, ProofFails, workerVars
<1>8. CASE \/ \E p \in Panels : (\E code \in Codes : Submit(p, code)) \/ Reset(p) \/ SwitchScene(p)
           \/ \E i \in DOMAIN requests :
                \/ RefuseCode(i) \/ LimitRequest(i) \/ Decide(i) \/ RecordIt(i)
                \/ Receive(i) \/ RequestFails(i)
           \/ Revoke \/ Tick
           \/ UNCHANGED vars
  <2>1. UNCHANGED <<made, shown, restarts, spent, live>>
    BY <1>8 DEF Submit, Reset, SwitchScene, RefuseCode, LimitRequest, Decide, RecordIt, Receive,
       RequestFails, Revoke, Tick, vars, workerVars, staffVars, Worker!Withdraw, Worker!Tick
  <2> QED
    BY <1>2, <2>1
<1> QED
  BY <1>3, <1>4, <1>5, <1>6, <1>7, <1>8 DEF Next

\* A countdown that runs is one the worker would honour: it shows the deadline
\* the worker keeps (StaffProofPanel.tsx, expires_at).
THEOREM CountdownHolds == Spec => []CountdownIsHonest
<1>1. Init => LivesInv /\ CountInv
  BY DEF Init, LivesInv, CountInv
<1>2. CountInv => CountdownIsHonest
  <2> SUFFICES ASSUME CountInv, NEW proof \in shown, now < proof.deadline, proof.life = restarts,
                      proof.code \notin spent, withdrawn = {}
               PROVE  Acceptable(proof.code)
    BY DEF CountdownIsHonest
  <2>1. PICK p \in live : p.code = proof.code /\ p.deadline = proof.deadline
    BY DEF CountInv
  <2> QED
    BY <2>1 DEF Acceptable
<1> QED
  BY InitTyped, NextTyped, NextCount, <1>1, <1>2, PTL DEF Spec

-----------------------------------------------------------------------------
(***************************************************************************)
(* The first unknown code of a call                                        *)
(***************************************************************************)

\* Another request of the same call that the api has recorded with one of these
\* reasons.
Earlier(i, call, reasons) ==
    \E j \in DOMAIN requests \ {i} :
        /\ requests[j].stage = "recorded"
        /\ CallOf[requests[j].panel] = call
        /\ requests[j].reason \in reasons

\* Every record of a call is that of a request.
RecordsOfRequests ==
    \A c \in Calls : \A k \in DOMAIN log[c] :
        \E j \in DOMAIN requests :
            /\ requests[j].stage = "recorded"
            /\ CallOf[requests[j].panel] = c
            /\ requests[j].reason = log[c][k].reason

Forgiven(i) ==
    (/\ requests[i].stage \in {"decided", "recorded"}
     /\ requests[i].reason = "code_not_found"
     /\ ~requests[i].retry)
    => Earlier(i, CallOf[requests[i].panel], {"code_not_found", "rate_limited"})

TypoInv == RecordsOfRequests /\ \A i \in DOMAIN requests : Forgiven(i)

\* What allows_code_retry says of the records when it says no.
LEMMA NoRetryHasRecord ==
    ASSUME NEW S, NEW previous \in Seq(S), ~AllowsCodeRetry("code_not_found", previous)
    PROVE  \E k \in DOMAIN previous : previous[k].reason \in {"code_not_found", "rate_limited"}
<1> DEFINE Trailing == {i \in DOMAIN previous :
                          \A j \in i..Len(previous) : previous[j].reason = "code_not_found"}
<1>1. CASE WasLimited(previous)
  BY <1>1 DEF WasLimited
<1>2. CASE ~WasLimited(previous)
  <2>1. ~(Cardinality(Trailing) + 1 < 2)
    BY <1>2 DEF AllowsCodeRetry, TrailingNotFound, MaxCodeEntryAttempts
  <2>2. Trailing # {}
    <3>1. Cardinality({}) = 0
      BY FS_EmptySet
    <3> HIDE DEF Trailing
    <3>2. SUFFICES ASSUME Trailing = {} PROVE FALSE
      OBVIOUS
    <3>3. Cardinality(Trailing) = 0
      BY <3>1, <3>2, Zenon
    <3> QED
      BY <2>1, <3>3
  <2>3. PICK k \in DOMAIN previous :
            \A j \in k..Len(previous) : previous[j].reason = "code_not_found"
    BY <2>2
  <2>4. k \in k..Len(previous)
    BY <2>3, LenProperties
  <2> QED
    BY <2>3, <2>4
<1> QED
  BY <1>1, <1>2

\* A step that keeps what is recorded, and decides nothing.
LEMMA QuietTypo ==
    ASSUME Typed, TypoInv, NEW i \in DOMAIN requests, NEW r \in Submitted, Changed(i, r), log' = log,
           r.panel = requests[i].panel,
           requests[i].stage = "recorded" => r.stage = "recorded" /\ r.reason = requests[i].reason,
           r.stage \in {"decided", "recorded"} =>
                /\ requests[i].stage \in {"decided", "recorded"}
                /\ r.reason = requests[i].reason
                /\ r.retry = requests[i].retry
    PROVE  TypoInv'
<1>1. \A j \in DOMAIN requests :
        /\ requests'[j].panel = requests[j].panel
        /\ requests[j].stage = "recorded" =>
                requests'[j].stage = "recorded" /\ requests'[j].reason = requests[j].reason
  BY DEF Changed
<1>2. RecordsOfRequests'
  BY <1>1 DEF Changed, TypoInv, RecordsOfRequests
<1>3. ASSUME NEW j \in DOMAIN requests' PROVE Forgiven(j)'
  <2>1. j \in DOMAIN requests /\ Forgiven(j) /\ DOMAIN requests' = DOMAIN requests
    BY DEF Changed, TypoInv
  <2>2. Forgiven(j)' \/ (/\ requests[j].stage \in {"decided", "recorded"}
                         /\ requests[j].reason = "code_not_found"
                         /\ ~requests[j].retry)
    BY <2>1 DEF Changed, Forgiven
  <2>3. Earlier(j, CallOf[requests[j].panel], {"code_not_found", "rate_limited"})
            => Earlier(j, CallOf[requests[j].panel], {"code_not_found", "rate_limited"})'
    BY <1>1, <2>1 DEF Earlier
  <2>4. CASE /\ requests[j].stage \in {"decided", "recorded"}
             /\ requests[j].reason = "code_not_found"
             /\ ~requests[j].retry
    <3>1. Earlier(j, CallOf[requests[j].panel], {"code_not_found", "rate_limited"})
      BY <2>1, <2>4 DEF Forgiven
    <3> QED
      BY <2>3, <3>1 DEF Forgiven
  <2> QED
    BY <2>2, <2>4
<1> QED
  BY <1>2, <1>3 DEF TypoInv

LEMMA NextTypo == Typed /\ TypoInv /\ [Next]_vars => TypoInv'
<1> SUFFICES ASSUME Typed, TypoInv, Steps PROVE TypoInv'
  BY NextSteps
<1>1. /\ \A i \in DOMAIN requests :
            requests[i] \in Submitted /\ CallOf[requests[i].panel] \in Calls
      /\ log \in [Calls -> Seq([reason : WorkerReasons])]
  BY RequestsType DEF Typed, TypeOK
<1>2. CASE UNCHANGED <<requests, log>>
  BY <1>2 DEF TypoInv, RecordsOfRequests, Forgiven, Earlier
<1>3. ASSUME NEW p \in Panels, NEW code \in Codes, Submit(p, code) PROVE TypoInv'
  <2>1. Added(New(p, code)) /\ log' = log
    BY <1>3, SubmitAdds DEF Submit, apiVars
  <2>2. RecordsOfRequests'
    BY <2>1 DEF Added, TypoInv, RecordsOfRequests
  <2>3. ASSUME NEW j \in DOMAIN requests PROVE Forgiven(j)'
    <3>1. Forgiven(j) /\ requests'[j] = requests[j]
      BY <2>1 DEF Added, TypoInv
    <3>2. Earlier(j, CallOf[requests[j].panel], {"code_not_found", "rate_limited"})
            => Earlier(j, CallOf[requests[j].panel], {"code_not_found", "rate_limited"})'
      BY <2>1 DEF Added, Earlier
    <3> QED
      BY <3>1, <3>2 DEF Forgiven
  <2>4. ASSUME NEW j \in DOMAIN requests', j \notin DOMAIN requests PROVE Forgiven(j)'
    BY <2>1, <2>4 DEF Added, New, Forgiven
  <2> QED
    BY <2>2, <2>3, <2>4 DEF TypoInv
<1>4. ASSUME NEW i \in DOMAIN requests, NEW reason \in WorkerReasons,
             requests[i].stage = "sent", Evaluated(i, reason), log' = log
      PROVE  TypoInv'
  <2> DEFINE r == [requests[i] EXCEPT !.stage = "evaluated", !.reason = reason]
  <2>1. r \in Submitted /\ r.stage = "evaluated" /\ r.panel = requests[i].panel
    BY <1>1 DEF Submitted, Stages
  <2>2. Changed(i, r)
    BY <1>4, EvaluatedChanges
  <2> HIDE DEF r
  <2> QED
    BY <1>4, <2>1, <2>2, QuietTypo
<1>5. ASSUME NEW i \in DOMAIN requests, Decide(i) PROVE TypoInv'
  <2> DEFINE call == CallOf[requests[i].panel]
             retry == AllowsCodeRetry(requests[i].reason, log[call])
             r == [requests[i] EXCEPT !.stage = "decided", !.retry = retry]
  <2>1. /\ Changed(i, r) /\ log' = log /\ requests[i].stage = "evaluated" /\ call \in Calls
    BY <1>1, <1>5, DecideChanges DEF Decide
  <2>2. retry \in BOOLEAN
    BY DEF AllowsCodeRetry
  <2>3. requests[i].reason = "code_not_found" /\ ~retry
            => Earlier(i, call, {"code_not_found", "rate_limited"})
    <3>1. SUFFICES ASSUME requests[i].reason = "code_not_found",
                          ~AllowsCodeRetry("code_not_found", log[call])
                   PROVE  Earlier(i, call, {"code_not_found", "rate_limited"})
      OBVIOUS
    <3>2. log[call] \in Seq([reason : WorkerReasons])
      BY <1>1, <2>1
    <3>3. PICK k \in DOMAIN log[call] : log[call][k].reason \in {"code_not_found", "rate_limited"}
      BY <3>1, <3>2, NoRetryHasRecord
    <3> HIDE DEF call
    <3>4. PICK j \in DOMAIN requests :
              /\ requests[j].stage = "recorded"
              /\ CallOf[requests[j].panel] = call
              /\ requests[j].reason = log[call][k].reason
      BY <2>1, <3>3 DEF TypoInv, RecordsOfRequests
    <3>5. j # i
      BY <2>1, <3>4
    <3> QED
      BY <3>3, <3>4, <3>5 DEF Earlier
  <2> HIDE DEF retry
  <2>4. /\ r.stage = "decided" /\ r.reason = requests[i].reason /\ r.retry = retry
        /\ r.panel = requests[i].panel
    BY <1>1, <2>2 DEF Submitted
  <2> HIDE DEF r
  <2>5. \A j \in DOMAIN requests :
            /\ requests'[j].panel = requests[j].panel
            /\ requests'[j].reason = requests[j].reason
            /\ requests[j].stage = "recorded" => requests'[j].stage = "recorded"
    BY <2>1, <2>4 DEF Changed
  <2>6. RecordsOfRequests'
    BY <2>1, <2>5 DEF Changed, TypoInv, RecordsOfRequests
  <2>7. ASSUME NEW j \in DOMAIN requests,
               Earlier(j, CallOf[requests[j].panel], {"code_not_found", "rate_limited"})
        PROVE  Earlier(j, CallOf[requests[j].panel], {"code_not_found", "rate_limited"})'
    BY <2>1, <2>5, <2>7 DEF Changed, Earlier
  <2>8. ASSUME NEW j \in DOMAIN requests' PROVE Forgiven(j)'
    <3>1. j \in DOMAIN requests /\ Forgiven(j)
      BY <2>1 DEF Changed, TypoInv
    <3>2. CASE j = i
      <4>1. requests'[j] = r
        BY <2>1, <3>2 DEF Changed
      <4> QED
        BY <2>3, <2>4, <2>7, <3>1, <3>2, <4>1 DEF Forgiven
    <3>3. CASE j # i
      <4>1. requests'[j] = requests[j]
        BY <2>1, <3>1, <3>3 DEF Changed
      <4> QED
        BY <2>7, <3>1, <4>1 DEF Forgiven
    <3> QED
      BY <3>2, <3>3
  <2> QED
    BY <2>6, <2>8 DEF TypoInv
<1>6. ASSUME NEW i \in DOMAIN requests, RecordIt(i) PROVE TypoInv'
  <2> DEFINE call == CallOf[requests[i].panel]
             reason == requests[i].reason
             r == [requests[i] EXCEPT !.stage = "recorded"]
  <2>1. /\ r.stage = "recorded" /\ r.reason = reason /\ r.retry = requests[i].retry
        /\ r.panel = requests[i].panel /\ requests[i].stage = "decided"
    BY <1>1, <1>6 DEF Submitted, RecordIt
  <2>2. Changed(i, r) /\ log' = [log EXCEPT ![call] = Append(log[call], [reason |-> reason])]
    BY <1>6, RecordItChanges DEF RecordIt
  <2>3. [reason |-> reason] \in [reason : WorkerReasons]
    BY <1>6 DEF RecordIt, Typed, Reasoned
  <2> HIDE DEF r
  <2>4. /\ DOMAIN requests' = DOMAIN requests
        /\ \A j \in DOMAIN requests :
            /\ requests'[j].panel = requests[j].panel
            /\ requests'[j].reason = requests[j].reason
            /\ requests'[j].retry = requests[j].retry
            /\ requests[j].stage = "recorded" => requests'[j].stage = "recorded"
            /\ requests'[j].stage \in {"decided", "recorded"}
                    => requests[j].stage \in {"decided", "recorded"}
    BY <2>1, <2>2 DEF Changed
  <2>5. requests'[i].stage = "recorded"
    BY <2>1, <2>2 DEF Changed
  <2>6. ASSUME NEW c \in Calls, NEW k \in DOMAIN log'[c]
        PROVE  \E j \in DOMAIN requests' :
                    /\ requests'[j].stage = "recorded"
                    /\ CallOf[requests'[j].panel] = c
                    /\ requests'[j].reason = log'[c][k].reason
    <3> HIDE DEF call, reason
    <3>1. \/ k \in DOMAIN log[c] /\ log'[c][k] = log[c][k]
          \/ c = call /\ log'[c][k] = [reason |-> reason]
      <4>1. CASE c # call
        BY <1>1, <2>2, <4>1
      <4>2. CASE c = call
        <5>1. /\ log'[c] = Append(log[c], [reason |-> reason])
              /\ log[c] \in Seq([reason : WorkerReasons])
          BY <1>1, <2>2, <4>2
        <5> QED
          BY <2>3, <4>2, <5>1, AppendProperties, LenProperties
      <4> QED
        BY <4>1, <4>2
    <3>2. CASE k \in DOMAIN log[c] /\ log'[c][k] = log[c][k]
      BY <2>4, <3>2 DEF TypoInv, RecordsOfRequests
    <3>3. CASE c = call /\ log'[c][k] = [reason |-> reason]
      BY <2>4, <2>5, <3>3 DEF call, reason
    <3> QED
      BY <3>1, <3>2, <3>3
  <2>7. RecordsOfRequests'
    BY <2>6 DEF RecordsOfRequests, Calls
  <2>8. ASSUME NEW j \in DOMAIN requests' PROVE Forgiven(j)'
    <3>1. Forgiven(j)
      BY <2>4 DEF TypoInv
    <3>2. Earlier(j, CallOf[requests[j].panel], {"code_not_found", "rate_limited"})
            => Earlier(j, CallOf[requests[j].panel], {"code_not_found", "rate_limited"})'
      BY <2>4 DEF Earlier
    <3> QED
      BY <2>4, <3>1, <3>2 DEF Forgiven
  <2> QED
    BY <2>7, <2>8 DEF TypoInv
<1>7. ASSUME NEW i \in DOMAIN requests, Receive(i) PROVE TypoInv'
  <2> DEFINE r == [requests[i] EXCEPT !.waiting = FALSE]
  <2>1. /\ r \in Submitted /\ r.panel = requests[i].panel /\ r.stage = requests[i].stage
        /\ r.retry = requests[i].retry /\ r.reason = requests[i].reason
    BY <1>1 DEF Submitted
  <2>2. Changed(i, r) /\ log' = log
    BY <1>7, ReceiveChanges DEF Receive, apiVars
  <2> HIDE DEF r
  <2> QED
    BY <2>1, <2>2, QuietTypo
<1>8. ASSUME NEW i \in DOMAIN requests, RequestFails(i) PROVE TypoInv'
  <2>1. PICK stage \in Stages :
            /\ stage \in {requests[i].stage, "dropped"}
            /\ requests[i].stage \in {"decided", "recorded"} => stage = requests[i].stage
            /\ Changed(i, [requests[i] EXCEPT !.waiting = FALSE, !.lost = TRUE, !.stage = stage])
    BY <1>8, RequestFailsChanges
  <2> DEFINE r == [requests[i] EXCEPT !.waiting = FALSE, !.lost = TRUE, !.stage = stage]
  <2>2. /\ r \in Submitted /\ r.panel = requests[i].panel /\ r.stage = stage
        /\ r.retry = requests[i].retry /\ r.reason = requests[i].reason
    BY <1>1 DEF Submitted
  <2>3. Changed(i, r) /\ log' = log
    BY <1>8, <2>1 DEF RequestFails, apiVars
  <2> HIDE DEF r
  <2> QED
    BY <2>1, <2>2, <2>3, QuietTypo
<1> QED
  BY <1>2, <1>3, <1>4, <1>5, <1>6, <1>7, <1>8 DEF Steps

\* A citizen is never told off for the first unknown code of a call: the red
\* screen follows another unknown code, or a limit, on the same call
\* (allows_code_retry, CitizenVerifyPanel).
THEOREM FirstTypoForgiven == Spec => []FirstTypoOfCallIsForgiven
<1>1. Init => TypoInv
  BY DEF Init, TypoInv, RecordsOfRequests
<1>2. Typed /\ AlertInv /\ TypoInv => FirstTypoOfCallIsForgiven
  <2> SUFFICES ASSUME Typed, AlertInv, TypoInv, NEW p \in Panels, screen[p].kind = "red",
                      requests[screen[p].of].reason = "code_not_found"
               PROVE  \E j \in DOMAIN requests \ {screen[p].of} :
                        /\ CallOf[requests[j].panel] = CallOf[p]
                        /\ requests[j].reason \in {"code_not_found", "rate_limited"}
    BY DEF FirstTypoOfCallIsForgiven
  <2>1. /\ screen[p].of \in DOMAIN requests
        /\ requests[screen[p].of].panel = p
        /\ requests[screen[p].of].stage = "recorded"
        /\ ~requests[screen[p].of].retry
    BY DEF AlertInv, RedIsFinal
  <2>2. Earlier(screen[p].of, CallOf[p], {"code_not_found", "rate_limited"})
    BY <2>1 DEF TypoInv, Forgiven
  <2> QED
    BY <2>2 DEF Earlier
<1> QED
  BY InitTyped, NextTyped, InitAlert, NextAlert, NextTypo, <1>1, <1>2, PTL DEF Spec

=============================================================================
