----------------------- MODULE AnalysisPipelineProofs -----------------------
(***************************************************************************)
(* Proofs about AnalysisPipeline and the form of Deepvoice for every set   *)
(* of requests and replicas, every number of slots, all texts, recordings  *)
(* and answers of the language model, and any number of faults.            *)
(***************************************************************************)
EXTENDS AnalysisPipeline, FiniteSetTheorems, SequenceTheorems, WellFoundedInduction, TLAPS

-----------------------------------------------------------------------------
(***************************************************************************)
(* The shape of the state.  A verdict is one of those that there may be;   *)
(* what these are like is said in a later part.                            *)
(***************************************************************************)

CallStages == {"queued"} \cup Blocking \cup Ended
JobStages == {"none", "waiting", "done", "lost"} \cup Working

\* The results that there may be, whatever they are.
Results ==
    {NoResult} \cup {RuleVerdict[r] : r \in Requests}
        \cup {ModelResult(answer) : answer \in Answers \cup {NoAnswer}}

CallRecord == [at : CallStages, waited : Nat, reply : Results]
JobRecord == [at : JobStages, spent : Nat, answer : Answers \cup {NoAnswer}, result : Results]

Shape ==
    /\ call \in [Requests -> CallRecord]
    /\ job \in [Requests -> JobRecord]
    /\ waiters \in Seq(Requests)
    /\ faults \in Nat

LEMMA NoneOrGone ==
    /\ NoJob.at = "none" /\ Gone.at = "done"
    /\ NoJob \in JobRecord
    /\ Gone \in JobRecord
BY DEF NoJob, Gone, JobStages, JobRecord, Results

LEMMA EnteredShape ==
    ASSUME NEW r \in Requests
    PROVE  /\ Entered(r) \in JobRecord
           /\ Entered(r).at \in Working
           /\ Entered(r).at = "search" => Entered(r).result = RuleVerdict[r]
           /\ Entered(r).at \in {"llm", "search"}
BY DEF Entered, NoJob, JobStages, JobRecord, Working, Results

LEMMA OverShape ==
    ASSUME NEW how \in Ended
    PROVE  Over(how) \in CallRecord /\ Over(how).at = how
BY DEF Over, NoCall, CallStages, CallRecord, Results

-----------------------------------------------------------------------------
(***************************************************************************)
(* The steps, by what they do to the jobs                                  *)
(***************************************************************************)

LEMMA AcceptedShape ==
    ASSUME Shape, NEW r \in Requests, Accepted(r)
    PROVE  /\ job' \in [Requests -> JobRecord]
           /\ waiters' \in Seq(Requests)
           /\ \A q \in Requests \ {r} : job'[q] = job[q]
<1>1. CASE waiters = << >> /\ Cardinality(Holding) < Slots
  BY <1>1, EnteredShape DEF Accepted, Shape
<1>2. CASE ~(waiters = << >> /\ Cardinality(Holding) < Slots)
  <2>1. job' = [job EXCEPT ![r].at = "waiting"] /\ waiters' = Append(waiters, r)
    BY <1>2 DEF Accepted
  <2>2. "waiting" \in JobStages
    BY DEF JobStages
  <2>3. waiters' \in Seq(Requests)
    BY <2>1, AppendProperties DEF Shape
  <2> QED
    BY <2>1, <2>2, <2>3 DEF Shape, JobRecord
<1> QED
  BY <1>1, <1>2

LEMMA ReleasedShape ==
    ASSUME Shape, NEW r \in Requests, Released(r)
    PROVE  /\ job' \in [Requests -> JobRecord]
           /\ waiters' \in Seq(Requests)
<1>1. CASE waiters = << >>
  BY <1>1, NoneOrGone DEF Released, Shape
<1>2. CASE waiters # << >>
  <2>1. Head(waiters) \in Requests /\ Tail(waiters) \in Seq(Requests)
    BY <1>2, HeadTailProperties DEF Shape
  <2>2. /\ job' = [job EXCEPT ![r] = Gone, ![Head(waiters)] = Entered(Head(waiters))]
        /\ waiters' = Tail(waiters)
    BY <1>2 DEF Released
  <2>3. Entered(Head(waiters)) \in JobRecord /\ Gone \in JobRecord
    BY <2>1, NoneOrGone, EnteredShape
  <2> QED
    BY <2>1, <2>2, <2>3 DEF Shape
<1> QED
  BY <1>1, <1>2

\* What the job of r gets when a service has answered it.
Answering(r) ==
    \/ LlmAnswers(r) \/ LlmFails(r) \/ GpuRead(r) \/ GpuGarbled(r) \/ Searched(r)

LEMMA AnsweringShape ==
    ASSUME Shape, NEW r \in Requests, Answering(r)
    PROVE  /\ job' \in [Requests -> JobRecord]
           /\ job[r].at \in Working /\ job'[r].at \in Working
           /\ \A q \in Requests \ {r} : job'[q] = job[q]
           /\ UNCHANGED <<call, waiters, faults, form>>
<1>1. UNCHANGED <<call, waiters, faults, form>>
  BY DEF Answering, LlmAnswers, LlmFails, GpuRead, GpuGarbled, Searched, GoesOn, apiVars
<1>2. CASE LlmAnswers(r)
  <2>1. PICK answer \in Answers :
          job' = [job EXCEPT ![r] = [job[r] EXCEPT !.at = "gpu", !.spent = 0, !.answer = answer]]
    BY <1>2 DEF LlmAnswers, GoesOn
  <2> QED
    BY <1>1, <1>2, <2>1 DEF LlmAnswers, Shape, JobRecord, JobStages, Working
<1>3. CASE LlmFails(r)
  <2>1. RuleVerdict[r] \in Results
    BY DEF Results
  <2> QED
    BY <1>1, <1>3, <2>1 DEF LlmFails, GoesOn, Shape, JobRecord, JobStages, Working
<1>4. CASE GpuRead(r)
  <2>1. Judged(r) \in Results
    BY DEF Judged, Results, Shape, JobRecord
  <2> QED
    BY <1>1, <1>4, <2>1 DEF GpuRead, GoesOn, Shape, JobRecord, JobStages, Working
<1>5. CASE GpuGarbled(r)
  <2>1. RuleVerdict[r] \in Results
    BY DEF Results
  <2> QED
    BY <1>1, <1>5, <2>1 DEF GpuGarbled, GoesOn, Shape, JobRecord, JobStages, Working
<1>6. CASE Searched(r)
  BY <1>1, <1>6 DEF Searched, GoesOn, Shape, JobRecord, JobStages, Working
<1> QED
  BY <1>2, <1>3, <1>4, <1>5, <1>6 DEF Answering

\* The job of r ends by an exception.
Excepted(r) == JobRaises(r) \/ JobFails(r)

LEMMA ExceptedStep ==
    ASSUME NEW r \in Requests, Excepted(r)
    PROVE  /\ job[r].at \in Working
           /\ Released(r)
           /\ call' \in {call, [call EXCEPT ![r] = Over("failed")]}
           /\ faults' = faults \/ Fault
           /\ UNCHANGED <<sttVars, backend, slow, form>>
BY DEF Excepted, JobRaises, JobFails, Raised, Working

\* A request of call ends or moves on.
LEMMA LostShape ==
    ASSUME Shape, NEW lost
    PROVE  Lost(lost) \in [Requests -> CallRecord]
BY OverShape DEF Lost, Ended, Shape

LEMMA FaultShape == ASSUME Shape, Fault PROVE faults' \in Nat /\ faults' > 0
BY DEF Fault, Shape

LEMMA InitShape == Init => Shape
BY NoneOrGone DEF Init, Shape, NoCall, CallRecord, CallStages, Results

LEMMA NextShape == Shape /\ [Next]_vars => Shape'
<1> SUFFICES ASSUME Shape, [Next]_vars PROVE Shape'
  OBVIOUS
<1>a. \A r \in Requests, how \in Ended : [call EXCEPT ![r] = Over(how)] \in [Requests -> CallRecord]
  BY OverShape DEF Shape
<1>b. ASSUME NEW r \in Requests, NEW at \in CallStages
      PROVE  /\ [call EXCEPT ![r].at = at] \in [Requests -> CallRecord]
             /\ [call EXCEPT ![r].at = at, ![r].waited = 0] \in [Requests -> CallRecord]
             /\ [call EXCEPT ![r].at = at, ![r].waited = 0, ![r].reply = job[r].result]
                    \in [Requests -> CallRecord]
  <2>1. call[r] \in CallRecord /\ job[r].result \in Results
    BY DEF Shape, JobRecord
  <2>2. /\ [call[r] EXCEPT !.at = at] \in CallRecord
        /\ [call[r] EXCEPT !.at = at, !.waited = 0] \in CallRecord
        /\ [call[r] EXCEPT !.at = at, !.waited = 0, !.reply = job[r].result] \in CallRecord
    BY <2>1 DEF CallRecord
  <2> QED
    BY <2>2 DEF Shape
<1>c. {"stt", "mcp", "correlation"} \subseteq CallStages
  BY DEF CallStages, Blocking
<1>d. {"answered", "unreadable", "gave_up_stt", "gave_up_mcp", "failed"} \subseteq Ended
  BY DEF Ended
<1>1. ASSUME NEW r \in Requests, Answering(r) PROVE Shape'
  BY <1>1, AnsweringShape DEF Shape
<1>2. ASSUME NEW r \in Requests, JobEnds(r) PROVE Shape'
  BY <1>2, <1>b, <1>c, ReleasedShape DEF JobEnds, Shape
<1>3. ASSUME NEW r \in Requests, Excepted(r) PROVE Shape'
  <2>1. call' \in [Requests -> CallRecord]
    BY <1>3, <1>a, <1>d, ExceptedStep DEF Shape
  <2> QED
    BY <1>3, <2>1, ExceptedStep, ReleasedShape, FaultShape DEF Shape
<1>4. ASSUME NEW r \in Requests, ServeText(r) PROVE Shape'
  BY <1>4, <1>b, <1>c, AcceptedShape DEF ServeText, Shape
<1>5. ASSUME NEW r \in Requests, ServeAudio(r) PROVE Shape'
  BY <1>5, <1>b, <1>c DEF ServeAudio, Shape, mcpVars
<1>6. ASSUME NEW r \in Requests, Transcribed(r) PROVE Shape'
  <2>0. call' \in {call, [call EXCEPT ![r].at = "mcp", ![r].waited = 0]}
    BY <1>6 DEF Transcribed
  <2>1. call' \in [Requests -> CallRecord]
    <3>1. [call EXCEPT ![r].at = "mcp", ![r].waited = 0] \in [Requests -> CallRecord]
      BY <1>b, <1>c
    <3>2. call \in [Requests -> CallRecord]
      BY DEF Shape
    <3> QED
      BY <2>0, <3>1, <3>2
  <2>2. job' \in [Requests -> JobRecord] /\ waiters' \in Seq(Requests) /\ faults' = faults
    BY <1>6, AcceptedShape DEF Transcribed, Shape
  <2> QED
    BY <2>1, <2>2 DEF Shape
<1>7. ASSUME NEW r \in Requests, NotTranscribed(r) PROVE Shape'
  BY <1>7, <1>a, <1>d DEF NotTranscribed, Shape, mcpVars
<1>8. ASSUME NEW r \in Requests, TimeOut(r) PROVE Shape'
  <2>1. call' \in [Requests -> CallRecord]
    BY <1>8, <1>a, <1>d DEF TimeOut
  <2> QED
    BY <1>8, <2>1 DEF TimeOut, Shape, mcpVars
<1>9. ASSUME NEW r \in Requests, Answered(r) PROVE Shape'
  BY <1>9, <1>a, <1>d DEF Answered, Shape, mcpVars
<1>10. ASSUME NEW r \in Requests, NotStored(r) PROVE Shape'
  BY <1>10, <1>a, <1>d, FaultShape DEF NotStored, Shape, mcpVars
<1>11. ASSUME NEW a \in Apis, ApiRestarts(a) PROVE Shape'
  BY <1>11, LostShape, FaultShape DEF ApiRestarts, Shape, mcpVars
<1>12. ASSUME SttRestarts PROVE Shape'
  BY <1>12, LostShape, FaultShape DEF SttRestarts, Shape, mcpVars
<1>13. ASSUME McpRestarts PROVE Shape'
  <2>1. [NoJob EXCEPT !.at = "lost"]
            \in JobRecord
    BY DEF NoJob, JobRecord, JobStages, Results
  <2>2. job' \in [Requests -> JobRecord]
    BY <1>13, <2>1 DEF McpRestarts, Shape
  <2>3. waiters' \in Seq(Requests)
    BY <1>13 DEF McpRestarts
  <2> QED
    BY <1>13, <2>2, <2>3, LostShape, FaultShape DEF McpRestarts, Shape
<1>14. ASSUME Tick PROVE Shape'
  <2>1. ASSUME NEW r \in Requests PROVE [call[r] EXCEPT !.waited = @ + 1] \in CallRecord
    <3>1. call[r] \in CallRecord
      BY DEF Shape
    <3> QED
      BY <3>1 DEF CallRecord
  <2>2. ASSUME NEW r \in Requests PROVE [job[r] EXCEPT !.spent = @ + 1] \in JobRecord
    <3>1. job[r] \in JobRecord
      BY DEF Shape
    <3> QED
      BY <3>1 DEF JobRecord
  <2>3. call' \in [Requests -> CallRecord]
    BY <1>14, <2>1 DEF Tick, Shape
  <2>4. job' \in [Requests -> JobRecord]
    BY <1>14, <2>2 DEF Tick, Shape
  <2> QED
    BY <1>14, <2>3, <2>4 DEF Tick, Shape
<1>15. ASSUME Uploads \/ FormIsAnswered \/ UNCHANGED vars PROVE Shape'
  BY <1>15 DEF Uploads, FormIsAnswered, vars, apiVars, mcpVars, Shape
<1> QED
  BY <1>1, <1>2, <1>3, <1>4, <1>5, <1>6, <1>7, <1>8, <1>9, <1>10, <1>11, <1>12, <1>13, <1>14,
     <1>15 DEF Next, Serve, JobStep, Answering, Excepted

LEMMA ShapeHolds == Spec => []Shape
BY InitShape, NextShape, PTL DEF Spec

-----------------------------------------------------------------------------
(***************************************************************************)
(* The semaphore of mcp-server                                             *)
(***************************************************************************)

\* The waiters are the jobs that say so, each once, and a request that
\* apps/api has not passed on has no job: so nobody enters the pool twice, and
\* a slot is handed on to somebody who has none.
SlotInv ==
    /\ IsFiniteSet(Holding)
    /\ WaitersMeanBusy
    /\ \A i, j \in 1..Len(waiters) : i # j => waiters[i] # waiters[j]
    /\ \A i \in 1..Len(waiters) : job[waiters[i]].at = "waiting"
    /\ \A r \in Requests : call[r].at \in {"queued", "stt"} => job[r].at = "none"

\* Each job in the pool stays there, and nobody else comes in.
LEMMA SameHolding ==
    ASSUME Shape, SlotInv, UNCHANGED waiters,
           \A r \in Requests : job'[r].at \in Working <=> job[r].at \in Working,
           \A r \in Requests : job[r].at \in {"none", "waiting"} => job'[r].at = job[r].at,
           \A r \in Requests : call'[r].at \in {"queued", "stt"} => call[r].at \in {"queued", "stt"}
    PROVE  SlotInv'
<1>1. Holding' = Holding
  BY DEF Holding
<1>2. \A i \in 1..Len(waiters) : waiters[i] \in Requests
  BY ElementOfSeq DEF Shape
<1> QED
  BY <1>1, <1>2 DEF SlotInv, WaitersMeanBusy

\* The job of r comes in: into the pool or to the end of the queue.
LEMMA AcceptedSlot ==
    ASSUME Shape, SlotInv, NEW r \in Requests, Accepted(r), job[r].at = "none",
           \A q \in Requests \ {r} :
                call'[q].at \in {"queued", "stt"} => call[q].at \in {"queued", "stt"},
           call'[r].at \notin {"queued", "stt"}
    PROVE  SlotInv'
<1>n. Cardinality(Holding) \in Nat /\ Slots \in Nat \ {0}
  BY AnalysisPipelineAssumption, FS_CardinalityType DEF SlotInv
<1>o. r \notin Holding
  BY DEF Holding, Working
<1>w. \A i \in 1..Len(waiters) : waiters[i] \in Requests /\ waiters[i] # r
  BY ElementOfSeq DEF Shape, SlotInv
<1>5. \A q \in Requests : call'[q].at \in {"queued", "stt"} => q # r /\ job'[q].at = "none"
  BY AcceptedShape DEF SlotInv
<1>1. CASE waiters = << >> /\ Cardinality(Holding) < Slots
  <2>1. job' = [job EXCEPT ![r] = Entered(r)] /\ waiters' = << >>
    BY <1>1 DEF Accepted
  <2>2. Holding' = Holding \cup {r}
    BY <2>1, EnteredShape DEF Holding, Shape
  <2>3. IsFiniteSet(Holding') /\ Cardinality(Holding') = Cardinality(Holding) + 1
    BY <2>2, <1>o, FS_AddElement DEF SlotInv
  <2>4. Cardinality(Holding') <= Slots
    BY <1>1, <1>n, <2>3
  <2>5. WaitersMeanBusy'
    BY <2>1, <2>4 DEF WaitersMeanBusy
  <2>6. 1..Len(waiters') = {}
    BY <2>1, EmptySeq
  <2> QED
    BY <2>3, <2>5, <2>6, <1>5 DEF SlotInv
<1>2. CASE ~(waiters = << >> /\ Cardinality(Holding) < Slots)
  <2>1. job' = [job EXCEPT ![r].at = "waiting"] /\ waiters' = Append(waiters, r)
    BY <1>2 DEF Accepted
  <2>2. job'[r].at = "waiting" /\ \A q \in Requests \ {r} : job'[q] = job[q]
    BY <2>1 DEF Shape, JobRecord
  <2>3. Holding' = Holding
    BY <2>2, <1>o DEF Holding, Working
  <2>4. Cardinality(Holding) = Slots
    BY <1>2, <1>n DEF SlotInv, WaitersMeanBusy
  <2>5. /\ Len(waiters') = Len(waiters) + 1
        /\ \A i \in 1..Len(waiters) : waiters'[i] = waiters[i]
        /\ waiters'[Len(waiters) + 1] = r
        /\ Len(waiters) \in Nat
    BY <2>1, AppendProperties, LenProperties DEF Shape
  <2>6. \A i \in 1..Len(waiters') : i \in 1..Len(waiters) \/ i = Len(waiters) + 1
    BY <2>5
  <2>7. \A i \in 1..Len(waiters') : job'[waiters'[i]].at = "waiting"
    BY <2>2, <2>5, <2>6, <1>w DEF SlotInv
  <2>8. \A i, j \in 1..Len(waiters') : i # j => waiters'[i] # waiters'[j]
    BY <2>5, <2>6, <1>w DEF SlotInv
  <2>9. WaitersMeanBusy'
    BY <2>3, <2>4, <1>n DEF WaitersMeanBusy
  <2> QED
    BY <2>3, <2>7, <2>8, <2>9, <1>5 DEF SlotInv
<1> QED
  BY <1>1, <1>2

\* The job of r ends, and its slot is free or the first waiter's.
LEMMA ReleasedSlot ==
    ASSUME Shape, SlotInv, NEW r \in Requests, Released(r), job[r].at \in Working,
           \A q \in Requests : call'[q].at \in {"queued", "stt"} => call[q].at \in {"queued", "stt"}
    PROVE  SlotInv'
<1>n. Cardinality(Holding) \in Nat /\ Slots \in Nat \ {0}
  BY AnalysisPipelineAssumption, FS_CardinalityType DEF SlotInv
<1>h. r \in Holding
  BY DEF Holding
<1>r. /\ IsFiniteSet(Holding \ {r})
      /\ Cardinality(Holding \ {r}) = Cardinality(Holding) - 1
  BY <1>h, FS_RemoveElement DEF SlotInv
<1>1. CASE waiters = << >>
  <2>1. job' = [job EXCEPT ![r] = Gone] /\ waiters' = << >>
    BY <1>1 DEF Released
  <2>2. job'[r].at = "done" /\ \A q \in Requests \ {r} : job'[q] = job[q]
    BY <2>1, NoneOrGone DEF Shape
  <2>3. Holding' = Holding \ {r}
    BY <2>2 DEF Holding, Working
  <2>4. Cardinality(Holding') <= Slots
    BY <2>3, <1>r, <1>n DEF SlotInv, WaitersMeanBusy
  <2>5. WaitersMeanBusy'
    BY <2>1, <2>4 DEF WaitersMeanBusy
  <2>6. 1..Len(waiters') = {}
    BY <2>1, EmptySeq
  <2>7. \A q \in Requests : call'[q].at \in {"queued", "stt"} => job'[q].at = "none"
    BY <2>2 DEF SlotInv, Working
  <2> QED
    BY <2>3, <2>5, <2>6, <2>7, <1>r DEF SlotInv
<1>2. CASE waiters # << >>
  <2>h. PICK first \in Requests : first = Head(waiters) /\ first = waiters[1]
    BY <1>2, HeadTailProperties, EmptySeq DEF Shape
  <2>l. Len(waiters) \in Nat /\ Len(waiters) >= 1
    BY <1>2, EmptySeq, LenProperties DEF Shape
  <2>f. job[first].at = "waiting" /\ first # r /\ first \notin Holding
    BY <2>h, <2>l DEF SlotInv, Working, Holding
  <2>1. /\ job' = [job EXCEPT ![r] = Gone, ![first] = Entered(first)]
        /\ waiters' = Tail(waiters)
    BY <1>2, <2>h DEF Released
  <2>2. /\ job'[r].at = "done" /\ job'[first].at \in Working
        /\ \A q \in Requests \ {r, first} : job'[q] = job[q]
    BY <2>1, <2>f, NoneOrGone, EnteredShape DEF Shape
  <2>3. Holding' = (Holding \ {r}) \cup {first}
    BY <2>2, <2>f DEF Holding, Working
  <2>4. IsFiniteSet(Holding') /\ Cardinality(Holding') = Cardinality(Holding)
    <3>1. first \notin Holding \ {r}
      BY <2>f
    <3>2. /\ IsFiniteSet((Holding \ {r}) \cup {first})
          /\ Cardinality((Holding \ {r}) \cup {first}) = Cardinality(Holding \ {r}) + 1
      BY <3>1, <1>r, FS_AddElement
    <3>3. Cardinality(Holding \ {r}) + 1 = Cardinality(Holding)
      BY <1>r, <1>n
    <3> QED
      BY <2>3, <3>2, <3>3
  <2>5. WaitersMeanBusy'
    BY <2>4, <1>2 DEF SlotInv, WaitersMeanBusy
  <2>6. /\ Len(waiters') = Len(waiters) - 1
        /\ \A i \in 1..Len(waiters') : waiters'[i] = waiters[i + 1]
    BY <2>1, <1>2, HeadTailProperties DEF Shape
  <2>7. \A i \in 1..Len(waiters') : i + 1 \in 1..Len(waiters) /\ i + 1 # 1
    BY <2>6, <2>l
  <2>8. \A i \in 1..Len(waiters') : waiters'[i] \in Requests \ {r, first}
    <3> SUFFICES ASSUME NEW i \in 1..Len(waiters') PROVE waiters'[i] \in Requests \ {r, first}
      OBVIOUS
    <3>1. waiters[i + 1] \in Requests /\ job[waiters[i + 1]].at = "waiting"
      BY <2>7, ElementOfSeq DEF Shape, SlotInv
    <3>2. waiters[i + 1] # waiters[1]
      BY <2>7, <2>l DEF SlotInv
    <3> QED
      BY <3>1, <3>2, <2>6, <2>h DEF Working
  <2>9. \A i \in 1..Len(waiters') : job'[waiters'[i]].at = "waiting"
    BY <2>2, <2>6, <2>7, <2>8 DEF SlotInv
  <2>10. \A i, j \in 1..Len(waiters') : i # j => waiters'[i] # waiters'[j]
    <3> SUFFICES ASSUME NEW i \in 1..Len(waiters'), NEW j \in 1..Len(waiters'), i # j
                 PROVE  waiters'[i] # waiters'[j]
      OBVIOUS
    <3>1. i + 1 # j + 1
      BY <2>6, <2>l
    <3>2. waiters[i + 1] # waiters[j + 1]
      BY <3>1, <2>7 DEF SlotInv
    <3> QED
      BY <3>2, <2>6
  <2>11. \A q \in Requests : call'[q].at \in {"queued", "stt"} => job'[q].at = "none"
    BY <2>2, <2>f DEF SlotInv, Working
  <2> QED
    BY <2>4, <2>5, <2>9, <2>10, <2>11 DEF SlotInv
<1> QED
  BY <1>1, <1>2

\* Of the requests that apps/api has not passed on there come no new ones.
LEMMA NoneAnew ==
    ASSUME Shape, [Next]_vars, NEW r \in Requests,
           ~ServeAudio(r), call'[r].at \in {"queued", "stt"}
    PROVE  call[r].at \in {"queued", "stt"}
<1>o. \A how \in Ended : Over(how).at = how
  BY OverShape
<1>e. Ended \cap {"queued", "stt"} = {}
  BY DEF Ended
<1>1. CASE call' = call
  BY <1>1
<1>2. ASSUME NEW q \in Requests, NEW how \in Ended, call' = [call EXCEPT ![q] = Over(how)]
      PROVE  call[r].at \in {"queued", "stt"}
  BY <1>2, <1>o, <1>e DEF Shape
<1>3. ASSUME NEW q \in Requests,
             \/ call' = [call EXCEPT ![q].at = "mcp"]
             \/ call' = [call EXCEPT ![q].at = "mcp", ![q].waited = 0]
             \/ call' = [call EXCEPT ![q].at = "correlation", ![q].waited = 0,
                                     ![q].reply = job[q].result]
      PROVE  call[r].at \in {"queued", "stt"}
  <2>1. CASE q = r
    BY <1>3, <2>1 DEF Shape, CallRecord
  <2>2. CASE q # r
    BY <1>3, <2>2 DEF Shape, CallRecord
  <2> QED
    BY <2>1, <2>2
<1>4. ASSUME NEW lost, call' = Lost(lost)
      PROVE  call[r].at \in {"queued", "stt"}
  BY <1>4, <1>o, <1>e DEF Lost, Ended
<1>5. ASSUME Tick PROVE call[r].at \in {"queued", "stt"}
  <2>1. call'[r] = call[r] \/ call'[r] = [call[r] EXCEPT !.waited = @ + 1]
    BY <1>5 DEF Tick
  <2>2. call[r] \in CallRecord
    BY DEF Shape
  <2> QED
    BY <2>1, <2>2 DEF CallRecord
<1>6. ASSUME NEW q \in Requests, ServeAudio(q) PROVE call[r].at \in {"queued", "stt"}
  <2>1. q # r
    BY <1>6
  <2> QED
    BY <1>6, <2>1 DEF ServeAudio, Shape
<1>7. ASSUME NEW q \in Requests, Serve(q) \/ Transcribed(q) \/ NotTranscribed(q)
      PROVE  call[r].at \in {"queued", "stt"}
  <2>1. CASE ServeText(q) \/ Transcribed(q)
    BY <2>1, <1>1, <1>3 DEF ServeText, Transcribed
  <2>2. CASE ServeAudio(q)
    BY <2>2, <1>6
  <2>3. CASE JobEnds(q)
    BY <2>3, <1>1, <1>3 DEF JobEnds
  <2>4. CASE Excepted(q) \/ NotTranscribed(q) \/ TimeOut(q) \/ Answered(q) \/ NotStored(q)
    BY <2>4, <1>1, <1>2, ExceptedStep DEF NotTranscribed, TimeOut, Answered, NotStored, Ended
  <2>5. CASE Answering(q)
    BY <2>5, <1>1, AnsweringShape
  <2> QED
    BY <1>7, <2>1, <2>2, <2>3, <2>4, <2>5 DEF Serve, JobStep, Answering, Excepted
<1>8. CASE (\E a \in Apis : ApiRestarts(a)) \/ SttRestarts \/ McpRestarts
  BY <1>8, <1>4 DEF ApiRestarts, SttRestarts, McpRestarts
<1>9. CASE Uploads \/ FormIsAnswered \/ UNCHANGED vars
  BY <1>9, <1>1 DEF Uploads, FormIsAnswered, vars, apiVars
<1> QED
  BY <1>5, <1>7, <1>8, <1>9 DEF Next

LEMMA NextSlot == Shape /\ SlotInv /\ [Next]_vars => SlotInv'
<1> SUFFICES ASSUME Shape, SlotInv, [Next]_vars PROVE SlotInv'
  OBVIOUS
<1>n. (\A r \in Requests : ~ServeAudio(r)) =>
        \A r \in Requests : call'[r].at \in {"queued", "stt"} => call[r].at \in {"queued", "stt"}
  BY NoneAnew
<1>a. ASSUME NEW r \in Requests, ServeAudio(r) PROVE SlotInv'
  <2>1. /\ UNCHANGED <<job, waiters>>
        /\ call[r].at = "queued"
        /\ call' = [call EXCEPT ![r].at = "stt"]
    BY <1>a DEF ServeAudio, mcpVars, MayServe
  <2>2. ASSUME NEW q \in Requests, call'[q].at \in {"queued", "stt"}
        PROVE  call[q].at \in {"queued", "stt"}
    BY <2>1, <2>2 DEF Shape, CallRecord
  <2> QED
    BY <2>1, <2>2, SameHolding
<1> SUFFICES ASSUME \A r \in Requests : ~ServeAudio(r) PROVE SlotInv'
  BY <1>a
<1>s. ASSUME UNCHANGED <<job, waiters>> PROVE SlotInv'
  BY <1>s, <1>n, SameHolding
<1>1. ASSUME NEW r \in Requests, Answering(r) PROVE SlotInv'
  <2>1. \A q \in Requests : job[q].at \in {"none", "waiting"} => q # r
    BY <1>1, AnsweringShape DEF Working
  <2> QED
    BY <1>1, <2>1, <1>n, AnsweringShape, SameHolding
<1>2. ASSUME NEW r \in Requests, JobEnds(r) \/ Excepted(r) PROVE SlotInv'
  <2>1. Released(r) /\ job[r].at \in Working
    BY <1>2, ExceptedStep DEF JobEnds, Working
  <2> QED
    BY <2>1, <1>n, ReleasedSlot
<1>3. ASSUME NEW r \in Requests, ServeText(r) PROVE SlotInv'
  <2>1. /\ Accepted(r) /\ call[r].at = "queued"
        /\ call' = [call EXCEPT ![r].at = "mcp"]
    BY <1>3 DEF ServeText, MayServe
  <2>2. call'[r].at = "mcp"
    BY <2>1 DEF Shape, CallRecord
  <2> QED
    BY <2>1, <2>2, <1>n, AcceptedSlot DEF SlotInv
<1>4. ASSUME NEW r \in Requests, Transcribed(r) PROVE SlotInv'
  <2>1. CASE call[r].at = "stt"
    <3>1. /\ Accepted(r)
          /\ call' = [call EXCEPT ![r].at = "mcp", ![r].waited = 0]
      BY <1>4, <2>1 DEF Transcribed
    <3>2. call'[r].at = "mcp"
      BY <3>1 DEF Shape, CallRecord
    <3> QED
      BY <2>1, <3>1, <3>2, <1>n, AcceptedSlot DEF SlotInv
  <2>2. CASE call[r].at # "stt"
    BY <1>4, <2>2, <1>s DEF Transcribed
  <2> QED
    BY <2>1, <2>2
<1>5. ASSUME McpRestarts PROVE SlotInv'
  <2>1. /\ waiters' = << >>
        /\ \A r \in Requests :
              job'[r] = IF job[r].at \in {"waiting"} \cup Working
                        THEN [NoJob EXCEPT !.at = "lost"] ELSE job[r]
    BY <1>5 DEF McpRestarts
  <2>2. [NoJob EXCEPT !.at = "lost"].at = "lost"
    BY DEF NoJob
  <2>3. Holding' = {}
    BY <2>1, <2>2 DEF Holding, Working
  <2>4. WaitersMeanBusy' /\ IsFiniteSet(Holding')
    BY <2>1, <2>3, FS_EmptySet, AnalysisPipelineAssumption DEF WaitersMeanBusy
  <2>5. 1..Len(waiters') = {}
    BY <2>1, EmptySeq
  <2>6. \A r \in Requests : job[r].at = "none" => job'[r].at = "none"
    BY <2>1 DEF Working
  <2> QED
    BY <2>4, <2>5, <2>6, <1>n DEF SlotInv
<1>6. ASSUME Tick PROVE SlotInv'
  <2>1. \A r \in Requests : job'[r].at = job[r].at
    <3> SUFFICES ASSUME NEW r \in Requests PROVE job'[r].at = job[r].at
      OBVIOUS
    <3>1. job[r] \in JobRecord
      BY DEF Shape
    <3>2. job'[r] \in {job[r], [job[r] EXCEPT !.spent = @ + 1]}
      BY <1>6 DEF Tick
    <3> QED
      BY <3>1, <3>2 DEF JobRecord
  <2> QED
    BY <1>6, <2>1, <1>n, SameHolding DEF Tick
<1>7. ASSUME NEW r \in Requests,
             NotTranscribed(r) \/ TimeOut(r) \/ Answered(r) \/ NotStored(r)
      PROVE  SlotInv'
  BY <1>7, <1>s DEF NotTranscribed, TimeOut, Answered, NotStored, mcpVars
<1>8. CASE (\E a \in Apis : ApiRestarts(a)) \/ SttRestarts
  BY <1>8, <1>s DEF ApiRestarts, SttRestarts, mcpVars
<1>9. CASE Uploads \/ FormIsAnswered \/ UNCHANGED vars
  BY <1>9, <1>s DEF Uploads, FormIsAnswered, vars, mcpVars
<1> QED
  BY <1>1, <1>2, <1>3, <1>4, <1>5, <1>6, <1>7, <1>8, <1>9
  DEF Next, Serve, JobStep, Answering, Excepted

LEMMA InitSlot == Init => SlotInv
<1> SUFFICES ASSUME Init PROVE SlotInv
  OBVIOUS
<1>1. Holding = {} /\ waiters = << >>
  BY DEF Init, Holding, NoJob, Working
<1>2. WaitersMeanBusy /\ IsFiniteSet(Holding)
  BY <1>1, FS_EmptySet, AnalysisPipelineAssumption DEF WaitersMeanBusy
<1>3. 1..Len(waiters) = {}
  BY <1>1, EmptySeq
<1> QED
  BY <1>2, <1>3 DEF SlotInv, Init, NoJob

\* At most Slots jobs are in the thread pool of mcp-server, and nobody waits
\* for a slot while one is free, whatever times out, fails or restarts
\* (asyncio.Semaphore of rest_server.py).
THEOREM SlotsHold == Spec => []WaitersMeanBusy
<1>1. SlotInv => WaitersMeanBusy
  BY DEF SlotInv
<1> QED
  BY <1>1, InitSlot, NextSlot, ShapeHolds, PTL DEF Spec

-----------------------------------------------------------------------------
(***************************************************************************)
(* Where a verdict comes from                                              *)
(***************************************************************************)

\* Only the model keeps a job before its judgement, and from there on the job
\* carries a whole verdict to the api.
JobVerdict(r) ==
    /\ job[r].at \in {"llm", "gpu"} => backend = "llm"
    /\ job[r].at = "gpu" => job[r].answer \in Answers
    /\ job[r].at \in {"search", "urls"} => job[r].result \in Verdicts(r)

CallVerdict(r) ==
    /\ call[r].at = "correlation" => call[r].reply \in Verdicts(r)
    /\ call[r].at = "failed" => faults > 0 \/ AsksOthers(r)

VerdictInv == \A r \in Requests : JobVerdict(r) /\ CallVerdict(r)

\* What enters the pool without the model has the verdict of the rules.
LEMMA EnteredVerdict ==
    ASSUME NEW r \in Requests, job'[r] = Entered(r), backend' = backend
    PROVE  JobVerdict(r)'
<1>1. Entered(r).at = "llm" => backend = "llm"
  BY DEF Entered, NoJob
<1> QED
  BY <1>1, EnteredShape DEF JobVerdict, Verdicts

LEMMA QuietVerdict ==
    ASSUME NEW r \in Requests, job'[r].at \in {"none", "waiting", "done", "lost"}
    PROVE  JobVerdict(r)'
BY DEF JobVerdict

LEMMA AcceptedVerdict ==
    ASSUME Shape, NEW r \in Requests, Accepted(r), backend' = backend,
           \A q \in Requests : JobVerdict(q)
    PROVE  \A q \in Requests : JobVerdict(q)'
<1>1. \A q \in Requests \ {r} : job'[q] = job[q]
  BY AcceptedShape
<1>2. \A q \in Requests \ {r} : JobVerdict(q)'
  BY <1>1 DEF JobVerdict, Verdicts
<1>3. JobVerdict(r)'
  <2>1. CASE waiters = << >> /\ Cardinality(Holding) < Slots
    BY <2>1, EnteredVerdict DEF Accepted, Shape
  <2>2. CASE ~(waiters = << >> /\ Cardinality(Holding) < Slots)
    <3>1. job' = [job EXCEPT ![r].at = "waiting"]
      BY <2>2 DEF Accepted
    <3>2. job'[r].at = "waiting"
      BY <3>1 DEF Shape, JobRecord
    <3> QED
      BY <3>2, QuietVerdict
  <2> QED
    BY <2>1, <2>2
<1> QED
  BY <1>2, <1>3

LEMMA ReleasedVerdict ==
    ASSUME Shape, NEW r \in Requests, Released(r), backend' = backend,
           \A q \in Requests : JobVerdict(q)
    PROVE  \A q \in Requests : JobVerdict(q)'
<1> SUFFICES ASSUME NEW q \in Requests PROVE JobVerdict(q)'
  OBVIOUS
<1>1. job'[q] \in {job[q], Gone, Entered(q)}
  <2>1. CASE waiters = << >>
    BY <2>1 DEF Released, Shape
  <2>2. CASE waiters # << >>
    <3>1. /\ job' = [job EXCEPT ![r] = Gone, ![Head(waiters)] = Entered(Head(waiters))]
          /\ Head(waiters) \in Requests
      BY <2>2, HeadTailProperties DEF Released, Shape
    <3> QED
      BY <3>1 DEF Shape
  <2> QED
    BY <2>1, <2>2
<1>2. CASE job'[q] = job[q]
  BY <1>2 DEF JobVerdict, Verdicts
<1>3. CASE job'[q] = Gone
  BY <1>3, NoneOrGone, QuietVerdict
<1>4. CASE job'[q] = Entered(q)
  BY <1>4, EnteredVerdict
<1> QED
  BY <1>1, <1>2, <1>3, <1>4

LEMMA AnsweringVerdict ==
    ASSUME Shape, NEW r \in Requests, Answering(r),
           \A q \in Requests : JobVerdict(q)
    PROVE  \A q \in Requests : JobVerdict(q)'
<1>b. backend' = backend
  BY DEF Answering, LlmAnswers, LlmFails, GpuRead, GpuGarbled, Searched
<1>1. \A q \in Requests \ {r} : JobVerdict(q)'
  BY <1>b, AnsweringShape DEF JobVerdict, Verdicts
<1>r. job[r] \in JobRecord
  BY DEF Shape
<1>2. CASE LlmAnswers(r)
  <2>1. PICK answer \in Answers :
          job' = [job EXCEPT ![r] = [job[r] EXCEPT !.at = "gpu", !.spent = 0, !.answer = answer]]
    BY <1>2 DEF LlmAnswers, GoesOn
  <2>2. job'[r].at = "gpu" /\ job'[r].answer = answer
    BY <2>1, <1>r DEF Shape, JobRecord
  <2>3. backend = "llm"
    BY <1>2 DEF LlmAnswers, JobVerdict
  <2> QED
    BY <2>2, <2>3, <1>1, <1>b DEF JobVerdict
<1>3. CASE LlmFails(r)
  <2>1. job'[r].at = "search" /\ job'[r].result = RuleVerdict[r]
    BY <1>3, <1>r DEF LlmFails, GoesOn, Shape, JobRecord
  <2> QED
    BY <2>1, <1>1 DEF JobVerdict, Verdicts
<1>4. CASE GpuRead(r)
  <2>1. Judged(r) \in Verdicts(r)
    BY <1>4 DEF Judged, GpuRead, JobVerdict, Verdicts
  <2>2. job'[r].at = "search" /\ job'[r].result = Judged(r)
    BY <1>4, <1>r DEF GpuRead, GoesOn, Shape, JobRecord
  <2> QED
    BY <2>1, <2>2, <1>1, <1>b DEF JobVerdict, Verdicts
<1>5. CASE Searched(r)
  <2>1. job'[r].at = "urls" /\ job'[r].result = job[r].result /\ job[r].at = "search"
    BY <1>5, <1>r DEF Searched, GoesOn, Shape, JobRecord
  <2> QED
    BY <2>1, <1>1, <1>b DEF JobVerdict, Verdicts
<1>6. CASE GpuGarbled(r)
  <2>1. job'[r].at = "search" /\ job'[r].result = RuleVerdict[r]
    BY <1>6, <1>r DEF GpuGarbled, GoesOn, Shape, JobRecord
  <2> QED
    BY <2>1, <1>1 DEF JobVerdict, Verdicts
<1> QED
  BY <1>2, <1>3, <1>4, <1>5, <1>6 DEF Answering

LEMMA SameBackend == [Next]_vars => backend' = backend
<1> SUFFICES ASSUME [Next]_vars PROVE backend' = backend
  OBVIOUS
<1>1. ASSUME NEW r \in Requests, JobStep(r) PROVE backend' = backend
  BY <1>1, ExceptedStep
  DEF JobStep, Excepted, LlmAnswers, LlmFails, GpuRead, GpuGarbled, Searched, JobEnds
<1>2. ASSUME NEW r \in Requests,
             \/ ServeText(r) \/ ServeAudio(r) \/ TimeOut(r) \/ Answered(r) \/ NotStored(r)
             \/ Transcribed(r) \/ NotTranscribed(r)
      PROVE  backend' = backend
  BY <1>2 DEF ServeText, ServeAudio, TimeOut, Answered, NotStored, Transcribed, NotTranscribed,
              mcpVars
<1>3. CASE (\E a \in Apis : ApiRestarts(a)) \/ SttRestarts \/ McpRestarts \/ Tick
  BY <1>3 DEF ApiRestarts, SttRestarts, McpRestarts, Tick, mcpVars
<1>4. CASE Uploads \/ FormIsAnswered \/ UNCHANGED vars
  BY <1>4 DEF Uploads, FormIsAnswered, vars, mcpVars
<1> QED
  BY <1>1, <1>2, <1>3, <1>4 DEF Next, Serve

\* The jobs, over all steps.
LEMMA NextJobVerdict ==
    Shape /\ VerdictInv /\ [Next]_vars => \A q \in Requests : JobVerdict(q)'
<1> SUFFICES ASSUME Shape, VerdictInv, [Next]_vars PROVE \A q \in Requests : JobVerdict(q)'
  OBVIOUS
<1>v. \A q \in Requests : JobVerdict(q)
  BY DEF VerdictInv
<1>b. backend' = backend
  BY SameBackend
<1>s. ASSUME UNCHANGED job PROVE \A q \in Requests : JobVerdict(q)'
  BY <1>s, <1>v, <1>b DEF JobVerdict, Verdicts
<1>1. ASSUME NEW r \in Requests, Answering(r) PROVE \A q \in Requests : JobVerdict(q)'
  BY <1>1, <1>v, AnsweringVerdict
<1>2. ASSUME NEW r \in Requests, JobEnds(r) \/ Excepted(r)
      PROVE  \A q \in Requests : JobVerdict(q)'
  BY <1>2, <1>v, <1>b, ReleasedVerdict, ExceptedStep DEF JobEnds
<1>3. ASSUME NEW r \in Requests, ServeText(r) \/ Transcribed(r)
      PROVE  \A q \in Requests : JobVerdict(q)'
  <2>1. Accepted(r) \/ UNCHANGED job
    BY <1>3 DEF ServeText, Transcribed
  <2> QED
    BY <2>1, <1>s, <1>v, <1>b, AcceptedVerdict
<1>4. ASSUME McpRestarts PROVE \A q \in Requests : JobVerdict(q)'
  <2> SUFFICES ASSUME NEW q \in Requests PROVE JobVerdict(q)'
    OBVIOUS
  <2>1. job'[q] = job[q] \/ job'[q].at = "lost"
    BY <1>4 DEF McpRestarts, NoJob
  <2>2. CASE job'[q] = job[q]
    BY <2>2, <1>v, <1>b DEF JobVerdict, Verdicts
  <2>3. CASE job'[q].at = "lost"
    BY <2>3, QuietVerdict
  <2> QED
    BY <2>1, <2>2, <2>3
<1>5. ASSUME Tick PROVE \A q \in Requests : JobVerdict(q)'
  <2> SUFFICES ASSUME NEW q \in Requests PROVE JobVerdict(q)'
    OBVIOUS
  <2>1. job'[q] \in {job[q], [job[q] EXCEPT !.spent = @ + 1]} /\ job[q] \in JobRecord
    BY <1>5 DEF Tick, Shape
  <2>2. job'[q].at = job[q].at /\ job'[q].answer = job[q].answer /\ job'[q].result = job[q].result
    BY <2>1 DEF JobRecord
  <2> QED
    BY <2>2, <1>v, <1>b DEF JobVerdict, Verdicts
<1>6. ASSUME NEW r \in Requests,
             ServeAudio(r) \/ NotTranscribed(r) \/ TimeOut(r) \/ Answered(r) \/ NotStored(r)
      PROVE  \A q \in Requests : JobVerdict(q)'
  BY <1>6, <1>s DEF ServeAudio, NotTranscribed, TimeOut, Answered, NotStored, mcpVars
<1>7. CASE (\E a \in Apis : ApiRestarts(a)) \/ SttRestarts
  BY <1>7, <1>s DEF ApiRestarts, SttRestarts, mcpVars
<1>8. CASE Uploads \/ FormIsAnswered \/ UNCHANGED vars
  BY <1>8, <1>s DEF Uploads, FormIsAnswered, vars, mcpVars
<1> QED
  BY <1>1, <1>2, <1>3, <1>4, <1>5, <1>6, <1>7, <1>8 DEF Next, Serve, JobStep, Answering, Excepted

\* What a step may make of the request r.
CallKept(r) ==
    \/ call'[r].at = call[r].at /\ call'[r].reply = call[r].reply /\ faults' >= faults
    \/ call'[r].at \in CallStages \ {"correlation", "failed"}
    \/ call'[r].at = "failed" /\ (faults' > 0 \/ AsksOthers(r))
    \/ call'[r].at = "correlation" /\ call'[r].reply = job[r].result /\ job[r].at = "urls"

\* Without the model the result of a job is that of the rules, so what it asks
\* of others is known from its text.
LEMMA RaisesFor ==
    ASSUME Shape, VerdictInv, NEW r \in Requests, JobRaises(r)
    PROVE  AsksOthers(r)
<1>1. CASE job[r].at \in {"llm", "gpu"}
  BY <1>1 DEF VerdictInv, JobVerdict, AsksOthers
<1>2. CASE job[r].at = "search" /\ HasRiskIndicators(job[r].result)
  BY <1>2 DEF VerdictInv, JobVerdict, Verdicts, AsksOthers
<1>3. CASE job[r].at = "urls" /\ TextOf[r].url
  BY <1>3 DEF AsksOthers
<1> QED
  BY <1>1, <1>2, <1>3 DEF JobRaises

LEMMA NextCall == Shape /\ VerdictInv /\ [Next]_vars => \A r \in Requests : CallKept(r)
<1> SUFFICES ASSUME Shape, VerdictInv, [Next]_vars, NEW r \in Requests PROVE CallKept(r)
  OBVIOUS
<1>o. \A how \in Ended : Over(how).at = how
  BY OverShape
<1>d. Ended \ {"failed"} \subseteq CallStages \ {"correlation", "failed"}
  BY DEF Ended, CallStages
<1>f. Fault => faults' >= faults /\ faults' > 0
  BY DEF Fault, Shape
<1>g. faults >= faults
  BY DEF Shape
<1>r. call[r] \in CallRecord
  BY DEF Shape
<1>s. ASSUME call' = call, faults' = faults PROVE CallKept(r)
  BY <1>s, <1>g DEF CallKept
<1>e. ASSUME NEW q \in Requests, NEW how \in Ended, call' = [call EXCEPT ![q] = Over(how)],
             (faults' = faults /\ how # "failed") \/ Fault
                \/ (faults' = faults /\ AsksOthers(q))
      PROVE  CallKept(r)
  <2>1. CASE q # r
    BY <1>e, <1>f, <1>g, <2>1 DEF CallKept, Shape
  <2>2. CASE q = r
    <3>1. call'[r].at = how
      BY <1>e, <1>o, <2>2 DEF Shape
    <3> QED
      BY <3>1, <1>e, <1>d, <1>f, <2>2 DEF CallKept
  <2> QED
    BY <2>1, <2>2
<1>1. ASSUME NEW q \in Requests, Answering(q) PROVE CallKept(r)
  BY <1>1, <1>s, AnsweringShape
<1>2. ASSUME NEW q \in Requests, JobEnds(q) PROVE CallKept(r)
  <2>1. CASE call' = call \/ q # r
    BY <1>2, <2>1, <1>g DEF JobEnds, CallKept, Shape
  <2>2. CASE call' # call /\ q = r
    <3>1. /\ call' = [call EXCEPT ![r].at = "correlation", ![r].waited = 0,
                                  ![r].reply = job[r].result]
          /\ job[r].at = "urls"
      BY <1>2, <2>2 DEF JobEnds
    <3> QED
      BY <3>1, <1>r DEF CallKept, Shape, CallRecord
  <2> QED
    BY <2>1, <2>2
<1>3. ASSUME NEW q \in Requests, Excepted(q) PROVE CallKept(r)
  <2>1. CASE call' = call
    BY <1>3, <2>1, <1>f, <1>g, ExceptedStep DEF CallKept
  <2>2. CASE call' = [call EXCEPT ![q] = Over("failed")]
    <3>1. Fault \/ (faults' = faults /\ AsksOthers(q))
      BY <1>3, RaisesFor DEF Excepted, JobFails, JobRaises
    <3> QED
      BY <3>1, <2>2, <1>e DEF Ended
  <2> QED
    BY <1>3, <2>1, <2>2, ExceptedStep
<1>m. ASSUME NEW q \in Requests, NEW at \in {"mcp", "stt"}, faults' = faults,
             \/ call' = [call EXCEPT ![q].at = at]
             \/ call' = [call EXCEPT ![q].at = at, ![q].waited = 0]
      PROVE  CallKept(r)
  <2>1. CASE q # r
    BY <1>m, <2>1, <1>g DEF CallKept, Shape
  <2>2. CASE q = r
    <3>1. call'[r].at = at
      BY <1>m, <2>2, <1>r DEF Shape, CallRecord
    <3> QED
      BY <3>1, <1>m DEF CallKept, CallStages, Blocking
  <2> QED
    BY <2>1, <2>2
<1>4. ASSUME NEW q \in Requests, ServeText(q) PROVE CallKept(r)
  BY <1>4, <1>m DEF ServeText
<1>5. ASSUME NEW q \in Requests, ServeAudio(q) PROVE CallKept(r)
  BY <1>5, <1>m DEF ServeAudio
<1>6. ASSUME NEW q \in Requests, Transcribed(q) PROVE CallKept(r)
  <2>1. /\ call' \in {call, [call EXCEPT ![q].at = "mcp", ![q].waited = 0]}
        /\ faults' = faults
    BY <1>6 DEF Transcribed
  <2> QED
    BY <2>1, <1>m, <1>s
<1>7. ASSUME NEW q \in Requests, NotTranscribed(q) PROVE CallKept(r)
  <2>1. call' \in {call, [call EXCEPT ![q] = Over("unreadable")]} /\ faults' = faults
    BY <1>7 DEF NotTranscribed
  <2> QED
    BY <2>1, <1>e, <1>s DEF Ended
<1>8. ASSUME NEW q \in Requests, TimeOut(q) PROVE CallKept(r)
  BY <1>8, <1>e DEF TimeOut, Ended
<1>9. ASSUME NEW q \in Requests, Answered(q) PROVE CallKept(r)
  BY <1>9, <1>e DEF Answered, Ended
<1>10. ASSUME NEW q \in Requests, NotStored(q) PROVE CallKept(r)
  BY <1>10, <1>e DEF NotStored, Ended
<1>11. ASSUME NEW lost, call' = Lost(lost), Fault PROVE CallKept(r)
  <2>1. call'[r] = call[r] \/ call'[r].at = "failed"
    BY <1>11, <1>o DEF Lost, Ended
  <2> QED
    BY <2>1, <1>11, <1>f DEF CallKept
<1>12. CASE (\E a \in Apis : ApiRestarts(a)) \/ SttRestarts \/ McpRestarts
  BY <1>12, <1>11 DEF ApiRestarts, SttRestarts, McpRestarts
<1>13. ASSUME Tick PROVE CallKept(r)
  <2>1. call'[r] \in {call[r], [call[r] EXCEPT !.waited = @ + 1]} /\ faults' = faults
    BY <1>13 DEF Tick
  <2>2. call'[r].at = call[r].at /\ call'[r].reply = call[r].reply
    BY <2>1, <1>r DEF CallRecord
  <2> QED
    BY <2>1, <2>2, <1>g DEF CallKept
<1>14. CASE Uploads \/ FormIsAnswered \/ UNCHANGED vars
  BY <1>14, <1>s DEF Uploads, FormIsAnswered, vars, apiVars
<1> QED
  BY <1>1, <1>2, <1>3, <1>4, <1>5, <1>6, <1>7, <1>8, <1>9, <1>10, <1>12, <1>13, <1>14
  DEF Next, Serve, JobStep, Answering, Excepted

LEMMA NextVerdict == Shape /\ VerdictInv /\ [Next]_vars => VerdictInv'
<1> SUFFICES ASSUME Shape, VerdictInv, [Next]_vars, NEW r \in Requests
             PROVE  JobVerdict(r)' /\ CallVerdict(r)'
  BY DEF VerdictInv
<1>1. JobVerdict(r)'
  BY NextJobVerdict
<1>2. faults \in Nat /\ faults' \in Nat
  BY NextShape DEF Shape
<1>3. CallKept(r) /\ JobVerdict(r) /\ CallVerdict(r)
  BY NextCall DEF VerdictInv
<1>4. call'[r].at = "correlation" => call'[r].reply \in Verdicts(r)
  BY <1>3 DEF CallKept, CallVerdict, JobVerdict
<1>5. call'[r].at = "failed" => faults' > 0 \/ AsksOthers(r)
  BY <1>2, <1>3 DEF CallKept, CallVerdict
<1> QED
  BY <1>1, <1>4, <1>5, SameBackend DEF CallVerdict, Verdicts, AsksOthers

\* Every verdict is wholly that of the rules or wholly that of a usable answer
\* of the model, and without a fault no analysis fails that needs no other
\* service (analyze and _to_domain of ollama_call_analysis_adapter.py, execute
\* of CallAnalysisService).
THEOREM VerdictsHold == Spec => []VerdictIsWhole
<1>1. Init => VerdictInv
  BY DEF Init, VerdictInv, JobVerdict, CallVerdict, NoJob, NoCall
<1>2. Shape /\ VerdictInv => VerdictIsWhole
  BY DEF Shape, VerdictInv, CallVerdict, VerdictIsWhole
<1> QED
  BY <1>1, <1>2, NextVerdict, ShapeHolds, PTL DEF Spec

-----------------------------------------------------------------------------
(***************************************************************************)
(* The form of the deepvoice check                                         *)
(***************************************************************************)

\* A verdict is only shown when no check is under way, and it is one of the
\* file that was sent; the file beside it is that one, unless it was replaced.
FormInv ==
    /\ form \in FormType
    /\ form.loading => form.sent \in Recordings /\ form.verdict = NoVerdict
    /\ form.loading /\ ~form.replaced => form.file = form.sent
    /\ form.verdict # NoVerdict =>
        /\ form.sent \in Recordings
        /\ form.verdict \in Detected(form.sent)
        /\ ~form.replaced => form.file = form.sent

\* Both detectors refuse the same files with the same status, and no other.
LEMMA StatusOfVerdicts ==
    ASSUME NEW recording \in Recording, NEW loaded \in BOOLEAN
    PROVE  /\ WithClassifier(loaded, recording).status = Heuristic(recording).status
           /\ Heuristic(recording).status = "ok" <=> recording.wav = "pcm16"
<1>1. /\ recording.wav \in {"pcm16", "other", "cut"}
      /\ recording.voiced \in {"empty", "no_frame", "few", "enough"}
  BY DEF Recording
<1>2. CASE recording.wav # "pcm16"
  <2>1. Heuristic(recording) = Rejected(ReadError(recording))
    BY <1>2 DEF Heuristic
  <2>2. Heuristic(recording).status \in {"unsupported", "crash"}
    BY <2>1 DEF Rejected, ReadError
  <2>3. WithClassifier(loaded, recording) = Heuristic(recording)
    BY <1>2 DEF WithClassifier
  <2> QED
    BY <1>2, <2>2, <2>3
<1>3. CASE recording.wav = "pcm16"
  <2>1. Heuristic(recording).status = "ok"
    <3>1. CASE recording.voiced \in {"empty", "no_frame"}
      BY <1>3, <3>1 DEF Heuristic, Undecided
    <3>2. CASE recording.voiced = "few"
      BY <1>3, <3>2 DEF Heuristic, Undecided
    <3>3. CASE recording.voiced = "enough"
      BY <1>3, <3>3 DEF Heuristic
    <3> QED
      BY <1>1, <3>1, <3>2, <3>3
  <2>2. WithClassifier(loaded, recording).status = "ok"
    <3>1. CASE ~loaded
      BY <1>3, <2>1, <3>1 DEF WithClassifier
    <3>2. CASE loaded /\ recording.voiced = "empty"
      BY <1>3, <3>2 DEF WithClassifier, Undecided
    <3>3. CASE loaded /\ recording.voiced # "empty"
      <4>1. WithClassifier(loaded, recording)
                \in {Heuristic(recording), Classified(recording)}
        BY <1>3, <3>3 DEF WithClassifier
      <4> QED
        BY <4>1, <2>1 DEF Classified
    <3> QED
      BY <3>1, <3>2, <3>3
  <2> QED
    BY <1>3, <2>1, <2>2
<1> QED
  BY <1>2, <1>3

\* What a detector answers is a verdict.
LEMMA HeuristicType ==
    ASSUME NEW recording \in Recording
    PROVE  Heuristic(recording) \in Verdict
<1>1. /\ recording.wav \in {"pcm16", "other", "cut"}
      /\ recording.voiced \in {"empty", "no_frame", "few", "enough"}
      /\ recording.triggered \in SUBSET Indicators
  BY DEF Recording
<1>2. CASE recording.wav # "pcm16"
  BY <1>2 DEF Heuristic, Rejected, ReadError, Verdict
<1>3. CASE recording.wav = "pcm16" /\ recording.voiced \in {"empty", "no_frame"}
  BY <1>3 DEF Heuristic, Undecided, Verdict
<1>4. CASE recording.wav = "pcm16" /\ recording.voiced = "few"
  BY <1>1, <1>4 DEF Heuristic, Undecided, Verdict
<1>5. CASE recording.wav = "pcm16" /\ recording.voiced = "enough"
  BY <1>1, <1>5 DEF Heuristic, Verdict
<1> QED
  BY <1>1, <1>2, <1>3, <1>4, <1>5

LEMMA DetectedType ==
    ASSUME NEW recording \in Recording, NEW verdict \in Detected(recording)
    PROVE  verdict \in Verdict
<1>1. PICK loaded \in BOOLEAN : verdict = WithClassifier(loaded, recording)
  BY DEF Detected
<1>2. Classified(recording) \in Verdict
  BY HeuristicType DEF Classified, Verdict
<1>3. Undecided({}, {}) \in Verdict
  BY DEF Undecided, Verdict
<1>4. recording.wav \in {"pcm16", "other", "cut"}
  BY DEF Recording
<1>5. verdict \in {Heuristic(recording), Undecided({}, {}), Classified(recording)}
  BY <1>1, <1>4 DEF WithClassifier
<1> QED
  BY <1>2, <1>3, <1>5, HeuristicType

LEMMA VerdictIsNotNone ==
    ASSUME NEW verdict \in Verdict PROVE verdict # NoVerdict
BY DEF Verdict, NoVerdict

LEMMA InitForm == Init => FormInv
<1>1. (CHOOSE a \in FormApis : TRUE) \in FormApis
  BY DeepvoiceAssumption
<1> QED
  BY <1>1, DeepvoiceAssumption DEF Init, FormInit, FormInv, FormType

LEMMA NextForm == FormInv /\ [Next]_vars => FormInv'
<1> SUFFICES ASSUME FormInv, [Next]_vars PROVE FormInv'
  OBVIOUS
<1>t. form \in FormType
  BY DEF FormInv
<1>1. ASSUME ChooseFile PROVE FormInv'
  <2>1. PICK file \in Recordings : form' = WithFile(file)
    BY <1>1 DEF ChooseFile
  <2>2. form' \in FormType
    <3>1. form.choices \in 0..MaxChoices /\ form.choices < MaxChoices
      BY <1>1, <1>t DEF ChooseFile, FormType
    <3>2. form.choices + 1 \in 0..MaxChoices
      BY <3>1, DeepvoiceAssumption
    <3>3. form' = [form EXCEPT !.file = file, !.choices = form.choices + 1,
                               !.replaced = form.loading, !.verdict = NoVerdict]
      BY <2>1 DEF WithFile
    <3>4. form.loading \in BOOLEAN /\ file \in Recordings \cup {NoFile}
      BY <1>t DEF FormType
    <3> QED
      BY <1>t, <3>2, <3>3, <3>4 DEF FormType
  <2>3. /\ form'.verdict = NoVerdict /\ form'.loading = form.loading
        /\ form'.replaced = form.loading /\ form'.sent = form.sent
    BY <1>t, <2>1 DEF WithFile, FormType
  <2> QED
    BY <2>2, <2>3 DEF FormInv
<1>2. ASSUME Check PROVE FormInv'
  <2>1. PICK a \in FormApis :
          form' = [form EXCEPT !.loading = TRUE, !.verdict = NoVerdict, !.sent = form.file,
                               !.to = a, !.replaced = FALSE]
    BY <1>2 DEF Check
  <2>2. form' \in FormType
    BY <1>t, <2>1 DEF FormType
  <2>3. /\ form'.verdict = NoVerdict /\ form'.sent = form.file /\ form'.file = form.file
        /\ form.file \in Recordings
    BY <1>2, <1>t, <2>1 DEF Check, FormType
  <2> QED
    BY <2>2, <2>3 DEF FormInv
<1>3. ASSUME Checked(Free) PROVE FormInv'
  <2>1. form.loading
    BY <1>3 DEF Checked
  <2>2. form.sent \in Recordings /\ form.sent \in Recording
    BY <2>1, DeepvoiceAssumption DEF FormInv
  <2>3. PICK verdict \in Detected(form.sent) :
          form' = [form EXCEPT !.loading = FALSE, !.verdict = verdict]
    BY <1>3 DEF Checked
  <2>4. verdict \in Verdict
    BY <2>2, DetectedType
  <2>5. form' \in FormType
    BY <1>t, <2>3, <2>4 DEF FormType
  <2>6. /\ form'.verdict = verdict /\ form'.sent = form.sent /\ form'.file = form.file
        /\ form'.loading = FALSE /\ form'.replaced = form.replaced
    BY <1>t, <2>3 DEF FormType
  <2> QED
    BY <2>1, <2>2, <2>5, <2>6 DEF FormInv
<1>4. ASSUME NEW a \in Apis, ApiRestarts(a) PROVE FormInv'
  <2>2. form' = form \/ (form.loading /\ form' = [form EXCEPT !.loading = FALSE])
    BY <1>4 DEF ApiRestarts
  <2>3. CASE form' = form
    BY <2>3 DEF FormInv
  <2>4. CASE form.loading /\ form' = [form EXCEPT !.loading = FALSE]
    <3>1. form' \in FormType
      BY <1>t, <2>4 DEF FormType
    <3>2. form'.loading = FALSE /\ form'.verdict = NoVerdict
      BY <1>t, <2>4 DEF FormType, FormInv
    <3> QED
      BY <3>1, <3>2 DEF FormInv
  <2> QED
    BY <2>2, <2>3, <2>4
<1>5. ASSUME form' = form PROVE FormInv'
  BY <1>5 DEF FormInv
<1>6. ASSUME NEW r \in Requests, Serve(r) \/ Transcribed(r) \/ NotTranscribed(r)
      PROVE  form' = form
  BY <1>6 DEF Serve, JobStep, Transcribed, NotTranscribed, ServeText, ServeAudio, LlmAnswers,
              LlmFails, GpuRead, GpuGarbled, Searched, JobEnds, JobRaises, JobFails, Raised,
              TimeOut, Answered, NotStored
<1>7. ASSUME SttRestarts \/ McpRestarts \/ Tick \/ UNCHANGED vars PROVE form' = form
  BY <1>7 DEF SttRestarts, McpRestarts, Tick, vars
<1> QED
  BY <1>1, <1>2, <1>3, <1>4, <1>5, <1>6, <1>7 DEF Next, Uploads, FormIsAnswered

\* The verdict beside the name of a file is a verdict of that file unless the
\* file was replaced meanwhile, and v2 refuses the files that v1 refuses
\* (DeepvoiceCheckForm, and analyze of wav2vec2_deepvoice_adapter.py).
THEOREM FormHolds == Spec => []VerdictIsOfItsFile
<1>1. FormInv => VerdictIsOfItsFile
  <2> SUFFICES ASSUME FormInv, form.verdict # NoVerdict
               PROVE  /\ ~form.replaced => form.verdict \in Detected(form.file)
                      /\ form.verdict.status = Heuristic(form.sent).status
                      /\ form.verdict.status = "ok" <=> form.sent.wav = "pcm16"
    BY DEF VerdictIsOfItsFile
  <2>1. /\ form.sent \in Recording /\ form.verdict \in Detected(form.sent)
        /\ ~form.replaced => form.file = form.sent
    BY DeepvoiceAssumption DEF FormInv
  <2>2. PICK loaded \in BOOLEAN : form.verdict = WithClassifier(loaded, form.sent)
    BY <2>1 DEF Detected
  <2> QED
    BY <2>1, <2>2, StatusOfVerdicts
<1> QED
  BY <1>1, InitForm, NextForm, PTL DEF Spec

-----------------------------------------------------------------------------
(***************************************************************************)
(* Time.  While nothing has failed and one service at most is slow, nobody *)
(* waits for a slot, because every process of apps/api has one request and *)
(* mcp-server has a slot for each process; so the clock of a call is that  *)
(* of its job, and what the job has spent in earlier stages is bounded by  *)
(* the timeouts of the one service that is slow.                           *)
(***************************************************************************)

\* A process serves one request.
OnePerProcess ==
    \A p, q \in Requests :
        (call[p].at \in Blocking /\ call[q].at \in Blocking /\ ApiOf[p] = ApiOf[q]) => p = q

\* How long apps/api has waited, by the stage of the job.
OnClock(r) ==
    LET waited == call[r].waited
        spent  == job[r].spent
    IN  /\ job[r].at = "llm" =>
              /\ waited = spent /\ spent <= LlmTimeout
              /\ waited > 0 => "ollama" \in slow
        /\ job[r].at = "gpu" =>
              /\ waited <= LlmTimeout + spent /\ spent <= GpuTimeout
              /\ waited > 0 => "ollama" \in slow
        /\ job[r].at = "search" =>
              /\ waited <= LlmTimeout + GpuTimeout /\ spent <= RagTimeout
              /\ waited > 0 => slow \cap {"ollama", "rag"} # {}
              /\ "rag" \in slow => waited <= spent
        /\ job[r].at = "urls" =>
              /\ waited <= LlmTimeout + GpuTimeout /\ spent <= BrowsingTimeout
              /\ waited > 0 => slow # {}
              /\ "browsing" \in slow => waited <= spent

\* A job works exactly while its call waits for it.
InTime(r) ==
    /\ call[r].at # "gave_up_mcp"
    /\ call[r].at = "queued" => call[r].waited = 0
    /\ job[r].at \in Working <=> call[r].at = "mcp"
    /\ job[r].at # "waiting"
    /\ OnClock(r)

OneIsSlow == faults = 0 /\ Cardinality(slow) <= 1

TimeInv ==
    /\ slow \subseteq Services
    /\ OnePerProcess
    /\ OneIsSlow => \A r \in Requests : InTime(r)

\* Several services are never remembered as one.
LEMMA AtMostOneSlow ==
    ASSUME NEW S, S \subseteq Services, Cardinality(S) <= 1, NEW x \in S, NEW y \in S
    PROVE  x = y
<1> SUFFICES ASSUME x # y PROVE FALSE
  OBVIOUS
<1>1. Services = {"ollama"} \cup {"rag"} \cup {"browsing"}
  BY DEF Services
<1>2. IsFiniteSet({"ollama"}) /\ IsFiniteSet({"rag"}) /\ IsFiniteSet({"browsing"})
  BY FS_Singleton
<1>3. IsFiniteSet(Services)
  BY <1>1, <1>2, FS_Union
<1>4. IsFiniteSet(S)
  BY <1>3, FS_Subset
<1>5. IsFiniteSet({x}) /\ Cardinality({x}) = 1
  BY FS_Singleton
<1>6. Cardinality({x} \cup {y}) = 2
  <2>1. y \notin {x}
    OBVIOUS
  <2>2. Cardinality({x} \cup {y}) = Cardinality({x}) + 1
    BY <1>5, <2>1, FS_AddElement
  <2> QED
    BY <1>5, <2>2
<1>7. {x} \cup {y} \subseteq S
  OBVIOUS
<1>8. Cardinality({x} \cup {y}) <= Cardinality(S)
  BY <1>4, <1>7, FS_Subset
<1>9. Cardinality(S) \in Nat
  BY <1>4, FS_CardinalityType
<1> QED
  BY <1>6, <1>8, <1>9

LEMMA ServicesAreSeveral == Cardinality(Services) <= 1 => FALSE
<1>1. "ollama" \in Services /\ "rag" \in Services
  BY DEF Services
<1> QED
  BY <1>1, AtMostOneSlow

\* What ticks in a stage makes its service slow.
LEMMA SlowAfterTick ==
    ASSUME TimeInv, Tick, Cardinality(slow') <= 1
    PROVE  /\ Cardinality(slow) <= 1
           /\ slow' = slow \cup SlowNow
           /\ SlowNow \subseteq Services
           /\ \A r \in Holding :
                 /\ job[r].at \in {"llm", "gpu"} => slow' = {"ollama"}
                 /\ job[r].at = "search" => slow' = {"rag"}
                 /\ job[r].at = "urls" => slow' = {"browsing"}
<1>1. SlowNow \subseteq Services
  BY DEF SlowNow
<1>2. slow' = Remembered(slow \cup SlowNow)
  BY DEF Tick
<1>3. ~(Cardinality(slow \cup SlowNow) > 1)
  BY <1>2, ServicesAreSeveral DEF Remembered
<1>4. slow' = slow \cup SlowNow
  BY <1>2, <1>3 DEF Remembered
<1>5. slow' \subseteq Services
  BY <1>1, <1>4 DEF TimeInv
<1>6. \A x, y \in slow' : x = y
  BY <1>5, AtMostOneSlow
<1>7. IsFiniteSet(slow')
  <2>1. IsFiniteSet({"ollama"}) /\ IsFiniteSet({"rag"}) /\ IsFiniteSet({"browsing"})
    BY FS_Singleton
  <2>2. Services = {"ollama"} \cup {"rag"} \cup {"browsing"}
    BY DEF Services
  <2>3. IsFiniteSet(Services)
    BY <2>1, <2>2, FS_Union
  <2> QED
    BY <1>5, <2>3, FS_Subset
<1>8. Cardinality(slow) <= 1
  <2>1. /\ Cardinality(slow) <= Cardinality(slow')
        /\ Cardinality(slow) \in Nat /\ Cardinality(slow') \in Nat
    BY <1>4, <1>7, FS_Subset, FS_CardinalityType
  <2> QED
    BY <2>1
<1>9. ASSUME NEW r \in Holding
      PROVE  /\ job[r].at \in {"llm", "gpu"} => "ollama" \in SlowNow
             /\ job[r].at = "search" => "rag" \in SlowNow
             /\ job[r].at = "urls" => "browsing" \in SlowNow
  BY DEF SlowNow, Services
<1> QED
  BY <1>1, <1>4, <1>6, <1>8, <1>9

\* Only the process itself takes a request on.
LEMMA BlockingAnew ==
    ASSUME Shape, [Next]_vars, NEW r \in Requests, call'[r].at \in Blocking
    PROVE  \/ call[r].at \in Blocking
           \/ /\ MayServe(r)
              /\ \A q \in Requests \ {r} : call'[q] = call[q]
<1>o. \A how \in Ended : Over(how).at = how
  BY OverShape
<1>e. Ended \cap Blocking = {}
  BY DEF Ended, Blocking
<1>1. CASE call' = call
  BY <1>1
<1>2. ASSUME NEW q \in Requests, NEW how \in Ended, call' = [call EXCEPT ![q] = Over(how)]
      PROVE  call[r].at \in Blocking
  BY <1>2, <1>o, <1>e DEF Shape
<1>3. ASSUME NEW lost, call' = Lost(lost)
      PROVE  call[r].at \in Blocking
  BY <1>3, <1>o, <1>e DEF Lost, Ended
<1>4. ASSUME Tick PROVE call[r].at \in Blocking
  <2>1. call'[r] = call[r] \/ r \in Calling
    BY <1>4 DEF Tick
  <2> QED
    BY <2>1 DEF Calling
<1>5. ASSUME NEW q \in Requests, ServeText(q) \/ ServeAudio(q)
      PROVE  \/ call[r].at \in Blocking
             \/ MayServe(r) /\ \A p \in Requests \ {r} : call'[p] = call[p]
  <2>1. /\ MayServe(q)
        /\ \A p \in Requests \ {q} : call'[p] = call[p]
    BY <1>5 DEF ServeText, ServeAudio, Shape
  <2>2. CASE q = r
    BY <2>1, <2>2
  <2>3. CASE q # r
    BY <2>1, <2>3
  <2> QED
    BY <2>2, <2>3
<1>6. ASSUME NEW q \in Requests, Transcribed(q) PROVE call[r].at \in Blocking
  <2>1. CASE call[q].at # "stt"
    BY <1>6, <2>1 DEF Transcribed
  <2>2. CASE call[q].at = "stt"
    <3>1. \A p \in Requests \ {q} : call'[p] = call[p]
      BY <1>6, <2>2 DEF Transcribed, Shape
    <3> QED
      BY <2>2, <3>1 DEF Blocking
  <2> QED
    BY <2>1, <2>2
<1>7. ASSUME NEW q \in Requests, JobEnds(q) PROVE call[r].at \in Blocking
  <2>1. CASE call[q].at # "mcp"
    BY <1>7, <2>1 DEF JobEnds
  <2>2. CASE call[q].at = "mcp"
    <3>1. \A p \in Requests \ {q} : call'[p] = call[p]
      BY <1>7, <2>2 DEF JobEnds, Shape
    <3> QED
      BY <2>2, <3>1 DEF Blocking
  <2> QED
    BY <2>1, <2>2
<1>8. ASSUME NEW q \in Requests,
             Excepted(q) \/ NotTranscribed(q) \/ TimeOut(q) \/ Answered(q) \/ NotStored(q)
      PROVE  call[r].at \in Blocking
  BY <1>8, <1>1, <1>2, ExceptedStep DEF NotTranscribed, TimeOut, Answered, NotStored, Ended
<1>9. ASSUME NEW q \in Requests, Answering(q) PROVE call[r].at \in Blocking
  BY <1>9, <1>1, AnsweringShape
<1>10. CASE (\E a \in Apis : ApiRestarts(a)) \/ SttRestarts \/ McpRestarts
  BY <1>10, <1>3 DEF ApiRestarts, SttRestarts, McpRestarts
<1>11. CASE Uploads \/ FormIsAnswered \/ UNCHANGED vars
  BY <1>11, <1>1 DEF Uploads, FormIsAnswered, vars, apiVars
<1> QED
  BY <1>4, <1>5, <1>6, <1>7, <1>8, <1>9, <1>10, <1>11 DEF Next, Serve, JobStep, Answering, Excepted

LEMMA NextOnePerProcess == Shape /\ OnePerProcess /\ [Next]_vars => OnePerProcess'
<1> SUFFICES ASSUME Shape, OnePerProcess, [Next]_vars,
                    NEW p \in Requests, NEW q \in Requests, ApiOf[p] = ApiOf[q],
                    call'[p].at \in Blocking, call'[q].at \in Blocking
             PROVE  p = q
  BY DEF OnePerProcess
<1>1. ASSUME NEW x \in Requests, NEW y \in Requests, ApiOf[x] = ApiOf[y],
             MayServe(x), \A z \in Requests \ {x} : call'[z] = call[z], call'[y].at \in Blocking
      PROVE  x = y
  <2>1. Serving(ApiOf[x]) = {}
    BY <1>1 DEF MayServe, Free
  <2>2. call[y].at \notin Blocking
    BY <1>1, <2>1 DEF Serving
  <2> QED
    BY <1>1, <2>2
<1>2. CASE call[p].at \in Blocking /\ call[q].at \in Blocking
  BY <1>2 DEF OnePerProcess
<1>3. CASE call[p].at \notin Blocking
  <2>1. MayServe(p) /\ \A z \in Requests \ {p} : call'[z] = call[z]
    BY <1>3, BlockingAnew
  <2> QED
    BY <2>1, <1>1
<1>4. CASE call[q].at \notin Blocking
  <2>1. MayServe(q) /\ \A z \in Requests \ {q} : call'[z] = call[z]
    BY <1>4, BlockingAnew
  <2> QED
    BY <2>1, <1>1
<1> QED
  BY <1>2, <1>3, <1>4

\* Then there is a slot for the request that a process passes on.
LEMMA SlotForEach ==
    ASSUME Shape, SlotInv, TimeInv, OneIsSlow,
           IsFiniteSet(Apis), Cardinality(Apis) <= Slots,
           NEW r \in Requests, job[r].at = "none",
           ApiOf[r] \in Free \/ call[r].at \in Blocking
    PROVE  Cardinality(Holding) < Slots
<1> DEFINE all == Holding \cup {r}
           process == [q \in all |-> ApiOf[q]]
<1>1. \A q \in Holding : q \in Requests /\ call[q].at \in Blocking /\ q # r
  BY DEF Holding, TimeInv, InTime, Blocking, Working
<1>2. process \in [all -> Apis]
  BY <1>1, AnalysisPipelineAssumption
<1>3. ASSUME NEW p \in all, NEW q \in all, process[p] = process[q] PROVE p = q
  <2>1. ApiOf[p] = ApiOf[q]
    BY <1>3
  <2>2. CASE p \in Holding /\ q \in Holding
    BY <1>1, <2>1, <2>2 DEF TimeInv, OnePerProcess
  <2>3. ASSUME NEW x \in Holding, ApiOf[x] = ApiOf[r] PROVE FALSE
    <3>1. x \in Serving(ApiOf[r])
      BY <1>1, <2>3 DEF Serving
    <3>2. call[r].at \in Blocking
      BY <3>1 DEF Free
    <3> QED
      BY <1>1, <2>3, <3>2 DEF TimeInv, OnePerProcess
  <2> QED
    BY <2>1, <2>2, <2>3
<1>4. process \in Injection(all, Apis)
  BY <1>2, <1>3 DEF Injection, IsInjective
<1> HIDE DEF process
<1>5. Cardinality(all) <= Cardinality(Apis)
  BY <1>4, FS_Injection
<1>6. Cardinality(all) = Cardinality(Holding) + 1
  BY <1>1, FS_AddElement DEF SlotInv
<1>7. Cardinality(Holding) \in Nat /\ Cardinality(Apis) \in Nat /\ Slots \in Nat
  BY FS_CardinalityType, AnalysisPipelineAssumption DEF SlotInv
<1> QED
  BY <1>5, <1>6, <1>7

LEMMA NobodyWaits ==
    ASSUME Shape, SlotInv, TimeInv, OneIsSlow
    PROVE  waiters = << >>
<1>1. ASSUME waiters # << >> PROVE FALSE
  <2>1. Len(waiters) \in Nat /\ Len(waiters) >= 1
    BY <1>1, EmptySeq, LenProperties DEF Shape
  <2>2. waiters[1] \in Requests /\ job[waiters[1]].at = "waiting"
    BY <2>1, ElementOfSeq DEF Shape, SlotInv
  <2> QED
    BY <2>2 DEF TimeInv, InTime
<1> QED
  BY <1>1

\* A request whose call and job stay as they are is in time as before.
LEMMA StillInTime ==
    ASSUME NEW q \in Requests, InTime(q), call'[q] = call[q], job'[q] = job[q], slow' = slow
    PROVE  InTime(q)'
BY DEF InTime, OnClock, Working

\* A call that ends, moves on or waits for stt-worker, without a job that works.
LEMMA WithoutJob ==
    ASSUME NEW q \in Requests,
           job'[q].at \notin Working \cup {"waiting"},
           call'[q].at \notin {"queued", "mcp", "gave_up_mcp"}
    PROVE  InTime(q)'
BY DEF InTime, OnClock, Working

\* A job that has just come in: no time has passed for it or its call.
LEMMA ComesIn ==
    ASSUME Shape, NEW q \in Requests, job'[q] = Entered(q),
           call'[q].at = "mcp", call'[q].waited = 0
    PROVE  InTime(q)'
<1>1. /\ job'[q].at \in {"llm", "search"} /\ job'[q].at \in Working
      /\ job'[q].spent = 0
  BY EnteredShape DEF Entered, NoJob
<1> QED
  BY <1>1 DEF InTime, OnClock, Working, LlmTimeout, GpuTimeout, RagTimeout

\* The next stage begins with what the service before has spent at most.
LEMMA AnsweringInTime ==
    ASSUME Shape, TimeInv, Cardinality(slow) <= 1, NEW r \in Requests, Answering(r), InTime(r)
    PROVE  InTime(r)'
<1>1. /\ UNCHANGED <<call, slow>>
      /\ job[r] \in JobRecord /\ job'[r].at \in Working /\ job[r].at \in Working
      /\ call[r].waited \in Nat
  <2>1. UNCHANGED slow
    BY DEF Answering, LlmAnswers, LlmFails, GpuRead, GpuGarbled, Searched
  <2>2. call[r] \in CallRecord /\ job[r] \in JobRecord
    BY DEF Shape
  <2>3. /\ UNCHANGED call
        /\ job'[r].at \in Working /\ job[r].at \in Working
    BY AnsweringShape
  <2> QED
    BY <2>1, <2>2, <2>3 DEF CallRecord
<1>2. \A x, y \in slow : x = y
  BY AtMostOneSlow DEF TimeInv
<1>3. CASE LlmAnswers(r)
  <2>1. job[r].at = "llm" /\ job'[r].at = "gpu" /\ job'[r].spent = 0
    BY <1>1, <1>3 DEF LlmAnswers, GoesOn, Shape, JobRecord
  <2> QED
    BY <1>1, <2>1 DEF InTime, OnClock, LlmTimeout, GpuTimeout
<1>4. CASE LlmFails(r)
  <2>1. job[r].at = "llm" /\ job'[r].at = "search" /\ job'[r].spent = 0
    BY <1>1, <1>4 DEF LlmFails, GoesOn, Shape, JobRecord
  <2> QED
    BY <1>1, <1>2, <2>1 DEF InTime, OnClock, LlmTimeout, GpuTimeout, RagTimeout
<1>5. CASE GpuRead(r) \/ GpuGarbled(r)
  <2>1. job[r].at = "gpu" /\ job'[r].at = "search" /\ job'[r].spent = 0
    <3>1. CASE GpuRead(r)
      BY <1>1, <3>1 DEF GpuRead, GoesOn, Shape, JobRecord
    <3>2. CASE GpuGarbled(r)
      BY <1>1, <3>2 DEF GpuGarbled, GoesOn, Shape, JobRecord
    <3> QED
      BY <1>5, <3>1, <3>2
  <2>2. job[r].spent \in Nat
    BY <1>1 DEF JobRecord
  <2>3. call[r].waited <= LlmTimeout + GpuTimeout /\ (call[r].waited > 0 => "ollama" \in slow)
    BY <1>1, <2>1, <2>2 DEF InTime, OnClock, LlmTimeout, GpuTimeout
  <2>4. "rag" \in slow => call[r].waited = 0
    BY <1>1, <1>2, <2>3
  <2> QED
    BY <1>1, <2>1, <2>3, <2>4 DEF InTime, OnClock, LlmTimeout, GpuTimeout, RagTimeout
<1>6. CASE Searched(r)
  <2>1. job[r].at = "search" /\ job'[r].at = "urls" /\ job'[r].spent = 0
    BY <1>1, <1>6 DEF Searched, GoesOn, Shape, JobRecord
  <2> QED
    BY <1>1, <1>2, <2>1 DEF InTime, OnClock, LlmTimeout, GpuTimeout, BrowsingTimeout
<1> QED
  BY <1>3, <1>4, <1>5, <1>6 DEF Answering

\* Five seconds more, for the call and for its job.
LEMMA TickInTime ==
    ASSUME Shape, TimeInv, Tick, faults = 0, Cardinality(slow') <= 1, NEW r \in Requests
    PROVE  InTime(r)'
<1>1. /\ slow \subseteq slow'
      /\ \A q \in Holding :
            /\ job[q].at \in {"llm", "gpu"} => slow' = {"ollama"}
            /\ job[q].at = "search" => slow' = {"rag"}
            /\ job[q].at = "urls" => slow' = {"browsing"}
  BY SlowAfterTick
<1>2. InTime(r)
  BY SlowAfterTick DEF TimeInv, OneIsSlow
<1>3. call[r] \in CallRecord /\ job[r] \in JobRecord
  BY DEF Shape
<1>4. CASE r \notin Calling
  <2>1. call'[r] = call[r]
    BY <1>4 DEF Tick
  <2>2. call[r].at # "mcp"
    BY <1>4 DEF Calling, Blocking
  <2>3. job[r].at \notin Working
    BY <1>2, <2>2 DEF InTime
  <2>4. job'[r] = job[r]
    BY <2>3 DEF Tick, Holding
  <2> QED
    BY <1>2, <2>1, <2>3, <2>4 DEF InTime, OnClock, Working
<1>5. CASE r \in Calling /\ call[r].at # "mcp"
  <2>1. job[r].at \notin Working
    BY <1>2, <1>5 DEF InTime
  <2>2. job'[r] = job[r]
    BY <2>1 DEF Tick, Holding
  <2>3. call'[r] = [call[r] EXCEPT !.waited = @ + 1]
    BY <1>5 DEF Tick
  <2>4. call'[r].at = call[r].at /\ call[r].at \in Blocking
    BY <1>3, <1>5, <2>3 DEF CallRecord, Calling
  <2> QED
    BY <1>2, <1>5, <2>1, <2>2, <2>4, WithoutJob DEF InTime, Blocking
<1>6. CASE call[r].at = "mcp"
  <2>1. r \in Calling /\ r \in Holding
    BY <1>2, <1>6 DEF InTime, Calling, Holding, Blocking
  <2>2. /\ call'[r] = [call[r] EXCEPT !.waited = @ + 1]
        /\ job'[r] = [job[r] EXCEPT !.spent = @ + 1]
        /\ job[r].spent < JobLimit(r)
    BY <2>1 DEF Tick
  <2>3. /\ call'[r].at = "mcp" /\ call'[r].waited = call[r].waited + 1
        /\ job'[r].at = job[r].at /\ job'[r].spent = job[r].spent + 1
        /\ call[r].waited \in Nat /\ job[r].spent \in Nat
        /\ job[r].at \in Working
    BY <1>3, <1>6, <2>1, <2>2 DEF CallRecord, JobRecord, Holding
  <2>4. CASE job[r].at = "llm"
    <3>1. slow' = {"ollama"} /\ job[r].spent < LlmTimeout
      BY <1>1, <2>1, <2>2, <2>4 DEF JobLimit
    <3> QED
      BY <1>2, <2>3, <2>4, <3>1 DEF InTime, OnClock, LlmTimeout
  <2>5. CASE job[r].at = "gpu"
    <3>1. slow' = {"ollama"} /\ job[r].spent < GpuTimeout
      BY <1>1, <2>1, <2>2, <2>5 DEF JobLimit
    <3> QED
      BY <1>2, <2>3, <2>5, <3>1 DEF InTime, OnClock, LlmTimeout, GpuTimeout
  <2>6. CASE job[r].at = "search"
    <3>1. slow' = {"rag"} /\ job[r].spent < RagTimeout
      BY <1>1, <2>1, <2>2, <2>3, <2>6 DEF JobLimit, RagTimeout
    <3>2. call[r].waited > 0 => slow = {"rag"}
      BY <1>1, <1>2, <2>6, <3>1 DEF InTime, OnClock
    <3>3. call[r].waited <= job[r].spent
      BY <1>2, <2>3, <2>6, <3>2 DEF InTime, OnClock
    <3> QED
      BY <1>2, <2>3, <2>6, <3>1, <3>3 DEF InTime, OnClock, LlmTimeout, GpuTimeout, RagTimeout
  <2>7. CASE job[r].at = "urls"
    <3>1. slow' = {"browsing"} /\ job[r].spent < BrowsingTimeout
      BY <1>1, <2>1, <2>2, <2>3, <2>7 DEF JobLimit, BrowsingTimeout
    <3>2. call[r].waited > 0 => slow = {"browsing"}
      BY <1>1, <1>2, <2>7, <3>1 DEF InTime, OnClock
    <3>3. call[r].waited <= job[r].spent
      BY <1>2, <2>3, <2>7, <3>2 DEF InTime, OnClock
    <3> QED
      BY <1>2, <2>3, <2>7, <3>1, <3>3 DEF InTime, OnClock, LlmTimeout, GpuTimeout, BrowsingTimeout
  <2> QED
    BY <2>3, <2>4, <2>5, <2>6, <2>7 DEF Working
<1> QED
  BY <1>4, <1>5, <1>6

LEMMA NextInTime ==
    ASSUME Shape, SlotInv, TimeInv, [Next]_vars, OneIsSlow',
           IsFiniteSet(Apis), Cardinality(Apis) <= Slots
    PROVE  \A r \in Requests : InTime(r)'
<1>f. ~Fault
  BY DEF Fault, Shape, OneIsSlow
<1>s. ~Tick => slow' = slow /\ faults' = faults
  BY <1>f DEF Next, Serve, JobStep, LlmAnswers, LlmFails, GpuRead, GpuGarbled, Searched,
              JobEnds, JobRaises, JobFails, Raised,
              ServeText, ServeAudio, Transcribed, NotTranscribed, TimeOut, Answered, NotStored,
              ApiRestarts, SttRestarts, McpRestarts, Uploads, FormIsAnswered, vars
<1>1. CASE Tick
  <2>1. faults = 0 /\ Cardinality(slow') <= 1
    BY <1>1 DEF Tick, OneIsSlow
  <2> QED
    BY <1>1, <2>1, TickInTime
<1> SUFFICES ASSUME ~Tick PROVE \A r \in Requests : InTime(r)'
  BY <1>1
<1>0. /\ OneIsSlow /\ slow' = slow
      /\ \A r \in Requests : InTime(r)
  BY <1>s DEF OneIsSlow, TimeInv
<1>w. waiters = << >>
  BY <1>0, NobodyWaits
\* It is enough to look at the request of the step.
<1>o. ASSUME NEW r \in Requests, InTime(r)',
             \A q \in Requests \ {r} : call'[q] = call[q] /\ job'[q] = job[q]
      PROVE  \A q \in Requests : InTime(q)'
  BY <1>0, <1>o, StillInTime
<1>2. ASSUME NEW r \in Requests, Answering(r) PROVE \A q \in Requests : InTime(q)'
  <2>1. \A q \in Requests \ {r} : call'[q] = call[q] /\ job'[q] = job[q]
    BY <1>2, AnsweringShape
  <2>2. InTime(r)'
    BY <1>0, <1>2, AnsweringInTime DEF OneIsSlow
  <2> QED
    BY <2>1, <2>2, <1>o
<1>3. ASSUME NEW r \in Requests, JobEnds(r) PROVE \A q \in Requests : InTime(q)'
  <2>1. job[r].at = "urls" /\ call[r].at = "mcp"
    BY <1>0, <1>3 DEF JobEnds, InTime, Working
  <2>2. /\ job' = [job EXCEPT ![r] = Gone]
        /\ call' = [call EXCEPT ![r].at = "correlation", ![r].waited = 0,
                                ![r].reply = job[r].result]
    BY <1>3, <1>w, <2>1 DEF JobEnds, Released
  <2>3. job'[r].at = "done" /\ call'[r].at = "correlation"
    BY <2>2, NoneOrGone DEF Shape, CallRecord
  <2>4. \A q \in Requests \ {r} : call'[q] = call[q] /\ job'[q] = job[q]
    BY <2>2 DEF Shape
  <2>5. InTime(r)'
    BY <2>3, WithoutJob DEF Working
  <2> QED
    BY <2>4, <2>5, <1>o
<1>x. ASSUME NEW r \in Requests, JobRaises(r) PROVE \A q \in Requests : InTime(q)'
  <2>1. job[r].at \in Working /\ call[r].at = "mcp"
    BY <1>0, <1>x DEF JobRaises, InTime, Working
  <2>2. /\ job' = [job EXCEPT ![r] = Gone]
        /\ call' = [call EXCEPT ![r] = Over("failed")]
    BY <1>x, <1>w, <2>1 DEF JobRaises, Raised, Released
  <2>3. job'[r].at = "done" /\ call'[r].at = "failed"
    BY <2>2, NoneOrGone, OverShape DEF Shape, Ended
  <2>4. \A q \in Requests \ {r} : call'[q] = call[q] /\ job'[q] = job[q]
    BY <2>2 DEF Shape
  <2>5. InTime(r)'
    BY <2>3, WithoutJob DEF Working
  <2> QED
    BY <2>4, <2>5, <1>o
\* The request r is passed on to mcp-server.
<1>4. ASSUME NEW r \in Requests, Accepted(r), job[r].at = "none",
             ApiOf[r] \in Free \/ call[r].at \in Blocking,
             call'[r].at = "mcp", call'[r].waited = 0,
             \A q \in Requests \ {r} : call'[q] = call[q]
      PROVE  \A q \in Requests : InTime(q)'
  <2>1. Cardinality(Holding) < Slots
    BY <1>0, <1>4, SlotForEach
  <2>2. job' = [job EXCEPT ![r] = Entered(r)]
    BY <1>4, <1>w, <2>1 DEF Accepted
  <2>3. job'[r] = Entered(r) /\ \A q \in Requests \ {r} : job'[q] = job[q]
    BY <2>2 DEF Shape
  <2>4. InTime(r)'
    BY <1>4, <2>3, ComesIn
  <2> QED
    BY <1>4, <2>3, <2>4, <1>o
<1>5. ASSUME NEW r \in Requests, ServeText(r) PROVE \A q \in Requests : InTime(q)'
  <2>1. /\ Accepted(r) /\ call[r].at = "queued" /\ ApiOf[r] \in Free
        /\ call' = [call EXCEPT ![r].at = "mcp"]
    BY <1>5 DEF ServeText, MayServe
  <2>2. call[r].waited = 0 /\ job[r].at = "none"
    BY <1>0, <2>1 DEF InTime, SlotInv
  <2>3. /\ call'[r].at = "mcp" /\ call'[r].waited = 0
        /\ \A q \in Requests \ {r} : call'[q] = call[q]
    BY <2>1, <2>2 DEF Shape, CallRecord
  <2> QED
    BY <2>1, <2>2, <2>3, <1>4
<1>6. ASSUME NEW r \in Requests, ServeAudio(r) PROVE \A q \in Requests : InTime(q)'
  <2>1. /\ UNCHANGED job /\ call[r].at = "queued"
        /\ call' = [call EXCEPT ![r].at = "stt"]
    BY <1>6 DEF ServeAudio, MayServe, mcpVars
  <2>2. job'[r].at = "none"
    BY <2>1 DEF SlotInv
  <2>3. call'[r].at = "stt" /\ \A q \in Requests \ {r} : call'[q] = call[q]
    BY <2>1 DEF Shape, CallRecord
  <2>4. InTime(r)'
    BY <2>2, <2>3, WithoutJob DEF Working
  <2> QED
    BY <2>1, <2>3, <2>4, <1>o
<1>q. ASSUME UNCHANGED <<call, job>> PROVE \A q \in Requests : InTime(q)'
  BY <1>q, <1>0, StillInTime
<1>7. ASSUME NEW r \in Requests, Transcribed(r) PROVE \A q \in Requests : InTime(q)'
  <2>1. CASE call[r].at # "stt"
    BY <1>7, <2>1, <1>q DEF Transcribed
  <2>2. CASE call[r].at = "stt"
    <3>1. Accepted(r) /\ call' = [call EXCEPT ![r].at = "mcp", ![r].waited = 0]
      BY <1>7, <2>2 DEF Transcribed
    <3>2. job[r].at = "none" /\ call[r].at \in Blocking
      BY <2>2 DEF SlotInv, Blocking
    <3>3. /\ call'[r].at = "mcp" /\ call'[r].waited = 0
          /\ \A q \in Requests \ {r} : call'[q] = call[q]
      BY <3>1 DEF Shape, CallRecord
    <3> QED
      BY <3>1, <3>2, <3>3, <1>4
  <2> QED
    BY <2>1, <2>2
\* The request r ends while it has no job that works.
<1>8. ASSUME NEW r \in Requests, NEW how \in Ended \ {"gave_up_mcp"},
             call' = [call EXCEPT ![r] = Over(how)], UNCHANGED job, call[r].at # "mcp"
      PROVE  \A q \in Requests : InTime(q)'
  <2>1. call'[r].at = how /\ \A q \in Requests \ {r} : call'[q] = call[q]
    BY <1>8, OverShape DEF Shape
  <2>2. job'[r].at \notin Working \cup {"waiting"}
    BY <1>0, <1>8 DEF InTime
  <2>3. call'[r].at \notin {"queued", "mcp", "gave_up_mcp"}
    BY <1>8, <2>1 DEF Ended
  <2>4. InTime(r)'
    BY <2>2, <2>3, WithoutJob
  <2> QED
    BY <1>8, <2>1, <2>4, <1>o
<1>9. ASSUME NEW r \in Requests, NotTranscribed(r) PROVE \A q \in Requests : InTime(q)'
  BY <1>9, <1>8, <1>q DEF NotTranscribed, Ended, mcpVars
<1>10. ASSUME NEW r \in Requests, TimeOut(r) PROVE \A q \in Requests : InTime(q)'
  <2>1. CASE call[r].at = "stt"
    BY <1>10, <2>1, <1>8 DEF TimeOut, Ended, mcpVars
  <2>2. CASE call[r].at # "stt"
    <3>1. call[r].at = "mcp" /\ call[r].waited = McpTimeout
      BY <1>10, <2>2 DEF TimeOut
    <3>2. job[r].at \in Working /\ OnClock(r) /\ job[r] \in JobRecord
      BY <1>0, <3>1 DEF InTime, Shape
    <3> QED
      BY <3>1, <3>2
      DEF OnClock, Working, JobRecord, McpTimeout, LlmTimeout, GpuTimeout
  <2> QED
    BY <2>1, <2>2
<1>11. ASSUME NEW r \in Requests, Answered(r) PROVE \A q \in Requests : InTime(q)'
  BY <1>11, <1>8 DEF Answered, Ended, mcpVars
<1>12. CASE Uploads \/ FormIsAnswered \/ UNCHANGED vars
  BY <1>12, <1>q DEF Uploads, FormIsAnswered, vars, apiVars, mcpVars
<1>13. ~(\E r \in Requests : JobFails(r) \/ NotStored(r))
  BY <1>f DEF JobFails, NotStored
<1>14. ~((\E a \in Apis : ApiRestarts(a)) \/ SttRestarts \/ McpRestarts)
  BY <1>f DEF ApiRestarts, SttRestarts, McpRestarts
<1> QED
  BY <1>2, <1>3, <1>x, <1>5, <1>6, <1>7, <1>9, <1>10, <1>11, <1>12, <1>13, <1>14
  DEF Next, Serve, JobStep, Answering

LEMMA NextSlow == slow \subseteq Services /\ [Next]_vars => slow' \subseteq Services
<1> SUFFICES ASSUME slow \subseteq Services, [Next]_vars PROVE slow' \subseteq Services
  OBVIOUS
<1>1. CASE Tick
  <2>1. SlowNow \subseteq Services
    BY DEF SlowNow
  <2> QED
    BY <1>1, <2>1 DEF Tick, Remembered
<1>2. CASE ~Tick
  <2>1. slow' = slow
    BY <1>2 DEF Next, Serve, JobStep, LlmAnswers, LlmFails, GpuRead, GpuGarbled, Searched,
                JobEnds, JobRaises, JobFails, Raised,
                ServeText, ServeAudio, Transcribed, NotTranscribed, TimeOut, Answered, NotStored,
                ApiRestarts, SttRestarts, McpRestarts, Uploads, FormIsAnswered, vars
  <2> QED
    BY <2>1
<1> QED
  BY <1>1, <1>2

LEMMA InitTime == Init => TimeInv
<1> SUFFICES ASSUME Init PROVE TimeInv
  OBVIOUS
<1>1. \A r \in Requests : call[r].at = "queued" /\ call[r].waited = 0 /\ job[r].at = "none"
  BY DEF Init, NoCall, NoJob
<1>2. \A r \in Requests : InTime(r)
  BY <1>1 DEF InTime, OnClock, Working
<1>3. OnePerProcess
  BY <1>1 DEF OnePerProcess, Blocking
<1> QED
  BY <1>2, <1>3 DEF TimeInv, Init

\* While nothing fails and one service at most is slow, apps/api never gives up
\* on mcp-server, if mcp-server has a slot for each replica of apps/api
\* (k8s/overlays/prod: two replicas; LLM_MAX_CONCURRENCY: two slots): the
\* timeouts of the model and of /api/ps fit into MCP_ANALYZE_TIMEOUT_SECONDS.
THEOREM OneSlowServiceHolds ==
    ASSUME IsFiniteSet(Apis), Cardinality(Apis) <= Slots
    PROVE  Spec => []OneSlowServiceCostsNoVerdict
<1>1. Shape /\ SlotInv /\ TimeInv /\ [Next]_vars => TimeInv'
  <2> SUFFICES ASSUME Shape, SlotInv, TimeInv, [Next]_vars PROVE TimeInv'
    OBVIOUS
  <2>1. slow' \subseteq Services
    BY NextSlow DEF TimeInv
  <2>2. OnePerProcess'
    BY NextOnePerProcess DEF TimeInv
  <2>3. OneIsSlow' => \A r \in Requests : InTime(r)'
    BY NextInTime
  <2> QED
    BY <2>1, <2>2, <2>3 DEF TimeInv
<1>2. TimeInv => OneSlowServiceCostsNoVerdict
  BY DEF TimeInv, OneIsSlow, InTime, OneSlowServiceCostsNoVerdict
<1>3. Spec => []SlotInv
  BY InitSlot, NextSlot, ShapeHolds, PTL DEF Spec
<1> QED
  BY <1>1, <1>2, <1>3, InitTime, ShapeHolds, PTL DEF Spec

-----------------------------------------------------------------------------
(***************************************************************************)
(* What the analyzers compute.  The induction theorems of the library take *)
(* an operator as a parameter, which no prover here can instantiate; that  *)
(* a set of numbers has a least element says the same of a set.            *)
(***************************************************************************)

LEMMA InductionOverSets ==
    ASSUME NEW T, T \subseteq Nat, 0 \in T, \A n \in T : n + 1 \in T
    PROVE  T = Nat
<1> SUFFICES ASSUME Nat \ T # {} PROVE FALSE
  OBVIOUS
<1>1. \E n \in Nat \ T : \A m \in Nat \ T : <<m, n>> \notin OpToRel(<, Nat)
  BY NatLessThanWellFounded, WFMin
<1>2. PICK n \in Nat \ T : \A m \in Nat \ T : ~(m < n)
  BY <1>1 DEF OpToRel
<1>3. n # 0 /\ n - 1 \in Nat /\ n - 1 < n /\ n = (n - 1) + 1
  BY <1>2
<1>4. n - 1 \in T
  BY <1>2, <1>3
<1> QED
  BY <1>2, <1>3, <1>4

\* One turn of the loop of Only, after `before' at the n-th item.
Turn(items, set, n, before) ==
    IF items[n] \in set THEN Append(before, items[n]) ELSE before

\* The function that Only defines recursively, and its equation.
Kept(items, set) ==
    CHOOSE kept : kept = [n \in 0..Len(items) |->
        IF n = 0 THEN << >>
        ELSE IF items[n] \in set THEN Append(kept[n - 1], items[n])
        ELSE kept[n - 1]]

KeptUpTo(items, set, m, kept) ==
    kept = [n \in 0..m |-> IF n = 0 THEN << >> ELSE Turn(items, set, n, kept[n - 1])]

LEMMA OnlyIsKept ==
    ASSUME NEW items, NEW set PROVE Only(items, set) = Kept(items, set)[Len(items)]
BY SMT DEF Only, Kept

LEMMA KeptExists ==
    ASSUME NEW items, NEW set, NEW m \in Nat
    PROVE  \E kept : KeptUpTo(items, set, m, kept)
<1> DEFINE T == {n \in Nat : \E kept : KeptUpTo(items, set, n, kept)}
<1>1. 0 \in T
  <2> DEFINE first == [n \in 0..0 |-> << >>]
  <2>1. first = [n \in 0..0 |-> IF n = 0 THEN << >> ELSE Turn(items, set, n, first[n - 1])]
    OBVIOUS
  <2> QED
    BY <2>1 DEF KeptUpTo
<1>2. ASSUME NEW k \in T PROVE k + 1 \in T
  <2>1. PICK kept : KeptUpTo(items, set, k, kept)
    BY <1>2
  <2> DEFINE more == [n \in 0..(k + 1) |->
                        IF n = k + 1 THEN Turn(items, set, k + 1, kept[k]) ELSE kept[n]]
             body(n) == IF n = 0 THEN << >> ELSE Turn(items, set, n, more[n - 1])
  <2>2. ASSUME NEW n \in 0..(k + 1) PROVE more[n] = body(n)
    <3>1. CASE n = k + 1
      BY <3>1
    <3>2. CASE n # k + 1
      <4>1. n \in 0..k
        BY <3>2
      <4>2. kept[n] = IF n = 0 THEN << >> ELSE Turn(items, set, n, kept[n - 1])
        BY <2>1, <4>1 DEF KeptUpTo
      <4>3. n # 0 => more[n - 1] = kept[n - 1]
        BY <4>1
      <4> QED
        BY <3>2, <4>2, <4>3
    <3> QED
      BY <3>1, <3>2
  <2>3. more = [n \in 0..(k + 1) |-> body(n)]
    BY <2>2
  <2>4. KeptUpTo(items, set, k + 1, more)
    BY <2>3 DEF KeptUpTo
  <2> QED
    BY <2>4
<1>3. T = Nat
  <2> HIDE DEF T
  <2>1. T \subseteq Nat
    BY DEF T
  <2> QED
    BY <1>1, <1>2, <2>1, InductionOverSets
<1> QED
  BY <1>3

LEMMA KeptEquation ==
    ASSUME NEW items, NEW set, Len(items) \in Nat
    PROVE  KeptUpTo(items, set, Len(items), Kept(items, set))
<1>1. \E kept : KeptUpTo(items, set, Len(items), kept)
  BY KeptExists
<1> QED
  BY <1>1 DEF Kept, KeptUpTo, Turn

\* After n turns: of the first n items those in the set were kept, and nothing
\* else.
KeptWell(items, set, X, n, kept) ==
    /\ kept \in Seq(X \cap set)
    /\ \A x : (\E i \in 1..Len(kept) : kept[i] = x)
                <=> x \in set /\ \E j \in 1..n : items[j] = x

LEMMA TurnKeepsWell ==
    ASSUME NEW X, NEW items \in Seq(X), NEW set, NEW n \in Nat, n + 1 <= Len(items),
           NEW before, KeptWell(items, set, X, n, before)
    PROVE  KeptWell(items, set, X, n + 1, Turn(items, set, n + 1, before))
<1> DEFINE after == Turn(items, set, n + 1, before)
<1>0. items[n + 1] \in X /\ before \in Seq(X \cap set) /\ Len(before) \in Nat
  BY ElementOfSeq, LenProperties DEF KeptWell
<1>1. CASE items[n + 1] \in set
  <2>1. after = Append(before, items[n + 1])
    BY <1>1 DEF Turn
  <2>2. /\ after \in Seq(X \cap set) /\ Len(after) = Len(before) + 1
        /\ \A i \in 1..Len(before) : after[i] = before[i]
        /\ after[Len(before) + 1] = items[n + 1]
    <3>1. items[n + 1] \in X \cap set
      BY <1>0, <1>1
    <3> HIDE DEF after
    <3> QED
      BY <1>0, <2>1, <3>1, AppendProperties
  <2> HIDE DEF after
  <2>3. ASSUME NEW x
        PROVE  (\E i \in 1..Len(after) : after[i] = x)
                    <=> x \in set /\ \E j \in 1..(n + 1) : items[j] = x
    <3>1. (\E i \in 1..Len(after) : after[i] = x)
            <=> (\E i \in 1..Len(before) : before[i] = x) \/ x = items[n + 1]
      BY <1>0, <2>2
    <3>2. (\E i \in 1..Len(before) : before[i] = x) <=> x \in set /\ \E j \in 1..n : items[j] = x
      BY DEF KeptWell
    <3>3. (\E j \in 1..(n + 1) : items[j] = x) <=> (\E j \in 1..n : items[j] = x) \/ x = items[n + 1]
      OBVIOUS
    <3> QED
      BY <1>1, <3>1, <3>2, <3>3
  <2>4. KeptWell(items, set, X, n + 1, after)
    BY <2>2, <2>3 DEF KeptWell
  <2> QED
    BY <2>4 DEF after
<1>2. CASE items[n + 1] \notin set
  <2>1. after = before
    BY <1>2 DEF Turn
  <2>2. ASSUME NEW x
        PROVE  (\E i \in 1..Len(before) : before[i] = x)
                    <=> x \in set /\ \E j \in 1..(n + 1) : items[j] = x
    <3>1. (\E i \in 1..Len(before) : before[i] = x) <=> x \in set /\ \E j \in 1..n : items[j] = x
      BY DEF KeptWell
    <3>2. (\E j \in 1..(n + 1) : items[j] = x) <=> (\E j \in 1..n : items[j] = x) \/ x = items[n + 1]
      OBVIOUS
    <3> QED
      BY <1>2, <3>1, <3>2
  <2>3. KeptWell(items, set, X, n + 1, before)
    BY <1>0, <2>2 DEF KeptWell
  <2> QED
    BY <2>1, <2>3
<1> QED
  BY <1>1, <1>2

\* What the loop over the items returns.
LEMMA OnlyProperties ==
    ASSUME NEW X, NEW items \in Seq(X), NEW set
    PROVE  KeptWell(items, set, X, Len(items), Only(items, set))
<1> DEFINE kept == Kept(items, set)
           T == {n \in Nat : n <= Len(items) => KeptWell(items, set, X, n, kept[n])}
<1>0. Len(items) \in Nat
  BY LenProperties
<1>1. KeptUpTo(items, set, Len(items), kept)
  BY <1>0, KeptEquation
<1>2. ASSUME NEW n \in 0..Len(items)
      PROVE  kept[n] = IF n = 0 THEN << >> ELSE Turn(items, set, n, kept[n - 1])
  BY <1>1 DEF KeptUpTo
<1> HIDE DEF kept
<1>3. KeptWell(items, set, X, 0, kept[0])
  <2>1. kept[0] = << >>
    BY <1>0, <1>2
  <2>2. << >> \in Seq(X \cap set) /\ Len(<< >>) = 0
    BY EmptySeq
  <2>3. KeptWell(items, set, X, 0, << >>)
    BY <2>2 DEF KeptWell
  <2> QED
    BY <2>1, <2>3
<1>4. ASSUME NEW n \in T PROVE n + 1 \in T
  <2> SUFFICES ASSUME n + 1 <= Len(items)
               PROVE  KeptWell(items, set, X, n + 1, kept[n + 1])
    OBVIOUS
  <2>1. n \in Nat /\ n <= Len(items)
    BY <1>0
  <2>2. KeptWell(items, set, X, n, kept[n])
    BY <2>1
  <2>3. kept[n + 1] = Turn(items, set, n + 1, kept[n])
    BY <1>0, <1>2, <2>1
  <2>4. KeptWell(items, set, X, n + 1, Turn(items, set, n + 1, kept[n]))
    BY <2>1, <2>2, TurnKeepsWell
  <2> QED
    BY <2>3, <2>4
<1>5. T = Nat
  <2>1. T \subseteq Nat /\ 0 \in T
    BY <1>3
  <2> HIDE DEF T
  <2> QED
    BY <1>4, <2>1, InductionOverSets
<1>6. KeptWell(items, set, X, Len(items), kept[Len(items)])
  BY <1>0, <1>5
<1> QED
  BY <1>6, OnlyIsKept DEF kept

LEMMA TheCategories ==
    /\ Categories = {"authority", "fear", "urgent", "personal", "remote"}
    /\ CategoryOrder \in Seq(Categories)
    /\ Unknown \notin Categories
<1>1. /\ CategoryOrder = <<"authority", "fear", "urgent", "personal", "remote">>
      /\ Len(CategoryOrder) = 5
  BY DEF CategoryOrder
<1>2. DOMAIN CategoryOrder = 1..5
  BY DEF CategoryOrder
<1>3. Categories = {CategoryOrder[1], CategoryOrder[2], CategoryOrder[3], CategoryOrder[4],
                    CategoryOrder[5]}
  <2>1. 1..5 = {1, 2, 3, 4, 5}
    OBVIOUS
  <2> QED
    BY <1>2, <2>1 DEF Categories
<1>4. Categories = {"authority", "fear", "urgent", "personal", "remote"}
  BY <1>1, <1>3
<1>5. CategoryOrder \in Seq(Categories)
  BY <1>1, <1>4
<1> QED
  BY <1>4, <1>5 DEF Unknown

\* The sum of the weights, and the number of categories, written out.
Part(c, S) == IF c \in S THEN CategoryWeights[c] ELSE 0
Weight(S) ==
    Part("authority", S) + Part("fear", S) + Part("urgent", S) + Part("personal", S)
        + Part("remote", S)

One(c, S) == IF c \in S THEN 1 ELSE 0
Number(S) ==
    One("authority", S) + One("fear", S) + One("urgent", S) + One("personal", S) + One("remote", S)

LEMMA WeightIsNatural == ASSUME NEW S PROVE Weight(S) \in Nat
BY DEF Weight, Part, CategoryWeights

LEMMA WeightOfOneMore ==
    ASSUME NEW S, S \subseteq Categories, NEW x \in S
    PROVE  Weight(S) = CategoryWeights[x] + Weight(S \ {x})
<1>1. x \in {"authority", "fear", "urgent", "personal", "remote"}
  BY TheCategories
<1>2. \A c \in {"authority", "fear", "urgent", "personal", "remote"} :
         /\ c # x => Part(c, S \ {x}) = Part(c, S)
         /\ c = x => Part(c, S \ {x}) = 0 /\ Part(c, S) = CategoryWeights[x]
         /\ Part(c, S) \in Nat
  BY DEF Part, CategoryWeights
<1>3. CategoryWeights[x] \in Nat
  BY <1>1 DEF CategoryWeights
<1>4. CASE x = "authority"
  BY <1>2, <1>3, <1>4 DEF Weight
<1>5. CASE x = "fear"
  BY <1>2, <1>3, <1>5 DEF Weight
<1>6. CASE x = "urgent"
  BY <1>2, <1>3, <1>6 DEF Weight
<1>7. CASE x = "personal"
  BY <1>2, <1>3, <1>7 DEF Weight
<1>8. CASE x = "remote"
  BY <1>2, <1>3, <1>8 DEF Weight
<1> QED
  BY <1>1, <1>4, <1>5, <1>6, <1>7, <1>8

\* The function that the fold in Score defines recursively.
Any(s) == CHOOSE x \in s : TRUE
Folded(S) ==
    CHOOSE iter : iter = [s \in SUBSET S |->
        IF s = {} THEN 0
        ELSE CategoryWeights[CHOOSE x \in s : TRUE] + iter[s \ {CHOOSE x \in s : TRUE}]]

LEMMA ScoreIsFolded ==
    ASSUME NEW S PROVE Score(S) = Least(100, Folded(S)[S])
<1>1. MapThenSumSet(LAMBDA c : CategoryWeights[c], S) = Folded(S)[S]
  BY SMT DEF MapThenSumSet, MapThenFoldSet, Folded
<1> QED
  BY <1>1 DEF Score

LEMMA FoldedEquation ==
    ASSUME NEW S, S \subseteq Categories
    PROVE  Folded(S) = [s \in SUBSET S |->
              IF s = {} THEN 0 ELSE CategoryWeights[Any(s)] + Folded(S)[s \ {Any(s)}]]
<1> DEFINE weights == [s \in SUBSET S |-> Weight(s)]
           body(f, s) == IF s = {} THEN 0 ELSE CategoryWeights[Any(s)] + f[s \ {Any(s)}]
<1>1. ASSUME NEW s \in SUBSET S PROVE Weight(s) = body(weights, s)
  <2>1. CASE s = {}
    BY <2>1 DEF Weight, Part
  <2>2. CASE s # {}
    <3>1. Any(s) \in s
      BY <2>2 DEF Any
    <3>2. Weight(s) = CategoryWeights[Any(s)] + Weight(s \ {Any(s)})
      BY <3>1, WeightOfOneMore
    <3>3. weights[s \ {Any(s)}] = Weight(s \ {Any(s)})
      OBVIOUS
    <3> QED
      BY <2>2, <3>2, <3>3
  <2> QED
    BY <2>1, <2>2
<1>2. weights = [s \in SUBSET S |-> body(weights, s)]
  BY <1>1
<1> HIDE DEF weights
<1>3. \E f : f = [s \in SUBSET S |->
                    IF s = {} THEN 0 ELSE CategoryWeights[Any(s)] + f[s \ {Any(s)}]]
  BY <1>2
<1> QED
  BY <1>3 DEF Folded, Any

LEMMA FoldedIsWeight ==
    ASSUME NEW S, S \subseteq Categories
    PROVE  Folded(S)[S] = Weight(S)
<1> DEFINE T == {n \in Nat : \A s \in SUBSET S : Cardinality(s) = n => Folded(S)[s] = Weight(s)}
<1>f. \A s \in SUBSET S : IsFiniteSet(s)
  <2>1. Categories = {"authority"} \cup {"fear"} \cup {"urgent"} \cup {"personal"} \cup {"remote"}
    BY TheCategories
  <2>2. \A c : IsFiniteSet({c})
    BY FS_Singleton
  <2>3. IsFiniteSet(Categories)
    BY <2>1, <2>2, FS_Union
  <2> QED
    BY <2>3, FS_Subset
<1>e. ASSUME NEW s \in SUBSET S
      PROVE  Folded(S)[s] =
                IF s = {} THEN 0 ELSE CategoryWeights[Any(s)] + Folded(S)[s \ {Any(s)}]
  BY FoldedEquation
<1>1. 0 \in T
  <2> SUFFICES ASSUME NEW s \in SUBSET S, Cardinality(s) = 0 PROVE Folded(S)[s] = Weight(s)
    OBVIOUS
  <2>1. s = {}
    BY <1>f, FS_EmptySet
  <2> QED
    BY <1>e, <2>1 DEF Weight, Part
<1>2. ASSUME NEW n \in T PROVE n + 1 \in T
  <2> SUFFICES ASSUME NEW s \in SUBSET S, Cardinality(s) = n + 1 PROVE Folded(S)[s] = Weight(s)
    OBVIOUS
  <2>0. n \in Nat
    OBVIOUS
  <2>1. s # {}
    BY <2>0, FS_EmptySet
  <2>2. Any(s) \in s
    BY <2>1 DEF Any
  <2>3. Cardinality(s \ {Any(s)}) = n
    <3>1. Cardinality(s \ {Any(s)}) = Cardinality(s) - 1
      BY <1>f, <2>2, FS_RemoveElement
    <3> QED
      BY <2>0, <3>1
  <2>4. Folded(S)[s \ {Any(s)}] = Weight(s \ {Any(s)})
    BY <2>3
  <2>5. Weight(s) = CategoryWeights[Any(s)] + Weight(s \ {Any(s)})
    BY <2>2, WeightOfOneMore
  <2> QED
    BY <1>e, <2>1, <2>4, <2>5
<1>3. T = Nat
  <2>1. T \subseteq Nat
    OBVIOUS
  <2> HIDE DEF T
  <2> QED
    BY <1>1, <1>2, <2>1, InductionOverSets
<1>4. Cardinality(S) \in T
  BY <1>3, <1>f, FS_CardinalityType
<1> QED
  BY <1>4

LEMMA OneMoreCounted ==
    ASSUME NEW S, NEW A, NEW c, IsFiniteSet(A), c \notin A
    PROVE  /\ IsFiniteSet(A \cup (S \cap {c}))
           /\ Cardinality(A \cup (S \cap {c})) = Cardinality(A) + One(c, S)
<1>0. Cardinality(A) \in Nat
  BY FS_CardinalityType
<1>1. CASE c \in S
  <2>1. A \cup (S \cap {c}) = A \cup {c}
    BY <1>1
  <2>2. IsFiniteSet(A \cup {c}) /\ Cardinality(A \cup {c}) = Cardinality(A) + 1
    BY FS_AddElement
  <2>3. One(c, S) = 1
    BY <1>1 DEF One
  <2> QED
    BY <2>1, <2>2, <2>3
<1>2. CASE c \notin S
  <2>1. A \cup (S \cap {c}) = A
    BY <1>2
  <2>2. Cardinality(A) = Cardinality(A) + One(c, S)
    BY <1>0, <1>2 DEF One
  <2> QED
    BY <2>1, <2>2
<1> QED
  BY <1>1, <1>2

LEMMA CardinalityIsNumber ==
    ASSUME NEW S, S \subseteq Categories PROVE Cardinality(S) = Number(S)
<1> DEFINE s1 == {} \cup (S \cap {"authority"})
           s2 == s1 \cup (S \cap {"fear"})
           s3 == s2 \cup (S \cap {"urgent"})
           s4 == s3 \cup (S \cap {"personal"})
           s5 == s4 \cup (S \cap {"remote"})
<1>0. IsFiniteSet({}) /\ Cardinality({}) = 0
  BY FS_EmptySet
<1>d. /\ "fear" \notin s1 /\ "urgent" \notin s2 /\ "personal" \notin s3 /\ "remote" \notin s4
      /\ s5 = S
  BY TheCategories
<1>1. IsFiniteSet(s1) /\ Cardinality(s1) = 0 + One("authority", S)
  BY <1>0, OneMoreCounted
<1> HIDE DEF s1
<1>2. IsFiniteSet(s2) /\ Cardinality(s2) = Cardinality(s1) + One("fear", S)
  BY <1>1, <1>d, OneMoreCounted
<1> HIDE DEF s2
<1>3. IsFiniteSet(s3) /\ Cardinality(s3) = Cardinality(s2) + One("urgent", S)
  BY <1>2, <1>d, OneMoreCounted
<1> HIDE DEF s3
<1>4. IsFiniteSet(s4) /\ Cardinality(s4) = Cardinality(s3) + One("personal", S)
  BY <1>3, <1>d, OneMoreCounted
<1> HIDE DEF s4
<1>5. IsFiniteSet(s5) /\ Cardinality(s5) = Cardinality(s4) + One("remote", S)
  BY <1>4, <1>d, OneMoreCounted
<1> HIDE DEF s5
<1> QED
  BY <1>1, <1>2, <1>3, <1>4, <1>5, <1>d DEF Number, One

\* The level of a text in which these categories are found.
LevelOf(found) ==
    IF Cardinality(found) <= 1 THEN "low"
    ELSE IF Cardinality(found) = 2 /\ found # {"urgent", "remote"} THEN "medium"
    ELSE "high"

Reason == [label : Categories, about : Categories \cup {Unknown}]

LEMMA LevelOfWeight ==
    ASSUME NEW found, found \subseteq Categories
    PROVE  /\ Score(found) \in 0..100
           /\ RiskLevelForScore(Score(found)) = LevelOf(found)
<1>1. Score(found) = Least(100, Weight(found))
  BY ScoreIsFolded, FoldedIsWeight
<1>2. Cardinality(found) = Number(found)
  BY CardinalityIsNumber
<1>3. found = {"urgent", "remote"} <=>
        /\ "urgent" \in found /\ "remote" \in found
        /\ "authority" \notin found /\ "fear" \notin found /\ "personal" \notin found
  BY TheCategories
<1>a. PICK a \in {0, 1} : a = One("authority", found) /\ Part("authority", found) = 30 * a
  BY DEF One, Part, CategoryWeights
<1>f. PICK f \in {0, 1} : f = One("fear", found) /\ Part("fear", found) = 30 * f
  BY DEF One, Part, CategoryWeights
<1>u. PICK u \in {0, 1} : u = One("urgent", found) /\ Part("urgent", found) = 35 * u
  BY DEF One, Part, CategoryWeights
<1>p. PICK p \in {0, 1} : p = One("personal", found) /\ Part("personal", found) = 25 * p
  BY DEF One, Part, CategoryWeights
<1>r. PICK r \in {0, 1} : r = One("remote", found) /\ Part("remote", found) = 35 * r
  BY DEF One, Part, CategoryWeights
<1>4. /\ Weight(found) = 30 * a + 30 * f + 35 * u + 25 * p + 35 * r
      /\ Cardinality(found) = a + f + u + p + r
  BY <1>2, <1>a, <1>f, <1>u, <1>p, <1>r DEF Weight, Number
<1>5. found = {"urgent", "remote"} <=> u = 1 /\ r = 1 /\ a = 0 /\ f = 0 /\ p = 0
  BY <1>3, <1>a, <1>f, <1>u, <1>p, <1>r DEF One
<1> DEFINE w == 30 * a + 30 * f + 35 * u + 25 * p + 35 * r
           n == a + f + u + p + r
           two == u = 1 /\ r = 1 /\ a = 0 /\ f = 0 /\ p = 0
<1>6. /\ w \in Nat /\ n \in Nat
      /\ n <= 1 => w <= 35
      /\ n = 2 /\ ~two => 40 <= w /\ w < 70
      /\ two => w = 70
      /\ n > 2 => w >= 70
  OBVIOUS
<1>7. Weight(found) = w /\ Cardinality(found) = n /\ (found = {"urgent", "remote"} <=> two)
  BY <1>4, <1>5
<1> HIDE DEF w, n, two
<1>8. Score(found) \in 0..100
  BY <1>1, <1>6, <1>7 DEF Least
<1>9. CASE n <= 1
  <2>1. Score(found) < 40
    BY <1>1, <1>6, <1>7, <1>9 DEF Least
  <2> QED
    BY <1>7, <1>8, <1>9, <2>1 DEF RiskLevelForScore, LevelOf
<1>10. CASE n = 2 /\ ~two
  <2>1. Score(found) >= 40 /\ Score(found) < 70
    BY <1>1, <1>6, <1>7, <1>10 DEF Least
  <2> QED
    BY <1>6, <1>7, <1>8, <1>10, <2>1 DEF RiskLevelForScore, LevelOf
<1>11. CASE n > 2 \/ (n = 2 /\ two)
  <2>1. Score(found) >= 70
    BY <1>1, <1>6, <1>7, <1>11 DEF Least
  <2>2. ~(Cardinality(found) <= 1)
    BY <1>6, <1>7, <1>11
  <2>3. ~(Cardinality(found) = 2 /\ found # {"urgent", "remote"})
    BY <1>6, <1>7, <1>11
  <2>4. RiskLevelForScore(Score(found)) = "high"
    BY <1>8, <2>1 DEF RiskLevelForScore
  <2>5. LevelOf(found) = "high"
    BY <2>2, <2>3 DEF LevelOf
  <2> QED
    BY <1>8, <2>4, <2>5
<1> QED
  BY <1>6, <1>9, <1>10, <1>11

LEMMA LevelType == ASSUME NEW score \in Int PROVE RiskLevelForScore(score) \in Levels
BY DEF RiskLevelForScore, Levels

LEMMA DetectType ==
    ASSUME NEW text PROVE Detect(text) \in Seq(Categories)
<1> DEFINE found == {c \in Categories : text[c] > 0}
<1>1. KeptWell(CategoryOrder, found, Categories, Len(CategoryOrder), Only(CategoryOrder, found))
  BY OnlyProperties, TheCategories
<1>2. Only(CategoryOrder, found) \in Seq(Categories \cap found)
  BY <1>1 DEF KeptWell
<1>3. Only(CategoryOrder, found) \in Seq(Categories)
  BY <1>2, SeqMonotonic
<1> QED
  BY <1>3 DEF Detect

LEMMA RuleResultProperties ==
    ASSUME NEW text
    PROVE  RuleResult(text) \in Result
<1> DEFINE patterns == Detect(text)
           found == {patterns[i] : i \in DOMAIN patterns}
           reasons == ReasonForEach(patterns)
<1>1. patterns \in Seq(Categories)
  BY DetectType
<1> HIDE DEF patterns
<1>2. DOMAIN patterns = 1..Len(patterns) /\ Len(patterns) \in Nat
  BY <1>1, LenProperties
<1>3. \A i \in DOMAIN patterns : patterns[i] \in Categories
  BY <1>1, <1>2, ElementOfSeq
<1>4. found \subseteq Categories
  BY <1>3
<1>5. reasons \in Seq(Reason)
  <2>1. \A i \in 1..Len(patterns) : reasons[i] \in Reason
    BY <1>2, <1>3 DEF ReasonForEach, Reason
  <2> QED
    BY <1>2, <2>1, IsASeq DEF ReasonForEach
<1>6. RuleResult(text) =
        [by |-> "rules", patterns |-> patterns, score |-> Score(found),
         level |-> RiskLevelForScore(Score(found)), breakdown |-> found, reasons |-> reasons]
  BY DEF RuleResult, patterns
<1> HIDE DEF found, reasons
<1>8. Score(found) \in 0..100 /\ RiskLevelForScore(Score(found)) \in Levels
  BY <1>4, LevelOfWeight, LevelType
<1> QED
  BY <1>1, <1>4, <1>5, <1>6, <1>8 DEF Result, Reason

\* CategoryOrder has every category, so the loop over the patterns misses none.
LEMMA DetectFinds ==
    ASSUME NEW text
    PROVE  {Detect(text)[i] : i \in DOMAIN Detect(text)} = {c \in Categories : text[c] > 0}
<1> DEFINE found == {c \in Categories : text[c] > 0}
           kept == Only(CategoryOrder, found)
<1>1. KeptWell(CategoryOrder, found, Categories, Len(CategoryOrder), kept)
  BY OnlyProperties, TheCategories
<1>2. kept \in Seq(Categories \cap found)
  BY <1>1 DEF KeptWell
<1>3. DOMAIN kept = 1..Len(kept)
  BY <1>2, LenProperties
<1>4. \A x : x \in Categories <=> \E j \in 1..Len(CategoryOrder) : CategoryOrder[j] = x
  BY TheCategories, LenProperties DEF Categories
<1>5. Detect(text) = kept
  BY DEF Detect
<1> HIDE DEF kept
<1>6. \A x : x \in found <=> \E i \in DOMAIN kept : kept[i] = x
  BY <1>1, <1>3, <1>4 DEF KeptWell
<1> QED
  BY <1>5, <1>6

\* The level that the rules give to a text with any keywords: one category is
\* low, two are medium, more are high, except that urgent and remote together
\* are high already.  The comment of CATEGORY_WEIGHTS (pattern_rules.py:119-125)
\* wants two categories to be medium; it was written before remote came in.
THEOREM LevelsOfRules ==
    ASSUME NEW text
    PROVE  RuleResult(text).level = LevelOf({c \in Categories : text[c] > 0})
<1> DEFINE found == {Detect(text)[i] : i \in DOMAIN Detect(text)}
<1>1. RuleResult(text).level = RiskLevelForScore(Score(found))
  BY DEF RuleResult
<1>2. found = {c \in Categories : text[c] > 0}
  BY DetectFinds
<1> HIDE DEF found
<1>3. RiskLevelForScore(Score(found)) = LevelOf(found)
  BY <1>2, LevelOfWeight
<1> QED
  BY <1>1, <1>2, <1>3

LEMMA AnswerType ==
    ASSUME NEW answer \in Answers \cup {NoAnswer}
    PROVE  answer.score \in Int /\ answer.items \in Seq(Categories \cup {Unknown})
<1>1. CASE answer \in Answers
  <2>1. answer \in [outcome : {"usable", "caught", "raised"}, score : Int,
                     items : Seq(Categories \cup {Unknown})]
    BY <1>1, AnalysisPipelineAssumption
  <2> QED
    BY <2>1
<1>2. CASE answer = NoAnswer
  <2>1. answer.score = 0 /\ answer.items = << >>
    BY <1>2 DEF NoAnswer
  <2>2. << >> \in Seq(Categories \cup {Unknown})
    BY EmptySeq
  <2> QED
    BY <2>1, <2>2
<1> QED
  BY <1>1, <1>2

LEMMA ModelResultProperties ==
    ASSUME NEW answer \in Answers \cup {NoAnswer}
    PROVE  ModelResult(answer) \in Result
<1> DEFINE items == answer.items
           patterns == Only(items, Categories)
           score == ClampedScore(answer)
           least == Least(Len(items), Len(patterns))
           reasons == Reasons(items, patterns)
<1>0. items \in Seq(Categories \cup {Unknown})
  BY AnswerType
<1>1. KeptWell(items, Categories, Categories \cup {Unknown}, Len(items), patterns)
  BY <1>0, OnlyProperties
<1>2. score \in 0..100
  <2>1. answer.score \in Int
    BY AnswerType
  <2> QED
    BY <2>1 DEF ClampedScore, Least
<1>3. ModelResult(answer) =
        [by |-> "model", patterns |-> patterns, score |-> score,
         level |-> RiskLevelForScore(score), breakdown |-> {}, reasons |-> reasons]
  BY DEF ModelResult
<1>r. reasons = [i \in 1..least |-> [label |-> patterns[i], about |-> items[i]]]
  BY DEF Reasons
<1> HIDE DEF items, patterns, score, reasons
<1>4. patterns \in Seq(Categories)
  <2>1. patterns \in Seq((Categories \cup {Unknown}) \cap Categories)
    BY <1>1 DEF KeptWell
  <2>2. (Categories \cup {Unknown}) \cap Categories = Categories
    OBVIOUS
  <2> QED
    BY <2>1, <2>2
<1>5. Len(items) \in Nat /\ Len(patterns) \in Nat
  BY <1>0, <1>4, LenProperties
<1>6. least \in Nat /\ least <= Len(items) /\ least <= Len(patterns)
  BY <1>5 DEF Least
<1> HIDE DEF least
<1>7. \A i \in 1..least : patterns[i] \in Categories /\ items[i] \in Categories \cup {Unknown}
  <2> SUFFICES ASSUME NEW i \in 1..least
               PROVE  patterns[i] \in Categories /\ items[i] \in Categories \cup {Unknown}
    OBVIOUS
  <2>1. i \in 1..Len(patterns) /\ i \in 1..Len(items)
    BY <1>5, <1>6
  <2> QED
    BY <1>0, <1>4, <2>1, ElementOfSeq
<1>8. reasons \in Seq(Reason)
  <2>1. \A i \in 1..least : reasons[i] \in Reason
    BY <1>r, <1>7 DEF Reason
  <2> QED
    BY <1>r, <1>6, <2>1, IsASeq
<1>9. RiskLevelForScore(score) \in Levels
  BY <1>2, LevelType
<1> QED
  BY <1>2, <1>3, <1>4, <1>8, <1>9 DEF Result, Reason

LEMMA ResultsProperties ==
    ASSUME NEW result \in Results PROVE result \in Result
BY RuleResultProperties, ModelResultProperties DEF Results, NoResult, RuleVerdict

-----------------------------------------------------------------------------
(***************************************************************************)
(* The types                                                               *)
(***************************************************************************)

\* What TypeOK says beyond Shape and FormInv.
BoundInv ==
    /\ backend \in {"llm", "rule"}
    /\ \A r \in Requests : call[r].waited <= McpTimeout /\ job[r].spent <= LlmTimeout
    /\ sttQueue \in Seq(Audio)
    /\ slow \subseteq Services
    /\ faults <= MaxFaults

\* Only the clock lets the time of a call or of a job grow.
TimeKept(r) == call'[r].waited \in {0, call[r].waited} /\ job'[r].spent \in {0, job[r].spent}

LEMMA AcceptedTime ==
    ASSUME Shape, NEW r \in Requests, Accepted(r)
    PROVE  \A q \in Requests : job'[q].spent \in {0, job[q].spent}
<1>1. Entered(r).spent = 0
  BY DEF Entered, NoJob
<1>2. CASE waiters = << >> /\ Cardinality(Holding) < Slots
  <2>1. job' = [job EXCEPT ![r] = Entered(r)]
    BY <1>2 DEF Accepted
  <2> QED
    BY <1>1, <2>1 DEF Shape
<1>3. CASE ~(waiters = << >> /\ Cardinality(Holding) < Slots)
  <2>1. job' = [job EXCEPT ![r].at = "waiting"]
    BY <1>3 DEF Accepted
  <2>2. job[r] \in JobRecord
    BY DEF Shape
  <2> QED
    BY <2>1, <2>2 DEF Shape, JobRecord
<1> QED
  BY <1>2, <1>3

LEMMA ReleasedTime ==
    ASSUME Shape, NEW r \in Requests, Released(r)
    PROVE  \A q \in Requests : job'[q].spent \in {0, job[q].spent}
<1>1. Gone.spent = 0 /\ Entered(Head(waiters)).spent = 0
  BY DEF Entered, Gone, NoJob
<1>2. CASE waiters = << >>
  <2>1. job' = [job EXCEPT ![r] = Gone]
    BY <1>2 DEF Released
  <2> QED
    BY <1>1, <2>1 DEF Shape
<1>3. CASE waiters # << >>
  <2>1. job' = [job EXCEPT ![r] = Gone, ![Head(waiters)] = Entered(Head(waiters))]
    BY <1>3 DEF Released
  <2> QED
    BY <1>1, <2>1 DEF Shape
<1> QED
  BY <1>2, <1>3

LEMMA AnsweringTime ==
    ASSUME Shape, NEW r \in Requests, Answering(r)
    PROVE  \A q \in Requests : job'[q].spent \in {0, job[q].spent}
<1>1. job'[r].spent = 0
  <2>1. job[r] \in JobRecord
    BY DEF Shape
  <2>2. CASE LlmAnswers(r)
    BY <2>1, <2>2 DEF LlmAnswers, GoesOn, Shape, JobRecord
  <2>3. CASE LlmFails(r)
    BY <2>1, <2>3 DEF LlmFails, GoesOn, Shape, JobRecord
  <2>4. CASE GpuRead(r)
    BY <2>1, <2>4 DEF GpuRead, GoesOn, Shape, JobRecord
  <2>6. CASE GpuGarbled(r)
    BY <2>1, <2>6 DEF GpuGarbled, GoesOn, Shape, JobRecord
  <2>5. CASE Searched(r)
    BY <2>1, <2>5 DEF Searched, GoesOn, Shape, JobRecord
  <2> QED
    BY <2>2, <2>3, <2>4, <2>5, <2>6 DEF Answering
<1> QED
  BY <1>1, AnsweringShape

\* The steps of a request other than those of its job.
LEMMA CallTime ==
    ASSUME Shape, NEW call2, NEW r \in Requests,
           \/ call2 = call
           \/ \E at \in CallStages : call2 = [call EXCEPT ![r].at = at]
           \/ \E at \in CallStages : call2 = [call EXCEPT ![r].at = at, ![r].waited = 0]
           \/ \E at \in CallStages : call2 =
                [call EXCEPT ![r].at = at, ![r].waited = 0, ![r].reply = job[r].result]
           \/ \E how \in Ended : call2 = [call EXCEPT ![r] = Over(how)]
    PROVE  \A q \in Requests : call2[q].waited \in {0, call[q].waited}
<1>1. \A how \in Ended : Over(how).waited = 0
  BY DEF Over, NoCall
<1>2. call[r] \in CallRecord /\ call \in [Requests -> CallRecord]
  BY DEF Shape
<1>3. CASE call2 = call
  BY <1>3
<1>4. ASSUME NEW at \in CallStages, call2 = [call EXCEPT ![r].at = at]
      PROVE  \A q \in Requests : call2[q].waited = call[q].waited
  BY <1>2, <1>4 DEF CallRecord
<1>5. ASSUME NEW at \in CallStages, call2 = [call EXCEPT ![r].at = at, ![r].waited = 0]
      PROVE  \A q \in Requests : call2[q].waited \in {0, call[q].waited}
  BY <1>2, <1>5 DEF CallRecord
<1>6. ASSUME NEW at \in CallStages,
             call2 = [call EXCEPT ![r].at = at, ![r].waited = 0, ![r].reply = job[r].result]
      PROVE  \A q \in Requests : call2[q].waited \in {0, call[q].waited}
  BY <1>2, <1>6 DEF CallRecord
<1>7. ASSUME NEW how \in Ended, call2 = [call EXCEPT ![r] = Over(how)]
      PROVE  \A q \in Requests : call2[q].waited \in {0, call[q].waited}
  BY <1>1, <1>2, <1>7
<1> QED
  BY <1>3, <1>4, <1>5, <1>6, <1>7

LEMMA LostTime ==
    ASSUME Shape, NEW lost
    PROVE  \A q \in Requests : Lost(lost)[q].waited \in {0, call[q].waited}
BY DEF Lost, Over, NoCall

LEMMA NextTimeKept == Shape /\ [Next]_vars => Tick \/ \A r \in Requests : TimeKept(r)
<1> SUFFICES ASSUME Shape, [Next]_vars, ~Tick PROVE \A q \in Requests : TimeKept(q)
  OBVIOUS
<1>c. {"stt", "mcp", "correlation"} \subseteq CallStages
  BY DEF CallStages, Blocking
<1>d. {"answered", "unreadable", "gave_up_stt", "gave_up_mcp", "failed"} \subseteq Ended
  BY DEF Ended
<1>1. ASSUME NEW r \in Requests, Answering(r) PROVE \A q \in Requests : TimeKept(q)
  BY <1>1, AnsweringTime, AnsweringShape DEF TimeKept
<1>2. ASSUME NEW r \in Requests, JobEnds(r) \/ Excepted(r)
      PROVE  \A q \in Requests : TimeKept(q)
  <2>1. Released(r)
    BY <1>2, ExceptedStep DEF JobEnds
  <2>2. \A q \in Requests : call'[q].waited \in {0, call[q].waited}
    BY <1>2, <1>c, <1>d, CallTime, ExceptedStep DEF JobEnds
  <2> QED
    BY <2>1, <2>2, ReleasedTime DEF TimeKept
<1>3. ASSUME NEW r \in Requests, ServeText(r) \/ Transcribed(r)
      PROVE  \A q \in Requests : TimeKept(q)
  <2>1. Accepted(r) \/ job' = job
    BY <1>3 DEF ServeText, Transcribed
  <2>2. \A q \in Requests : call'[q].waited \in {0, call[q].waited}
    BY <1>3, <1>c, CallTime DEF ServeText, Transcribed
  <2>3. \A q \in Requests : job'[q].spent \in {0, job[q].spent}
    BY <2>1, AcceptedTime
  <2> QED
    BY <2>2, <2>3 DEF TimeKept
<1>4. ASSUME NEW r \in Requests,
             ServeAudio(r) \/ NotTranscribed(r) \/ TimeOut(r) \/ Answered(r) \/ NotStored(r)
      PROVE  \A q \in Requests : TimeKept(q)
  <2>1. job' = job
    BY <1>4 DEF ServeAudio, NotTranscribed, TimeOut, Answered, NotStored, mcpVars
  <2>2. \A q \in Requests : call'[q].waited \in {0, call[q].waited}
    BY <1>4, <1>c, <1>d, CallTime DEF ServeAudio, NotTranscribed, TimeOut, Answered, NotStored
  <2> QED
    BY <2>1, <2>2 DEF TimeKept
<1>5. ASSUME NEW a \in Apis, ApiRestarts(a) PROVE \A q \in Requests : TimeKept(q)
  BY <1>5, LostTime DEF ApiRestarts, mcpVars, TimeKept
<1>6. ASSUME SttRestarts PROVE \A q \in Requests : TimeKept(q)
  BY <1>6, LostTime DEF SttRestarts, mcpVars, TimeKept
<1>7. ASSUME McpRestarts PROVE \A q \in Requests : TimeKept(q)
  <2>1. \A q \in Requests : job'[q].spent \in {0, job[q].spent}
    BY <1>7 DEF McpRestarts, NoJob
  <2>2. call' = Lost({r \in Requests : call[r].at = "mcp"})
    BY <1>7 DEF McpRestarts
  <2> QED
    BY <2>1, <2>2, LostTime DEF TimeKept
<1>8. ASSUME Uploads \/ FormIsAnswered \/ UNCHANGED vars PROVE \A q \in Requests : TimeKept(q)
  BY <1>8 DEF Uploads, FormIsAnswered, vars, apiVars, mcpVars, TimeKept
<1> QED
  BY <1>1, <1>2, <1>3, <1>4, <1>5, <1>6, <1>7, <1>8 DEF Next, Serve, JobStep, Answering, Excepted

\* The clock stops for whoever is at a timeout, and no timeout is longer than
\* those of TypeOK.
LEMMA TickTime ==
    ASSUME Shape, BoundInv, Tick, NEW r \in Requests
    PROVE  call'[r].waited <= McpTimeout /\ job'[r].spent <= LlmTimeout
<1>1. call[r] \in CallRecord /\ job[r] \in JobRecord
  BY DEF Shape
<1>2. call'[r].waited <= McpTimeout
  <2>1. CASE r \in Calling
    <3>1. call'[r].waited = call[r].waited + 1 /\ call[r].waited \in Nat
      BY <1>1, <2>1 DEF Tick, CallRecord
    <3>2. call[r].waited < CallLimit(r) /\ call[r].at \in Blocking
      BY <2>1 DEF Tick, Calling
    <3>3. CallLimit(r) \in 0..McpTimeout
      BY <3>2 DEF CallLimit, Blocking, SttTimeout, McpTimeout, CorrelationTimeout
    <3> QED
      BY <3>1, <3>2, <3>3 DEF McpTimeout
  <2>2. CASE r \notin Calling
    BY <2>2 DEF Tick, BoundInv
  <2> QED
    BY <2>1, <2>2
<1>3. job'[r].spent <= LlmTimeout
  <2>1. CASE r \in Holding
    <3>1. job'[r].spent = job[r].spent + 1 /\ job[r].spent \in Nat
      BY <1>1, <2>1 DEF Tick, JobRecord
    <3>2. job[r].spent < JobLimit(r) /\ job[r].at \in Working
      BY <2>1 DEF Tick, Holding
    <3>3. JobLimit(r) \in 0..LlmTimeout
      BY <3>2 DEF JobLimit, Working, LlmTimeout, GpuTimeout, RagTimeout, BrowsingTimeout
    <3> QED
      BY <3>1, <3>2, <3>3 DEF LlmTimeout
  <2>2. CASE r \notin Holding
    BY <2>2 DEF Tick, BoundInv
  <2> QED
    BY <2>1, <2>2
<1> QED
  BY <1>2, <1>3

LEMMA NextQueue == sttQueue \in Seq(Audio) /\ [Next]_vars => sttQueue' \in Seq(Audio)
<1> SUFFICES ASSUME sttQueue \in Seq(Audio), [Next]_vars PROVE sttQueue' \in Seq(Audio)
  OBVIOUS
<1>1. ASSUME NEW r \in Requests, ServeAudio(r) PROVE sttQueue' \in Seq(Audio)
  BY <1>1, AppendProperties DEF ServeAudio
<1>2. ASSUME NEW r \in Requests, Transcribed(r) \/ NotTranscribed(r)
      PROVE  sttQueue' \in Seq(Audio)
  BY <1>2, HeadTailProperties DEF Transcribed, NotTranscribed
<1>3. CASE SttRestarts
  BY <1>3, EmptySeq DEF SttRestarts
<1>4. CASE sttQueue' = sttQueue
  BY <1>4
<1> QED
  BY <1>1, <1>2, <1>3, <1>4
  DEF Next, Serve, JobStep, LlmAnswers, LlmFails, GpuRead, GpuGarbled, Searched,
      JobEnds, JobRaises, JobFails, Raised, ServeText,
      TimeOut, Answered, NotStored, ApiRestarts, McpRestarts, Tick, Uploads, FormIsAnswered, vars,
      sttVars

LEMMA NextFaults ==
    faults <= MaxFaults /\ [Next]_vars /\ Shape => faults' <= MaxFaults /\ backend' = backend
<1> SUFFICES ASSUME faults <= MaxFaults, [Next]_vars, Shape
             PROVE  faults' <= MaxFaults /\ backend' = backend
  OBVIOUS
<1>1. Fault \/ faults' = faults
  BY DEF Next, Serve, JobStep, LlmAnswers, LlmFails, GpuRead, GpuGarbled, Searched,
         JobEnds, JobRaises, JobFails, Raised,
         ServeText, ServeAudio, Transcribed, NotTranscribed, TimeOut, Answered, NotStored,
         ApiRestarts, SttRestarts, McpRestarts, Tick, Uploads, FormIsAnswered, vars
<1>2. backend' = backend
  BY SameBackend
<1>3. faults' <= MaxFaults
  <2>1. MaxFaults \in Nat /\ faults \in Nat
    BY AnalysisPipelineAssumption DEF Shape
  <2> QED
    BY <1>1, <2>1 DEF Fault
<1> QED
  BY <1>2, <1>3

LEMMA NextBound == Shape /\ BoundInv /\ [Next]_vars => BoundInv'
<1> SUFFICES ASSUME Shape, BoundInv, [Next]_vars PROVE BoundInv'
  OBVIOUS
<1>1. \A r \in Requests : call'[r].waited <= McpTimeout /\ job'[r].spent <= LlmTimeout
  <2>1. CASE Tick
    BY <2>1, TickTime
  <2>2. CASE ~Tick
    <3> SUFFICES ASSUME NEW r \in Requests
                 PROVE  call'[r].waited <= McpTimeout /\ job'[r].spent <= LlmTimeout
      OBVIOUS
    <3>1. call'[r].waited \in {0, call[r].waited} /\ job'[r].spent \in {0, job[r].spent}
      BY <2>2, NextTimeKept DEF TimeKept
    <3>2. call[r].waited <= McpTimeout /\ job[r].spent <= LlmTimeout
      BY DEF BoundInv
    <3> QED
      BY <3>1, <3>2 DEF McpTimeout, LlmTimeout
  <2> QED
    BY <2>1, <2>2
<1> QED
  BY <1>1, NextSlow, NextQueue, NextFaults DEF BoundInv

LEMMA InitBound == Init => BoundInv
<1> SUFFICES ASSUME Init PROVE BoundInv
  OBVIOUS
<1>1. \A r \in Requests : call[r].waited = 0 /\ job[r].spent = 0
  BY DEF Init, NoCall, NoJob
<1>2. MaxFaults \in Nat
  BY AnalysisPipelineAssumption
<1> QED
  BY <1>1, <1>2, EmptySeq DEF Init, BoundInv, McpTimeout, LlmTimeout

\* The verdicts, stages, queues and times are what the types of the processes
\* say: no score beyond 0..100 whatever the model answers, no call or job past
\* its timeout, only recordings in the queue of stt-worker.
THEOREM TypeCorrect == Spec => []TypeOK
<1>1. ASSUME Shape, BoundInv, FormInv PROVE TypeOK
  <2>1. ASSUME NEW r \in Requests
        PROVE  /\ call[r].at \in CallStages /\ call[r].waited \in 0..McpTimeout
               /\ call[r].reply \in Result
               /\ job[r].at \in JobStages /\ job[r].spent \in 0..LlmTimeout
               /\ job[r].answer \in Answers \cup {NoAnswer} /\ job[r].result \in Result
    <3>1. call[r] \in CallRecord /\ job[r] \in JobRecord
      BY <1>1 DEF Shape
    <3>2. /\ call[r].at \in CallStages /\ call[r].waited \in Nat /\ call[r].reply \in Results
          /\ job[r].at \in JobStages /\ job[r].spent \in Nat
          /\ job[r].answer \in Answers \cup {NoAnswer} /\ job[r].result \in Results
      BY <3>1 DEF CallRecord, JobRecord
    <3>3. call[r].waited <= McpTimeout /\ job[r].spent <= LlmTimeout
      BY <1>1 DEF BoundInv
    <3>4. call[r].waited \in 0..McpTimeout /\ job[r].spent \in 0..LlmTimeout
      BY <3>2, <3>3 DEF McpTimeout, LlmTimeout
    <3> QED
      BY <3>2, <3>4, ResultsProperties
  <2>2. faults \in 0..MaxFaults
    BY <1>1, AnalysisPipelineAssumption DEF Shape, BoundInv
  <2> QED
    BY <1>1, <2>1, <2>2 DEF TypeOK, Shape, BoundInv, FormInv, CallStages, JobStages
<1>2. Spec => []FormInv
  BY InitForm, NextForm, PTL DEF Spec
<1>3. Spec => []BoundInv
  BY InitBound, NextBound, ShapeHolds, PTL DEF Spec
<1> QED
  BY <1>1, <1>2, <1>3, ShapeHolds, PTL
=============================================================================
