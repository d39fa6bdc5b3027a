------------------------- MODULE CallAnalysisProofs -------------------------
(***************************************************************************)
(* Proofs about CallAnalysis for any number of events, entities and api    *)
(* processes, any window, and any number of lost answers and failed        *)
(* statements.  What holds under a condition only names it: BoostHolds     *)
(* assumes NoUrlThroughApi.                                                *)
(***************************************************************************)
EXTENDS CallAnalysis, FiniteSetTheorems, TLAPS

-----------------------------------------------------------------------------
(***************************************************************************)
(* Scores                                                                  *)
(***************************************************************************)

\* The boost of a finite set of matches is a number, and the score it raises
\* stays within 0 and 100.
LEMMA BoostedType ==
    ASSUME NEW score \in 0..MaxScore, NEW matches, IsFiniteSet(matches), NEW flagged
    PROVE  Boosted(score, Boost(matches, flagged)) \in 0..MaxScore
<1>1. Cardinality(matches) \in Nat
  BY FS_CardinalityType
<1>2. Boost(matches, flagged) \in Nat
  BY <1>1 DEF Boost, AtMost, BoostCap, BoostPerMatch, MaliciousUrlBoost
<1> QED
  BY <1>2 DEF Boosted, AtMost, MaxScore

-----------------------------------------------------------------------------
(***************************************************************************)
(* Type correctness.  The score of an answer is a number because the table *)
(* is finite, and the rows of a job are rows of the table because only a   *)
(* requested event has jobs, so both are part of the invariant.            *)
(***************************************************************************)

OnlyRequestedRun ==
    \A e \in Events, c \in Calls : jobs[e][c].phase # "none" => request[e] \in Request

Typed == TypeOK /\ IsFiniteSet(signals) /\ OnlyRequestedRun

LEMMA InitTyped == Init => Typed
<1> SUFFICES ASSUME Init PROVE Typed
  OBVIOUS
<1>1. IsFiniteSet(signals)
  BY FS_EmptySet DEF Init
<1>2. NoJob \in Job /\ NoAnswer \in Answer
  BY CallAnalysisAssumption DEF NoJob, NoAnswer, Job, Answer, MaxScore
<1> QED
  BY <1>1, <1>2, CallAnalysisAssumption DEF Init, Typed, TypeOK, OnlyRequestedRun, NoJob

Phases == {"none", "queued", "find", "record", "check", "done", "failed"}

\* The updates of a job that the handlers make.
LEMMA JobUpdates ==
    ASSUME NEW job \in Job
    PROVE  /\ \A p \in Phases : [job EXCEPT !.phase = p] \in Job
           /\ \A p \in Phases, t \in 0..MaxTime, s \in 0..MaxScore :
                 [job EXCEPT !.phase = p, !.at = t, !.before = s, !.score = s] \in Job
           /\ \A p \in Phases, E \in SUBSET Entities, m \in SUBSET signals :
                 [job EXCEPT !.phase = p, !.todo = E, !.matches = m] \in Job
           /\ \A p \in Phases, E \in SUBSET Entities :
                 [job EXCEPT !.todo = E, !.phase = p] \in Job
           /\ \A p \in Phases, F \in SUBSET Malicious, s \in 0..MaxScore :
                 [job EXCEPT !.phase = p, !.flagged = F, !.score = s] \in Job
BY DEF Job, Phases

\* What a started job inserts is a row of the table.
LEMMA RowType ==
    ASSUME Typed, NEW e \in Events, NEW c \in Calls, jobs[e][c].phase # "none",
           NEW entity \in jobs[e][c].todo
    PROVE  SignalRow(e, c, entity) \in Row
<1>1. request[e] \in Request /\ jobs[e][c] \in Job
  BY DEF Typed, TypeOK, OnlyRequestedRun
<1>2. request[e].channel \in Channels /\ jobs[e][c].at \in 0..MaxTime /\ entity \in Entities
  BY <1>1 DEF Request, Job
<1> QED
  BY <1>2 DEF SignalRow, Row

\* A step that changes one started job and leaves or extends the table keeps all jobs,
\* answers and results well typed.
LEMMA JobStepType ==
    ASSUME Typed, IsFiniteSet(signals'), signals \subseteq signals', signals' \subseteq Row,
           NEW e \in Events, NEW c \in Calls, jobs[e][c].phase # "none", NEW job \in Job,
           jobs' = [jobs EXCEPT ![e][c] = job],
           UNCHANGED <<now, apiVars, timeouts>>, faults' \in 0..MaxDatabaseFaults
    PROVE  Typed'
<1> USE DEF Typed, TypeOK
<1>1. Job \subseteq Job' /\ Answer \subseteq Answer' /\ Result \subseteq Result'
  BY DEF Job, Answer, Result
<1>2. jobs' \in [Events -> [Calls -> Job']]
  BY <1>1
<1>3. Row' = Row /\ Request' = Request
  BY DEF Row, Request
<1>4. OnlyRequestedRun'
  BY <1>3 DEF OnlyRequestedRun, apiVars
<1> QED
  BY <1>1, <1>2, <1>3, <1>4 DEF apiVars

LEMMA NextTyped == Typed /\ [Next]_vars => Typed'
<1> SUFFICES ASSUME Typed, [Next]_vars PROVE Typed'
  OBVIOUS
<1>0. /\ TypeOK /\ IsFiniteSet(signals) /\ OnlyRequestedRun
      /\ MaxTime \in Nat /\ MaxTimeouts \in Nat /\ MaxDatabaseFaults \in Nat
      /\ Requests \subseteq [channel : Channels, entities : SUBSET Entities,
                             via : ApiProcesses \cup {"mcp"}]
      /\ Scores \subseteq 0..MaxScore
  BY CallAnalysisAssumption DEF Typed
<1>j. \A e \in Events, c \in Calls : jobs[e][c] \in Job
  BY <1>0 DEF TypeOK
<1>1. ASSUME NEW e \in Events, Receive(e) PROVE Typed'
  <2> DEFINE job == jobs[e]["analyze"]
  <2>1. jobs' = [jobs EXCEPT ![e]["analyze"] = [job EXCEPT !.phase = "queued"]]
    BY <1>1 DEF Receive
  <2>2. job \in Job
    BY <1>j DEF Calls
  <2> HIDE DEF job
  <2>3. [job EXCEPT !.phase = "queued"] \in Job
    BY <2>2, JobUpdates DEF Phases
  <2>4. request' \in [Events -> Request \cup {NoRequest}]
    BY <1>0, <1>1 DEF Receive, TypeOK, Request, OccurredAt
  <2>5. jobs' \in [Events -> [Calls -> Job]]
    BY <1>0, <2>1, <2>3 DEF TypeOK
  <2>6. Job' = Job /\ Answer' = Answer /\ Result' = Result /\ Row' = Row /\ Request' = Request
    BY <1>1 DEF Receive, Job, Answer, Result, Row, Request
  <2>7. request'[e] \in Request
    BY <1>0, <1>1 DEF Receive, TypeOK, Request, OccurredAt
  <2>8. OnlyRequestedRun'
    BY <1>0, <1>1, <2>1, <2>6, <2>7 DEF Receive, OnlyRequestedRun, TypeOK
  <2> QED
    BY <1>0, <1>1, <2>4, <2>5, <2>6, <2>8 DEF Receive, Typed, TypeOK, Ended
<1>2. ASSUME NEW e \in Events, AnalysisArrives(e) PROVE Typed'
  <2> DEFINE old == jobs[e]["correlate"]
             score == jobs[e]["analyze"].score
             at == IF request[e].at = -1 THEN now ELSE request[e].at
             job == [old EXCEPT !.phase = "find", !.at = at, !.before = score, !.score = score]
  <2>1. jobs' = jobs \/ jobs' = [jobs EXCEPT ![e]["correlate"] = job]
    BY <1>2 DEF AnalysisArrives, CorrelateJob
  <2>2. old \in Job /\ score \in 0..MaxScore
    BY <1>j DEF Calls, Job
  <2>3. at \in 0..MaxTime
    BY <1>0 DEF TypeOK, Request, NoRequest
  <2> HIDE DEF old, score, at
  <2>4. job \in Job
    BY <2>2, <2>3, JobUpdates DEF Phases
  <2> HIDE DEF job
  <2>5. jobs' \in [Events -> [Calls -> Job]]
    <3>1. jobs \in [Events -> [Calls -> Job]]
      BY <1>0 DEF TypeOK
    <3>2. [jobs EXCEPT ![e]["correlate"] = job] \in [Events -> [Calls -> Job]]
      BY <2>4, <3>1
    <3> QED
      BY <2>1, <3>1, <3>2
  <2>6. answer' \in [Events -> Answer]
    <3> DEFINE new == [answer[e] EXCEPT !.score = score, !.base = score]
    <3>1. answer' = [answer EXCEPT ![e] = new]
      BY <1>2 DEF AnalysisArrives, CorrelateJob, BaseRiskScore, score
    <3>2. \A a \in Answer : [a EXCEPT !.score = score, !.base = score] \in Answer
      BY <2>2 DEF Answer
    <3>3. new \in Answer
      BY <1>0, <3>2 DEF TypeOK
    <3> HIDE DEF new
    <3> QED
      BY <1>0, <3>1, <3>3 DEF TypeOK
  <2>7. Job' = Job /\ Answer' = Answer /\ Result' = Result /\ Row' = Row /\ Request' = Request
    BY <1>2 DEF AnalysisArrives, CorrelateJob, Job, Answer, Result, Row, Request
  <2>8. pc' \in [Events -> {"new", "analyzing", "correlating", "adding"} \cup Ended]
    BY <1>0, <1>2 DEF AnalysisArrives, CorrelateJob, TypeOK, Ended
  <2>9. OnlyRequestedRun'
    BY <1>0, <1>2, <2>1, <2>7 DEF AnalysisArrives, CorrelateJob, OnlyRequestedRun, TypeOK, Calls
  <2> QED
    BY <1>0, <1>2, <2>5, <2>6, <2>7, <2>8, <2>9 DEF AnalysisArrives, CorrelateJob, Typed, TypeOK
<1>3. ASSUME NEW e \in Events, AnalysisFails(e) PROVE Typed'
  BY <1>0, <1>3 DEF AnalysisFails, CallRaises, Typed, TypeOK, OnlyRequestedRun,
                    Job, Row, Request, Answer, Result, Ended, mcpVars
<1>4. ASSUME NEW e \in Events, CorrelationArrives(e) PROVE Typed'
  <2> DEFINE job == jobs[e]["correlate"]
             new == [answer[e] EXCEPT !.score = job.score, !.matches = job.matches,
                                      !.flagged = job.flagged]
  <2>1. answer' = [answer EXCEPT ![e] = new]
    BY <1>4 DEF CorrelationArrives
  <2>2. job.score \in 0..MaxScore /\ job.matches \subseteq signals /\ job.flagged \subseteq Malicious
    BY <1>j DEF Calls, Job
  <2>3. \A a \in Answer, s \in 0..MaxScore, m \in SUBSET signals, f \in SUBSET Malicious :
           [a EXCEPT !.score = s, !.matches = m, !.flagged = f] \in Answer
    BY DEF Answer
  <2>4. answer[e] \in Answer
    BY <1>0 DEF TypeOK
  <2> HIDE DEF job
  <2>5. new \in Answer
    BY <2>2, <2>3, <2>4
  <2> HIDE DEF new
  <2>6. answer' \in [Events -> Answer]
    BY <1>0, <2>1, <2>5 DEF TypeOK
  <2>7. Job' = Job /\ Answer' = Answer /\ Result' = Result /\ Row' = Row /\ Request' = Request
    BY <1>4 DEF CorrelationArrives, mcpVars, Job, Answer, Result, Row, Request
  <2> QED
    BY <1>0, <1>4, <2>6, <2>7 DEF CorrelationArrives, Typed, TypeOK, Ended, mcpVars, OnlyRequestedRun
<1>5. ASSUME NEW e \in Events, CorrelationFails(e) PROVE Typed'
  BY <1>0, <1>5 DEF CorrelationFails, CallRaises, Typed, TypeOK, OnlyRequestedRun,
                    Job, Row, Request, Answer, Result, Ended, mcpVars
<1>6. ASSUME NEW e \in Events, Add(e) PROVE Typed'
  BY <1>0, <1>6 DEF Add, AuditRow, Typed, TypeOK, OnlyRequestedRun,
                    Job, Row, Request, Answer, Result, Ended, mcpVars
<1>7. ASSUME NEW e \in Events, AddFails(e) PROVE Typed'
  BY <1>0, <1>7 DEF AddFails, AuditRow, Typed, TypeOK, OnlyRequestedRun,
                    Job, Row, Request, Answer, Result, Ended, mcpVars
<1>8. ASSUME NEW e \in Events, StartAnalysis(e) PROVE Typed'
  <2> DEFINE old == jobs[e]["analyze"]
             phase == IF Visible(e, "analyze") = {} THEN "done" ELSE "find"
  <2>1. PICK score \in Scores :
           jobs' = [jobs EXCEPT ![e]["analyze"] =
                      [old EXCEPT !.phase = phase, !.at = now, !.before = score, !.score = score]]
    BY <1>8 DEF StartAnalysis
  <2>2. old \in Job /\ phase \in Phases /\ now \in 0..MaxTime /\ score \in 0..MaxScore
    BY <1>0, <1>j DEF Calls, Phases, TypeOK
  <2> DEFINE job == [old EXCEPT !.phase = phase, !.at = now, !.before = score, !.score = score]
  <2> HIDE DEF old, phase
  <2>3. job \in Job
    BY <2>2, JobUpdates
  <2>4. jobs' = [jobs EXCEPT ![e]["analyze"] = job]
    BY <2>1
  <2> HIDE DEF job
  <2> QED
    BY <1>0, <1>8, <2>3, <2>4, JobStepType DEF StartAnalysis, Calls, TypeOK, Typed
<1>9. ASSUME NEW e \in Events, NEW c \in Calls, ReadSignals(e, c) PROVE Typed'
  <2> DEFINE old == jobs[e][c]
             found == FindMatches(signals, request[e].channel, Visible(e, c), old.at)
             job == [old EXCEPT !.phase = "record", !.todo = Visible(e, c), !.matches = found]
  <2>1. jobs' = [jobs EXCEPT ![e][c] = job]
    BY <1>9 DEF ReadSignals
  <2>2. old \in Job /\ found \subseteq signals /\ Visible(e, c) \subseteq Entities
    BY <1>0, <1>j DEF FindMatches, Visible, TypeOK, Request, NoRequest, Entities
  <2> HIDE DEF old, found
  <2>3. job \in Job
    BY <2>2, JobUpdates DEF Phases
  <2> HIDE DEF job
  <2> QED
    BY <1>0, <1>9, <2>1, <2>3, JobStepType DEF ReadSignals, TypeOK, Typed
<1>10. ASSUME NEW e \in Events, NEW c \in Calls, InsertSignal(e, c) PROVE Typed'
  <2> DEFINE old == jobs[e][c]
  <2>1. PICK entity \in NextEntities(old.todo) :
           /\ signals' = signals \cup {SignalRow(e, c, entity)}
           /\ jobs' = [jobs EXCEPT ![e][c] = [old EXCEPT
                          !.todo = StillToRecord(old.todo, entity),
                          !.phase = IF StillToRecord(old.todo, entity) = {} THEN "check" ELSE "record"]]
    BY <1>10 DEF InsertSignal
  <2> DEFINE todo == StillToRecord(old.todo, entity)
             job == [old EXCEPT !.todo = todo, !.phase = IF todo = {} THEN "check" ELSE "record"]
  <2>2. old \in Job /\ todo \subseteq Entities /\ jobs' = [jobs EXCEPT ![e][c] = job]
    BY <1>j, <2>1 DEF Job, StillToRecord
  <2>3. SignalRow(e, c, entity) \in Row
    BY <1>10, RowType DEF InsertSignal, NextEntities
  <2> HIDE DEF old, todo
  <2>4. job \in Job
    BY <2>2, JobUpdates DEF Phases
  <2>5. IsFiniteSet(signals') /\ signals \subseteq signals' /\ signals' \subseteq Row
    BY <1>0, <2>1, <2>3, FS_AddElement DEF TypeOK
  <2>6. jobs[e][c].phase # "none" /\ faults' \in 0..MaxDatabaseFaults
        /\ UNCHANGED <<now, apiVars, timeouts>>
    BY <1>0, <1>10 DEF InsertSignal, TypeOK
  <2> HIDE DEF job
  <2> QED
    BY <2>2, <2>4, <2>5, <2>6, JobStepType
<1>11. ASSUME NEW e \in Events, NEW c \in Calls, CheckUrls(e, c) PROVE Typed'
  <2> DEFINE old == jobs[e][c]
  <2>1. PICK flagged \in {{}, Visible(e, c) \cap Malicious} :
           jobs' = [jobs EXCEPT ![e][c] = [old EXCEPT
                       !.phase = "done", !.flagged = flagged,
                       !.score = Boosted(old.before, Boost(old.matches, flagged))]]
    BY <1>11 DEF CheckUrls
  <2> DEFINE score == Boosted(old.before, Boost(old.matches, flagged))
             job == [old EXCEPT !.phase = "done", !.flagged = flagged, !.score = score]
  <2>2. old \in Job /\ flagged \subseteq Malicious /\ jobs' = [jobs EXCEPT ![e][c] = job]
    BY <1>j, <2>1
  <2>3. IsFiniteSet(old.matches) /\ old.before \in 0..MaxScore
    BY <1>0, <2>2, FS_Subset DEF Job
  <2>4. score \in 0..MaxScore
    BY <2>3, BoostedType
  <2> HIDE DEF old, score
  <2>5. job \in Job
    BY <2>2, <2>4, JobUpdates DEF Phases
  <2> HIDE DEF job
  <2> QED
    BY <1>0, <1>11, <2>2, <2>5, JobStepType DEF CheckUrls, TypeOK, Typed
<1>12. ASSUME NEW e \in Events, NEW c \in Calls, StatementFails(e, c) PROVE Typed'
  <2> DEFINE old == jobs[e][c]
             job == [old EXCEPT !.phase = "failed"]
  <2>1. jobs' = [jobs EXCEPT ![e][c] = job]
    BY <1>12 DEF StatementFails
  <2>2. \/ signals' = signals
        \/ \E entity \in NextEntities(old.todo) : signals' = signals \cup {SignalRow(e, c, entity)}
    BY <1>12 DEF StatementFails
  <2>3. \A entity \in NextEntities(old.todo) : SignalRow(e, c, entity) \in Row
    BY <1>12, RowType DEF StatementFails, NextEntities
  <2>4. IsFiniteSet(signals') /\ signals \subseteq signals' /\ signals' \subseteq Row
    <3>1. CASE signals' = signals
      BY <1>0, <3>1 DEF TypeOK
    <3>2. ASSUME NEW entity \in NextEntities(old.todo),
                 signals' = signals \cup {SignalRow(e, c, entity)}
          PROVE  IsFiniteSet(signals') /\ signals \subseteq signals' /\ signals' \subseteq Row
      <4>1. SignalRow(e, c, entity) \in Row
        BY <2>3
      <4> HIDE DEF old
      <4> QED
        BY <1>0, <3>2, <4>1, FS_AddElement DEF TypeOK
    <3> QED
      BY <2>2, <3>1, <3>2
  <2>5. old \in Job
    BY <1>j
  <2> HIDE DEF old
  <2>6. job \in Job
    BY <2>5, JobUpdates DEF Phases
  <2> HIDE DEF job
  <2>7. jobs[e][c].phase # "none" /\ faults' \in 0..MaxDatabaseFaults
        /\ UNCHANGED <<now, apiVars, timeouts>>
    BY <1>0, <1>12 DEF StatementFails, TypeOK
  <2> QED
    BY <1>0, <2>1, <2>4, <2>6, <2>7, JobStepType
<1>13. CASE Tick
  BY <1>0, <1>13
  DEF Tick, apiVars, mcpVars, Typed, TypeOK, OnlyRequestedRun, Job, Answer, Result, Row, Request
<1>14. CASE UNCHANGED vars
  BY <1>0, <1>14 DEF vars, Typed, TypeOK, OnlyRequestedRun, Job, Answer, Result, Row, Request
<1> QED
  BY <1>1, <1>2, <1>3, <1>4, <1>5, <1>6, <1>7, <1>8, <1>9, <1>10, <1>11, <1>12, <1>13, <1>14
     DEF Next, BoundsReached

\* Every reachable state of the analysis is well typed: no score leaves 0..100,
\* whatever the number of matches (_correlation_score_boost, min(100, ...)).
THEOREM TypeCorrect == Spec => []TypeOK
<1>1. Spec => []Typed
  BY InitTyped, NextTyped, PTL DEF Spec
<1>2. Typed => TypeOK
  BY DEF Typed
<1> QED
  BY <1>1, <1>2, PTL

-----------------------------------------------------------------------------
(***************************************************************************)
(* Matches.  A row is never matched by its own event because both carry    *)
(* the channel of the request; a job has no matches before it has read the *)
(* table, so naming its time does not disturb what it found.               *)
(***************************************************************************)

NewIsUntouched == \A e \in Events : pc[e] = "new" => request[e] \notin Request

CorrelatedAfterwards == \A e \in Events : pc[e] = "analyzing" => jobs[e]["correlate"].phase = "none"

RowsAreOfRequests ==
    \A row \in signals : /\ request[row.event] \in Request
                         /\ row.channel = request[row.event].channel

NothingFoundYet ==
    \A e \in Events, c \in Calls :
        jobs[e][c].phase \in {"none", "queued", "find"} => jobs[e][c].matches = {}

Justified == /\ Typed
             /\ NewIsUntouched
             /\ CorrelatedAfterwards
             /\ RowsAreOfRequests
             /\ NothingFoundYet
             /\ MatchesAreJustified

LEMMA InitJustified == Init => Justified
<1> SUFFICES ASSUME Init PROVE Justified
  OBVIOUS
<1>1. Typed
  BY InitTyped
<1>2. NewIsUntouched
  BY CallAnalysisAssumption DEF Init, NewIsUntouched, NoRequest, Request
<1> QED
  BY <1>1, <1>2 DEF Init, Justified, CorrelatedAfterwards, RowsAreOfRequests, NothingFoundYet,
                    MatchesAreJustified, NoJob, Calls

\* A step that changes one started job of a request that is not new, and
\* leaves the requests alone, keeps the invariant if the new state of the job
\* and the new rows do.
LEMMA JobStepJustified ==
    ASSUME Justified, Typed', UNCHANGED <<pc, request>>,
           NEW e \in Events, NEW c \in Calls, jobs[e][c].phase # "none",
           NEW job, jobs' = [jobs EXCEPT ![e][c] = job],
           \A row \in signals' \ signals : row.event = e /\ row.channel = request[e].channel,
           job.phase \in {"none", "queued", "find"} => job.matches = {},
           \A row \in job.matches :
               /\ row.event # e
               /\ row.channel # request[e].channel
               /\ row.entity \in request[e].entities
               /\ row.at - job.at \in -WindowSeconds..WindowSeconds
    PROVE  Justified'
<1>1. jobs \in [Events -> [Calls -> Job]] /\ request[e] \in Request
  BY DEF Justified, Typed, TypeOK, OnlyRequestedRun
<1>2. \A a \in Events, b \in Calls : jobs'[a][b] = IF a = e /\ b = c THEN job ELSE jobs[a][b]
  BY <1>1
<1>3. NewIsUntouched'
  BY DEF Justified, NewIsUntouched, Request
<1>4. CorrelatedAfterwards'
  BY <1>2 DEF Justified, CorrelatedAfterwards, Calls
<1>5. RowsAreOfRequests'
  BY <1>1 DEF Justified, RowsAreOfRequests, Request
<1>6. NothingFoundYet'
  BY <1>2 DEF Justified, NothingFoundYet
<1>7. MatchesAreJustified'
  BY <1>2 DEF Justified, MatchesAreJustified
<1> QED
  BY <1>3, <1>4, <1>5, <1>6, <1>7 DEF Justified

LEMMA NextJustified == Justified /\ [Next]_vars => Justified'
<1> SUFFICES ASSUME Justified, [Next]_vars PROVE Justified'
  OBVIOUS
<1>0. Typed /\ Typed'
  BY NextTyped DEF Justified
<1>j. /\ jobs \in [Events -> [Calls -> Job]]
      /\ pc \in [Events -> {"new", "analyzing", "correlating", "adding"} \cup Ended]
      /\ request \in [Events -> Request \cup {NoRequest}]
      /\ \A e \in Events, c \in Calls : jobs[e][c].phase # "none" => request[e] \in Request
  BY <1>0 DEF Typed, TypeOK, OnlyRequestedRun
<1> DEFINE Keeps == UNCHANGED <<request, jobs, signals>>
<1>k. ASSUME Keeps, NEW e \in Events, NEW p \in Ended \cup {"adding"},
             pc' = [pc EXCEPT ![e] = p]
      PROVE  Justified'
  <2>1. NewIsUntouched' /\ CorrelatedAfterwards'
    BY <1>j, <1>k DEF Justified, NewIsUntouched, CorrelatedAfterwards, Ended, Request
  <2> QED
    BY <1>0, <1>k, <2>1 DEF Justified, RowsAreOfRequests, NothingFoundYet, MatchesAreJustified, Request
<1>1. ASSUME NEW e \in Events, Receive(e) PROVE Justified'
  <2>1. /\ request[e] \notin Request
        /\ \A c \in Calls : jobs[e][c].phase = "none" /\ jobs[e][c].matches = {}
    BY <1>1, <1>j DEF Receive, Justified, NewIsUntouched, NothingFoundYet
  <2>2. /\ request'[e] \in Request
        /\ \A a \in Events \ {e} : request'[a] = request[a]
        /\ \A row \in signals : row.event # e
    <3>1. request'[e] \in Request
      BY <1>0, <1>1, CallAnalysisAssumption DEF Receive, Typed, TypeOK, Request, OccurredAt
    <3> QED
      BY <1>1, <1>j, <2>1, <3>1 DEF Receive, Justified, RowsAreOfRequests
  <2>3. /\ \A a \in Events, c \in Calls : jobs'[a][c].matches = jobs[a][c].matches
        /\ \A a \in Events, c \in Calls : jobs'[a][c].at = jobs[a][c].at
        /\ \A a \in Events : jobs'[a]["correlate"] = jobs[a]["correlate"]
        /\ \A a \in Events \ {e} : jobs'[a] = jobs[a]
    BY <1>1, <1>j DEF Receive, Calls, Job
  <2>4. NewIsUntouched'
    BY <1>1, <1>j, <2>2 DEF Receive, Justified, NewIsUntouched, Request
  <2>5. CorrelatedAfterwards'
    BY <1>1, <1>j, <2>1, <2>3 DEF Receive, Justified, CorrelatedAfterwards, Calls
  <2>6. RowsAreOfRequests'
    BY <1>0, <1>1, <2>2 DEF Receive, Justified, RowsAreOfRequests, Request, Typed, TypeOK, Row
  <2>7. NothingFoundYet'
    BY <2>1, <2>3 DEF Justified, NothingFoundYet
  <2>8. MatchesAreJustified'
    BY <2>1, <2>2, <2>3 DEF Justified, MatchesAreJustified
  <2> QED
    BY <1>0, <2>4, <2>5, <2>6, <2>7, <2>8 DEF Justified
<1>2. ASSUME NEW e \in Events, AnalysisArrives(e) PROVE Justified'
  <2>1. jobs[e]["correlate"].phase = "none" /\ jobs[e]["correlate"].matches = {}
    BY <1>2 DEF AnalysisArrives, CorrelateJob, Justified, CorrelatedAfterwards, NothingFoundYet, Calls
  <2>2. /\ \A a \in Events, c \in Calls : jobs'[a][c].matches = jobs[a][c].matches
        /\ \A a \in Events, c \in Calls : jobs'[a][c] # jobs[a][c] => a = e /\ c = "correlate"
    <3> DEFINE old == jobs[e]["correlate"]
               score == jobs[e]["analyze"].score
               at == IF request[e].at = -1 THEN now ELSE request[e].at
               job == [old EXCEPT !.phase = "find", !.at = at, !.before = score, !.score = score]
    <3>1. jobs' = jobs \/ jobs' = [jobs EXCEPT ![e]["correlate"] = job]
      BY <1>2 DEF AnalysisArrives, CorrelateJob
    <3>2. old \in Job
      BY <1>j DEF Calls
    <3> HIDE DEF old, score, at
    <3>3. job.matches = old.matches
      BY <3>2 DEF Job
    <3> HIDE DEF job
    <3>4. job.matches = jobs[e]["correlate"].matches
      BY <3>3 DEF old
    <3> QED
      BY <1>j, <3>1, <3>4 DEF Calls
  <2>3. CorrelatedAfterwards' /\ NewIsUntouched'
    <3>1. /\ pc'[e] \notin {"new", "analyzing"}
          /\ \A a \in Events \ {e} : pc'[a] = pc[a]
          /\ UNCHANGED request
      BY <1>2, <1>j DEF AnalysisArrives, CorrelateJob
    <3>2. \A a \in Events \ {e} : jobs'[a]["correlate"] = jobs[a]["correlate"]
      BY <2>2 DEF Calls
    <3> QED
      BY <3>1, <3>2 DEF Justified, CorrelatedAfterwards, NewIsUntouched, Request
  <2>4. RowsAreOfRequests'
    BY <1>2 DEF AnalysisArrives, CorrelateJob, Justified, RowsAreOfRequests, Request
  <2>5. NothingFoundYet'
    BY <2>1, <2>2 DEF Justified, NothingFoundYet
  <2>6. MatchesAreJustified'
    BY <1>2, <2>1, <2>2 DEF AnalysisArrives, CorrelateJob, Justified, MatchesAreJustified
  <2> QED
    BY <1>0, <2>3, <2>4, <2>5, <2>6 DEF Justified
<1>3. ASSUME NEW e \in Events, AnalysisFails(e) PROVE Justified'
  BY <1>k, <1>3 DEF AnalysisFails, mcpVars, Ended
<1>4. ASSUME NEW e \in Events, CorrelationArrives(e) PROVE Justified'
  BY <1>k, <1>4 DEF CorrelationArrives, mcpVars
<1>5. ASSUME NEW e \in Events, CorrelationFails(e) PROVE Justified'
  BY <1>k, <1>5 DEF CorrelationFails, mcpVars
<1>6. ASSUME NEW e \in Events, Add(e) PROVE Justified'
  BY <1>k, <1>6 DEF Add, mcpVars, Ended
<1>7. ASSUME NEW e \in Events, AddFails(e) PROVE Justified'
  BY <1>k, <1>7 DEF AddFails, mcpVars, Ended
<1>8. ASSUME NEW e \in Events, StartAnalysis(e) PROVE Justified'
  <2> DEFINE old == jobs[e]["analyze"]
             phase == IF Visible(e, "analyze") = {} THEN "done" ELSE "find"
  <2>1. PICK score \in Scores :
           jobs' = [jobs EXCEPT ![e]["analyze"] =
                      [old EXCEPT !.phase = phase, !.at = now, !.before = score, !.score = score]]
    BY <1>8 DEF StartAnalysis
  <2> DEFINE job == [old EXCEPT !.phase = phase, !.at = now, !.before = score, !.score = score]
  <2>2. old \in Job /\ old.phase = "queued" /\ old.matches = {}
    BY <1>8, <1>j DEF StartAnalysis, Calls, Justified, NothingFoundYet
  <2>3. job.matches = {}
    <3> HIDE DEF old, phase
    <3> QED
      BY <2>2 DEF Job
  <2>4. jobs' = [jobs EXCEPT ![e]["analyze"] = job]
    BY <2>1
  <2> HIDE DEF job
  <2> QED
    BY <1>0, <1>8, <2>2, <2>3, <2>4, JobStepJustified DEF StartAnalysis, Calls, apiVars
<1>9. ASSUME NEW e \in Events, NEW c \in Calls, ReadSignals(e, c) PROVE Justified'
  <2> DEFINE old == jobs[e][c]
             found == FindMatches(signals, request[e].channel, Visible(e, c), old.at)
             job == [old EXCEPT !.phase = "record", !.todo = Visible(e, c), !.matches = found]
  <2>1. jobs' = [jobs EXCEPT ![e][c] = job]
    BY <1>9 DEF ReadSignals
  <2>2. old \in Job /\ old.at \in Int /\ WindowSeconds \in Int
    BY <1>0, <1>j, CallAnalysisAssumption, CorrelationAssumption DEF Typed, TypeOK, Job
  <2>3. \A row \in found :
           /\ row.event # e
           /\ row.channel # request[e].channel
           /\ row.entity \in request[e].entities
           /\ row.at - old.at \in -WindowSeconds..WindowSeconds
    <3> TAKE row \in found
    <3>1. /\ row \in signals /\ row \in Row
          /\ row.channel # request[e].channel
          /\ row.at >= old.at - WindowSeconds /\ row.at <= old.at + WindowSeconds
          /\ row.entity \in Visible(e, c)
      BY <1>0 DEF FindMatches, Typed, TypeOK
    <3>2. row.at \in Int
      BY <3>1 DEF Row
    <3>3. row.event # e
      BY <3>1 DEF Justified, RowsAreOfRequests
    <3> HIDE DEF old
    <3>4. row.at - old.at \in -WindowSeconds..WindowSeconds
      BY <2>2, <3>1, <3>2
    <3> QED
      BY <3>1, <3>3, <3>4 DEF Visible
  <2> HIDE DEF old, found
  <2>4. job.phase = "record" /\ job.matches = found /\ job.at = old.at
    BY <2>2 DEF Job
  <2> HIDE DEF job
  <2>5. jobs[e][c].phase # "none" /\ UNCHANGED <<pc, request, signals>>
    BY <1>9 DEF ReadSignals, apiVars
  <2> QED
    BY <1>0, <2>1, <2>3, <2>4, <2>5, JobStepJustified
<1>10. ASSUME NEW e \in Events, NEW c \in Calls, InsertSignal(e, c) PROVE Justified'
  <2> DEFINE old == jobs[e][c]
  <2>1. PICK entity \in NextEntities(old.todo) :
           /\ signals' = signals \cup {SignalRow(e, c, entity)}
           /\ jobs' = [jobs EXCEPT ![e][c] = [old EXCEPT
                          !.todo = StillToRecord(old.todo, entity),
                          !.phase = IF StillToRecord(old.todo, entity) = {} THEN "check" ELSE "record"]]
    BY <1>10 DEF InsertSignal
  <2> DEFINE todo == StillToRecord(old.todo, entity)
             job == [old EXCEPT !.todo = todo, !.phase = IF todo = {} THEN "check" ELSE "record"]
  <2>2. old \in Job /\ jobs' = [jobs EXCEPT ![e][c] = job]
    BY <1>j, <2>1
  <2>3. \A row \in signals' \ signals : row.event = e /\ row.channel = request[e].channel
    BY <2>1 DEF SignalRow
  <2> HIDE DEF todo
  <2>4. job.phase \in {"check", "record"} /\ job.matches = old.matches /\ job.at = old.at
    <3> HIDE DEF old
    <3> QED
      BY <2>2 DEF Job
  <2> HIDE DEF job
  <2>5. jobs[e][c].phase # "none" /\ UNCHANGED <<pc, request>>
    BY <1>10 DEF InsertSignal, apiVars
  <2>6. \A row \in job.matches :
               /\ row.event # e
               /\ row.channel # request[e].channel
               /\ row.entity \in request[e].entities
               /\ row.at - job.at \in -WindowSeconds..WindowSeconds
    BY <2>4 DEF Justified, MatchesAreJustified
  <2> HIDE DEF old
  <2> QED
    BY <1>0, <2>2, <2>3, <2>4, <2>5, <2>6, JobStepJustified
<1>11. ASSUME NEW e \in Events, NEW c \in Calls, CheckUrls(e, c) PROVE Justified'
  <2> DEFINE old == jobs[e][c]
  <2>1. PICK flagged, score : jobs' = [jobs EXCEPT ![e][c] =
           [old EXCEPT !.phase = "done", !.flagged = flagged, !.score = score]]
    BY <1>11 DEF CheckUrls
  <2> DEFINE job == [old EXCEPT !.phase = "done", !.flagged = flagged, !.score = score]
  <2>2. old \in Job /\ jobs' = [jobs EXCEPT ![e][c] = job]
    BY <1>j, <2>1
  <2>3. job.phase = "done" /\ job.matches = old.matches /\ job.at = old.at
    <3> HIDE DEF old
    <3> QED
      BY <2>2 DEF Job
  <2> HIDE DEF job
  <2>4. \A row \in job.matches :
               /\ row.event # e
               /\ row.channel # request[e].channel
               /\ row.entity \in request[e].entities
               /\ row.at - job.at \in -WindowSeconds..WindowSeconds
    BY <2>3 DEF Justified, MatchesAreJustified
  <2> HIDE DEF old
  <2> QED
    BY <1>0, <1>11, <2>2, <2>3, <2>4, JobStepJustified DEF CheckUrls, apiVars
<1>12. ASSUME NEW e \in Events, NEW c \in Calls, StatementFails(e, c) PROVE Justified'
  <2> DEFINE old == jobs[e][c]
             job == [old EXCEPT !.phase = "failed"]
  <2>1. jobs' = [jobs EXCEPT ![e][c] = job]
    BY <1>12 DEF StatementFails
  <2>2. \A row \in signals' \ signals : row.event = e /\ row.channel = request[e].channel
    BY <1>12 DEF StatementFails, SignalRow
  <2>3. old \in Job
    BY <1>j
  <2>4. job.phase = "failed" /\ job.matches = old.matches /\ job.at = old.at
    <3> HIDE DEF old
    <3> QED
      BY <2>3 DEF Job
  <2> HIDE DEF job
  <2>5. \A row \in job.matches :
               /\ row.event # e
               /\ row.channel # request[e].channel
               /\ row.entity \in request[e].entities
               /\ row.at - job.at \in -WindowSeconds..WindowSeconds
    BY <2>4 DEF Justified, MatchesAreJustified
  <2>6. jobs[e][c].phase # "none" /\ UNCHANGED <<pc, request>>
    BY <1>12 DEF StatementFails, apiVars
  <2> HIDE DEF old
  <2> QED
    BY <1>0, <2>1, <2>2, <2>4, <2>5, <2>6, JobStepJustified
<1>13. CASE Tick \/ UNCHANGED vars
  BY <1>0, <1>13 DEF Tick, vars, apiVars, mcpVars, Justified, NewIsUntouched, CorrelatedAfterwards,
                     RowsAreOfRequests, NothingFoundYet, MatchesAreJustified, Request
<1> QED
  BY <1>1, <1>2, <1>3, <1>4, <1>5, <1>6, <1>7, <1>8, <1>9, <1>10, <1>11, <1>12, <1>13
     DEF Next, BoundsReached

\* An event is never evidence against itself, and every match is an entity it
\* shares, within the window, with an event of another channel (find_matches),
\* however the handlers interleave and whatever fails.
THEOREM MatchesHold == Spec => []MatchesAreJustified
<1>1. Spec => []Justified
  BY InitJustified, NextJustified, PTL DEF Spec
<1>2. Justified => MatchesAreJustified
  BY DEF Justified
<1> QED
  BY <1>1, <1>2, PTL

-----------------------------------------------------------------------------
(***************************************************************************)
(* The audit table.  A row appears together with the end of its request,   *)
(* so a request that has not ended has no row yet.                         *)
(***************************************************************************)

RowsHaveEnded == \A row \in audit : pc[row.event] \in {"answered", "error"}

Stored == TypeOK /\ RowsHaveEnded /\ AnsweredIsAudited

LEMMA NextStored == Typed /\ Stored /\ [Next]_vars => Stored'
<1> SUFFICES ASSUME Typed, Stored, [Next]_vars PROVE Stored'
  OBVIOUS
<1>0. /\ pc \in [Events -> {"new", "analyzing", "correlating", "adding"} \cup Ended]
      /\ request \in [Events -> Request \cup {NoRequest}]
      /\ answer \in [Events -> Answer]
      /\ TypeOK'
  BY NextTyped DEF Typed, TypeOK
<1>k. ASSUME NEW e \in Events, pc[e] \notin {"answered", "error"}, UNCHANGED audit,
             \A a \in Events \ {e} : /\ pc'[a] = pc[a] /\ request'[a] = request[a]
                                      /\ answer'[a] = answer[a],
             pc'[e] = "answered" => request'[e].via \notin ApiProcesses
      PROVE  Stored'
  <2>1. \A row \in audit : row.event \in Events /\ row.event # e
    BY <1>k DEF Stored, TypeOK, Result, RowsHaveEnded
  <2>2. RowsHaveEnded'
    BY <1>k, <2>1 DEF Stored, RowsHaveEnded
  <2>3. AnsweredIsAudited'
    BY <1>k DEF Stored, AnsweredIsAudited
  <2> QED
    BY <1>0, <2>2, <2>3 DEF Stored
<1>1. ASSUME NEW e \in Events, Receive(e) PROVE Stored'
  BY <1>0, <1>1, <1>k DEF Receive
<1>2. ASSUME NEW e \in Events, AnalysisArrives(e) PROVE Stored'
  BY <1>0, <1>2, <1>k, CallAnalysisAssumption DEF AnalysisArrives, CorrelateJob
<1>3. ASSUME NEW e \in Events, AnalysisFails(e) PROVE Stored'
  BY <1>0, <1>3, <1>k DEF AnalysisFails
<1>4. ASSUME NEW e \in Events, CorrelationArrives(e) PROVE Stored'
  BY <1>0, <1>4, <1>k DEF CorrelationArrives
<1>5. ASSUME NEW e \in Events, CorrelationFails(e) PROVE Stored'
  BY <1>0, <1>5, <1>k DEF CorrelationFails
<1>6. ASSUME NEW e \in Events, Add(e) PROVE Stored'
  <2>1. \A row \in audit : row.event # e
    BY <1>6 DEF Add, Stored, RowsHaveEnded
  <2>2. RowsHaveEnded'
    BY <1>0, <1>6 DEF Add, Stored, RowsHaveEnded, AuditRow, TypeOK, Result
  <2>3. AnsweredIsAudited'
    <3>1. /\ AuditRow(e).event = e /\ AuditRow(e).score = answer[e].score
          /\ audit' = audit \cup {AuditRow(e)}
          /\ \A a \in Events \ {e} : pc'[a] = pc[a]
          /\ UNCHANGED <<request, answer>>
      BY <1>0, <1>6 DEF Add, AuditRow
    <3> QED
      BY <2>1, <3>1 DEF Stored, AnsweredIsAudited
  <2> QED
    BY <1>0, <2>2, <2>3 DEF Stored
<1>7. ASSUME NEW e \in Events, AddFails(e) PROVE Stored'
  <2>1. \A row \in audit : row.event # e
    BY <1>7 DEF AddFails, Stored, RowsHaveEnded
  <2>2. audit' = audit \/ audit' = audit \cup {AuditRow(e)}
    BY <1>7 DEF AddFails
  <2>3. RowsHaveEnded'
    BY <1>0, <1>7, <2>2 DEF AddFails, Stored, RowsHaveEnded, AuditRow, TypeOK, Result
  <2>4. AnsweredIsAudited'
    BY <1>0, <1>7, <2>1, <2>2 DEF AddFails, Stored, AnsweredIsAudited, AuditRow
  <2> QED
    BY <1>0, <2>3, <2>4 DEF Stored
<1>8. CASE UNCHANGED apiVars
  BY <1>0, <1>8 DEF apiVars, Stored, RowsHaveEnded, AnsweredIsAudited
<1>9. ASSUME NEW e \in Events,
             StartAnalysis(e) \/ \E c \in Calls : \/ ReadSignals(e, c) \/ InsertSignal(e, c)
                                               \/ CheckUrls(e, c) \/ StatementFails(e, c)
      PROVE  UNCHANGED apiVars
  BY <1>9 DEF StartAnalysis, ReadSignals, InsertSignal, CheckUrls, StatementFails
<1>10. Tick \/ UNCHANGED vars => UNCHANGED apiVars
  BY DEF Tick, vars, apiVars
<1> QED
  BY <1>1, <1>2, <1>3, <1>4, <1>5, <1>6, <1>7, <1>8, <1>9, <1>10 DEF Next, BoundsReached

\* No answer of POST /calls/analyze goes out before its row is in the audit
\* table, and no request leaves two rows (call_log_port.add).
THEOREM AnswersAreAudited == Spec => []AnsweredIsAudited
<1>1. Init => Typed /\ Stored
  BY InitTyped DEF Init, Typed, Stored, RowsHaveEnded, AnsweredIsAudited
<1>2. Typed /\ Stored /\ [Next]_vars => (Typed /\ Stored)'
  BY NextTyped, NextStored
<1>3. Typed /\ Stored => AnsweredIsAudited
  BY DEF Stored
<1> QED
  BY <1>1, <1>2, <1>3, PTL DEF Spec

-----------------------------------------------------------------------------
(***************************************************************************)
(* Earlier signals.  A correlation that is done has left a row for every   *)
(* entity it could see, and nothing takes a row away or changes a job that *)
(* is done; so a later read finds all of them, and what it finds stays.    *)
(***************************************************************************)

\* What a job has not recorded it still has to record.
Recorded ==
    \A e \in Events, c \in Calls :
        /\ jobs[e][c].phase \in {"record", "check", "done"} =>
              \A x \in Visible(e, c) \ jobs[e][c].todo : SignalRow(e, c, x) \in signals
        /\ jobs[e][c].phase \notin {"record", "failed"} => jobs[e][c].todo = {}
        /\ jobs[e][c].phase = "record" => jobs[e][c].todo \subseteq Visible(e, c)

EntitiesAreOfRequests == \A row \in signals : row.entity \in request[row.event].entities

EarlierAreDone ==
    \A e \in Events : \A a \in earlier[e] :
        request[a] \in Request /\ jobs[a][LastCall(a)].phase = "done"

\* The instance of EarlierSignalsAreFound for two events.
Found(e, a) ==
    (Related(a, e) /\ jobs[e][LastCall(e)].phase \in {"record", "check", "done"})
        => {row.entity : row \in Told(e, a)} = request[a].entities \cap request[e].entities

Complete == /\ Justified
            /\ Recorded
            /\ EntitiesAreOfRequests
            /\ EarlierAreDone
            /\ EarlierSignalsAreFound

LEMMA InitComplete == Init => Complete
<1> SUFFICES ASSUME Init PROVE Complete
  OBVIOUS
<1>1. \A e \in Events : earlier[e] = {}
  BY DEF Init
<1> QED
  BY <1>1, InitJustified DEF Init, Complete, Recorded, EntitiesAreOfRequests, EarlierAreDone,
                             EarlierSignalsAreFound, NoJob, Calls

\* The last call of an event sees all its entities.
LEMMA LastCallSeesAll ==
    ASSUME NEW e \in Events
    PROVE  LastCall(e) \in Calls /\ Visible(e, LastCall(e)) = request[e].entities
BY DEF LastCall, Visible, Calls

\* What was found stays found as long as the two requests, the times of their
\* last calls and the matches of the second stay.
LEMMA FoundKept ==
    ASSUME NEW e \in Events, NEW a \in Events, Found(e, a),
           request'[e] = request[e], request'[a] = request[a],
           jobs'[a][LastCall(a)].at = jobs[a][LastCall(a)].at,
           jobs'[e][LastCall(e)].at = jobs[e][LastCall(e)].at,
           jobs'[e][LastCall(e)].matches = jobs[e][LastCall(e)].matches,
           jobs'[e][LastCall(e)].phase \in {"record", "check", "done"}
               => jobs[e][LastCall(e)].phase \in {"record", "check", "done"}
    PROVE  Found(e, a)'
<1>1. LastCall(e)' = LastCall(e) /\ LastCall(a)' = LastCall(a)
  BY DEF LastCall
<1>2. At(e)' = At(e) /\ At(a)' = At(a)
  BY <1>1 DEF At
<1>3. Related(a, e)' <=> Related(a, e)
  BY <1>2 DEF Related, Near
<1>4. Told(e, a)' = Told(e, a)
  BY <1>1 DEF Told
<1> QED
  BY <1>1, <1>3, <1>4 DEF Found

\* A step that changes one job that is not done, and leaves the requests alone.
LEMMA JobStepComplete ==
    ASSUME Complete, Justified', UNCHANGED <<request, earlier>>, signals \subseteq signals',
           NEW e \in Events, NEW c \in Calls, jobs[e][c].phase # "done",
           NEW job, jobs' = [jobs EXCEPT ![e][c] = job],
           \A row \in signals' \ signals : row.event = e /\ row.entity \in request[e].entities,
           job.phase \in {"record", "check", "done"} =>
               \A x \in Visible(e, c) \ job.todo : SignalRow(e, c, x)' \in signals',
           job.phase \notin {"record", "failed"} => job.todo = {},
           job.phase = "record" => job.todo \subseteq Visible(e, c),
           c = LastCall(e) => \A a \in earlier[e] : Found(e, a)'
    PROVE  Complete'
<1>1. /\ jobs \in [Events -> [Calls -> Job]]
      /\ earlier \in [Events -> SUBSET Events]
  BY DEF Complete, Justified, Typed, TypeOK
<1>2. \A a \in Events, b \in Calls : jobs'[a][b] = IF a = e /\ b = c THEN job ELSE jobs[a][b]
  BY <1>1
<1>3. \A a \in Events : LastCall(a) \in Calls /\ LastCall(a)' = LastCall(a)
  BY DEF LastCall, Calls
<1>4. EarlierAreDone'
  <2> SUFFICES ASSUME NEW b \in Events, NEW a \in earlier[b]
               PROVE  request[a] \in Request /\ jobs'[a][LastCall(a)].phase = "done"
    BY <1>1, <1>3 DEF EarlierAreDone, Request
  <2>1. a \in Events /\ request[a] \in Request /\ jobs[a][LastCall(a)].phase = "done"
    BY <1>1 DEF Complete, EarlierAreDone
  <2>2. ~(a = e /\ LastCall(a) = c)
    BY <2>1
  <2> QED
    BY <1>2, <1>3, <2>1, <2>2
<1>5. EntitiesAreOfRequests'
  BY DEF Complete, EntitiesAreOfRequests
<1>6. Recorded'
  <2>1. \A a \in Events, b \in Calls : Visible(a, b)' = Visible(a, b)
    BY DEF Visible
  <2> SUFFICES ASSUME NEW a \in Events, NEW b \in Calls
               PROVE  /\ jobs'[a][b].phase \in {"record", "check", "done"} =>
                            \A x \in Visible(a, b) \ jobs'[a][b].todo : SignalRow(a, b, x)' \in signals'
                      /\ jobs'[a][b].phase \notin {"record", "failed"} => jobs'[a][b].todo = {}
                      /\ jobs'[a][b].phase = "record" => jobs'[a][b].todo \subseteq Visible(a, b)
    BY <2>1 DEF Recorded
  <2>2. CASE a = e /\ b = c
    BY <1>2, <2>2
  <2>3. CASE ~(a = e /\ b = c)
    <3>1. jobs'[a][b] = jobs[a][b]
      BY <1>2, <2>3
    <3>2. \A x : SignalRow(a, b, x)' = SignalRow(a, b, x)
      BY <3>1 DEF SignalRow
    <3> QED
      BY <3>1, <3>2 DEF Complete, Recorded
  <2> QED
    BY <2>2, <2>3
<1>7. EarlierSignalsAreFound'
  <2> SUFFICES ASSUME NEW b \in Events, NEW a \in earlier[b] PROVE Found(b, a)'
    BY DEF EarlierSignalsAreFound, Found
  <2>1. a \in Events /\ Found(b, a) /\ jobs[a][LastCall(a)].phase = "done"
    BY <1>1 DEF Complete, EarlierSignalsAreFound, Found, EarlierAreDone
  <2>2. jobs'[a][LastCall(a)] = jobs[a][LastCall(a)]
    BY <1>2, <1>3, <2>1
  <2>3. CASE b = e /\ c = LastCall(e)
    BY <2>3
  <2>4. CASE ~(b = e /\ c = LastCall(e))
    <3>1. jobs'[b][LastCall(b)] = jobs[b][LastCall(b)]
      BY <1>2, <1>3, <2>4
    <3> QED
      BY <2>1, <2>2, <3>1, FoundKept
  <2> QED
    BY <2>3, <2>4
<1> QED
  BY <1>4, <1>5, <1>6, <1>7 DEF Complete

\* A step of one job keeps what its event has found if it keeps the time and
\* the matches of the job, and does not bring it past the reading.
LEMMA FoundByJobStep ==
    ASSUME Complete, UNCHANGED <<request, earlier>>,
           NEW e \in Events, NEW c \in Calls, jobs[e][c].phase # "done",
           NEW job, jobs' = [jobs EXCEPT ![e][c] = job],
           job.at = jobs[e][c].at, job.matches = jobs[e][c].matches,
           job.phase \in {"record", "check", "done"}
               => jobs[e][c].phase \in {"record", "check", "done"}
    PROVE  \A a \in earlier[e] : Found(e, a)'
<1> SUFFICES ASSUME NEW a \in earlier[e] PROVE Found(e, a)'
  OBVIOUS
<1>1. /\ jobs \in [Events -> [Calls -> Job]]
      /\ earlier \in [Events -> SUBSET Events]
  BY DEF Complete, Justified, Typed, TypeOK
<1>2. \A b \in Events, d \in Calls : jobs'[b][d] = IF b = e /\ d = c THEN job ELSE jobs[b][d]
  BY <1>1
<1>3. a \in Events /\ Found(e, a) /\ jobs[a][LastCall(a)].phase = "done"
  BY <1>1 DEF Complete, EarlierSignalsAreFound, Found, EarlierAreDone
<1>4. LastCall(a) \in Calls /\ LastCall(e) \in Calls
  BY DEF LastCall, Calls
<1> QED
  BY <1>2, <1>3, <1>4, FoundKept

LEMMA NextComplete == Complete /\ [Next]_vars => Complete'
<1> SUFFICES ASSUME Complete, [Next]_vars PROVE Complete'
  OBVIOUS
<1>0. Justified /\ Justified' /\ Typed
  BY NextJustified DEF Complete, Justified
<1>j. /\ jobs \in [Events -> [Calls -> Job]]
      /\ request \in [Events -> Request \cup {NoRequest}]
      /\ earlier \in [Events -> SUBSET Events]
      /\ \A e \in Events, c \in Calls : jobs[e][c].phase # "none" => request[e] \in Request
  BY <1>0 DEF Typed, TypeOK, OnlyRequestedRun
<1>l. \A e \in Events : LastCall(e) \in Calls /\ Visible(e, LastCall(e)) = request[e].entities
  BY LastCallSeesAll
<1>k. ASSUME UNCHANGED <<request, earlier, jobs, signals>> PROVE Complete'
  <2>1. \A e \in Events, c \in Calls : /\ Visible(e, c)' = Visible(e, c)
                                       /\ \A x : SignalRow(e, c, x)' = SignalRow(e, c, x)
    BY <1>k DEF Visible, SignalRow
  <2>2. Recorded' /\ EntitiesAreOfRequests'
    <3>1. Recorded'
      <4> SUFFICES ASSUME NEW e \in Events, NEW c \in Calls
                   PROVE  /\ jobs[e][c].phase \in {"record", "check", "done"} =>
                                \A x \in Visible(e, c) \ jobs[e][c].todo : SignalRow(e, c, x) \in signals
                          /\ jobs[e][c].phase \notin {"record", "failed"} => jobs[e][c].todo = {}
                          /\ jobs[e][c].phase = "record" => jobs[e][c].todo \subseteq Visible(e, c)
        BY <1>k, <2>1 DEF Recorded
      <4> QED
        BY DEF Complete, Recorded
    <3>2. EntitiesAreOfRequests'
      BY <1>k DEF Complete, EntitiesAreOfRequests
    <3> QED
      BY <3>1, <3>2
  <2>3. EarlierAreDone'
    <3>1. \A a \in Events : LastCall(a)' = LastCall(a)
      BY <1>k DEF LastCall
    <3> QED
      BY <1>k, <1>j, <3>1 DEF Complete, EarlierAreDone, Request
  <2>4. EarlierSignalsAreFound'
    <3> SUFFICES ASSUME NEW e \in Events, NEW a \in earlier[e] PROVE Found(e, a)'
      BY <1>k DEF EarlierSignalsAreFound, Found
    <3>1. a \in Events /\ Found(e, a)
      BY <1>j DEF Complete, EarlierSignalsAreFound, Found
    <3> QED
      BY <1>k, <3>1, FoundKept
  <2> QED
    BY <1>0, <2>2, <2>3, <2>4 DEF Complete
<1>1. ASSUME NEW e \in Events, Receive(e) PROVE Complete'
  <2>1. /\ request[e] \notin Request
        /\ \A c \in Calls : jobs[e][c].phase = "none" /\ jobs[e][c].todo = {}
    BY <1>0, <1>1, <1>j DEF Receive, Justified, NewIsUntouched, Complete, Recorded
  <2>2. /\ \A a \in Events \ {e} : request'[a] = request[a] /\ jobs'[a] = jobs[a]
        /\ \A a \in Events \ {e} : earlier'[a] = earlier[a]
        /\ \A row \in signals : row.event \in Events \ {e}
        /\ signals' = signals
    BY <1>0, <1>1, <1>j, <2>1 DEF Receive, Justified, RowsAreOfRequests, Typed, TypeOK, Row
  <2>3. \A c \in Calls : jobs'[e][c].phase \in {"none", "queued"} /\ jobs'[e][c].todo = {}
    BY <1>1, <1>j, <2>1 DEF Receive, Calls, Job
  <2>4. Recorded'
    <3> SUFFICES ASSUME NEW a \in Events, NEW b \in Calls
                 PROVE  /\ jobs'[a][b].phase \in {"record", "check", "done"} =>
                              \A x \in Visible(a, b)' \ jobs'[a][b].todo : SignalRow(a, b, x)' \in signals'
                        /\ jobs'[a][b].phase \notin {"record", "failed"} => jobs'[a][b].todo = {}
                        /\ jobs'[a][b].phase = "record" => jobs'[a][b].todo \subseteq Visible(a, b)'
      BY DEF Recorded
    <3>1. CASE a = e
      BY <2>3, <3>1
    <3>2. CASE a # e
      <4>1. Visible(a, b)' = Visible(a, b) /\ \A x : SignalRow(a, b, x)' = SignalRow(a, b, x)
        BY <2>2, <3>2 DEF Visible, SignalRow
      <4> QED
        BY <2>2, <3>2, <4>1 DEF Complete, Recorded
    <3> QED
      BY <3>1, <3>2
  <2>5. EntitiesAreOfRequests'
    BY <2>2 DEF Complete, EntitiesAreOfRequests
  <2>6. \A a \in Events : request[a] \in Request => a # e
    BY <2>1
  <2>7. \A a \in Events \ {e} : LastCall(a)' = LastCall(a)
    BY <2>2 DEF LastCall
  <2>8. earlier'[e] = {a \in Events : request[a] # NoRequest /\ jobs[a][LastCall(a)].phase = "done"}
    BY <1>1, <1>j DEF Receive
  <2>9. Request' = Request
    BY <1>1 DEF Receive, Request
  <2>10. EarlierAreDone'
    <3> SUFFICES ASSUME NEW b \in Events, NEW a \in earlier'[b]
                 PROVE  request'[a] \in Request /\ jobs'[a][LastCall(a)'].phase = "done"
      BY <2>9 DEF EarlierAreDone
    <3>1. a \in Events /\ request[a] \in Request /\ jobs[a][LastCall(a)].phase = "done"
      BY <1>j, <2>2, <2>8 DEF Complete, EarlierAreDone
    <3> QED
      BY <2>2, <2>6, <2>7, <3>1
  <2>11. EarlierSignalsAreFound'
    <3> SUFFICES ASSUME NEW b \in Events, NEW a \in earlier'[b] PROVE Found(b, a)'
      BY DEF EarlierSignalsAreFound, Found
    <3>1. CASE b = e
      <4>1. LastCall(e)' \in Calls
        BY DEF LastCall, Calls
      <4> QED
        BY <2>3, <3>1, <4>1 DEF Found
    <3>2. CASE b # e
      <4>1. a \in Events \ {e} /\ Found(b, a)
        BY <1>j, <2>2, <2>6, <3>2 DEF Complete, EarlierAreDone, EarlierSignalsAreFound, Found
      <4> QED
        BY <2>2, <3>2, <4>1, FoundKept
    <3> QED
      BY <3>1, <3>2
  <2> QED
    BY <1>0, <2>4, <2>5, <2>10, <2>11 DEF Complete
<1>2. ASSUME NEW e \in Events, AnalysisArrives(e) PROVE Complete'
  <2>1. CASE jobs' = jobs
    BY <1>2, <1>k, <2>1 DEF AnalysisArrives, CorrelateJob
  <2>2. CASE jobs' # jobs
    <3> DEFINE old == jobs[e]["correlate"]
               score == jobs[e]["analyze"].score
               at == IF request[e].at = -1 THEN now ELSE request[e].at
               job == [old EXCEPT !.phase = "find", !.at = at, !.before = score, !.score = score]
    <3>1. jobs' = [jobs EXCEPT ![e]["correlate"] = job] /\ pc[e] = "analyzing"
      BY <1>2, <2>2 DEF AnalysisArrives, CorrelateJob
    <3>2. old \in Job /\ old.phase = "none" /\ old.todo = {}
      BY <1>0, <1>j, <3>1 DEF Calls, Complete, Recorded, Justified, CorrelatedAfterwards
    <3> HIDE DEF old, score, at
    <3>3. job.phase = "find" /\ job.todo = {}
      BY <3>2 DEF Job
    <3>4. "correlate" \in Calls /\ jobs[e]["correlate"].phase # "done"
      BY <3>2 DEF Calls, old
    <3> HIDE DEF job
    <3>5. jobs'[e]["correlate"] = job
      BY <1>j, <3>1, <3>4
    <3>6. UNCHANGED <<request, earlier, signals>>
      BY <1>2 DEF AnalysisArrives, CorrelateJob
    <3>7. "correlate" = LastCall(e) => \A a \in earlier[e] : Found(e, a)'
      BY <3>3, <3>5, <3>6 DEF Found, LastCall
    <3> QED
      BY <1>0, <3>1, <3>3, <3>4, <3>6, <3>7, JobStepComplete
  <2> QED
    BY <2>1, <2>2
<1>3. ASSUME NEW e \in Events, AnalysisFails(e) PROVE Complete'
  BY <1>k, <1>3 DEF AnalysisFails, mcpVars
<1>4. ASSUME NEW e \in Events, CorrelationArrives(e) PROVE Complete'
  BY <1>k, <1>4 DEF CorrelationArrives, mcpVars
<1>5. ASSUME NEW e \in Events, CorrelationFails(e) PROVE Complete'
  BY <1>k, <1>5 DEF CorrelationFails, mcpVars
<1>6. ASSUME NEW e \in Events, Add(e) PROVE Complete'
  BY <1>k, <1>6 DEF Add, mcpVars
<1>7. ASSUME NEW e \in Events, AddFails(e) PROVE Complete'
  BY <1>k, <1>7 DEF AddFails, mcpVars
<1>8. ASSUME NEW e \in Events, StartAnalysis(e) PROVE Complete'
  <2> DEFINE old == jobs[e]["analyze"]
             phase == IF Visible(e, "analyze") = {} THEN "done" ELSE "find"
  <2>1. PICK score \in Scores :
           jobs' = [jobs EXCEPT ![e]["analyze"] =
                      [old EXCEPT !.phase = phase, !.at = now, !.before = score, !.score = score]]
    BY <1>8 DEF StartAnalysis
  <2> DEFINE job == [old EXCEPT !.phase = phase, !.at = now, !.before = score, !.score = score]
  <2>2. /\ old \in Job /\ old.phase = "queued" /\ old.todo = {} /\ "analyze" \in Calls
        /\ jobs[e]["analyze"].phase = "queued"
    BY <1>8, <1>j DEF StartAnalysis, Calls, Complete, Recorded
  <2>3. jobs' = [jobs EXCEPT ![e]["analyze"] = job]
    BY <2>1
  <2>4. /\ phase \in {"find", "done"}
        /\ phase = "done" => Visible(e, "analyze") = {}
    OBVIOUS
  <2> HIDE DEF old, phase
  <2>5. job.phase = phase /\ job.todo = {}
    BY <2>2 DEF Job
  <2> HIDE DEF job
  <2>6. jobs'[e]["analyze"] = job
    BY <1>j, <2>2, <2>3
  <2>7. UNCHANGED <<request, earlier, signals>>
    BY <1>8 DEF StartAnalysis, apiVars
  <2>8. "analyze" = LastCall(e) => \A a \in earlier[e] : Found(e, a)'
    <3> SUFFICES ASSUME "analyze" = LastCall(e), NEW a \in earlier[e] PROVE Found(e, a)'
      OBVIOUS
    <3>1. LastCall(e)' = "analyze"
      BY <2>7 DEF LastCall
    <3>2. CASE phase = "find"
      BY <2>5, <2>6, <3>1, <3>2 DEF Found
    <3>3. CASE phase = "done"
      <4>1. request[e].entities = {}
        BY <1>l, <2>4, <3>3
      <4> QED
        BY <2>7, <4>1 DEF Found, Related
    <3> QED
      BY <2>4, <3>2, <3>3
  <2> QED
    BY <1>0, <2>2, <2>3, <2>4, <2>5, <2>7, <2>8, JobStepComplete
<1>9. ASSUME NEW e \in Events, NEW c \in Calls, ReadSignals(e, c) PROVE Complete'
  <2> DEFINE old == jobs[e][c]
             found == FindMatches(signals, request[e].channel, Visible(e, c), old.at)
             job == [old EXCEPT !.phase = "record", !.todo = Visible(e, c), !.matches = found]
  <2>1. jobs' = [jobs EXCEPT ![e][c] = job] /\ jobs[e][c].phase = "find"
    BY <1>9 DEF ReadSignals
  <2>2. old \in Job
    BY <1>j
  <2> HIDE DEF old, found
  <2>3. job.phase = "record" /\ job.todo = Visible(e, c) /\ job.matches = found /\ job.at = old.at
    BY <2>2 DEF Job
  <2> HIDE DEF job
  <2>4. jobs'[e][c] = job
    BY <1>j, <2>1
  <2>5. UNCHANGED <<request, earlier, signals>>
    BY <1>9 DEF ReadSignals, apiVars
  <2>6. c = LastCall(e) => \A a \in earlier[e] : Found(e, a)'
    <3> SUFFICES ASSUME c = LastCall(e), NEW a \in earlier[e], Related(a, e)'
                 PROVE  {row.entity : row \in Told(e, a)'} = request[a].entities \cap request[e].entities
      BY <2>5 DEF Found
    <3> DEFINE b == LastCall(a)
    <3>1. a \in Events /\ b \in Calls /\ jobs[a][b].phase = "done" /\ jobs[a][b].todo = {}
      BY <1>j, <1>l DEF Complete, EarlierAreDone, Recorded
    <3>2. \A x \in request[a].entities : SignalRow(a, b, x) \in signals
      BY <1>l, <3>1 DEF Complete, Recorded
    <3>3. LastCall(e)' = c /\ LastCall(a)' = b
      BY <2>5 DEF LastCall
    <3>4. jobs'[a][b] = jobs[a][b]
      BY <1>j, <2>1, <3>1
    <3>5. /\ request[a].channel # request[e].channel
          /\ jobs[a][b].at - WindowSeconds <= old.at
          /\ old.at <= jobs[a][b].at + WindowSeconds
      BY <2>3, <2>4, <2>5, <3>3, <3>4 DEF Related, Near, At
    <3>6. Told(e, a)' = {row \in found : row.event = a}
      BY <2>3, <2>4, <3>3 DEF Told
    <3>7. \A row \in found : row \in signals /\ row.entity \in request[e].entities
      BY <1>l DEF found, FindMatches
    <3>8. \A row \in found : row.event = a => row.entity \in request[a].entities
      BY <3>7 DEF Complete, EntitiesAreOfRequests
    <3>9. ASSUME NEW x \in request[a].entities \cap request[e].entities
          PROVE  SignalRow(a, b, x) \in found /\ SignalRow(a, b, x).event = a
                 /\ SignalRow(a, b, x).entity = x
      <4>1. jobs[a][b].at \in Int /\ old.at \in Int /\ WindowSeconds \in Int
        BY <1>0, <1>j, <2>2, <3>1, CallAnalysisAssumption, CorrelationAssumption DEF Job
      <4>2. /\ jobs[a][b].at >= old.at - WindowSeconds
            /\ jobs[a][b].at <= old.at + WindowSeconds
        BY <3>5, <4>1
      <4> HIDE DEF b
      <4>3. /\ SignalRow(a, b, x).event = a /\ SignalRow(a, b, x).entity = x
            /\ SignalRow(a, b, x).channel = request[a].channel
            /\ SignalRow(a, b, x).at = jobs[a][b].at
        BY DEF SignalRow
      <4>4. Visible(e, c) = request[e].entities
        BY <1>l
      <4> QED
        BY <3>2, <3>5, <4>2, <4>3, <4>4 DEF found, FindMatches
    <3> QED
      BY <3>6, <3>7, <3>8, <3>9
  <2> QED
    BY <1>0, <2>1, <2>3, <2>5, <2>6, JobStepComplete
<1>10. ASSUME NEW e \in Events, NEW c \in Calls, InsertSignal(e, c) PROVE Complete'
  <2> DEFINE old == jobs[e][c]
  <2>1. PICK entity \in NextEntities(old.todo) :
           /\ signals' = signals \cup {SignalRow(e, c, entity)}
           /\ jobs' = [jobs EXCEPT ![e][c] = [old EXCEPT
                          !.todo = StillToRecord(old.todo, entity),
                          !.phase = IF StillToRecord(old.todo, entity) = {} THEN "check" ELSE "record"]]
    BY <1>10 DEF InsertSignal
  <2> DEFINE todo == StillToRecord(old.todo, entity)
             job == [old EXCEPT !.todo = todo, !.phase = IF todo = {} THEN "check" ELSE "record"]
  <2>2. old \in Job /\ jobs' = [jobs EXCEPT ![e][c] = job] /\ jobs[e][c].phase = "record"
    <3>1. jobs[e][c].phase = "record"
      BY <1>10 DEF InsertSignal
    <3>2. jobs' = [jobs EXCEPT ![e][c] = job]
      BY <2>1
    <3> QED
      BY <1>j, <3>1, <3>2
  <2>3. todo = old.todo \ {entity} /\ entity \in old.todo
    BY <2>1 DEF StillToRecord, NextEntities
  <2> HIDE DEF todo
  <2>4. /\ job.phase \in {"check", "record"} /\ (job.phase = "check" => todo = {})
        /\ job.todo = todo /\ job.matches = old.matches /\ job.at = old.at
    <3> HIDE DEF old
    <3> QED
      BY <2>2 DEF Job
  <2>11. job.phase = "record" => job.todo \subseteq Visible(e, c)
    BY <2>2, <2>3, <2>4 DEF Complete, Recorded
  <2> HIDE DEF job
  <2>5. UNCHANGED <<request, earlier>>
    BY <1>10 DEF InsertSignal, apiVars
  <2>6. jobs'[e][c] = job
    BY <1>j, <2>2
  <2>7. \A x : SignalRow(e, c, x)' = SignalRow(e, c, x)
    BY <2>4, <2>5, <2>6 DEF SignalRow
  <2>8. \A x \in Visible(e, c) \ job.todo : SignalRow(e, c, x)' \in signals'
    BY <2>1, <2>2, <2>3, <2>4, <2>7 DEF Complete, Recorded
  <2>9. \A row \in signals' \ signals : row.event = e /\ row.entity \in request[e].entities
    <3>1. entity \in request[e].entities
      BY <2>2, <2>3 DEF Complete, Recorded, Visible
    <3> QED
      BY <2>1, <3>1 DEF SignalRow
  <2>10. \A a \in earlier[e] : Found(e, a)'
    BY <2>2, <2>4, <2>5, FoundByJobStep
  <2>12. signals \subseteq signals' /\ jobs' = [jobs EXCEPT ![e][c] = job] /\ jobs[e][c].phase # "done"
    BY <2>1, <2>2
  <2>13. job.phase \notin {"record", "failed"} => job.todo = {}
    BY <2>4
  <2> HIDE DEF old
  <2> QED
    BY <1>0, <2>5, <2>8, <2>9, <2>10, <2>11, <2>12, <2>13, JobStepComplete
<1>11. ASSUME NEW e \in Events, NEW c \in Calls, CheckUrls(e, c) PROVE Complete'
  <2> DEFINE old == jobs[e][c]
  <2>1. PICK flagged, score : jobs' = [jobs EXCEPT ![e][c] =
           [old EXCEPT !.phase = "done", !.flagged = flagged, !.score = score]]
    BY <1>11 DEF CheckUrls
  <2> DEFINE job == [old EXCEPT !.phase = "done", !.flagged = flagged, !.score = score]
  <2>2. /\ old \in Job /\ jobs' = [jobs EXCEPT ![e][c] = job] /\ jobs[e][c].phase = "check"
        /\ old.todo = {}
    <3>1. jobs[e][c].phase = "check"
      BY <1>11 DEF CheckUrls
    <3>2. jobs' = [jobs EXCEPT ![e][c] = job]
      BY <2>1
    <3>3. jobs[e][c].todo = {}
      BY <3>1 DEF Complete, Recorded
    <3> QED
      BY <1>j, <3>1, <3>2, <3>3
  <2>3. job.phase = "done" /\ job.matches = old.matches /\ job.at = old.at /\ job.todo = {}
    <3> HIDE DEF old
    <3> QED
      BY <2>2 DEF Job
  <2> HIDE DEF job
  <2>4. UNCHANGED <<request, earlier, signals>>
    BY <1>11 DEF CheckUrls, apiVars
  <2>5. jobs'[e][c] = job
    BY <1>j, <2>2
  <2>6. \A x \in Visible(e, c) \ job.todo : SignalRow(e, c, x)' \in signals'
    <3>1. \A x : SignalRow(e, c, x)' = SignalRow(e, c, x)
      BY <2>3, <2>4, <2>5 DEF SignalRow
    <3> QED
      BY <2>2, <2>3, <2>4, <3>1 DEF Complete, Recorded
  <2>7. \A a \in earlier[e] : Found(e, a)'
    BY <2>2, <2>3, <2>4, FoundByJobStep
  <2> HIDE DEF old
  <2> QED
    BY <1>0, <2>2, <2>3, <2>4, <2>6, <2>7, JobStepComplete
<1>12. ASSUME NEW e \in Events, NEW c \in Calls, StatementFails(e, c) PROVE Complete'
  <2> DEFINE old == jobs[e][c]
             job == [old EXCEPT !.phase = "failed"]
  <2>1. jobs' = [jobs EXCEPT ![e][c] = job] /\ jobs[e][c].phase \in {"find", "record"}
    BY <1>12 DEF StatementFails
  <2>2. old \in Job
    BY <1>j
  <2>3. /\ signals \subseteq signals'
        /\ \A row \in signals' \ signals : row.event = e /\ row.entity \in request[e].entities
    <3>1. \A entity \in NextEntities(jobs[e][c].todo) : entity \in request[e].entities
      BY <2>1 DEF Complete, Recorded, Visible, NextEntities
    <3> QED
      BY <1>12, <3>1 DEF StatementFails, SignalRow
  <2>4. job.phase = "failed" /\ job.matches = old.matches /\ job.at = old.at
    <3> HIDE DEF old
    <3> QED
      BY <2>2 DEF Job
  <2> HIDE DEF job
  <2>5. UNCHANGED <<request, earlier>>
    BY <1>12 DEF StatementFails, apiVars
  <2>6. \A a \in earlier[e] : Found(e, a)'
    BY <2>1, <2>4, <2>5, FoundByJobStep
  <2> HIDE DEF old
  <2> QED
    BY <1>0, <2>1, <2>3, <2>4, <2>5, <2>6, JobStepComplete
<1>13. CASE Tick \/ UNCHANGED vars
  BY <1>k, <1>13 DEF Tick, vars, apiVars, mcpVars
<1> QED
  BY <1>1, <1>2, <1>3, <1>4, <1>5, <1>6, <1>7, <1>8, <1>9, <1>10, <1>11, <1>12, <1>13
     DEF Next, BoundsReached

\* Whatever ran in between, a request whose predecessor's signals were complete
\* when it came in is told of every entity they share: record precedes the
\* answer, and nothing takes a signal away.
THEOREM EarlierSignalsHold == Spec => []EarlierSignalsAreFound
<1>1. Spec => []Complete
  BY InitComplete, NextComplete, PTL DEF Spec
<1>2. Complete => EarlierSignalsAreFound
  BY DEF Complete
<1> QED
  BY <1>1, <1>2, PTL

-----------------------------------------------------------------------------
(***************************************************************************)
(* Pairs.  A process of apps/api serves one request after the other, so    *)
(* of two requests that it gets the later one finds the correlation of the *)
(* earlier one done, as long as no answer is lost and no statement fails.  *)
(***************************************************************************)

Busy == {"analyzing", "correlating", "adding"}

\* A request to the api that carries entities and has not failed.
Named(e) ==
    /\ pc[e] \in Busy \cup {"answered"}
    /\ request[e].via \in ApiProcesses /\ request[e].entities # {}

NothingFailed == timeouts = 0 /\ faults = 0

OneAtATime == \A a, b \in Serving : request[a].via = request[b].via => a = b

OnlyFaultsFail ==
    faults = 0 => \A e \in Events, c \in Calls : jobs[e][c].phase # "failed"

CorrelatedInTime ==
    NothingFailed =>
        \A e \in Events : Named(e) /\ pc[e] \in {"adding", "answered"} =>
            jobs[e]["correlate"].phase = "done"

OneIsEarlier ==
    NothingFailed =>
        \A a, b \in Events :
            a # b /\ Named(a) /\ Named(b) /\ request[a].via = request[b].via
                => a \in earlier[b] \/ b \in earlier[a]

InOrder ==
    /\ \A e \in Events : pc[e] # "new" => request[e] \in Request
    /\ OneAtATime
    /\ OnlyFaultsFail
    /\ CorrelatedInTime
    /\ OneIsEarlier

LEMMA InitInOrder == Init => InOrder
<1> SUFFICES ASSUME Init PROVE InOrder
  OBVIOUS
<1>1. \A e \in Events : pc[e] = "new" /\ \A c \in Calls : jobs[e][c].phase = "none"
  BY DEF Init, NoJob, Calls
<1>2. Serving = {}
  BY <1>1 DEF Serving
<1> QED
  BY <1>1, <1>2 DEF InOrder, OneAtATime, OnlyFaultsFail, CorrelatedInTime, OneIsEarlier, Named,
                    Busy

\* The steps of a job.
Running(e, c) ==
    \/ c = "analyze" /\ StartAnalysis(e)
    \/ ReadSignals(e, c) \/ InsertSignal(e, c) \/ CheckUrls(e, c) \/ StatementFails(e, c)

LEMMA RunningEffect ==
    ASSUME Typed, NEW e \in Events, NEW c \in Calls, Running(e, c)
    PROVE  /\ UNCHANGED <<pc, request, answer, audit, earlier, timeouts>>
           /\ jobs[e][c].phase \in {"queued", "find", "record", "check"}
           /\ \A a \in Events, b \in Calls : a # e \/ b # c => jobs'[a][b] = jobs[a][b]
           /\ \/ faults' = faults /\ jobs'[e][c].phase # "failed"
              \/ faults' = faults + 1
<1>j. jobs \in [Events -> [Calls -> Job]] /\ jobs[e][c] \in Job
  BY DEF Typed, TypeOK
<1>1. CASE c = "analyze" /\ StartAnalysis(e)
  <2>1. PICK score \in Scores :
          jobs' = [jobs EXCEPT ![e][c] =
                     [jobs[e][c] EXCEPT !.phase = IF Visible(e, c) = {} THEN "done" ELSE "find",
                                        !.at = now, !.before = score, !.score = score]]
    BY <1>1, <1>j DEF StartAnalysis
  <2> DEFINE phase == IF Visible(e, c) = {} THEN "done" ELSE "find"
             job == [jobs[e][c] EXCEPT !.phase = phase, !.at = now, !.before = score,
                                       !.score = score]
  <2>2. phase # "failed"
    OBVIOUS
  <2> HIDE DEF phase
  <2>3. job.phase = phase
    BY <1>j DEF Job
  <2>4. jobs' = [jobs EXCEPT ![e][c] = job]
    BY <2>1 DEF phase
  <2> HIDE DEF job
  <2>5. /\ jobs'[e][c] = job
        /\ \A a \in Events, b \in Calls : a # e \/ b # c => jobs'[a][b] = jobs[a][b]
    BY <1>j, <2>4
  <2> QED
    BY <1>1, <2>2, <2>3, <2>5 DEF StartAnalysis, apiVars
<1>2. CASE ReadSignals(e, c)
  BY <1>2, <1>j DEF ReadSignals, apiVars, Job
<1>3. CASE InsertSignal(e, c)
  <2>1. PICK entity \in NextEntities(jobs[e][c].todo) :
          jobs' = [jobs EXCEPT ![e][c] =
                     [@ EXCEPT !.todo = StillToRecord(jobs[e][c].todo, entity),
                               !.phase = IF StillToRecord(jobs[e][c].todo, entity) = {}
                                         THEN "check" ELSE "record"]]
    BY <1>3 DEF InsertSignal
  <2> QED
    BY <1>3, <1>j, <2>1 DEF InsertSignal, apiVars, Job
<1>4. CASE CheckUrls(e, c)
  <2>1. PICK flagged \in {{}, Visible(e, c) \cap Malicious} :
          jobs' = [jobs EXCEPT ![e][c] =
                      [@ EXCEPT !.phase = "done",
                                !.flagged = flagged,
                                !.score = Boosted(jobs[e][c].before,
                                                  Boost(jobs[e][c].matches, flagged))]]
    BY <1>4 DEF CheckUrls
  <2> QED
    BY <1>4, <1>j, <2>1 DEF CheckUrls, apiVars, Job
<1>5. CASE StatementFails(e, c)
  <2>1. jobs' = [jobs EXCEPT ![e][c] = [jobs[e][c] EXCEPT !.phase = "failed"]]
    BY <1>5, <1>j DEF StatementFails
  <2>2. \A a \in Events, b \in Calls : a # e \/ b # c => jobs'[a][b] = jobs[a][b]
    BY <1>j, <2>1
  <2> QED
    BY <1>5, <2>2 DEF StatementFails, apiVars
<1> QED
  BY <1>1, <1>2, <1>3, <1>4, <1>5 DEF Running

\* The steps of the api's handler for a request that it has received.
Handling(e) ==
    \/ AnalysisArrives(e) \/ AnalysisFails(e) \/ CorrelationArrives(e) \/ CorrelationFails(e)
    \/ Add(e) \/ AddFails(e)

LEMMA HandlingEffect ==
    ASSUME Typed, CorrelatedAfterwards, NEW e \in Events, Handling(e)
    PROVE  /\ UNCHANGED <<request, earlier>>
           /\ pc[e] \in Busy
           /\ pc'[e] \in Busy \cup Ended
           /\ \A a \in Events \ {e} : pc'[a] = pc[a]
           /\ \A a \in Events : jobs'[a]["analyze"] = jobs[a]["analyze"]
           /\ \A a \in Events \ {e} : jobs'[a]["correlate"] = jobs[a]["correlate"]
           /\ \/ jobs'[e]["correlate"] = jobs[e]["correlate"]
              \/ /\ pc[e] = "analyzing" /\ pc'[e] = "correlating"
                 /\ jobs[e]["correlate"].phase = "none" /\ jobs'[e]["correlate"].phase = "find"
<1>j. /\ jobs \in [Events -> [Calls -> Job]] /\ "correlate" \in Calls /\ "analyze" \in Calls
      /\ pc \in [Events -> {"new", "analyzing", "correlating", "adding"} \cup Ended]
  BY DEF Typed, TypeOK, Calls
<1>1. CASE AnalysisArrives(e)
  <2> DEFINE job == CorrelateJob(e)
  <2>1. job.phase = "find"
    BY <1>j DEF CorrelateJob, Job
  <2>2. jobs[e]["correlate"].phase = "none"
    BY <1>1 DEF AnalysisArrives, CorrelatedAfterwards
  <2> HIDE DEF job
  <2>3. \/ jobs' = jobs
        \/ /\ pc' = [pc EXCEPT ![e] = "correlating"]
           /\ jobs' = [jobs EXCEPT ![e]["correlate"] = job]
    BY <1>1 DEF AnalysisArrives, job
  <2>4. /\ \A a \in Events : jobs'[a]["analyze"] = jobs[a]["analyze"]
        /\ \A a \in Events \ {e} : jobs'[a]["correlate"] = jobs[a]["correlate"]
        /\ \/ jobs'[e]["correlate"] = jobs[e]["correlate"]
           \/ jobs'[e]["correlate"] = job /\ pc'[e] = "correlating"
    BY <1>j, <2>3
  <2>5. /\ UNCHANGED <<request, earlier>>
        /\ pc[e] = "analyzing" /\ pc'[e] \in {"answered", "adding", "correlating"}
        /\ \A a \in Events \ {e} : pc'[a] = pc[a]
    BY <1>1, <1>j DEF AnalysisArrives
  <2>6. pc[e] \in Busy /\ pc'[e] \in Busy \cup Ended
    BY <2>5 DEF Busy, Ended
  <2> QED
    BY <2>1, <2>2, <2>4, <2>5, <2>6
<1>2. CASE AnalysisFails(e) \/ CorrelationArrives(e) \/ CorrelationFails(e) \/ Add(e) \/ AddFails(e)
  BY <1>2, <1>j DEF AnalysisFails, CorrelationArrives, CorrelationFails, Add, AddFails, mcpVars,
                    Busy, Ended
<1> QED
  BY <1>1, <1>2 DEF Handling

LEMMA ReceiveInOrder ==
    ASSUME Typed, InOrder, NEW e \in Events, Receive(e)
    PROVE  InOrder'
<1>j. /\ jobs \in [Events -> [Calls -> Job]] /\ "correlate" \in Calls /\ "analyze" \in Calls
      /\ pc \in [Events -> {"new", "analyzing", "correlating", "adding"} \cup Ended]
      /\ request \in [Events -> Request \cup {NoRequest}]
      /\ earlier \in [Events -> SUBSET Events]
      /\ request' \in [Events -> Request \cup {NoRequest}]
  BY NextTyped DEF Typed, TypeOK, Calls, Next
<1>r. PICK r \in Requests : \E at \in OccurredAt(r.channel, r.via) :
        /\ \A a \in Serving : request[a].via # r.via
        /\ request' = [request EXCEPT ![e] = [channel |-> r.channel, entities |-> r.entities,
                                              via |-> r.via, at |-> at]]
  BY DEF Receive
<1>1. PICK at : /\ \A a \in Serving : request[a].via # r.via
                /\ request' = [request EXCEPT ![e] = [channel |-> r.channel,
                                                      entities |-> r.entities,
                                                      via |-> r.via, at |-> at]]
  BY <1>r
<1>2. r.via \in ApiProcesses \cup {"mcp"}
  BY CallAnalysisAssumption
<1>3. /\ request'[e].via = r.via /\ request'[e] \in Request
      /\ \A a \in Events \ {e} : request'[a] = request[a]
  <2>1. request'[e].via = r.via /\ \A a \in Events \ {e} : request'[a] = request[a]
    BY <1>j, <1>1
  <2>2. request'[e] # NoRequest
    BY <1>2, <2>1, CallAnalysisAssumption DEF NoRequest
  <2> QED
    BY <1>j, <2>1, <2>2
<1>4. /\ pc[e] = "new" /\ pc'[e] = "analyzing"
      /\ \A a \in Events \ {e} : pc'[a] = pc[a]
      /\ UNCHANGED <<timeouts, faults>>
  BY <1>j DEF Receive
<1>5. /\ \A a \in Events : jobs'[a]["correlate"] = jobs[a]["correlate"]
      /\ \A a \in Events \ {e} : jobs'[a] = jobs[a]
      /\ jobs'[e]["analyze"].phase = "queued"
  BY <1>j DEF Receive, Job
<1>6. \A a \in Events \ {e} :
        request[a].via = r.via /\ r.via \in ApiProcesses => pc[a] \in {"new"} \cup Ended
  <2> SUFFICES ASSUME NEW a \in Events \ {e}, request[a].via = r.via, r.via \in ApiProcesses,
                      pc[a] \in Busy
               PROVE  FALSE
    BY <1>j DEF Busy
  <2>1. a \in Serving
    BY DEF Serving, Busy
  <2> QED
    BY <1>1, <2>1
<1>7. /\ earlier'[e] = {a \in Events : request[a] # NoRequest /\ jobs[a][LastCall(a)].phase = "done"}
      /\ \A a \in Events \ {e} : earlier'[a] = earlier[a]
  BY <1>j DEF Receive
<1>8. \A a \in Events \ {e} :
        Named(a)' => Named(a) /\ (request[a].via = r.via => pc[a] = "answered")
  BY <1>3, <1>4, <1>6 DEF Named, Busy, Ended
<1>9. OneAtATime'
  <2>1. \A a \in Serving' \ {e} : a \in Serving
    BY <1>3, <1>4 DEF Serving
  <2>2. \A a \in Serving' \ {e} : request'[a].via # r.via /\ request'[a].via = request[a].via
    BY <1>1, <1>3, <2>1 DEF Serving
  <2> QED
    BY <1>3, <2>1, <2>2 DEF InOrder, OneAtATime
<1>10. OnlyFaultsFail'
  BY <1>4, <1>5 DEF InOrder, OnlyFaultsFail, Calls
<1>11. CorrelatedInTime'
  BY <1>4, <1>5, <1>8 DEF InOrder, CorrelatedInTime, NothingFailed
<1>12. OneIsEarlier'
  <2> SUFFICES ASSUME NothingFailed, NEW a \in Events, NEW b \in Events, a # b,
                      Named(a)', Named(b)', request'[a].via = request'[b].via
               PROVE  a \in earlier'[b] \/ b \in earlier'[a]
    BY <1>4 DEF OneIsEarlier, NothingFailed
  <2>1. ASSUME NEW x \in Events \ {e}, Named(x)', request'[x].via = r.via
        PROVE  x \in earlier'[e]
    <3>1. Named(x) /\ pc[x] = "answered"
      BY <1>3, <1>8, <2>1
    <3>2. jobs[x]["correlate"].phase = "done"
      BY <3>1 DEF InOrder, CorrelatedInTime
    <3>3. request[x].via \in ApiProcesses /\ request[x] # NoRequest
      BY <3>1, CallAnalysisAssumption DEF Named, NoRequest
    <3> QED
      BY <1>7, <3>2, <3>3 DEF LastCall
  <2>2. CASE a # e /\ b # e
    BY <1>3, <1>7, <1>8, <2>2 DEF InOrder, OneIsEarlier
  <2>3. CASE a = e \/ b = e
    BY <1>3, <2>1, <2>3
  <2> QED
    BY <2>2, <2>3
<1>13. \A a \in Events : pc'[a] # "new" => request'[a] \in Request
  BY <1>3, <1>4 DEF InOrder
<1>14. Request' = Request
  BY DEF Request
<1> QED
  BY <1>9, <1>10, <1>11, <1>12, <1>13, <1>14 DEF InOrder

LEMMA HandlingInOrder ==
    ASSUME Typed, CorrelatedAfterwards, InOrder, NEW e \in Events, Handling(e)
    PROVE  InOrder'
<1>1. /\ UNCHANGED <<request, earlier>>
      /\ pc[e] \in Busy
      /\ pc'[e] \in Busy \cup Ended
      /\ \A a \in Events \ {e} : pc'[a] = pc[a]
      /\ \A a \in Events : jobs'[a]["analyze"] = jobs[a]["analyze"]
      /\ \A a \in Events \ {e} : jobs'[a]["correlate"] = jobs[a]["correlate"]
      /\ \/ jobs'[e]["correlate"] = jobs[e]["correlate"]
         \/ /\ pc[e] = "analyzing" /\ pc'[e] = "correlating"
            /\ jobs[e]["correlate"].phase = "none" /\ jobs'[e]["correlate"].phase = "find"
  BY HandlingEffect
<1>n. /\ timeouts \in Nat /\ faults \in Nat
      /\ pc \in [Events -> {"new", "analyzing", "correlating", "adding"} \cup Ended]
      /\ Request' = Request
  BY CallAnalysisAssumption DEF Typed, TypeOK, Request
<1>2. NothingFailed' => NothingFailed
  BY <1>n DEF Handling, AnalysisArrives, AnalysisFails, CorrelationArrives, CorrelationFails, Add,
              AddFails, CallRaises, NothingFailed
<1>3. faults' = 0 => faults = 0
  BY <1>n DEF Handling, AnalysisArrives, AnalysisFails, CorrelationArrives, CorrelationFails, Add,
              AddFails
<1>4. OneAtATime'
  BY <1>1 DEF InOrder, OneAtATime, Serving, Busy
<1>5. OnlyFaultsFail'
  BY <1>1, <1>3 DEF InOrder, OnlyFaultsFail, Calls
<1>6. \A a \in Events : Named(a)' => Named(a)
  BY <1>1 DEF Named
<1>7. OneIsEarlier'
  BY <1>1, <1>2, <1>6 DEF InOrder, OneIsEarlier
<1>8. CorrelatedInTime'
  <2> SUFFICES ASSUME NothingFailed', NEW a \in Events, Named(a)', pc'[a] \in {"adding", "answered"}
               PROVE  jobs'[a]["correlate"].phase = "done"
    BY DEF CorrelatedInTime
  <2>1. CASE a # e
    BY <1>1, <1>2, <1>6, <2>1 DEF InOrder, CorrelatedInTime
  <2>2. CASE a = e
    <3>1. jobs'[e]["correlate"] = jobs[e]["correlate"]
      BY <1>1, <2>2
    <3>2. Named(e) /\ request[e].entities # {} /\ request[e].via \in ApiProcesses
      BY <1>1, <1>6, <2>2 DEF Named, Busy
    <3>3. ~AnalysisArrives(e)
      BY <1>n, <2>2, <3>2, CallAnalysisAssumption DEF AnalysisArrives
    <3>4. ~AnalysisFails(e)
      BY <1>n, <2>2 DEF AnalysisFails
    <3>5. ~CorrelationFails(e)
      BY <1>2, <1>n DEF CorrelationFails, CallRaises, NothingFailed, InOrder, OnlyFaultsFail, Calls
    <3>6. CASE CorrelationArrives(e)
      BY <3>1, <3>6, <2>2 DEF CorrelationArrives
    <3>7. CASE Add(e) \/ AddFails(e)
      <4>1. pc[e] = "adding"
        BY <3>7 DEF Add, AddFails
      <4> QED
        BY <1>2, <2>2, <3>1, <3>2, <4>1 DEF InOrder, CorrelatedInTime
    <3> QED
      BY <3>3, <3>4, <3>5, <3>6, <3>7 DEF Handling
  <2> QED
    BY <2>1, <2>2
<1>9. \A a \in Events : pc'[a] # "new" => request'[a] \in Request'
  BY <1>1, <1>n DEF InOrder, Busy
<1> QED
  BY <1>4, <1>5, <1>7, <1>8, <1>9 DEF InOrder

LEMMA RunningInOrder ==
    ASSUME Typed, InOrder, NEW e \in Events, NEW c \in Calls, Running(e, c)
    PROVE  InOrder'
<1>1. /\ UNCHANGED <<pc, request, answer, audit, earlier, timeouts>>
      /\ jobs[e][c].phase \in {"queued", "find", "record", "check"}
      /\ \A a \in Events, b \in Calls : a # e \/ b # c => jobs'[a][b] = jobs[a][b]
      /\ \/ faults' = faults /\ jobs'[e][c].phase # "failed"
         \/ faults' = faults + 1
  BY RunningEffect
<1>n. faults \in Nat /\ Request' = Request
  BY CallAnalysisAssumption DEF Typed, TypeOK, Request
<1>2. NothingFailed' => NothingFailed
  BY <1>1, <1>n DEF NothingFailed
<1>3. \A a \in Events : Named(a)' = Named(a)
  BY <1>1 DEF Named
<1>4. OnlyFaultsFail'
  BY <1>1, <1>n DEF InOrder, OnlyFaultsFail
<1>5. CorrelatedInTime'
  BY <1>1, <1>2, <1>3 DEF InOrder, CorrelatedInTime, Calls
<1>6. OneIsEarlier'
  BY <1>1, <1>2, <1>3 DEF InOrder, OneIsEarlier
<1>7. OneAtATime'
  BY <1>1 DEF InOrder, OneAtATime, Serving
<1> QED
  BY <1>1, <1>n, <1>4, <1>5, <1>6, <1>7 DEF InOrder

LEMMA NextInOrder ==
    ASSUME Complete, InOrder, [Next]_vars
    PROVE  InOrder'
<1>0. Typed /\ CorrelatedAfterwards
  BY DEF Complete, Justified
<1>1. CASE \E e \in Events : Receive(e)
  BY <1>0, <1>1, ReceiveInOrder
<1>2. CASE \E e \in Events : Handling(e)
  BY <1>0, <1>2, HandlingInOrder
<1>3. CASE \E e \in Events, c \in Calls : Running(e, c)
  BY <1>0, <1>3, RunningInOrder
<1>4. CASE Tick \/ UNCHANGED vars
  <2>1. UNCHANGED <<pc, request, jobs, earlier, timeouts, faults>>
    BY <1>4 DEF Tick, vars, apiVars, mcpVars
  <2> QED
    BY <2>1 DEF InOrder, OneAtATime, Serving, OnlyFaultsFail, CorrelatedInTime, OneIsEarlier,
                Named, NothingFailed, Request
<1> QED
  BY <1>1, <1>2, <1>3, <1>4 DEF Next, Handling, Running, BoundsReached, Calls

\* Of two related requests that the same process of the api served, the later
\* one is told of the earlier one, whatever other processes and other clients
\* of mcp-server do meanwhile, until an answer is lost or a statement fails:
\* the order in AnalyzeCallService.execute and its synchronous calls suffice.
THEOREM PairsMeet == Spec => []PairsAreSeen
<1>1. ASSUME Complete, InOrder PROVE PairsAreSeen
  <2> SUFFICES ASSUME NothingFailed, NEW a \in Events, NEW b \in Events, a # b,
                      pc[a] = "answered", pc[b] = "answered", request[a].via = request[b].via,
                      request[a].via \in ApiProcesses, Related(a, b)
               PROVE  Told(a, b) # {} \/ Told(b, a) # {}
    BY DEF PairsAreSeen, NothingFailed
  <2>1. ASSUME NEW x \in Events, NEW y \in Events, pc[y] = "answered", Related(x, y),
               Named(y), x \in earlier[y]
        PROVE  Told(y, x) # {}
    <3>1. jobs[y]["correlate"].phase = "done" /\ request[y].via \in ApiProcesses
      BY <1>1, <2>1 DEF InOrder, CorrelatedInTime, Named
    <3>2. {row.entity : row \in Told(y, x)} = request[x].entities \cap request[y].entities
      BY <1>1, <2>1, <3>1 DEF Complete, EarlierSignalsAreFound, LastCall
    <3> QED
      BY <2>1, <3>2 DEF Related
  <2>2. Named(a) /\ Named(b)
    BY DEF Named, Related
  <2>3. Related(b, a)
    <3>1. /\ At(a) = jobs[a]["correlate"].at /\ At(b) = jobs[b]["correlate"].at
      BY DEF At, LastCall
    <3>2. At(a) \in Int /\ At(b) \in Int /\ WindowSeconds \in Int
      BY <1>1, <3>1, CallAnalysisAssumption, CorrelationAssumption
      DEF Complete, Justified, Typed, TypeOK, Job, Calls
    <3>3. Near(b, a)
      BY <3>2 DEF Related, Near
    <3> QED
      BY <3>3 DEF Related
  <2>4. a \in earlier[b] \/ b \in earlier[a]
    BY <1>1, <2>2 DEF InOrder, OneIsEarlier
  <2> QED
    BY <2>1, <2>2, <2>3, <2>4
<1>2. Spec => []Complete
  BY InitComplete, NextComplete, PTL DEF Spec
<1>3. Spec => []InOrder
  <2>1. Complete /\ InOrder /\ [Next]_vars => InOrder'
    BY NextInOrder
  <2> QED
    BY <1>2, <2>1, InitInOrder, PTL DEF Spec
<1> QED
  BY <1>1, <1>2, <1>3, PTL

-----------------------------------------------------------------------------
(***************************************************************************)
(* The boost.  If what masking leaves of a text is empty, the correlation  *)
(* inside the analysis has nothing to do: every signal has one row for     *)
(* each entity, and the boost counts each entity of an event once.         *)
(***************************************************************************)

\* The texts that go through the api name no URL.
NoUrlThroughApi == \A r \in Requests : r.via \in ApiProcesses => r.entities \cap Urls = {}

\* The rows of an event come from its last call and carry its time.
SoleRows ==
    \A row \in signals :
        /\ row.call = LastCall(row.event)
        /\ row = SignalRow(row.event, row.call, row.entity)
        /\ jobs[row.event][row.call].phase \notin {"none", "queued", "find"}

\* A score and matches that are those of the analyzer, or those of the
\* correlation that is done.
Sound(e, score, matches) ==
    \/ score = jobs[e]["analyze"].before /\ matches = {}
    \/ /\ jobs[e]["correlate"].phase = "done"
       /\ score = jobs[e]["correlate"].score
       /\ matches = jobs[e]["correlate"].matches

\* The analysis has not correlated, ...
Unraised(e) ==
    /\ jobs[e]["analyze"].phase \in {"none", "queued", "done"}
    /\ jobs[e]["analyze"].matches = {}
    /\ jobs[e]["analyze"].score = jobs[e]["analyze"].before

\* ... the correlation that follows starts from its score, ...
RaisedOnce(e) ==
    /\ jobs[e]["correlate"].phase # "none" =>
          /\ jobs[e]["analyze"].phase = "done"
          /\ jobs[e]["correlate"].before = jobs[e]["analyze"].before
    /\ jobs[e]["correlate"].phase = "done" =>
          jobs[e]["correlate"].score =
              Boosted(jobs[e]["correlate"].before,
                      Boost(jobs[e]["correlate"].matches, jobs[e]["correlate"].flagged))

\* ... and the api's handler has one or the other.
Handled(e) ==
    /\ pc[e] \in {"new", "analyzing"} => answer[e].matches = {}
    /\ pc[e] \in {"correlating", "adding", "answered", "error"} =>
          jobs[e]["analyze"].phase = "done"
    /\ pc[e] = "correlating" =>
          answer[e].matches = {} /\ answer[e].score = jobs[e]["analyze"].before
    /\ pc[e] = "adding" => Sound(e, answer[e].score, answer[e].matches)

Plain(e) == request[e].entities \cap Urls = {} /\ Unraised(e) /\ RaisedOnce(e) /\ Handled(e)

Untouched(e) ==
    /\ answer[e].matches = {}
    /\ \A c \in Calls : /\ jobs[e][c].phase = "none" /\ jobs[e][c].matches = {}
                        /\ jobs[e][c].score = jobs[e][c].before

\* Who calls mcp-server asks for the analysis only.
Direct(e) == pc[e] \notin {"correlating", "adding"} /\ jobs[e]["correlate"].phase = "none"

PlainInv ==
    /\ SoleRows
    /\ \A e \in Events : pc[e] = "new" => Untouched(e)
    /\ \A e \in Events : IF request[e].via \in ApiProcesses THEN Plain(e) ELSE Direct(e)
    /\ \A row \in audit : /\ request[row.event].via \in ApiProcesses
                          /\ Sound(row.event, row.score, row.matches)

LEMMA InitPlain == Init => PlainInv
<1> SUFFICES ASSUME Init PROVE PlainInv
  OBVIOUS
<1>1. SoleRows
  BY DEF Init, SoleRows
<1>2. \A e \in Events : Untouched(e)
  BY DEF Init, Untouched, NoAnswer, NoJob
<1>3. \A e \in Events : request[e].via \notin ApiProcesses
  BY CallAnalysisAssumption DEF Init, NoRequest
<1>4. \A e \in Events : Direct(e)
  BY DEF Init, Direct, NoJob, Calls
<1> QED
  BY <1>1, <1>2, <1>3, <1>4 DEF PlainInv, Init

\* A step of the requests and jobs of other events leaves these alone.
LEMMA PlainKept ==
    ASSUME NEW e \in Events, Plain(e), request'[e] = request[e], pc'[e] = pc[e],
           answer'[e] = answer[e], \A c \in Calls : jobs'[e][c] = jobs[e][c]
    PROVE  Plain(e)'
BY DEF Plain, Unraised, RaisedOnce, Handled, Sound, Calls

\* What has been decided of a request stays sound.
LEMMA SoundKept ==
    ASSUME NEW e \in Events, NEW score, NEW matches, Sound(e, score, matches),
           jobs'[e]["analyze"].before = jobs[e]["analyze"].before,
           jobs[e]["correlate"].phase = "done" => jobs'[e]["correlate"] = jobs[e]["correlate"]
    PROVE  Sound(e, score, matches)'
BY DEF Sound

\* Rows stay the rows of their events as long as these and the times of
\* their jobs stay.
LEMMA SoleRowsKept ==
    ASSUME Typed, SoleRows,
           \A row \in signals : request'[row.event] = request[row.event],
           \A row \in signals : /\ jobs'[row.event][row.call].at = jobs[row.event][row.call].at
                                /\ jobs'[row.event][row.call].phase \notin {"none", "queued", "find"},
           \A row \in signals' \ signals :
                /\ row.call = LastCall(row.event)'
                /\ row = SignalRow(row.event, row.call, row.entity)'
                /\ jobs'[row.event][row.call].phase \notin {"none", "queued", "find"}
    PROVE  SoleRows'
<1> SUFFICES ASSUME NEW row \in signals'
             PROVE  /\ row.call = LastCall(row.event)'
                    /\ row = SignalRow(row.event, row.call, row.entity)'
                    /\ jobs'[row.event][row.call].phase \notin {"none", "queued", "find"}
  BY DEF SoleRows
<1>1. CASE row \in signals
  <2>1. LastCall(row.event)' = LastCall(row.event)
    BY <1>1 DEF LastCall
  <2>2. SignalRow(row.event, row.call, row.entity)' = SignalRow(row.event, row.call, row.entity)
    BY <1>1 DEF SignalRow
  <2> QED
    BY <1>1, <2>1, <2>2 DEF SoleRows
<1>2. CASE row \notin signals
  BY <1>2
<1> QED
  BY <1>1, <1>2

LEMMA ReceivePlain ==
    ASSUME Complete, Stored, NoUrlThroughApi, PlainInv, NEW e \in Events, Receive(e)
    PROVE  PlainInv'
<1>j. /\ jobs \in [Events -> [Calls -> Job]] /\ "correlate" \in Calls /\ "analyze" \in Calls
      /\ pc \in [Events -> {"new", "analyzing", "correlating", "adding"} \cup Ended]
      /\ request \in [Events -> Request \cup {NoRequest}]
      /\ signals \subseteq Row /\ audit \subseteq Result /\ Typed
  BY DEF Complete, Justified, Typed, TypeOK, Calls
<1>r. PICK r \in Requests : \E at \in OccurredAt(r.channel, r.via) :
        request' = [request EXCEPT ![e] = [channel |-> r.channel, entities |-> r.entities,
                                           via |-> r.via, at |-> at]]
  BY DEF Receive
<1>1. /\ request'[e].via = r.via /\ request'[e].entities = r.entities
      /\ \A a \in Events \ {e} : request'[a] = request[a]
  BY <1>r, <1>j
<1>2. /\ pc[e] = "new" /\ pc'[e] = "analyzing"
      /\ \A a \in Events \ {e} : pc'[a] = pc[a]
      /\ UNCHANGED <<answer, signals, audit>>
  BY <1>j DEF Receive
<1>3. /\ \A a \in Events \ {e} : jobs'[a] = jobs[a]
      /\ jobs'[e]["correlate"] = jobs[e]["correlate"]
      /\ jobs'[e]["analyze"].phase = "queued"
      /\ jobs'[e]["analyze"].matches = jobs[e]["analyze"].matches
      /\ jobs'[e]["analyze"].before = jobs[e]["analyze"].before
      /\ jobs'[e]["analyze"].score = jobs[e]["analyze"].score
  BY <1>j DEF Receive, Job
<1>4. Untouched(e)
  BY <1>2 DEF PlainInv
<1>5. \A row \in signals : row.event \in Events /\ row.event # e
  <2>1. request[e] \notin Request
    BY <1>2 DEF Complete, Justified, NewIsUntouched
  <2> QED
    BY <1>j, <2>1 DEF Complete, Justified, RowsAreOfRequests, Row
<1>6. \A row \in audit : row.event \in Events /\ row.event # e
  BY <1>2, <1>j DEF Stored, RowsHaveEnded, Result
<1>7. SoleRows'
  BY <1>j, <1>1, <1>2, <1>3, <1>5, SoleRowsKept DEF PlainInv, SoleRows
<1>8. \A a \in Events : pc'[a] = "new" => Untouched(a)'
  BY <1>2, <1>3 DEF PlainInv, Untouched
<1>9. ASSUME NEW a \in Events, request'[a].via \in ApiProcesses PROVE Plain(a)'
  <2>1. CASE a # e
    BY <1>1, <1>2, <1>3, <1>9, <2>1, PlainKept DEF PlainInv
  <2>2. CASE a = e
    <3>1. request'[e].entities \cap Urls = {}
      BY <1>1, <1>9, <2>2 DEF NoUrlThroughApi
    <3>2. Unraised(e)'
      BY <1>3, <1>4, <1>j DEF Unraised, Untouched
    <3>3. RaisedOnce(e)'
      BY <1>3, <1>4, <1>j DEF RaisedOnce, Untouched
    <3>4. Handled(e)'
      BY <1>2, <1>4 DEF Handled, Untouched
    <3> QED
      BY <2>2, <3>1, <3>2, <3>3, <3>4 DEF Plain
  <2> QED
    BY <2>1, <2>2
<1>d. ASSUME NEW a \in Events, request'[a].via \notin ApiProcesses PROVE Direct(a)'
  BY <1>1, <1>2, <1>3, <1>4, <1>d, <1>j DEF PlainInv, Direct, Untouched
<1>10. \A row \in audit' : /\ request'[row.event].via \in ApiProcesses
                           /\ Sound(row.event, row.score, row.matches)'
  BY <1>1, <1>2, <1>3, <1>6, SoundKept DEF PlainInv
<1> QED
  BY <1>7, <1>8, <1>9, <1>d, <1>10 DEF PlainInv

LEMMA HandlingPlain ==
    ASSUME Complete, Stored, PlainInv, NEW e \in Events, Handling(e)
    PROVE  PlainInv'
<1>j. /\ jobs \in [Events -> [Calls -> Job]] /\ "correlate" \in Calls /\ "analyze" \in Calls
      /\ pc \in [Events -> {"new", "analyzing", "correlating", "adding"} \cup Ended]
      /\ answer \in [Events -> Answer]
      /\ signals \subseteq Row /\ audit \subseteq Result /\ Typed /\ CorrelatedAfterwards
  BY DEF Complete, Justified, Typed, TypeOK, Calls
<1>1. /\ UNCHANGED <<request, earlier>>
      /\ pc[e] \in Busy
      /\ pc'[e] \in Busy \cup Ended
      /\ \A a \in Events \ {e} : pc'[a] = pc[a]
      /\ \A a \in Events : jobs'[a]["analyze"] = jobs[a]["analyze"]
      /\ \A a \in Events \ {e} : jobs'[a]["correlate"] = jobs[a]["correlate"]
      /\ \/ jobs'[e]["correlate"] = jobs[e]["correlate"]
         \/ /\ pc[e] = "analyzing" /\ pc'[e] = "correlating"
            /\ jobs[e]["correlate"].phase = "none" /\ jobs'[e]["correlate"].phase = "find"
  BY <1>j, HandlingEffect
<1>2. signals' = signals /\ \A a \in Events \ {e} : answer'[a] = answer[a]
  BY <1>j DEF Handling, AnalysisArrives, AnalysisFails, CorrelationArrives, CorrelationFails, Add,
              AddFails, mcpVars
<1>3. SoleRows'
  <2>1. \A row \in signals : row.event \in Events /\ row.call \in Calls
    BY <1>j DEF Row
  <2>2. \A row \in signals : jobs[row.event][row.call].phase \notin {"none", "queued", "find"}
    BY DEF PlainInv, SoleRows
  <2>3. \A a \in Events, c \in Calls : jobs'[a][c] = jobs[a][c] \/ jobs[a][c].phase = "none"
    BY <1>1 DEF Calls
  <2>4. \A row \in signals : jobs'[row.event][row.call] = jobs[row.event][row.call]
    BY <2>1, <2>2, <2>3
  <2> QED
    BY <1>j, <1>1, <1>2, <2>2, <2>4, SoleRowsKept DEF PlainInv
<1>4. \A a \in Events : pc'[a] = "new" => Untouched(a)'
  <2>1. pc'[e] # "new"
    BY <1>1 DEF Busy, Ended
  <2> QED
    BY <1>1, <1>2, <2>1 DEF PlainInv, Untouched, Calls
<1>5. ASSUME NEW a \in Events \ {e}
      PROVE  IF request'[a].via \in ApiProcesses THEN Plain(a)' ELSE Direct(a)'
  BY <1>1, <1>2, PlainKept DEF PlainInv, Direct, Calls
<1>6. CASE request[e].via \notin ApiProcesses
  <2>1. pc[e] = "analyzing" /\ (AnalysisArrives(e) \/ AnalysisFails(e))
    <3>1. pc[e] \notin {"correlating", "adding"}
      BY <1>6 DEF PlainInv, Direct
    <3>2. AnalysisArrives(e) \/ AnalysisFails(e)
      BY <3>1 DEF Handling, CorrelationArrives, CorrelationFails, Add, AddFails
    <3> QED
      BY <3>2 DEF AnalysisArrives, AnalysisFails
  <2>2. Direct(e)'
    <3>1. pc'[e] \in Ended /\ jobs' = jobs
      BY <1>j, <1>6, <2>1 DEF AnalysisArrives, AnalysisFails, mcpVars, Ended
    <3> QED
      BY <1>6, <3>1 DEF PlainInv, Direct, Ended
  <2>3. audit' = audit
    BY <2>1 DEF AnalysisArrives, AnalysisFails
  <2>4. \A row \in audit : row.event \in Events /\ row.event # e
    BY <1>j, <1>6 DEF PlainInv, Result
  <2>5. \A row \in audit' : /\ request'[row.event].via \in ApiProcesses
                            /\ Sound(row.event, row.score, row.matches)'
    BY <1>1, <2>3, <2>4, SoundKept DEF PlainInv
  <2> QED
    BY <1>1, <1>3, <1>4, <1>5, <1>6, <2>2, <2>5 DEF PlainInv
<1>7. CASE request[e].via \in ApiProcesses
  <2>0. Plain(e) /\ (pc[e] = "analyzing" => jobs[e]["correlate"].phase = "none")
    BY <1>7, <1>j DEF PlainInv, CorrelatedAfterwards
  <2>1. \A row \in audit : /\ request'[row.event].via \in ApiProcesses
                           /\ Sound(row.event, row.score, row.matches)'
    <3> SUFFICES ASSUME NEW row \in audit
                 PROVE  /\ request'[row.event].via \in ApiProcesses
                        /\ Sound(row.event, row.score, row.matches)'
      OBVIOUS
    <3>1. row.event \in Events /\ row.event # e
      BY <1>j, <1>1 DEF Stored, RowsHaveEnded, Result, Busy
    <3> QED
      BY <1>1, <3>1, SoundKept DEF PlainInv
  <2>2. request'[e].entities \cap Urls = {} /\ Unraised(e)'
    BY <1>1, <2>0 DEF Plain, Unraised
  <2>3. CASE AnalysisArrives(e)
    <3>1. /\ pc[e] = "analyzing" /\ jobs[e]["analyze"].phase = "done"
          /\ pc'[e] \in {"answered", "adding", "correlating"}
          /\ pc'[e] = "adding" => jobs' = jobs
          /\ pc'[e] # "answered" /\ audit' = audit
      BY <1>7, <1>j, <2>3, CallAnalysisAssumption DEF AnalysisArrives
    <3>2. answer'[e].score = jobs[e]["analyze"].before /\ answer'[e].matches = {}
      <4>1. jobs[e]["analyze"].score = jobs[e]["analyze"].before /\ answer[e].matches = {}
        BY <2>0, <3>1 DEF Plain, Unraised, Handled
      <4>2. answer' = [answer EXCEPT ![e] = [@ EXCEPT !.score = jobs[e]["analyze"].score,
                                                      !.base = BaseRiskScore(e)]]
        BY <1>j, <2>3 DEF AnalysisArrives
      <4> QED
        BY <1>j, <4>1, <4>2 DEF Answer
    <3>3. RaisedOnce(e)'
      <4>1. CASE jobs'[e]["correlate"] = jobs[e]["correlate"]
        BY <1>1, <2>0, <4>1 DEF Plain, RaisedOnce
      <4>2. CASE jobs'[e]["correlate"] # jobs[e]["correlate"]
        <5>1. jobs' = [jobs EXCEPT ![e]["correlate"] = CorrelateJob(e)]
          BY <2>3, <4>2 DEF AnalysisArrives
        <5>2. CorrelateJob(e).phase = "find" /\ CorrelateJob(e).before = jobs[e]["analyze"].score
          BY <1>j DEF CorrelateJob, Job
        <5>3. jobs'[e]["correlate"] = CorrelateJob(e)
          BY <1>j, <5>1
        <5> QED
          BY <1>1, <2>0, <3>1, <5>2, <5>3 DEF Plain, RaisedOnce, Unraised
      <4> QED
        BY <4>1, <4>2
    <3>4. Handled(e)'
      BY <1>1, <3>1, <3>2 DEF Handled, Sound
    <3> QED
      BY <1>1, <1>3, <1>4, <1>5, <1>7, <2>1, <2>2, <3>1, <3>3, <3>4 DEF PlainInv, Plain
  <2>4. CASE ~AnalysisArrives(e)
    <3>1. jobs' = jobs
      BY <2>4 DEF Handling, AnalysisFails, CorrelationArrives, CorrelationFails, Add, AddFails,
                  mcpVars
    <3>2. RaisedOnce(e)'
      BY <2>0, <3>1 DEF Plain, RaisedOnce
    <3>3. /\ Handled(e)'
          /\ audit' \in {audit, audit \cup {AuditRow(e)}}
          /\ audit' # audit => Sound(e, answer[e].score, answer[e].matches)
      <4>1. CASE AnalysisFails(e)
        BY <1>j, <4>1 DEF AnalysisFails, Handled
      <4>2. CASE CorrelationArrives(e)
        <5>1. /\ pc[e] = "correlating" /\ pc'[e] = "adding" /\ audit' = audit
              /\ jobs[e]["correlate"].phase = "done"
              /\ answer'[e].score = jobs[e]["correlate"].score
              /\ answer'[e].matches = jobs[e]["correlate"].matches
          BY <1>j, <4>2 DEF CorrelationArrives, Answer
        <5> QED
          BY <2>0, <3>1, <5>1 DEF Handled, Plain, Sound
      <4>3. CASE CorrelationFails(e)
        BY <1>j, <2>0, <3>1, <4>3 DEF CorrelationFails, Handled, Plain, Sound
      <4>4. CASE Add(e) \/ AddFails(e)
        <5>1. /\ pc[e] = "adding" /\ pc'[e] \in {"answered", "error"}
              /\ audit' \in {audit, audit \cup {AuditRow(e)}}
          BY <1>j, <4>4 DEF Add, AddFails
        <5> QED
          BY <2>0, <3>1, <5>1 DEF Handled, Plain
      <4> QED
        BY <2>4, <4>1, <4>2, <4>3, <4>4 DEF Handling
    <3>4. \A row \in audit' : /\ request'[row.event].via \in ApiProcesses
                              /\ Sound(row.event, row.score, row.matches)'
      <4> SUFFICES ASSUME NEW row \in audit'
                   PROVE  /\ request'[row.event].via \in ApiProcesses
                          /\ Sound(row.event, row.score, row.matches)'
        OBVIOUS
      <4>1. CASE row \in audit
        BY <2>1, <4>1
      <4>2. CASE row \notin audit
        <5>1. row = AuditRow(e) /\ Sound(e, answer[e].score, answer[e].matches)
          BY <3>3, <4>2
        <5>2. row.event = e /\ row.score = answer[e].score /\ row.matches = answer[e].matches
          BY <5>1 DEF AuditRow
        <5>3. Sound(e, row.score, row.matches)
          BY <5>1, <5>2
        <5>4. Sound(e, row.score, row.matches)'
          BY <3>1, <5>3, SoundKept
        <5> QED
          BY <1>1, <1>7, <5>2, <5>4
      <4> QED
        BY <4>1, <4>2
    <3> QED
      BY <1>1, <1>3, <1>4, <1>5, <1>7, <2>2, <3>2, <3>3, <3>4 DEF PlainInv, Plain
  <2> QED
    BY <2>3, <2>4
<1> QED
  BY <1>6, <1>7

\* What the steps of a job do to it, by stages.
LEMMA RunningJob ==
    ASSUME Typed, NEW e \in Events, NEW c \in Calls, Running(e, c)
    PROVE  /\ jobs[e][c].phase \in {"record", "check"} =>
                 /\ jobs'[e][c].at = jobs[e][c].at
                 /\ jobs'[e][c].phase \in {"record", "check", "done", "failed"}
           /\ jobs[e][c].phase # "queued" => jobs'[e][c].before = jobs[e][c].before
           /\ jobs'[e][c].phase = "done" /\ jobs[e][c].phase # "queued" =>
                 jobs'[e][c].score = Boosted(jobs'[e][c].before,
                                             Boost(jobs'[e][c].matches, jobs'[e][c].flagged))
           /\ jobs[e][c].phase = "queued" =>
                 /\ c = "analyze"
                 /\ jobs'[e][c].score = jobs'[e][c].before
                 /\ jobs'[e][c].matches = jobs[e][c].matches
                 /\ jobs'[e][c].phase = IF Visible(e, c) = {} THEN "done" ELSE "find"
           /\ signals' # signals =>
                 /\ jobs[e][c].phase = "record"
                 /\ \A row \in signals' \ signals : \E entity : row = SignalRow(e, c, entity)
<1>j. jobs \in [Events -> [Calls -> Job]] /\ jobs[e][c] \in Job
  BY DEF Typed, TypeOK
<1>1. CASE c = "analyze" /\ StartAnalysis(e)
  <2>1. PICK score \in Scores :
          jobs' = [jobs EXCEPT ![e][c] =
                     [jobs[e][c] EXCEPT !.phase = IF Visible(e, c) = {} THEN "done" ELSE "find",
                                        !.at = now, !.before = score, !.score = score]]
    BY <1>1, <1>j DEF StartAnalysis
  <2> DEFINE phase == IF Visible(e, c) = {} THEN "done" ELSE "find"
             job == [jobs[e][c] EXCEPT !.phase = phase, !.at = now, !.before = score,
                                       !.score = score]
  <2>2. jobs' = [jobs EXCEPT ![e][c] = job]
    BY <2>1
  <2> HIDE DEF phase
  <2>3. /\ job.phase = phase /\ job.score = job.before /\ job.matches = jobs[e][c].matches
    BY <1>j DEF Job
  <2> HIDE DEF job
  <2>4. jobs'[e][c] = job
    BY <1>j, <2>2
  <2>5. jobs[e][c].phase = "queued" /\ signals' = signals
    BY <1>1 DEF StartAnalysis
  <2> QED
    BY <1>1, <2>3, <2>4, <2>5 DEF phase
<1>2. CASE ReadSignals(e, c)
  <2> DEFINE found == FindMatches(signals, request[e].channel, Visible(e, c), jobs[e][c].at)
             job == [jobs[e][c] EXCEPT !.phase = "record", !.todo = Visible(e, c),
                                       !.matches = found]
  <2>1. jobs' = [jobs EXCEPT ![e][c] = job] /\ signals' = signals /\ jobs[e][c].phase = "find"
    BY <1>2, <1>j DEF ReadSignals
  <2> HIDE DEF found
  <2>2. job.phase = "record" /\ job.before = jobs[e][c].before
    BY <1>j DEF Job
  <2> HIDE DEF job
  <2>3. jobs'[e][c] = job
    BY <1>j, <2>1
  <2> QED
    BY <2>1, <2>2, <2>3
<1>3. CASE InsertSignal(e, c)
  <2>1. PICK entity \in NextEntities(jobs[e][c].todo) :
          /\ signals' = signals \cup {SignalRow(e, c, entity)}
          /\ jobs' = [jobs EXCEPT ![e][c] =
                        [jobs[e][c] EXCEPT !.todo = StillToRecord(jobs[e][c].todo, entity),
                                  !.phase = IF StillToRecord(jobs[e][c].todo, entity) = {}
                                            THEN "check" ELSE "record"]]
    BY <1>3, <1>j DEF InsertSignal
  <2> DEFINE todo == StillToRecord(jobs[e][c].todo, entity)
             job == [jobs[e][c] EXCEPT !.todo = todo,
                                       !.phase = IF todo = {} THEN "check" ELSE "record"]
  <2>2. jobs' = [jobs EXCEPT ![e][c] = job] /\ jobs[e][c].phase = "record"
    BY <1>3, <2>1 DEF InsertSignal
  <2> HIDE DEF todo
  <2>3. /\ job.phase \in {"check", "record"} /\ job.before = jobs[e][c].before
        /\ job.at = jobs[e][c].at
    BY <1>j DEF Job
  <2> HIDE DEF job
  <2>4. jobs'[e][c] = job
    BY <1>j, <2>2
  <2> QED
    BY <2>1, <2>2, <2>3, <2>4
<1>4. CASE CheckUrls(e, c)
  <2>1. PICK flagged \in {{}, Visible(e, c) \cap Malicious} :
          jobs' = [jobs EXCEPT ![e][c] =
                      [jobs[e][c] EXCEPT !.phase = "done",
                                !.flagged = flagged,
                                !.score = Boosted(jobs[e][c].before,
                                                  Boost(jobs[e][c].matches, flagged))]]
    BY <1>4, <1>j DEF CheckUrls
  <2> DEFINE score == Boosted(jobs[e][c].before, Boost(jobs[e][c].matches, flagged))
             job == [jobs[e][c] EXCEPT !.phase = "done", !.flagged = flagged, !.score = score]
  <2>2. /\ jobs' = [jobs EXCEPT ![e][c] = job] /\ jobs[e][c].phase = "check"
        /\ signals' = signals
    BY <1>4, <2>1 DEF CheckUrls
  <2> HIDE DEF score
  <2>3. /\ job.phase = "done" /\ job.before = jobs[e][c].before /\ job.at = jobs[e][c].at
        /\ job.matches = jobs[e][c].matches /\ job.flagged = flagged /\ job.score = score
    BY <1>j DEF Job
  <2> HIDE DEF job
  <2>4. jobs'[e][c] = job
    BY <1>j, <2>2
  <2> QED
    BY <2>2, <2>3, <2>4 DEF score
<1>5. CASE StatementFails(e, c)
  <2> DEFINE job == [jobs[e][c] EXCEPT !.phase = "failed"]
  <2>1. jobs' = [jobs EXCEPT ![e][c] = job] /\ jobs[e][c].phase \in {"find", "record"}
    BY <1>5, <1>j DEF StatementFails
  <2>2. job.phase = "failed" /\ job.before = jobs[e][c].before /\ job.at = jobs[e][c].at
    BY <1>j DEF Job
  <2> HIDE DEF job
  <2>3. jobs'[e][c] = job
    BY <1>j, <2>1
  <2>4. signals' # signals =>
            /\ jobs[e][c].phase = "record"
            /\ \A row \in signals' \ signals : \E entity : row = SignalRow(e, c, entity)
    BY <1>5 DEF StatementFails
  <2> QED
    BY <2>1, <2>2, <2>3, <2>4
<1> QED
  BY <1>1, <1>2, <1>3, <1>4, <1>5 DEF Running

LEMMA RunningPlain ==
    ASSUME Complete, Stored, PlainInv, NEW e \in Events, NEW c \in Calls, Running(e, c)
    PROVE  PlainInv'
<1>j. /\ jobs \in [Events -> [Calls -> Job]] /\ "correlate" \in Calls /\ "analyze" \in Calls
      /\ signals \subseteq Row /\ audit \subseteq Result /\ Typed
  BY DEF Complete, Justified, Typed, TypeOK, Calls
<1>1. /\ UNCHANGED <<pc, request, answer, audit, earlier, timeouts>>
      /\ jobs[e][c].phase \in {"queued", "find", "record", "check"}
      /\ \A a \in Events, b \in Calls : a # e \/ b # c => jobs'[a][b] = jobs[a][b]
  BY <1>j, RunningEffect
<1>2. /\ jobs[e][c].phase \in {"record", "check"} =>
            /\ jobs'[e][c].at = jobs[e][c].at
            /\ jobs'[e][c].phase \in {"record", "check", "done", "failed"}
      /\ jobs[e][c].phase # "queued" => jobs'[e][c].before = jobs[e][c].before
      /\ jobs'[e][c].phase = "done" /\ jobs[e][c].phase # "queued" =>
            jobs'[e][c].score = Boosted(jobs'[e][c].before,
                                        Boost(jobs'[e][c].matches, jobs'[e][c].flagged))
      /\ jobs[e][c].phase = "queued" =>
            /\ c = "analyze"
            /\ jobs'[e][c].score = jobs'[e][c].before
            /\ jobs'[e][c].matches = jobs[e][c].matches
            /\ jobs'[e][c].phase = IF Visible(e, c) = {} THEN "done" ELSE "find"
      /\ signals' # signals =>
            /\ jobs[e][c].phase = "record"
            /\ \A row \in signals' \ signals : \E entity : row = SignalRow(e, c, entity)
  BY <1>j, RunningJob
<1>3. /\ request[e].via \in ApiProcesses => Plain(e)
      /\ request[e].via \notin ApiProcesses => Direct(e)
      /\ pc[e] # "new"
  BY <1>1 DEF PlainInv, Untouched
<1>4. /\ request[e].via \in ApiProcesses /\ c = "analyze" => jobs[e][c].phase = "queued"
      /\ request[e].via \notin ApiProcesses => c = "analyze"
  BY <1>1, <1>3 DEF Plain, Unraised, Direct, Calls
<1>5. SoleRows'
  <2>1. \A row \in signals : row.event \in Events /\ row.call \in Calls
    BY <1>j DEF Row
  <2>2. \A row \in signals : jobs[row.event][row.call].phase \notin {"none", "queued", "find"}
    BY DEF PlainInv, SoleRows
  <2>3. ASSUME NEW row \in signals
        PROVE  /\ jobs'[row.event][row.call].at = jobs[row.event][row.call].at
               /\ jobs'[row.event][row.call].phase \notin {"none", "queued", "find"}
    <3>1. CASE row.event = e /\ row.call = c
      BY <1>1, <1>2, <2>2, <3>1
    <3>2. CASE row.event # e \/ row.call # c
      BY <1>1, <2>1, <2>2, <3>2
    <3> QED
      BY <3>1, <3>2
  <2>4. ASSUME NEW row \in signals' \ signals
        PROVE  /\ row.call = LastCall(row.event)'
               /\ row = SignalRow(row.event, row.call, row.entity)'
               /\ jobs'[row.event][row.call].phase \notin {"none", "queued", "find"}
    <3>1. jobs[e][c].phase = "record" /\ \E entity : row = SignalRow(e, c, entity)
      BY <1>2, <2>4
    <3>2. row.event = e /\ row.call = c /\ row = SignalRow(e, c, row.entity)
      BY <3>1 DEF SignalRow
    <3>3. c = LastCall(e)' /\ LastCall(row.event)' = LastCall(e)'
      BY <1>1, <1>4, <3>1, <3>2 DEF LastCall, Calls
    <3>4. jobs'[e][c].at = jobs[e][c].at
          /\ jobs'[e][c].phase \in {"record", "check", "done", "failed"}
      BY <1>2, <3>1
    <3>5. row = SignalRow(row.event, row.call, row.entity)'
      BY <1>1, <3>2, <3>4 DEF SignalRow
    <3> QED
      BY <3>2, <3>3, <3>4, <3>5
  <2>5. \A row \in signals : request'[row.event] = request[row.event]
    BY <1>1
  <2>6. SoleRows
    BY DEF PlainInv
  <2> QED
    BY <1>j, <2>3, <2>4, <2>5, <2>6, SoleRowsKept
<1>6. \A a \in Events : pc'[a] = "new" => Untouched(a)'
  BY <1>1, <1>3 DEF PlainInv, Untouched
<1>7. \A a \in Events \ {e} : IF request'[a].via \in ApiProcesses THEN Plain(a)' ELSE Direct(a)'
  BY <1>1, PlainKept DEF PlainInv, Direct, Calls
<1>8. \A row \in audit' : /\ request'[row.event].via \in ApiProcesses
                          /\ Sound(row.event, row.score, row.matches)'
  <2> SUFFICES ASSUME NEW row \in audit PROVE Sound(row.event, row.score, row.matches)'
    BY <1>1 DEF PlainInv
  <2>0. /\ row.event \in Events /\ pc[row.event] \in {"answered", "error"}
        /\ request[row.event].via \in ApiProcesses /\ Sound(row.event, row.score, row.matches)
    BY <1>j DEF Stored, RowsHaveEnded, Result, PlainInv
  <2>1. jobs[row.event]["analyze"].phase = "done"
    BY <2>0 DEF PlainInv, Plain, Handled
  <2>2. jobs'[row.event]["analyze"] = jobs[row.event]["analyze"]
    BY <1>1, <1>j, <2>0, <2>1
  <2>3. jobs[row.event]["correlate"].phase = "done" =>
            jobs'[row.event]["correlate"] = jobs[row.event]["correlate"]
    BY <1>1, <1>j, <2>0
  <2> QED
    BY <2>0, <2>2, <2>3, SoundKept
<1>9. CASE request[e].via \notin ApiProcesses
  <2>1. Direct(e)'
    BY <1>1, <1>3, <1>4, <1>j, <1>9 DEF Direct
  <2> QED
    BY <1>1, <1>5, <1>6, <1>7, <1>8, <1>9, <2>1 DEF PlainInv
<1>10. CASE request[e].via \in ApiProcesses /\ c = "analyze"
  <2>1. Plain(e) /\ jobs[e]["analyze"].phase = "queued"
    BY <1>3, <1>4, <1>10
  <2>2. Visible(e, c) = {}
    BY <1>10, <2>1 DEF Visible, Plain
  <2>3. Unraised(e)'
    BY <1>2, <1>10, <2>1, <2>2 DEF Plain, Unraised
  <2>4. jobs[e]["correlate"].phase = "none" /\ jobs'[e]["correlate"] = jobs[e]["correlate"]
    BY <1>1, <1>j, <1>10, <2>1 DEF Plain, RaisedOnce
  <2>5. RaisedOnce(e)'
    BY <2>4 DEF RaisedOnce
  <2>6. Handled(e)'
    BY <1>1, <2>1 DEF Plain, Handled
  <2>7. Plain(e)'
    BY <1>1, <2>1, <2>3, <2>5, <2>6 DEF Plain
  <2> QED
    BY <1>1, <1>5, <1>6, <1>7, <1>8, <1>10, <2>7 DEF PlainInv
<1>11. CASE request[e].via \in ApiProcesses /\ c = "correlate"
  <2>1. Plain(e) /\ jobs'[e]["analyze"] = jobs[e]["analyze"]
        /\ jobs[e]["correlate"].phase \in {"find", "record", "check"}
    BY <1>1, <1>2, <1>3, <1>j, <1>11
  <2>2. RaisedOnce(e)'
    BY <1>2, <1>11, <2>1 DEF Plain, RaisedOnce
  <2>3. Unraised(e)'
    BY <2>1 DEF Plain, Unraised
  <2>4. Handled(e)'
    BY <1>1, <2>1 DEF Plain, Handled, Sound
  <2>5. Plain(e)'
    BY <1>1, <2>1, <2>2, <2>3, <2>4 DEF Plain
  <2> QED
    BY <1>1, <1>5, <1>6, <1>7, <1>8, <1>11, <2>5 DEF PlainInv
<1> QED
  BY <1>9, <1>10, <1>11 DEF Calls

LEMMA NextPlain ==
    ASSUME Complete, Stored, NoUrlThroughApi, PlainInv, [Next]_vars
    PROVE  PlainInv'
<1>1. CASE \E e \in Events : Receive(e)
  BY <1>1, ReceivePlain
<1>2. CASE \E e \in Events : Handling(e)
  BY <1>2, HandlingPlain
<1>3. CASE \E e \in Events, c \in Calls : Running(e, c)
  BY <1>3, RunningPlain
<1>4. CASE Tick \/ UNCHANGED vars
  <2>1. UNCHANGED <<pc, request, answer, jobs, signals, audit>>
    BY <1>4 DEF Tick, vars, apiVars, mcpVars
  <2>2. SoleRows'
    BY <2>1 DEF PlainInv, SoleRows, LastCall, SignalRow
  <2>3. \A e \in Events : (Untouched(e)' <=> Untouched(e)) /\ (Direct(e)' <=> Direct(e))
    BY <2>1 DEF Untouched, Direct
  <2>4. \A e \in Events : Plain(e) => Plain(e)'
    BY <2>1, PlainKept
  <2>5. \A e, x, m : Sound(e, x, m)' <=> Sound(e, x, m)
    BY <2>1 DEF Sound
  <2> QED
    BY <2>1, <2>2, <2>3, <2>4, <2>5 DEF PlainInv
<1> QED
  BY <1>1, <1>2, <1>3, <1>4 DEF Next, Handling, Running, BoundsReached, Calls

\* The entities and events that a finite set of matches is about are as many
\* as the matches, if these have nothing else of their own.
LEMMA AsManyPairs ==
    ASSUME NEW matches, IsFiniteSet(matches),
           \A x, y \in matches : x.event = y.event /\ x.entity = y.entity => x = y
    PROVE  LET pairs == {<<m.event, m.entity>> : m \in matches}
           IN  IsFiniteSet(pairs) /\ Cardinality(matches) <= Cardinality(pairs)
<1> DEFINE pairs == {<<m.event, m.entity>> : m \in matches}
           pair == [m \in matches |-> <<m.event, m.entity>>]
<1>1. pair \in [matches -> pairs]
  OBVIOUS
<1>2. pair \in Injection(matches, pairs)
  <2>1. ASSUME NEW x \in matches, NEW y \in matches, pair[x] = pair[y] PROVE x = y
    BY <2>1
  <2> QED
    BY <1>1, <2>1 DEF Injection, IsInjective
<1>3. pair \in Surjection(matches, pairs)
  <2>1. \A p \in pairs : \E m \in matches : pair[m] = p
    OBVIOUS
  <2> QED
    BY <1>1, <2>1 DEF Surjection
<1> HIDE DEF pair, pairs
<1>4. IsFiniteSet(pairs)
  BY <1>3, FS_Surjection
<1>5. Cardinality(matches) <= Cardinality(pairs)
  BY <1>2, <1>4, FS_Injection
<1> QED
  BY <1>4, <1>5 DEF pairs

\* What the correlation of an event with sole rows is scored.
LEMMA BoostBound ==
    ASSUME NEW before \in 0..MaxScore, NEW matches, NEW pairs,
           IsFiniteSet(matches), IsFiniteSet(pairs),
           Cardinality(matches) <= Cardinality(pairs), NEW flagged
    PROVE  Boosted(before, Boost(matches, flagged)) <=
               before + AtMost(30, 15 * Cardinality(pairs)) + (IF flagged # {} THEN 40 ELSE 0)
<1>1. Cardinality(matches) \in Nat /\ Cardinality(pairs) \in Nat
  BY FS_CardinalityType
<1> DEFINE extra == IF flagged # {} THEN 40 ELSE 0
<1>2. extra \in Nat
  OBVIOUS
<1>3. Boost(matches, flagged) = AtMost(30, Cardinality(matches) * 15) + extra
  BY DEF Boost, BoostCap, BoostPerMatch, MaliciousUrlBoost
<1> HIDE DEF extra
<1>4. /\ AtMost(30, Cardinality(matches) * 15) \in Nat
      /\ AtMost(30, 15 * Cardinality(pairs)) \in Nat
      /\ AtMost(30, Cardinality(matches) * 15) <= AtMost(30, 15 * Cardinality(pairs))
  BY <1>1 DEF AtMost
<1>5. Boosted(before, Boost(matches, flagged)) <= before + Boost(matches, flagged)
  BY <1>2, <1>3, <1>4 DEF Boosted, AtMost, MaxScore
<1>6. before + AtMost(30, Cardinality(matches) * 15) + extra
          <= before + AtMost(30, 15 * Cardinality(pairs)) + extra
  BY <1>2, <1>4 DEF MaxScore
<1>7. Boosted(before, Boost(matches, flagged)) \in Int
  BY <1>2, <1>3, <1>4 DEF Boosted, AtMost, MaxScore
<1> QED
  BY <1>2, <1>3, <1>4, <1>5, <1>6, <1>7 DEF extra, MaxScore

\* A row of the audit table has the score of the analyzer, raised by 15 for
\* each entity shared with an event, 30 at most, and by 40 if a URL is
\* listed (correlate, _merge_correlation_into_raw), as long as masking leaves
\* nothing to correlate for the analysis of the same text.
THEOREM BoostHolds == ASSUME NoUrlThroughApi PROVE Spec => []BoostIsAsDocumented
<1>1. Complete /\ Stored /\ PlainInv => BoostIsAsDocumented
  <2> SUFFICES ASSUME Complete, Stored, PlainInv, NEW row \in audit
               PROVE  LET job(c)  == jobs[row.event][c]
                          shared  == {<<m.event, m.entity>> :
                                          m \in job("analyze").matches \cup row.matches}
                          flagged == job("analyze").flagged \cup job("correlate").flagged
                      IN  row.score <= job("analyze").before
                                           + AtMost(30, 15 * Cardinality(shared))
                                           + (IF flagged # {} THEN 40 ELSE 0)
    BY DEF BoostIsAsDocumented
  <2> DEFINE first == jobs[row.event]["analyze"]
             second == jobs[row.event]["correlate"]
             pairs == {<<m.event, m.entity>> : m \in row.matches}
  <2>1. /\ jobs \in [Events -> [Calls -> Job]] /\ signals \subseteq Row /\ audit \subseteq Result
        /\ IsFiniteSet(signals) /\ "analyze" \in Calls /\ "correlate" \in Calls
    BY DEF Complete, Justified, Typed, TypeOK, Calls
  <2>2. /\ row.event \in Events /\ row.matches \subseteq signals /\ row.score \in 0..MaxScore
        /\ pc[row.event] \in {"answered", "error"} /\ request[row.event].via \in ApiProcesses
        /\ Sound(row.event, row.score, row.matches)
    BY <2>1 DEF Stored, RowsHaveEnded, Result, PlainInv
  <2>3. first.matches = {} /\ first.before \in 0..MaxScore /\ second.before \in 0..MaxScore
    BY <2>1, <2>2 DEF PlainInv, Plain, Unraised, Job
  <2>4. {<<m.event, m.entity>> : m \in first.matches \cup row.matches} = pairs
    BY <2>3
  <2>5. IsFiniteSet(row.matches)
    BY <2>1, <2>2, FS_Subset
  <2>6. \A x, y \in row.matches : x.event = y.event /\ x.entity = y.entity => x = y
    BY <2>2 DEF PlainInv, SoleRows
  <2>7. IsFiniteSet(pairs) /\ Cardinality(row.matches) <= Cardinality(pairs)
    BY <2>5, <2>6, AsManyPairs
  <2> HIDE DEF pairs
  <2>8. Cardinality(pairs) \in Nat
    BY <2>7, FS_CardinalityType
  <2>9. row.score <= first.before + AtMost(30, 15 * Cardinality(pairs))
                         + (IF first.flagged \cup second.flagged # {} THEN 40 ELSE 0)
    <3>n. first.before \in Int /\ AtMost(30, 15 * Cardinality(pairs)) \in Nat
      BY <2>3, <2>8 DEF AtMost, MaxScore
    <3>1. CASE row.score = first.before
      BY <3>n, <3>1
    <3>2. CASE row.score # first.before
      <4>1. /\ second.phase = "done" /\ row.score = second.score
            /\ row.matches = second.matches
        BY <2>2, <3>2 DEF Sound
      <4>2. /\ second.before = first.before
            /\ second.score = Boosted(second.before, Boost(second.matches, second.flagged))
        BY <2>2, <4>1 DEF PlainInv, Plain, RaisedOnce
      <4>3. row.score <= first.before + AtMost(30, 15 * Cardinality(pairs))
                             + (IF second.flagged # {} THEN 40 ELSE 0)
        BY <2>3, <2>5, <2>7, <4>1, <4>2, BoostBound
      <4> QED
        <5>1. CASE second.flagged # {}
          BY <4>3, <5>1
        <5>2. CASE second.flagged = {}
          <6> DEFINE bound == first.before + AtMost(30, 15 * Cardinality(pairs))
          <6>1. AtMost(30, 15 * Cardinality(pairs)) \in Nat
            BY <2>8 DEF AtMost
          <6>2. bound \in Int /\ row.score \in Int
            BY <2>2, <2>3, <6>1 DEF MaxScore
          <6>3. row.score <= bound + 0
            BY <4>3, <5>2
          <6> HIDE DEF bound
          <6>4. row.score <= bound /\ bound <= bound + 40 /\ row.score <= bound + 40
            BY <6>2, <6>3
          <6> QED
            BY <6>3, <6>4 DEF bound
        <5> QED
          BY <5>1, <5>2
    <3> QED
      BY <3>1, <3>2
  <2> QED
    BY <2>4, <2>9
<1>2. Spec => []Complete
  BY InitComplete, NextComplete, PTL DEF Spec
<1>3. Spec => []Stored
  <2>1. Init => Stored
    BY InitTyped DEF Init, Typed, Stored, RowsHaveEnded, AnsweredIsAudited
  <2>2. Complete => Typed
    BY DEF Complete, Justified
  <2>3. Complete /\ Stored /\ [Next]_vars => Stored'
    BY <2>2, NextStored
  <2> QED
    BY <1>2, <2>1, <2>3, PTL DEF Spec
<1>4. Spec => []PlainInv
  <2>1. Complete /\ Stored /\ PlainInv /\ [Next]_vars => PlainInv'
    BY NextPlain
  <2> QED
    BY <1>2, <1>3, <2>1, InitPlain, PTL DEF Spec
<1> QED
  BY <1>1, <1>2, <1>3, <1>4, PTL

=============================================================================
