-------------------------- MODULE AnalysisPipeline --------------------------
(***************************************************************************)
(* How an analysis gets its verdict, and when: apps/api has a recording    *)
(* transcribed by apps/stt-worker and the text judged by apps/mcp-server,  *)
(* which asks the language model, rag-worker and Safe Browsing one after   *)
(* the other.  Every call has a timeout and most failures a fallback.      *)
(*                                                                         *)
(* The handlers of apps/api and stt-worker never await, so that a process  *)
(* serves one request at a time; mcp-server lets Slots requests into its   *)
(* thread pool.  A handler goes on when its caller has given up.           *)
(*                                                                         *)
(* Time passes in ticks of 5 seconds.  Steps between two calls take none;  *)
(* a call may take any number of ticks up to its timeout, the timeout      *)
(* included, which stands for an answer of the last moment.  What the      *)
(* correlations find and the audit row are those of CallAnalysis.          *)
(***************************************************************************)
EXTENDS Analyzer, Deepvoice

CONSTANTS
    Apis,           \* replicas of apps/api
    Requests,       \* requests for an analysis
    Audio,          \* those that upload a recording
    TextOf,         \* what is said: keywords, and whether it names a URL
    ApiOf,          \* the replica that the connection goes to
    Answers,        \* what the language model may answer, see Judged
    Slots,          \* LLM_MAX_CONCURRENCY
    MaxFaults,      \* bound: restarts and failed statements
    Beside          \* bound: only these are served where the form is used

ASSUME AnalysisPipelineAssumption ==
    /\ FormApis = Apis
    /\ Audio \subseteq Requests
    /\ \A r \in Requests : TextOf[r] \in [keywords : [Categories -> Nat], url : BOOLEAN]
    /\ ApiOf \in [Requests -> Apis]
    /\ Answers \subseteq [outcome : {"usable", "caught", "raised"}, score : Int,
                          items : Seq(Categories \cup {Unknown})]
    /\ Slots \in Nat \ {0}
    /\ MaxFaults \in Nat
    /\ Beside \subseteq Requests

VARIABLES
    backend,    \* CALL_ANALYSIS_BACKEND of mcp-server
    call,       \* the request in apps/api
    sttQueue,   \* the requests in stt-worker; the first one is transcribed
    job,        \* the request in mcp-server
    waiters,    \* the jobs that wait for the semaphore
    slow,       \* history: the services of mcp-server that let a tick pass
    faults      \* history and bound: how often something has failed

apiVars == <<call>>
sttVars == <<sttQueue>>
mcpVars == <<backend, job, waiters>>
vars == <<apiVars, sttVars, mcpVars, slow, faults, form>>

\* Timeouts in ticks: of the calls of apps/api to stt-worker and mcp-server,
\* and of its correlation.
SttTimeout == 6
McpTimeout == 6
CorrelationTimeout == 2

\* Mutant: OLLAMA_TIMEOUT_SECONDS is raised to 60, MCP_ANALYZE_TIMEOUT_SECONDS is not.
LlmTimeoutOfCpu == 12

LlmTimeout == 4
GpuTimeout == 1
RagTimeout == 1
BrowsingTimeout == 1

Services == {"ollama", "rag", "browsing"}

NoAnswer == [outcome |-> "caught", score |-> 0, items |-> << >>]
\* What the rules say of the text of each request.
RuleVerdict == [r \in Requests |-> RuleResult(TextOf[r].keywords)]
NoResult == RuleResult([c \in Categories |-> 0])

Ended == {"answered", "unreadable", "gave_up_stt", "gave_up_mcp", "failed"}
Blocking == {"stt", "mcp", "correlation"}

\* The stages of a job that hold a slot.
Working == {"llm", "gpu", "search", "urls"}

TypeOK ==
    /\ backend \in {"llm", "rule"}
    /\ \A r \in Requests :
        /\ call[r].at \in {"queued"} \cup Blocking \cup Ended
        /\ call[r].waited \in 0..McpTimeout
        /\ call[r].reply \in Result
        /\ job[r].at \in {"none", "waiting", "done", "lost"} \cup Working
        /\ job[r].spent \in 0..LlmTimeout
        /\ job[r].answer \in Answers \cup {NoAnswer}
        /\ job[r].result \in Result
    /\ sttQueue \in Seq(Audio)
    /\ waiters \in Seq(Requests)
    /\ slow \subseteq Services
    /\ faults \in 0..MaxFaults
    /\ form \in FormType

NoCall == [at |-> "queued", waited |-> 0, reply |-> NoResult]
NoJob == [at |-> "none", spent |-> 0, answer |-> NoAnswer, result |-> NoResult]

Init ==
    /\ backend \in {"llm", "rule"}
    /\ call = [r \in Requests |-> NoCall]
    /\ sttQueue = << >>
    /\ job = [r \in Requests |-> NoJob]
    /\ waiters = << >>
    /\ slow = {}
    /\ faults = 0
    /\ FormInit

Holding == {r \in Requests : job[r].at \in Working}

Serving(a) == {r \in Requests : ApiOf[r] = a /\ call[r].at \in Blocking}

Free == {a \in Apis : Serving(a) = {}}

\* The next request that its process looks at.
MayServe(r) ==
    /\ call[r].at = "queued"
    /\ ApiOf[r] \in Free
    /\ r \in Beside \/ form.choices = 0

Fault == faults < MaxFaults /\ faults' = faults + 1

\* What remains of a request and of a job that have ended.
Over(how) == [NoCall EXCEPT !.at = how]
Gone == [NoJob EXCEPT !.at = "done"]

-----------------------------------------------------------------------------
\* mcp-server

\* A job enters the thread pool: CallAnalysisService.execute.
Entered(r) ==
    IF backend = "llm" THEN [NoJob EXCEPT !.at = "llm"]
    ELSE [NoJob EXCEPT !.at = "search", !.result = RuleVerdict[r]]

\* POST /api/v1/analyze: the semaphore lets the request in or has it wait.
Accepted(r) ==
    IF waiters = << >> /\ Cardinality(Holding) < Slots
    THEN /\ job' = [job EXCEPT ![r] = Entered(r)]
         /\ UNCHANGED waiters
    ELSE /\ job' = [job EXCEPT ![r].at = "waiting"]
         /\ waiters' = Append(waiters, r)

\* Mutant: the slot is free again, and nobody who waits for it is told.
FreedOnly(r) ==
    /\ job' = [job EXCEPT ![r] = Gone]
    /\ UNCHANGED waiters

\* The job ends, by an exception too (`async with'), and the first waiter
\* gets its slot.
Released(r) ==
    IF waiters = << >>
    THEN /\ job' = [job EXCEPT ![r] = Gone]
         /\ UNCHANGED waiters
    ELSE /\ job' = [job EXCEPT ![r] = Gone,
                               ![Head(waiters)] = Entered(Head(waiters))]
         /\ waiters' = Tail(waiters)

\* A service answers the job, which goes on with `next'.
GoesOn(r, next) == job' = [job EXCEPT ![r] = next] /\ UNCHANGED waiters

\* Ollama answers: the time it needed goes into a metric, and the memory of
\* the GPU is asked for before the answer is looked at.
LlmAnswers(r) ==
    /\ job[r].at = "llm"
    /\ \E answer \in Answers :
            GoesOn(r, [job[r] EXCEPT !.at = "gpu", !.spent = 0, !.answer = answer])
    /\ UNCHANGED <<apiVars, sttVars, backend, slow, faults, form>>

\* Ollama cannot be reached, answers an error or no JSON, or takes too long:
\* what `except' of analyze lists, and the rules judge.
LlmFails(r) ==
    /\ job[r].at = "llm"
    /\ GoesOn(r, [job[r] EXCEPT !.at = "search", !.spent = 0,
                                !.result = RuleVerdict[r]])
    /\ UNCHANGED <<apiVars, sttVars, backend, slow, faults, form>>

\* Mutant: what the model wrote is believed to follow the schema.
AsWritten(r) == ModelResult(job[r].answer)

\* _to_domain makes a result of a usable answer.  Of another one it raises
\* what `except' lists ("caught": no JSON, a missing or ill-typed field), and
\* the rules judge, or what it does not list ("raised": an AttributeError of a
\* null summary or reasoning, the OverflowError of an infinite score).
Judged(r) ==
    IF job[r].answer.outcome = "usable" THEN ModelResult(job[r].answer) ELSE RuleVerdict[r]

\* /api/ps has answered JSON or failed by an HTTPError; the answer is judged.
GpuRead(r) ==
    /\ job[r].at = "gpu"
    /\ job[r].answer.outcome # "raised"
    /\ GoesOn(r, [job[r] EXCEPT !.at = "search", !.spent = 0, !.answer = NoAnswer,
                                !.result = Judged(r)])
    /\ UNCHANGED <<apiVars, sttVars, backend, slow, faults, form>>

\* /api/ps has answered no JSON, a list of models that is none, or a size that
\* is no number, which _update_gpu_metric leaves to the `except' of analyze:
\* the rules judge, whatever the model has answered.
GpuGarbled(r) ==
    /\ job[r].at = "gpu"
    /\ GoesOn(r, [job[r] EXCEPT !.at = "search", !.spent = 0, !.answer = NoAnswer,
                                !.result = RuleVerdict[r]])
    /\ UNCHANGED <<apiVars, sttVars, backend, slow, faults, form>>

\* rag-worker is asked for similar cases if there is any indicator; if it
\* does not answer, there are none.  The cases themselves are left out.
Searched(r) ==
    /\ job[r].at = "search"
    /\ GoesOn(r, [job[r] EXCEPT !.at = "urls", !.spent = 0])
    /\ UNCHANGED <<apiVars, sttVars, backend, slow, faults, form>>

\* The URLs of the text have been looked up; if apps/api still waits, the
\* result is its answer.
JobEnds(r) ==
    /\ job[r].at = "urls"
    /\ Released(r)
    /\ call' = IF call[r].at # "mcp" THEN call
               ELSE [call EXCEPT ![r].at = "correlation", ![r].waited = 0,
                                 ![r].reply = job[r].result]
    /\ UNCHANGED <<sttVars, backend, slow, faults, form>>

\* An exception leaves execute: mcp-server answers 500, and apps/api 502 or,
\* of a recording, 422.
Raised(r) ==
    /\ Released(r)
    /\ call' = IF call[r].at # "mcp" THEN call
               ELSE [call EXCEPT ![r] = Over("failed")]
    /\ UNCHANGED <<sttVars, backend, slow, form>>

\* A service has answered 200 with something that nobody catches: Ollama, from
\* /api/generate or /api/ps, JSON that is no object, or what Judged calls
\* "raised"; rag-worker or Safe Browsing no JSON or JSON without its fields.
JobRaises(r) ==
    /\ \/ job[r].at \in {"llm", "gpu"}
       \/ job[r].at = "search" /\ HasRiskIndicators(job[r].result)
       \/ job[r].at = "urls" /\ TextOf[r].url
    /\ Raised(r)
    /\ UNCHANGED faults

\* The database refuses a statement of the correlation.
JobFails(r) ==
    /\ job[r].at = "urls"
    /\ TextOf[r].url
    /\ Fault
    /\ Raised(r)

-----------------------------------------------------------------------------
\* apps/api and stt-worker

\* analyze_call: the text goes to mcp-server.
ServeText(r) ==
    /\ r \notin Audio
    /\ MayServe(r)
    /\ call' = [call EXCEPT ![r].at = "mcp"]
    /\ Accepted(r)
    /\ UNCHANGED <<sttVars, backend, slow, faults, form>>

\* analyze_call_audio: the recording goes to stt-worker first.
ServeAudio(r) ==
    /\ r \in Audio
    /\ MayServe(r)
    /\ call' = [call EXCEPT ![r].at = "stt"]
    /\ sttQueue' = Append(sttQueue, r)
    /\ UNCHANGED <<mcpVars, slow, faults, form>>

\* POST /api/v1/transcribe: the text is what apps/api has judged, if it has
\* waited for it.
Transcribed(r) ==
    /\ sttQueue # << >> /\ r = Head(sttQueue)
    /\ sttQueue' = Tail(sttQueue)
    /\ IF call[r].at = "stt"
       THEN /\ call' = [call EXCEPT ![r].at = "mcp", ![r].waited = 0]
            /\ Accepted(r)
       ELSE UNCHANGED <<call, job, waiters>>
    /\ UNCHANGED <<backend, slow, faults, form>>

\* The recording cannot be decoded, or the model of stt-worker fails: 422.
NotTranscribed(r) ==
    /\ sttQueue # << >> /\ r = Head(sttQueue)
    /\ sttQueue' = Tail(sttQueue)
    /\ call' = IF call[r].at # "stt" THEN call
               ELSE [call EXCEPT ![r] = Over("unreadable")]
    /\ UNCHANGED <<mcpVars, slow, faults, form>>

\* Mutant: the call to stt-worker has no timeout.
GivesUpOnMcpOnly(r) ==
    /\ call[r].at = "mcp" /\ call[r].waited = McpTimeout
    /\ call' = [call EXCEPT ![r] = Over("gave_up_mcp")]
    /\ UNCHANGED <<sttVars, mcpVars, slow, faults, form>>

\* apps/api gives up: 502.  Neither stt-worker nor mcp-server learns of it.
TimeOut(r) ==
    /\ \/ /\ call[r].at = "stt" /\ call[r].waited = SttTimeout
          /\ call' = [call EXCEPT ![r] = Over("gave_up_stt")]
       \/ /\ call[r].at = "mcp" /\ call[r].waited = McpTimeout
          /\ call' = [call EXCEPT ![r] = Over("gave_up_mcp")]
    /\ UNCHANGED <<sttVars, mcpVars, slow, faults, form>>

\* The correlation of apps/api has ended or failed, and the row is stored.
Answered(r) ==
    /\ call[r].at = "correlation"
    /\ call' = [call EXCEPT ![r] = Over("answered")]
    /\ UNCHANGED <<sttVars, mcpVars, slow, faults, form>>

\* The row cannot be stored: 500.
NotStored(r) ==
    /\ call[r].at = "correlation"
    /\ Fault
    /\ call' = [call EXCEPT ![r] = Over("failed")]
    /\ UNCHANGED <<sttVars, mcpVars, slow, form>>

Lost(lost) ==
    [r \in Requests |-> IF r \in lost THEN Over("failed") ELSE call[r]]

\* Its clients lose their connections, the form among them.
ApiRestarts(a) ==
    /\ Fault
    /\ form' = IF form.loading /\ form.to = a THEN [form EXCEPT !.loading = FALSE] ELSE form
    /\ \E waiting \in SUBSET {r \in Requests : ApiOf[r] = a /\ call[r].at = "queued"} :
            call' = Lost(waiting \cup Serving(a))
    /\ UNCHANGED <<sttVars, mcpVars, slow>>

SttRestarts ==
    /\ Fault
    /\ sttQueue' = << >>
    /\ call' = Lost({r \in Requests : call[r].at = "stt"})
    /\ UNCHANGED <<mcpVars, slow, form>>

\* A correlation that is lost is answered without one.
McpRestarts ==
    /\ Fault
    /\ job' = [r \in Requests |-> IF job[r].at \in {"waiting"} \cup Working
                                  THEN [NoJob EXCEPT !.at = "lost"] ELSE job[r]]
    /\ waiters' = << >>
    /\ call' = Lost({r \in Requests : call[r].at = "mcp"})
    /\ UNCHANGED <<sttVars, backend, slow, form>>

-----------------------------------------------------------------------------
\* Time

CallLimit(r) ==
    CASE call[r].at = "stt" -> SttTimeout
      [] call[r].at = "mcp" -> McpTimeout
      [] call[r].at = "correlation" -> IF TextOf[r].url THEN CorrelationTimeout ELSE 0

JobLimit(r) ==
    CASE job[r].at = "llm" -> LlmTimeout
      [] job[r].at = "gpu" -> GpuTimeout
      [] job[r].at = "search" -> IF HasRiskIndicators(job[r].result) THEN RagTimeout ELSE 0
      [] job[r].at = "urls" -> IF TextOf[r].url THEN BrowsingTimeout ELSE 0

Calling == {r \in Requests : call[r].at \in Blocking}

SlowNow ==
    {s \in Services :
        CASE s = "ollama" -> \E r \in Holding : job[r].at \in {"llm", "gpu"}
          [] s = "rag" -> \E r \in Holding : job[r].at = "search"
          [] s = "browsing" -> \E r \in Holding : job[r].at = "urls"}

\* Of several slow services it is remembered that they are several.
Remembered(services) == IF Cardinality(services) > 1 THEN Services ELSE services

\* 5 seconds pass, unless a call is at its timeout.
Tick ==
    /\ Calling # {} \/ Holding # {}
    /\ \A r \in Calling : call[r].waited < CallLimit(r)
    /\ \A r \in Holding : job[r].spent < JobLimit(r)
    /\ call' = [r \in Requests |-> IF r \in Calling THEN [call[r] EXCEPT !.waited = @ + 1]
                                   ELSE call[r]]
    /\ job' = [r \in Requests |-> IF r \in Holding THEN [job[r] EXCEPT !.spent = @ + 1]
                                  ELSE job[r]]
    /\ slow' = Remembered(slow \cup SlowNow)
    /\ UNCHANGED <<sttVars, backend, waiters, faults, form>>

-----------------------------------------------------------------------------
JobStep(r) ==
    \/ LlmAnswers(r) \/ LlmFails(r)
    \/ GpuRead(r) \/ GpuGarbled(r)
    \/ Searched(r)
    \/ JobEnds(r) \/ JobRaises(r) \/ JobFails(r)

Serve(r) ==
    \/ ServeText(r) \/ ServeAudio(r)
    \/ JobStep(r)
    \/ TimeOut(r)
    \/ Answered(r) \/ NotStored(r)

Uploads ==
    /\ \/ /\ \A r \in Requests \ Beside : call[r].at = "queued"
          /\ ChooseFile
       \/ Check
    /\ UNCHANGED <<apiVars, sttVars, mcpVars, slow, faults>>

FormIsAnswered ==
    /\ Checked(Free)
    /\ UNCHANGED <<apiVars, sttVars, mcpVars, slow, faults>>

Next ==
    \/ \E r \in Requests : Serve(r) \/ Transcribed(r) \/ NotTranscribed(r)
    \/ \E a \in Apis : ApiRestarts(a)
    \/ SttRestarts
    \/ McpRestarts
    \/ Tick
    \/ Uploads
    \/ FormIsAnswered

Spec == Init /\ [][Next]_vars

\* The clock and the processes do not stop as long as there is something to
\* do, and a process that is free answers the form.  stt-worker is not
\* obliged to come to an end with a recording, nor are the users to ask.
FairSpec ==
    /\ Spec
    /\ WF_vars(Tick \/ \E r \in Requests : Serve(r))
    /\ WF_vars(FormIsAnswered)

-----------------------------------------------------------------------------
(***************************************************************************)
(* As long as nothing fails and only one service is slow, whichever it is  *)
(* and however slow, apps/api waits for mcp-server long enough to get a    *)
(* verdict.  .env.example and main.py want MCP_ANALYZE_TIMEOUT_SECONDS to  *)
(* be larger than the timeout of the language model for this; it must also *)
(* outlast the wait for a slot, the calls that follow the model's and jobs *)
(* whose caller has given up.                                              *)
(***************************************************************************)
OneSlowServiceCostsNoVerdict ==
    faults = 0 /\ Cardinality(slow) <= 1 => \A r \in Requests : call[r].at # "gave_up_mcp"

\* The verdicts that there are of r: that of the rules, and those of answers
\* of the model that could be used.
Verdicts(r) ==
    {RuleVerdict[r]} \cup
        (IF backend = "llm"
         THEN {ModelResult(answer) : answer \in {x \in Answers : x.outcome = "usable"}}
         ELSE {})

\* The analysis of r needs an answer of Ollama, rag-worker or Safe Browsing.
AsksOthers(r) == backend = "llm" \/ HasRiskIndicators(RuleVerdict[r]) \/ TextOf[r].url

(***************************************************************************)
(* A verdict is wholly that of the rules or wholly that of an answer of    *)
(* the model that could be used, never a mixture, whichever service        *)
(* failed, and however.  And as long as no process and no statement fails, *)
(* only an analysis that asks another service can fail.  (It can: the      *)
(* rules take over only after the exceptions that analyze of               *)
(* ollama_call_analysis_adapter.py lists, see JobRaises, while             *)
(* rest_server.py and metrics.py promise it of every failure.)             *)
(***************************************************************************)
VerdictIsWhole ==
    \A r \in Requests :
        /\ call[r].at = "correlation" => call[r].reply \in Verdicts(r)
        /\ call[r].at = "failed" /\ faults = 0 => AsksOthers(r)

(***************************************************************************)
(* The semaphore of mcp-server neither overflows nor starves: no more than *)
(* Slots jobs work, and a job waits only while all of them do.             *)
(***************************************************************************)
WaitersMeanBusy ==
    /\ Cardinality(Holding) <= Slots
    /\ waiters # << >> => Cardinality(Holding) = Slots

\* Whatever has been taken on has ended, and nobody waits at the form.
AllIsDone ==
    /\ \A r \in Requests : call[r].at \notin Blocking
    /\ \A r \in Beside : call[r].at \in Ended
    /\ Holding = {} /\ waiters = << >>
    /\ ~form.loading

(***************************************************************************)
(* Nobody waits forever and no slot is lost, whatever is asked in between: *)
(* every request that a process has taken on ends, although stt-worker may *)
(* hang, every slot of mcp-server comes back, and the form gets its        *)
(* answer, although it needs a process that analyses keep for themselves.  *)
(* (Requests are finite in number and served once, so that any of them     *)
(* that never ended would make AllIsDone false for good.)                  *)
(***************************************************************************)
NobodyWaitsForever == []<>AllIsDone
=============================================================================
