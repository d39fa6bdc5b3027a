# Voice-phishing detector: TLA+ models, checks and proofs

This directory is the formal model of the repository's applications: what their
handlers, pages and scripts do to state, in which interleavings and under which
failures, and which promises of the code and its documentation survive them. Every
definition is translated from the source; `PROJECT.json` maps each one to the lines it
stands for, lists the hazards the properties are for, and names the theorems.

## 1. Inventory of the system

| Part | State it keeps | Operations that change it | Hard behaviour |
|---|---|---|---|
| **verify-worker** (`apps/verify-worker`) | issuers' key pairs and public keys, credentials, revocation list, one-time proofs, failure times per client; all process memory | issue, revoke, create proof, verify (behind the failure limiter) | sliding window that forgets, expiry boundary, code reuse, order of the checks, restart that loses everything |
| **api: call verification** (`POST /calls/{id}/verification`) | failure times per client, verification log per call, guardian notifier; per process | limit check, remote call, count, retry decision, alert, record | thread-pool handler without a lock across its steps; a remote call of seconds between check and count; lost replies; replicas |
| **api: call analysis** (`POST /calls/analyze`, `/calls/audio`) | append-only audit table (postgres) | transcribe, mask, analyze at mcp-server, correlate, merge, add | blocking handlers that serve one request at a time; three remote calls with timeouts of their own |
| **mcp-server: analysis and correlation** | `channel_signals` (postgres), a semaphore around the language model | analyze, correlate (find, then record) | find-then-record race between channels; the same entity correlated twice for one call; jobs whose caller has gone; a model that answers late, wrongly or not at all |
| **report submission** (api, mcp-server) | `report_records` (postgres) | append a report | a report stored although its answer is lost |
| **mcp-server: e-mail ingestion** | Gmail labels (external), analysis results (through the api) | poll, fetch, analyze, mark processed | a crash, a timeout or a failed label between analysis and mark; a restart in between |
| **frontend: dashboard** | page state: request ids in flight, rows, filters, forms, report buttons | user actions, a timer, late answers | late answers overwriting newer ones, rows that leave the table |
| **frontend: verification screens** | a proof and its countdown; the verdict of each citizen's page | ask for a code, type it, type it again | repeated clicks, lost answers, records shared by pages without a call id |
| **deepvoice check** (api, frontend) | the form's file and verdict | choose, check | two detectors with a fallback, a file replaced under way |
| **stt-worker**, **rag-worker** | a queue of recordings; a similarity index | transcribe; read-only queries | a recording that is never done |
| **detection rules** (patterns, scoring, the model's answer) | none | pure functions | thresholds, lists paired by position |
| **infrastructure** (k8s, docker, grafana, prometheus, jekyll) | none of its own | deployment | replicas of a process that keeps state in memory |

How the parts interact. A member of staff makes a code on the staff page and reads it
out; the citizen's page posts it to the api, which runs the request in a thread of
FastAPI's pool and calls the verify-worker over HTTP with a timeout; the worker runs each
request to its end on one event loop and answers a reason; the api counts the failure,
decides whether the citizen may type again or a guardian is alerted, and records the
outcome under the call. Analysis requests go from the dashboard to the api, from there to
stt-worker (recordings) and mcp-server (analysis, then correlation of the entities of the
unmasked text), and the merged result is appended to the audit table the dashboard reads.
A script of mcp-server polls Gmail and posts each mail to the api as if it were a call.

What makes each part correct:

* verify-worker: a code is accepted at most once, before its deadline and never for a
  revoked credential; a failed or refused attempt consumes nothing; the limiter counts
  exactly the failures of the window and never lets more through.
* call verification: no refusal goes without a guardian alert; one retry per run of
  unknown codes; one alert per limited call; the limit is overshot by a bounded amount.
* screens: red implies an alert and never contradicts an acceptance; a countdown does not
  outlast its code.
* analysis and correlation: an event is boosted by earlier events of other channels
  and each one once; the audit table has one row per accepted request, never changed.
* the pipeline: one slow service costs no verdict; a verdict is wholly the rules' or wholly
  the model's; no slot is lost, by an exception either, and nobody waits forever.
* dashboard: no answer replaces a newer one, the page catches up, reports are accounted for.
* e-mail ingestion: every mail is analysed and none is labelled without an analysis.

## 2. Plan

Done, in the order of importance:

1. `AttemptStore`, `OneTimeProof`, `VerifyWorker`: the component that decides whether a
   caller is who he says he is.
2. `CallVerification` (with `VerificationRules`): the threads and replicas of the api in
   front of it.
3. `IdentityVerification`: both, composed over a network that loses replies.
4. `Correlation`, `CallAnalysis`: the analysis with the correlation between channels.
5. `EmailIngestion`: polling with crashes, failures and lost answers.
6. `Dashboard`: overlapping requests, late answers, the report buttons, and the tables
   behind them.
7. `VerificationScreens`: what staff and citizens see, over `OneTimeProof`.
8. `Analyzer`, `Deepvoice`, `AnalysisPipeline`: judgements, and how they are reached in time.
9. Proofs of every invariant and action property of 1 to 8.

Left:

* `EmailIngestion` over `CallAnalysis` in place of its summary of the api.
* Requests to `/api/v1/correlate` that bring a text of their own.

## 3. Modules

The MC modules hold nothing but model values and the small sets of an instance.

**`AttemptStore`** — the policy (`WindowStart`, `IsLimited`) and the deque
(`AfterPurge`) that verify-worker and api hold a copy of each. The purge drops the old
*head* only: on a deque out of order it leaves old times behind a young one.

**`OneTimeProof`** — the abstract verifier: a code is minted with a deadline, accepted
once before it, withdrawn, or forgotten by a restart. Nothing about credentials,
signatures, reasons or limits.

**`VerifyWorker`** — verify-worker. Its event loop runs each endpoint to the end
(nothing awaits), so each is one action: `IssueCredential`, `RevokeCredential`,
`CreateProof`, `Verify` (`VerifyRefused`, `VerifyFailed`, `VerifyAccepted`: the limiter,
then the checks of `Outcome` in the order of the code, then `mark_used`), `Restart` and
the clock. Keys are counted by the life of the process (`generation`). `evaluated`,
`minted` and `accepted` are history.

**`VerificationRules`** — `identity_verification.py` of the api: when a code may be typed
again, and when a refusal is a repetition.

**`CallVerification`** — `POST /calls/{id}/verification` of the api, which FastAPI runs
in a thread pool. Each statement that touches shared state is an action: `CheckLimit`,
the call, counting the failure, reading the log for the retry decision, the alert, the
record. Threads belong to processes (`ProcessOf`); limits and logs are per process,
alerts reach one guardian. verify-worker is any reply; a request takes at most
`MaxRequestSeconds`, which the timeout of the HTTP client justifies. `overlapped` is
history: whether two requests were ever served at once.

**`IdentityVerification`** — `CallVerification`, which it extends, and an instance of
`VerifyWorker`, joined by `wire`. (The api is extended and not instantiated because the
theorems of an extended module can be cited as they stand.) The worker's handler is the step that answers; a reply may be lost, a request
the api gave up on may be handled later (`late`), a restart breaks the connections.

**`VerificationScreens`** — `StaffProofPanel` and `CitizenVerifyPanel` with every button
that sends or clears something, an instance of `OneTimeProof` as the worker, and the api
in three steps (evaluate, decide from the log, record) under `VerificationRules`. Whether a
limiter refuses a request is left open, since clients share addresses. Requests and answers
are lost on either side of the evaluation.

**`Correlation`** — the query and the boost of `MultichannelCorrelationService` as
operators: a row of `channel_signals` is a record, the table a set of rows.

**`CallAnalysis`** — `POST /calls/analyze` of the api and the two endpoints it calls at
mcp-server. The api's handler holds its event loop from beginning to end, so one process
serves one request at a time (`ApiProcesses` are the replicas); mcp-server runs its
handlers in threads.
Each execution of `correlate` is a job of two stages, read the table, then insert its
rows one statement at a time. There are two per request: `"analyze"`, inside the
analysis, with what masking left of the text (URLs), and `"correlate"`, which the api
asks for with all entities. Statements fail for good after their retry, with or without
effect; answers time out while the job runs on; other clients call mcp-server directly.
A text is the set of entities in it, a pattern score a choice from `Scores`.

**`Analyzer`** — the judgement of a text: keyword rules with their weights, thresholds and
reasons (`RuleResult`), and what `_to_domain` makes of an answer of the language model
(`ModelResult`). A text is how often each category was found in it.

**`Deepvoice`** — both detectors up to the thresholds of their indicators
(`Heuristic`, `WithClassifier`) and `DeepvoiceCheckForm` with its file, its request and
its verdict.

**`AnalysisPipeline`** — the same analysis as `CallAnalysis`, in time: `ServeText` or
`ServeAudio` at the api, a queue at stt-worker, the semaphore and its waiters at mcp-server
(`Accepted`, `Released`), then one action per service a job asks (`LlmAnswers`,
`LlmFails`, `GpuRead`, `Searched`, `JobEnds`), each within its timeout; `TimeOut` is the
api giving up, which nobody behind it learns. An answer of the model has one of three
outcomes (`Judged`): usable, *caught* (`_to_domain` raises one of the exceptions that
`analyze` lists at `ollama_call_analysis_adapter.py:127`, and the rules take over), or
*raised* (it raises another, as an `AttributeError` of a null summary does). What nobody
catches, from whichever service, ends the job and its request (`JobRaises`); a garbled
answer of `/api/ps` costs a usable verdict (`GpuGarbled`) or the request. The processes
restart. What correlation
finds, and the row, are `CallAnalysis`'s; the deepvoice form shares the api's processes.

**`Dashboard`** — the page with `rows` and `reports` as the tables behind it. One action is
one callback of the browser (`Poll`, `LoadMore`, `Answer`, `Discard`, `ReceiveAnalysis`,
`Report` ...) or one statement of a server (`Read`, `StoreAnalysis`, `StoreReport`).
A report button lives as long as its row is rendered (`Render`). `refreshes` is the
sequence of requests in flight in the order of their ids; `older`, a history variable, tells
how many of them were issued before what is shown.

**`EmailIngestion`** — the poller script as one process (`Start`, `Fetch`, `Post`,
`Mark`, and for each its failure; `Crash` anywhere), Gmail as arrivals, labels and a
search of one day and one page, and the api as what `CallAnalysis` shows a client.

## 4. Runs

| Run | Question | Answer |
|---|---|---|
| `worker` | Are codes accepted once, in time, unrevoked, and is the limiter exact? | Yes, and the worker implements `OneTimeProof`. |
| `call_concurrent` | What do two threads on one call do to the limit and the alerts? | The limit is overshot by the other thread at most; the purge is late by one request at most; no final refusal goes without an alert; where no two requests overlapped, the rules of retries, alerts and counts hold exactly (`RulesHoldInSequence`). |
| `call_two_alerts` | Is the guardian alerted once per limited call, as documented? | No: a client at its limit that sends two requests at once alerts twice. |
| `end_to_end` | Do two api processes and the worker together keep the limit, account for acceptances and end each request? | Yes, with lost replies, late executions and a restart; no client is refused for another's wrong codes. |
| `screens` | Does what people read agree with what was decided? | Yes: red implies an alert and never contradicts an acceptance, a countdown is honest, the first typing mistake of a call is forgiven. |
| `analysis_mixed` | What survives interleaving, lost answers and failed statements? | Earlier signals are found, matches are justified, answers are in the audit table; of two related requests to one process one is told of the other, unless something failed. |
| `analysis_boost` | Does the boost follow the documentation for texts with URLs? | No: flag and match count twice. |
| `analysis_database` | Does an analysis work without the database? | No, if the text has a URL. |
| `pipeline` | Does every request get a verdict, in time and of one piece? | In time, unless several services are slow at once or a process fails. Of one piece always. Not every request: an answer of another service that nobody catches fails it without a fault, and only that. The semaphore is exact; nobody waits forever. |
| `dashboard` | What do late and lost answers do to the page and its reports? | No answer replaces a newer one, the page catches up, each report has its click. |
| `mail` | Is each mail analysed, and is a label a proof of it? | Yes, unless it fails until it is older than the search goes back. |
| `mail_restart` | Does a restart of the poller treat no mail twice, as documented? | No: the row is stored before the label, and an end of the process in between leaves a mail that is found again. |

The four runs that end in a violation (`call_two_alerts`, `analysis_boost`,
`analysis_database`, `mail_restart`) are disagreements between code and documentation;
`PROJECT.json` quotes the sentence each one refutes. What holds in their place is a theorem
for two of them: without URLs through the api the boost is as documented (`BoostHolds`), and
a mail is analysed at most once more per failed attempt (`RepetitionsAreCaused`).
`PairsAreSeen` is about requests to *one* process: of two processes each can read before the
other records, and then neither request is told of the other.

`VerdictIsWhole` excuses the failure of a request that asks another service, because the code
does fail such requests. The excuse is as narrow as it can be: by `AsksOthers` a text without
keywords and URLs never fails on the rule backend, and any failure of another service that
`LlmFails` and `Searched` stand for (unreachable, late, an error status, no JSON of the model)
leads to a verdict of the rules.

`NobodyWaitsForever` says that all work is done again and again. Requests are finite in
number and served once, so a request or a slot that never came back would make that false.

### Bounds

* `worker`: two codes (one to be drawn again), two credentials of one issuer (one
  seeded, one issued later), one client, two failures per window of two ticks, a life of
  four ticks, one restart. The window passes twice; each deadline is met exactly, before
  and after.
* `call_*`: two threads of one process are the least with an interleaving; a limit of two
  tells "at the limit" from "at the first failure"; four requests let a limited client be
  refused twice; the clock outlives the window.
* `end_to_end`: two threads, each a process of its own, so that neither knows of the
  other's counts; two clients behind one api address; a limit of one, two requests, one
  restart. A reply is lost or late at any point. One issuer and one code suffice, since
  `worker` covers them.
* `screens`: two citizens on the shared id `"standalone"`, one code (typed before it is
  made, it is a mistake), two submissions, one lost message, one restart, a code that lives
  two ticks. The run stops when the submissions are used up.
* `analysis_mixed`: two events of three shapes (with URL and number, without any, direct),
  two processes, window 0 and two instants of the clock, so that the window is its own edge
  and different instants are outside of it; one lost answer and one failed statement.
* `pipeline`: a tick is 5 seconds and the timeouts are those of the configuration (30 s
  for the api's calls, 20 s for the model). Three requests on two replicas (a text with a
  URL, a harmless one, a recording) and two slots; a job whose caller gave up leaves a waiter
  behind it. One fault; the model answers above its scale with an unknown category, or
  something that is caught, or something that is not. The form is used twice, and only beside the recording (`Beside`), which
  is enough to block it.
* `dashboard`: two calls, one of high risk, a page of one row with one more to load, two
  refreshes in flight, two clicks on report buttons, one failed request.
* `mail`: two mails and a page of one (the page hides a mail), three faults, a day of two
  ticks and a clock that goes beyond it. `mail_restart`: the same with one fault.

Events, threads and pages are symmetric in the runs that say so; no run with a liveness
property uses symmetry.

### Fairness

* `IdentityVerification`: weak fairness of each api thread's steps and of the end of its
  call. A thread that can run is run; the HTTP client ends a call by its timeout. Nothing
  is assumed of the worker or the network: a reply need not arrive.
* `AnalysisPipeline`: weak fairness of the clock together with the steps of the processes,
  and of the answer to the form by a free process. stt-worker may hang forever: it is the
  api's timeout that ends the request.
* `Dashboard`: weak fairness of the timer. That answers come in before the next request
  again and again is the premise of `ScreenCatchesUp`, not an assumption.
* `EmailIngestion`: weak fairness of `Poller`, the poller's next step or its start. The
  process loops with a sleep and its calls carry a timeout of 60 s; that somebody starts
  it again after it has ended is an assumption about its operation. Faults are bounded,
  so a mail is analysed or it gets older than the day the search reaches back, which no
  retry can mend.

## 5. Proofs

The `*Proofs` modules are checked by the TLA+ proof system for all values of the constants,
under the named assumptions of the modules (`WorkerAssumption` and so on: natural numbers,
finite sets where something is counted).

*verify-worker* (`AttemptStoreProofs`, `VerifyWorkerProofs`). `AcceptedOnce`: the flag of a
code and the history of acceptances move in one step, by cases on the outcome.
`SignaturesHold` needs `SignedByCurrentKeys`, that every stored credential and proof is
signed with a key of this life: a restart changes the keys and drops all at once.
`BudgetHolds` and `CountIsExact` rest on `DequesFollowHistory`: the deque is the recent end
of the history, times are ordered, and any `MaxFailures + 1` consecutive ones span a window.
The lemmas `PurgeKeepsLimits`, `AppendKeepsLimits`, `TimeKeepsLimits` say what each
operation of the deque does to that. `RefinesOneTimeProof`: `StepSimulation` maps each
action to a step of `OneTimeProof` or a stuttering step.

*Call verification* (`CallVerificationProofs`), for any number of threads and processes.
`RefusalsAreAlerted`: a refusal that sends no alert of its own is a repetition, so the
invariant (`GuardianInv`) adds that a limit in a log has been alerted and is never
forgotten, neither by the log nor by a thread that has read it and not yet recorded.
`LateByOneRequest`: deques are not sorted, but no time stands behind one that is younger by
more than a request's duration (`DequesInv`); then whatever the head-only purge leaves is
late by that much at most.
`RulesInSequence`: while no two requests have overlapped there is one request (`Alone`), and
what it has read of the stores is still so when it acts. Each rule has an invariant: a
granted retry is still due (`RetryInv`); every alert of a limit has a process whose log, or
whose request about to write it, says so (`AlertsInv`, by counting those processes); the
deques are sorted and embedded in the history, the failure about to be counted included
(`CountsInv`).
`OvershootByThreads`: a request that passes the limit finds fewer than `MaxFailures` of the
window's wrong codes in the deque. All others are on their way there in threads
(`NoFailureForgotten`: younger requests purge nothing of a window shortened by a request's
duration), and every such thread, like every thread at the worker, is one of the process
(`ThreadsBoundWindow`, which also counts the codes that are not judged yet).

*End to end* (also in `CallVerificationProofs`). `SystemRefinesApi` and
`SystemRefinesWorker`: each step of the composed system is a step of the api's
specification, or none, and a step of the worker's, or none. So what is proved about either
part holds of the whole, and three properties relate the two. `AcceptancesAccounted`: each
acceptance is in one log, in one thread or lost with its reply; the invariant (`AccountInv`)
adds that the logs have room for the open requests, so none of the counted records falls out
of the bound. `EndToEndLimit`, until the worker restarts: the worker's limiter is exact for
the key under which it sees a client (`WorkerLimits`), and it has evaluated every wrong code
that any process counts, at most `MaxRequestSeconds` after its request began (`BudgetInv`).
`OwnFailuresLimit`: a limit has wrong codes of the same client behind it, found by the
api's process or by the worker (`FailuresAreFound`, `OwnInv`). It assumes that the worker
trusts the api's address (`ApiAddress \in TrustedProxies`); otherwise all citizens share one
limit.

*Screens* (`VerificationScreensProofs`). Each property of the run has an invariant of its
own. `RedIsAlerted`: along the path of a request, evaluated to decided to recorded, what it
means for the call is already alerted or will be by this request (`AlertInv`).
`NoFalseAccusation`: a verdict is about the last request of its page (`OrderInv`).
`CountdownHolds`: the deadline that is shown is the worker's (`CountInv`, `LivesInv`).
`FirstTypoForgiven`: an unknown code in a log belongs to another request (`TypoInv`).

*Call analysis* (`CallAnalysisProofs`).

* `TypeCorrect`. Not inductive alone: a score is a number because the set of matches is
  finite, hence the table has to be (`IsFiniteSet(signals)`), and a row carries a channel
  because only a requested event has jobs (`OnlyRequestedRun`).
* `MatchesHold`: an event never matches itself although its own rows are in the table
  before its second correlation. The invariant `Justified` adds that a row carries the
  channel of its request (`RowsAreOfRequests`), that a new event has neither request nor
  rows (`NewIsUntouched`), and that a job that has not read has no matches
  (`NothingFoundYet`, `CorrelatedAfterwards`), so giving it a time cannot make an earlier
  match unjustified. `JobStepJustified` states what all steps of a job have in common.
* `AnswersAreAudited`: `RowsHaveEnded`, a request without an end has no row, makes the
  uniqueness of rows inductive.
* `EarlierSignalsHold`: `Complete` adds that a job that is done has inserted a row for
  each entity it could see (`Recorded`), that rows carry entities of their requests, and
  that the events of `earlier` were done and stay so (`EarlierAreDone`). `ReadSignals`
  then finds each shared entity; every other step keeps what was found (`FoundKept`).
* `PairsMeet` holds for every two requests to the same api process, however many processes
  and other clients there are, until an answer of mcp-server is lost or a statement fails.
  `InOrder`: a process serves one request at a time, so of two that it has ended the earlier
  one was complete before the other came in (`OneIsEarlier`), and `EarlierSignalsHold` does
  the rest.
* `BoostHolds` assumes only that texts that go through the api name no URL
  (`NoUrlThroughApi`): then masking leaves nothing, the analysis correlates nothing and the
  score is raised once at most (`PlainInv`). Every event has one row per entity
  (`SoleRows`), so its matches are as many as the pairs of event and entity
  (`AsManyPairs`), which is what the documentation counts.

*The pipeline* (`AnalysisPipelineProofs`). `SlotsHold`: waiters are distinct, each says that
it waits, and a request the api has not passed on has no job (`SlotInv`), so nobody enters
the pool twice and a slot is handed on to somebody who has none. The cases are what a step
does to the jobs: one comes in (`AcceptedSlot`), one ends (`ReleasedSlot`), or the same
stay. `VerdictsHold`: from the judgement on a job carries a verdict of `Verdicts`, and a job that
asks nobody cannot raise (`VerdictInv`).
`FormHolds`: no verdict is shown while a check is under way (`FormInv`), and by cases on the
recording both detectors end with the same status (`StatusOfVerdicts`).
`OneSlowServiceHolds`: every process of the api serves one request and there is a slot for
each, so while nothing fails and one service at most is slow nobody waits for a slot and no
caller gives up; then the clock of a call is that of its job, and what earlier stages took is
bounded by the timeouts of the one slow service (`TimeInv`, `OnClock`). It assumes finitely
many api processes and no more of them than slots (`Cardinality(Apis) <= Slots`), as deployed:
the production overlay runs two replicas and `LLM_MAX_CONCURRENCY` is 2 by default.
`LevelsOfRules` says for every text which level the weights give it: low for one category at
most, medium for two and high for more, with the one exception of urgent and remote, which
are high together. It and `TypeCorrect` speak of every text and every answer of a model. A
score is a sum over a set, and a list of patterns is filtered step by step; the few facts needed of both
are proved by taking the least number for which they fail (`WFMin`), since the library's
induction theorems are out of reach.

*Dashboard* (`DashboardProofs`). `NeverGoesBack` follows from `LatestIsAhead`: the request
with the latest id is the last of those in flight, and what is shown is not younger.
`ReportsHold` counts the clicks of a row by their stages (`ReportsInv`).

*E-mail ingestion* (`EmailIngestionProofs`). `LabelsHold`: a mail is marked only after a
row (`LabelInv`). `RepetitionsAreCaused` proves `RepetitionsAreBounded`, which remains of the
promise that `mail_restart` refutes: for each mail, rows and running requests are at most the mishaps, plus one if an attempt has succeeded (`CauseInv`); what is in the batch
has no label, so a success is followed by no further attempt.

Only model-checked are the liveness properties (`EveryRequestEnds`, `EveryMailIsAnalyzed`,
`NobodyWaitsForever`, `ScreenCatchesUp`), which the proof system does not reach. Without
its assumption `BoostHolds` is false, as `analysis_boost` shows.

## 6. What is not modelled

* What regular expressions match (masking, extraction, keywords): a text *is* its set of
  entities, or its number of keywords per category; that masking hides all but URLs is
  taken from `mask_pii`. Sentences, prompts and layout.
* Signal processing: the values of the acoustic indicators, the classifier, the speech
  model and the similarity of cases are floating point; there remain their outcomes.
* Counts per level and category of the statistics, and which fields a role may read: pure
  functions of the rows.
* The MCP stdio and gRPC front ends of the services modelled here, and requests to
  `/api/v1/correlate` that bring a text of their own.
* Access by role, readiness probes, metrics; the scripts that made samples; deployment and
  monitoring, which are configuration.
* Clocks of different machines: the processes share one clock of ticks, and a browser's
  countdown runs on the worker's clock. The two clocks of the correlation (the time a client
  names, and now) are kept apart.

### Observations that no run shows

Met while modelling; nothing in the repository decides them, a theorem says how far they
reach, or the model abstracts from them.

* With a text and a recording at once, the panel under the form and the list shown may be
  those of the analysis that was started first (`page.tsx:58`, `AnalyzeCallForm.tsx:176`).
* On a page without a call id the first typing mistake may go straight to red, because
  another citizen has used up the retry (`CitizenVerifyPanel.tsx:202`).
* `pattern_rules.py:125` explains the weights as "two categories are medium", from before
  the fifth category; urgent and remote together are 70, which is high (`LevelsOfRules`).
* `ollama_call_analysis_adapter.py:127` does not list every exception an answer can cause:
  a null summary (194) or reasoning (200), a body or a `response` that is no object (154), an
  infinite score (161), a list from `/api/ps` (214). Such a request ends with 500 and 502,
  while `rest_server.py:161`, the comment of `llm_analysis_requests_total` in `metrics.py` and
  `requirements.md:59` let the rules take over when Ollama fails or is down. The schema
  that is sent along makes such answers unlikely; nothing checks them. Garbled answers of
  rag-worker and of Safe Browsing raise likewise, where the failure of a call is caught. The
  other way round, a body of `/api/ps` that is no JSON (211) discards a usable answer.
* After an item of an unknown category, which `_to_domain` leaves out so that one category
  does not spoil the whole (169-171), `_build_explanation` pairs reasons and patterns by
  position (198): each later reasoning stands under the wrong category, and the last is lost.
* A deepvoice verdict that arrives after the file was replaced is shown beside the new file
  (`DeepvoiceCheckForm.tsx:26`); `VerdictIsOfItsFile` leaves such files out.
* A report whose answer is lost can be sent again, and is stored twice; reports carry no key.
* The api blames stt-worker, with 422, for an error status of mcp-server during the analysis
  of a recording (`main.py:376`).
* Deepvoice v2 decides on a recording that is shorter than a frame, v1 does not.
* Replicas of the api, which the production overlay deploys and the documentation calls
  stateless, have limits, logs and retries of their own; the worker's limiter keeps the
  budget (`EndToEndBudget`), but the manifests do not deploy verify-worker.
* A failed `add` leaves signals whose `source_ref` leads to no row.
* `base_risk_score`, the score before correlation, holds the first of two boosts for texts
  with URLs.
* The liveness probe of the api (five times 15 s) races a handler that may block for the sum
  of its timeouts, 70 s.
* `poc-mobile-id.md:393` speaks of a range of addresses in `VERIFY_TRUSTED_PROXIES`; the
  code compares single addresses.
