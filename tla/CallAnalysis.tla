---------------------------- MODULE CallAnalysis ----------------------------
(***************************************************************************)
(* The analysis of a call, a message or a mail: apps/api masks the text,   *)
(* has apps/mcp-server analyze it, has it correlate the entities of the    *)
(* unmasked text, merges both answers and appends one row to the audit     *)
(* table.  mcp-server correlates inside its analysis too, with what the    *)
(* masking left: the URLs.  Other clients call mcp-server directly.        *)
(*                                                                         *)
(* AnalyzeCallService.execute never awaits, so one api process serves one  *)
(* request at a time; mcp-server runs its handlers in a thread pool and    *)
(* goes on when its caller has given up.  Each execution of correlate is a *)
(* job of its own: it reads the table, then inserts its rows one by one,   *)
(* each in a transaction of its own.                                       *)
(***************************************************************************)
EXTENDS Correlation

CONSTANTS
    Events,             \* requests for an analysis
    Requests,           \* what may be requested: channel, entities and path
    Channels,           \* call, sms, email
    Email,              \* the channel whose clients name the time of the event
    Urls,               \* URLs in the texts, reduced to hosts
    Numbers,            \* phone and account numbers in the texts
    Malicious,          \* URLs that Safe Browsing lists
    Scores,             \* risk scores the analyzers may give
    ApiProcesses,       \* replicas of apps/api
    LlmMaxConcurrency,  \* the semaphore around the analyses of mcp-server
    MaxTimeouts,        \* bound: answers of mcp-server the api does not get
    MaxDatabaseFaults,  \* bound: failed statements
    MaxTime             \* bound: the clock stops here

Entities == Urls \cup Numbers

\* "analyze" is the correlation inside the analysis, "correlate" the one
\* that apps/api requests.
Calls == {"analyze", "correlate"}

ASSUME CallAnalysisAssumption ==
    /\ IsFiniteSet(Entities)
    /\ Urls \cap Numbers = {}
    /\ Malicious \subseteq Urls
    /\ Email \in Channels
    /\ {"mcp", "none"} \cap ApiProcesses = {}
    /\ Requests \subseteq [channel : Channels, entities : SUBSET Entities,
                           via : ApiProcesses \cup {"mcp"}]
    /\ Scores \subseteq 0..MaxScore
    /\ LlmMaxConcurrency \in Nat \ {0}
    /\ MaxTimeouts \in Nat
    /\ MaxDatabaseFaults \in Nat
    /\ MaxTime \in Nat

VARIABLES
    now,        \* the clock of the processes
    pc,         \* how far the handling of each request has come
    request,    \* what was requested
    answer,     \* `raw', the result that execute builds up
    jobs,       \* the two executions of correlate for each event
    signals,    \* the channel_signals table
    audit,      \* the call_analysis_results table
    timeouts,   \* bound and history: answers lost so far
    faults,     \* bound: statements failed so far
    earlier     \* history: the events whose signals were complete at the start

vars == <<now, pc, request, answer, jobs, signals, audit, timeouts, faults, earlier>>

NoRequest == [channel |-> "none", entities |-> {}, via |-> "none", at |-> -1]

\* A job that has not been requested.
NoJob == [phase |-> "none", at |-> 0, todo |-> {}, matches |-> {}, flagged |-> {},
          before |-> 0, score |-> 0]

NoAnswer == [score |-> 0, base |-> 0, matches |-> {}, flagged |-> {}]

Ended == {"answered", "bad_gateway", "error"}

Request == [channel : Channels, entities : SUBSET Entities, via : ApiProcesses \cup {"mcp"},
            at : -1..MaxTime]

Row == [event : Events, call : Calls, channel : Channels, entity : Entities, at : 0..MaxTime]

Job == [phase : {"none", "queued", "find", "record", "check", "done", "failed"},
        at : 0..MaxTime, todo : SUBSET Entities, matches : SUBSET signals,
        flagged : SUBSET Malicious, before : 0..MaxScore, score : 0..MaxScore]

Answer == [score : 0..MaxScore, base : 0..MaxScore,
           matches : SUBSET signals, flagged : SUBSET Malicious]

Result == [event : Events, score : 0..MaxScore, base : 0..MaxScore, matches : SUBSET signals]

TypeOK ==
    /\ now \in 0..MaxTime
    /\ pc \in [Events -> {"new", "analyzing", "correlating", "adding"} \cup Ended]
    /\ request \in [Events -> Request \cup {NoRequest}]
    /\ answer \in [Events -> Answer]
    /\ jobs \in [Events -> [Calls -> Job]]
    /\ signals \subseteq Row
    /\ audit \subseteq Result
    /\ timeouts \in 0..MaxTimeouts
    /\ faults \in 0..MaxDatabaseFaults
    /\ earlier \in [Events -> SUBSET Events]

Init ==
    /\ now = 0
    /\ pc = [e \in Events |-> "new"]
    /\ request = [e \in Events |-> NoRequest]
    /\ answer = [e \in Events |-> NoAnswer]
    /\ jobs = [e \in Events |-> [c \in Calls |-> NoJob]]
    /\ signals = {}
    /\ audit = {}
    /\ timeouts = 0
    /\ faults = 0
    /\ earlier = [e \in Events |-> {}]

\* A step of the clock, of a request or of a job leaves these alone.
apiVars == <<pc, request, answer, audit, earlier>>
mcpVars == <<jobs, signals>>

\* Mutant: the handler of the api awaits mcp-server, and others begin.
ServingNobody == {}

\* The requests that keep their process of the api busy.
Serving == {e \in Events : /\ request[e].via \in ApiProcesses
                           /\ pc[e] \in {"analyzing", "correlating", "adding"}}

\* The jobs in the thread pool that hold the semaphore.
Analyzing == {e \in Events : jobs[e]["analyze"].phase \in {"find", "record", "check"}}

\* The call whose signals carry every entity of the event.
LastCall(e) == IF request[e].via \in ApiProcesses THEN "correlate" ELSE "analyze"

\* extract_entities finds in a masked text what mask_pii left: the URLs.
Visible(e, c) ==
    IF c = "analyze" /\ request[e].via \in ApiProcesses
    THEN request[e].entities \cap Urls
    ELSE request[e].entities

-----------------------------------------------------------------------------
\* The handlers of mcp-server.

\* The semaphore is free: the analyzer scores the text, and correlate is
\* called with the time of this moment if there is anything to correlate.
StartAnalysis(e) ==
    /\ jobs[e]["analyze"].phase = "queued"
    /\ Cardinality(Analyzing) < LlmMaxConcurrency
    /\ \E score \in Scores :
          jobs' = [jobs EXCEPT ![e]["analyze"] =
                      [@ EXCEPT !.phase = IF Visible(e, "analyze") = {} THEN "done" ELSE "find",
                                !.at = now, !.before = score, !.score = score]]
    /\ UNCHANGED <<now, apiVars, signals, timeouts, faults>>

\* repository.find_matches: one statement.
ReadSignals(e, c) ==
    /\ jobs[e][c].phase = "find"
    /\ jobs' = [jobs EXCEPT ![e][c] =
                   [@ EXCEPT !.phase = "record",
                             !.todo = Visible(e, c),
                             !.matches = FindMatches(signals, request[e].channel,
                                                     Visible(e, c), jobs[e][c].at)]]
    /\ UNCHANGED <<now, apiVars, signals, timeouts, faults>>

\* extract_entities lists URLs first.
NextEntities(todo) == IF todo \cap Urls # {} THEN todo \cap Urls ELSE todo

SignalRow(e, c, entity) ==
    [event |-> e, call |-> c, channel |-> request[e].channel, entity |-> entity,
     at |-> jobs[e][c].at]

\* Mutant: only the first entity of a signal is recorded.
RecordsOne(todo, entity) == {}

StillToRecord(todo, entity) == todo \ {entity}

\* repository.record: one statement per entity, committed at once.
InsertSignal(e, c) ==
    /\ jobs[e][c].phase = "record"
    /\ \E entity \in NextEntities(jobs[e][c].todo) :
          LET todo == StillToRecord(jobs[e][c].todo, entity)
          IN  /\ signals' = signals \cup {SignalRow(e, c, entity)}
              /\ jobs' = [jobs EXCEPT ![e][c] =
                             [@ EXCEPT !.todo = todo,
                                       !.phase = IF todo = {} THEN "check" ELSE "record"]]
    /\ UNCHANGED <<now, apiVars, timeouts, faults>>

\* check_urls answers the listed URLs, or none when there is no key or the
\* service fails.  The score is that of the answer; without a match or a
\* flagged URL the boost is 0 and the score stays as it was.
CheckUrls(e, c) ==
    /\ jobs[e][c].phase = "check"
    /\ \E flagged \in {{}, Visible(e, c) \cap Malicious} :
          jobs' = [jobs EXCEPT ![e][c] =
                      [@ EXCEPT !.phase = "done",
                                !.flagged = flagged,
                                !.score = Boosted(jobs[e][c].before,
                                                  Boost(jobs[e][c].matches, flagged))]]
    /\ UNCHANGED <<now, apiVars, signals, timeouts, faults>>

\* _execute gives up: the retry fails as well, or the first INSERT was
\* committed before the connection broke and the retry violates the key.
StatementFails(e, c) ==
    /\ jobs[e][c].phase \in {"find", "record"}
    /\ faults < MaxDatabaseFaults
    /\ faults' = faults + 1
    /\ jobs' = [jobs EXCEPT ![e][c].phase = "failed"]
    /\ \/ signals' = signals
       \/ /\ jobs[e][c].phase = "record"
          /\ \E entity \in NextEntities(jobs[e][c].todo) :
                signals' = signals \cup {SignalRow(e, c, entity)}
    /\ UNCHANGED <<now, apiVars, timeouts>>

-----------------------------------------------------------------------------
\* The handler of apps/api, and clients that call mcp-server themselves.

\* A client may name the time of the event only where the clients of this
\* repository do: the mail poller sends the time of receipt.
OccurredAt(channel, via) == IF channel = Email /\ via \in ApiProcesses THEN 0..now ELSE {-1}

Receive(e) ==
    /\ pc[e] = "new"
    /\ \E r \in Requests : \E at \in OccurredAt(r.channel, r.via) :
          /\ \A a \in Serving : request[a].via # r.via
          /\ request' = [request EXCEPT ![e] = [channel |-> r.channel, entities |-> r.entities,
                                                via |-> r.via, at |-> at]]
    /\ pc' = [pc EXCEPT ![e] = "analyzing"]
    /\ jobs' = [jobs EXCEPT ![e]["analyze"].phase = "queued"]
    /\ earlier' = [earlier EXCEPT ![e] =
                      {a \in Events : request[a] # NoRequest /\ jobs[a][LastCall(a)].phase = "done"}]
    /\ UNCHANGED <<now, answer, signals, audit, timeouts, faults>>

\* base_risk_score = raw["risk_score"]
BaseRiskScore(e) == jobs[e]["analyze"].score

\* POST /api/v1/correlate: the job that starts in mcp-server's thread pool, with
\* the entities of the unmasked text (Visible), the score so far and the time
\* the client gave, or that of this moment.
CorrelateJob(e) ==
    [jobs[e]["correlate"] EXCEPT !.phase = "find",
                                 !.at = IF request[e].at = -1 THEN now ELSE request[e].at,
                                 !.before = jobs[e]["analyze"].score,
                                 !.score = jobs[e]["analyze"].score]

\* The api has mcp-server correlate if the unmasked text has any entity.
AnalysisArrives(e) ==
    /\ pc[e] = "analyzing"
    /\ jobs[e]["analyze"].phase = "done"
    /\ answer' = [answer EXCEPT ![e].score = jobs[e]["analyze"].score,
                                ![e].base = BaseRiskScore(e)]
    /\ \/ /\ request[e].via = "mcp"
          /\ pc' = [pc EXCEPT ![e] = "answered"]
          /\ jobs' = jobs
       \/ /\ request[e].via \in ApiProcesses
          /\ request[e].entities = {}
          /\ pc' = [pc EXCEPT ![e] = "adding"]
          /\ jobs' = jobs
       \/ /\ request[e].via \in ApiProcesses
          /\ request[e].entities # {}
          /\ pc' = [pc EXCEPT ![e] = "correlating"]
          /\ jobs' = [jobs EXCEPT ![e]["correlate"] = CorrelateJob(e)]
    /\ UNCHANGED <<now, request, signals, audit, timeouts, faults, earlier>>

\* The adapter raises: mcp-server answered 500, or not within the timeout
\* (its handler then runs on).
CallRaises(e, c) ==
    \/ /\ jobs[e][c].phase = "failed"
       /\ timeouts' = timeouts
    \/ /\ timeouts < MaxTimeouts
       /\ timeouts' = timeouts + 1

\* The endpoint answers 502 and nothing is stored.
AnalysisFails(e) ==
    /\ pc[e] = "analyzing"
    /\ CallRaises(e, "analyze")
    /\ pc' = [pc EXCEPT ![e] = "bad_gateway"]
    /\ UNCHANGED <<now, request, answer, mcpVars, audit, faults, earlier>>

\* _merge_correlation_into_raw
CorrelationArrives(e) ==
    /\ pc[e] = "correlating"
    /\ jobs[e]["correlate"].phase = "done"
    /\ pc' = [pc EXCEPT ![e] = "adding"]
    /\ answer' = [answer EXCEPT ![e].score = jobs[e]["correlate"].score,
                                ![e].matches = jobs[e]["correlate"].matches,
                                ![e].flagged = jobs[e]["correlate"].flagged]
    /\ UNCHANGED <<now, request, mcpVars, audit, timeouts, faults, earlier>>

\* McpCorrelationAdapter falls back to _EMPTY_RESULT.
CorrelationFails(e) ==
    /\ pc[e] = "correlating"
    /\ CallRaises(e, "correlate")
    /\ pc' = [pc EXCEPT ![e] = "adding"]
    /\ UNCHANGED <<now, request, answer, mcpVars, audit, faults, earlier>>

\* Mutant: the score is taken from the answer before the merge.
StoresRawScore(e) == [event |-> e, score |-> answer[e].base, base |-> answer[e].base,
                      matches |-> answer[e].matches]

\* The row of CallAnalysisResult, as far as the scores go.
AuditRow(e) == [event |-> e, score |-> answer[e].score, base |-> answer[e].base,
                matches |-> answer[e].matches]

\* call_log_port.add and the answer to the client.
Add(e) ==
    /\ pc[e] = "adding"
    /\ audit' = audit \cup {AuditRow(e)}
    /\ pc' = [pc EXCEPT ![e] = "answered"]
    /\ UNCHANGED <<now, request, answer, mcpVars, timeouts, faults, earlier>>

\* The statement fails for good: as in StatementFails, its row may be there.
AddFails(e) ==
    /\ pc[e] = "adding"
    /\ faults < MaxDatabaseFaults
    /\ faults' = faults + 1
    /\ audit' \in {audit, audit \cup {AuditRow(e)}}
    /\ pc' = [pc EXCEPT ![e] = "error"]
    /\ UNCHANGED <<now, request, answer, mcpVars, timeouts, earlier>>

Tick ==
    /\ now < MaxTime
    /\ now' = now + 1
    /\ UNCHANGED <<apiVars, mcpVars, timeouts, faults>>

\* Everything requested has ended, and the bounds allow no more.
BoundsReached ==
    /\ now = MaxTime
    /\ \A e \in Events : pc[e] \in Ended
    /\ \A e \in Events, c \in Calls : jobs[e][c].phase \in {"none", "done", "failed"}
    /\ UNCHANGED vars

Next ==
    \/ \E e \in Events :
          \/ Receive(e) \/ AnalysisArrives(e) \/ AnalysisFails(e)
          \/ CorrelationArrives(e) \/ CorrelationFails(e) \/ Add(e) \/ AddFails(e)
          \/ StartAnalysis(e)
          \/ \E c \in Calls : \/ ReadSignals(e, c) \/ InsertSignal(e, c)
                              \/ CheckUrls(e, c) \/ StatementFails(e, c)
    \/ Tick
    \/ BoundsReached

Spec == Init /\ [][Next]_vars

-----------------------------------------------------------------------------
\* Properties.

\* The time that stands for the event when others are matched against it.
At(e) == jobs[e][LastCall(e)].at

Near(a, b) == At(a) - WindowSeconds <= At(b) /\ At(b) <= At(a) + WindowSeconds

Related(a, b) == /\ request[a].channel # request[b].channel
                 /\ request[a].entities \cap request[b].entities # {}
                 /\ Near(a, b)

\* What e was told it shares with a.
Told(e, a) == {row \in jobs[e][LastCall(e)].matches : row.event = a}

\* An event whose signals were complete when the request came in is found,
\* entity by entity, whatever ran in between: record precedes the answer,
\* and nothing takes a signal away.
EarlierSignalsAreFound ==
    \A e \in Events : \A a \in earlier[e] :
        (Related(a, e) /\ jobs[e][LastCall(e)].phase \in {"record", "check", "done"})
            => {row.entity : row \in Told(e, a)} = request[a].entities \cap request[e].entities

\* A match is another event's, on another channel, about an entity of this
\* event and within the window: an event is never evidence against itself,
\* although its URLs are in the table before its second correlation.
MatchesAreJustified ==
    \A e \in Events, c \in Calls : \A row \in jobs[e][c].matches :
        /\ row.event # e
        /\ row.channel # request[e].channel
        /\ row.entity \in request[e].entities
        /\ row.at - jobs[e][c].at \in -WindowSeconds..WindowSeconds

\* The row of an answered request is in the audit table, with the score the
\* client got, and there is one row at most for a request.
AnsweredIsAudited ==
    /\ \A e \in Events : (pc[e] = "answered" /\ request[e].via \in ApiProcesses)
           => \E row \in audit : row.event = e /\ row.score = answer[e].score
    /\ \A x, y \in audit : x.event = y.event => x = y

\* Of two related events that went through the same process of the api, the
\* one whose correlation came last knows of the other, whatever the other
\* processes and the clients of mcp-server do meanwhile, until an answer is
\* lost or a statement fails.
PairsAreSeen ==
    timeouts = 0 /\ faults = 0 =>
        \A a, b \in Events :
            (/\ a # b /\ pc[a] = "answered" /\ pc[b] = "answered"
             /\ request[a].via = request[b].via /\ request[a].via \in ApiProcesses
             /\ Related(a, b))
                => Told(a, b) # {} \/ Told(b, a) # {}

\* The score the analyzer gave is raised by 15 per match, 30 at most, and by
\* 40 once if a URL is listed; a match is an entity shared with an event.
BoostIsAsDocumented ==
    \A row \in audit :
        LET job(c)  == jobs[row.event][c]
            shared  == {<<m.event, m.entity>> : m \in job("analyze").matches \cup row.matches}
            flagged == job("analyze").flagged \cup job("correlate").flagged
        IN  row.score <= job("analyze").before + AtMost(30, 15 * Cardinality(shared))
                             + (IF flagged # {} THEN 40 ELSE 0)

\* As long as mcp-server answers in time, no analysis fails: the database is
\* not needed for it.
AnalysisNeedsNoDatabase == timeouts = 0 => \A e \in Events : pc[e] # "bad_gateway"
=============================================================================
