----------------------------- MODULE Dashboard -----------------------------
(***************************************************************************)
(* The dashboard page of the frontend, with the handlers of apps/api and   *)
(* mcp-server behind its buttons: the list of recent calls and the totals, *)
(* refreshed by a timer, by "load more" and at the end of each analysis;   *)
(* the analysis of a text and of a recording; the report buttons.          *)
(*                                                                         *)
(* One step is one callback of the browser, which runs to its end, or one  *)
(* statement of a server.  Answers come in any order.                      *)
(***************************************************************************)
EXTENDS Integers, Sequences, FiniteSets, SequencesExt

CONSTANTS
    Calls,        \* calls that may be analyzed
    High,         \* those whose risk level is high
    Filters,      \* what a channel tab and a risk level let through
    PageSize,
    MaxLimit,     \* bound: "load more" is clicked up to here
    MaxInFlight,  \* bound: refreshes at a time
    MaxClicks,    \* bound: clicks on report buttons
    MaxFaults     \* bound: failed requests

ASSUME DashboardAssumption ==
    /\ IsFiniteSet(Calls)
    /\ High \subseteq Calls
    /\ Filters \subseteq SUBSET Calls /\ Calls \in Filters
    /\ PageSize \in Nat \ {0}
    /\ MaxLimit \in Nat /\ MaxLimit >= PageSize
    /\ MaxInFlight \in Nat \ {0}
    /\ {MaxClicks, MaxFaults} \subseteq Nat

VARIABLES
    rows,        \* call_analysis_results, the latest analysis first
    reports,     \* report_records: reports stored per call
    refreshes,   \* refreshes in flight, in the order of their request ids
    current,     \* the last of them has the latest id of all
    page,        \* what the page shows of the server
    limit,
    loadingMore,
    filter,      \* channelFilter and riskFilter
    analyses,    \* per source, the analysis that AnalyzeCallForm waits for
    panel,       \* lastAnalysis, the call whose verification panel is open
    buttons,     \* the report button of each shown row of high risk
    clicks,      \* report requests, in the order of the clicks
    faults,      \* bound: failed requests so far
    older        \* history: refreshes in flight issued before what is shown

pageVars == <<refreshes, current, page, limit, loadingMore, older>>
formVars == <<analyses, panel>>
reportVars == <<reports, buttons, clicks>>
vars == <<rows, pageVars, filter, formVars, reportVars, faults>>

Sources == {"text", "audio"}
NoCall == "none"
NotRead == -1
Unread == [limit |-> 0, total |-> NotRead, list |-> << >>]
Idle == [stage |-> "idle", limit |-> 0, call |-> NoCall]

TypeOK ==
    /\ rows \in Seq(Calls)
    /\ reports \in [Calls -> Nat]
    /\ refreshes \in Seq([limit : 1..MaxLimit, total : Nat \cup {NotRead},
                          list : Seq(Calls)])
    /\ Len(refreshes) <= MaxInFlight
    /\ current \in BOOLEAN /\ (current => refreshes # << >>)
    /\ page \in [list : Seq(Calls), total : Nat \cup {NotRead}, error : BOOLEAN]
    /\ limit \in PageSize..MaxLimit
    /\ loadingMore \in BOOLEAN
    /\ filter \in Filters
    /\ analyses \in [Sources -> [stage : {"idle", "running", "stored"},
                                 limit : 0..MaxLimit, call : Calls \cup {NoCall}]]
    /\ panel \in [call : Calls \cup {NoCall}, source : Sources \cup {NoCall}]
    /\ buttons \in [High -> {"idle", "submitting", "submitted", "error"}]
    /\ clicks \in Seq([call : High, stage : {"sent", "stored", "answered", "failed"},
                       mounted : BOOLEAN])
    /\ faults \in 0..MaxFaults
    /\ older \in 0..Len(refreshes)

-----------------------------------------------------------------------------
\* GET /api/v1/calls: ORDER BY analyzed_at DESC LIMIT n.
Recent(n) == SubSeq(rows, 1, IF n < Len(rows) THEN n ELSE Len(rows))

\* GET /api/v1/stats/summary: the number of rows stands for all the counts.
Totals == Len(rows)

\* The rows that RecentCallsTable is given.
Visible(list, f) == {c \in Calls : Contains(list, c) /\ c \in f}

\* React drops the state of the report button of a row that is no longer
\* rendered; the request goes on, but nobody hears of its answer.
Render(list, f) ==
    LET gone == Visible(page.list, filter) \ Visible(list, f) IN
    /\ buttons' = [c \in High |-> IF c \in gone THEN "idle" ELSE buttons[c]]
    /\ clicks' = [i \in DOMAIN clicks |->
                    IF clicks[i].call \in gone
                    THEN [clicks[i] EXCEPT !.mounted = FALSE] ELSE clicks[i]]

\* refresh: a new request id, and two requests to the api.
Issue(n) ==
    /\ Len(refreshes) < MaxInFlight
    /\ refreshes' = Append(refreshes, [Unread EXCEPT !.limit = n])
    /\ current' = TRUE

\* The api cannot be reached, or does not answer "ok": each function of
\* lib/api.ts throws then, whichever it is that was called.
Fault ==
    /\ faults < MaxFaults
    /\ faults' = faults + 1

\* The effect of the first render has called refresh.
Init ==
    /\ rows = << >>
    /\ reports = [c \in Calls |-> 0]
    /\ refreshes = <<[Unread EXCEPT !.limit = PageSize]>>
    /\ current = TRUE
    /\ page = [list |-> << >>, total |-> NotRead, error |-> FALSE]
    /\ limit = PageSize
    /\ loadingMore = FALSE
    /\ filter = Calls
    /\ analyses = [s \in Sources |-> Idle]
    /\ panel = [call |-> NoCall, source |-> NoCall]
    /\ buttons = [c \in High |-> "idle"]
    /\ clicks = << >>
    /\ faults = 0
    /\ older = 0

-----------------------------------------------------------------------------
\* DashboardPage

\* Mutant: the timer keeps the refresh of the first render.
PollsFirstPage ==
    /\ Issue(PageSize)
    /\ UNCHANGED <<rows, page, limit, loadingMore, older, filter, formVars, reportVars, faults>>

\* setInterval(refresh, 10000), set up again whenever the limit changes.
Poll ==
    /\ Issue(limit)
    /\ UNCHANGED <<rows, page, limit, loadingMore, older, filter, formVars, reportVars, faults>>

\* handleLoadMore; the changed limit makes a new refresh, which the effect calls.
LoadMore ==
    /\ Len(page.list) >= limit
    /\ ~loadingMore
    /\ limit + PageSize <= MaxLimit
    /\ loadingMore' = TRUE
    /\ limit' = limit + PageSize
    /\ Issue(limit + PageSize)
    /\ UNCHANGED <<rows, page, older, filter, formVars, reportVars, faults>>

\* The api serves both requests of a refresh.  They are one step here: the page
\* shows both answers or none, and no property relates the one to the other.
Read(i) ==
    /\ refreshes[i].total = NotRead
    /\ refreshes' = [refreshes EXCEPT ![i].total = Totals, ![i].list = Recent(refreshes[i].limit)]
    /\ UNCHANGED <<rows, current, page, limit, loadingMore, older, filter, formVars,
                   reportVars, faults>>

\* Mutant: whatever comes is shown.
AnyId(i) == i \in DOMAIN refreshes

\* requestId === latestRequestId.current
IsLatest(i) == current /\ i = Len(refreshes)

\* Mutant: the latest id is not told from an answered one.
KeepsCurrent(i) == refreshes' = RemoveAt(refreshes, i) /\ UNCHANGED current

Ended(i) ==
    /\ refreshes' = RemoveAt(refreshes, i)
    /\ current' = (current /\ i # Len(refreshes))

\* The answer of the latest refresh is shown.
Answer(i) ==
    /\ refreshes[i].total # NotRead
    /\ IsLatest(i)
    /\ Ended(i)
    /\ page' = [list |-> refreshes[i].list, total |-> refreshes[i].total, error |-> FALSE]
    /\ Render(refreshes[i].list, filter)
    /\ loadingMore' = FALSE
    /\ older' = i - 1
    /\ UNCHANGED <<rows, limit, filter, formVars, reports, faults>>

\* An answer that a newer request has overtaken is thrown away.
Discard(i) ==
    /\ refreshes[i].total # NotRead
    /\ ~IsLatest(i)
    /\ Ended(i)
    /\ older' = IF i <= older THEN older - 1 ELSE older
    /\ UNCHANGED <<rows, page, limit, loadingMore, filter, formVars, reportVars, faults>>

\* One of the two requests of a refresh fails.
RefreshFails(i) ==
    /\ Fault
    /\ Ended(i)
    /\ IF IsLatest(i)
       THEN page' = [page EXCEPT !.error = TRUE] /\ loadingMore' = FALSE
       ELSE UNCHANGED <<page, loadingMore>>
    /\ older' = IF i <= older THEN older - 1 ELSE older
    /\ UNCHANGED <<rows, limit, filter, formVars, reportVars>>

\* setChannelFilter, setRiskFilter
SetFilter(f) ==
    /\ f # filter
    /\ filter' = f
    /\ Render(page.list, f)
    /\ UNCHANGED <<rows, pageVars, formVars, reports, faults>>

-----------------------------------------------------------------------------
\* AnalyzeCallForm

\* setLastAnalysis(null)
ClosedPanel == [call |-> NoCall, source |-> NoCall]

\* runTextAnalysis, or the end of a recording.  The callback keeps the refresh
\* of the render it was made in, hence the limit of that moment.
StartAnalysis(s) ==
    /\ analyses[s].stage = "idle"
    /\ analyses' = [analyses EXCEPT ![s] = [Idle EXCEPT !.stage = "running", !.limit = limit]]
    /\ panel' = ClosedPanel
    /\ UNCHANGED <<rows, pageVars, filter, reportVars, faults>>

Fresh == Calls \ (ToSet(rows) \cup {analyses[s].call : s \in Sources})

\* The api adds the row and answers (module CallAnalysis).
StoreAnalysis(s) ==
    /\ analyses[s].stage = "running"
    /\ \E c \in Fresh :
        /\ rows' = <<c>> \o rows
        /\ analyses' = [analyses EXCEPT ![s].stage = "stored", ![s].call = c]
    /\ UNCHANGED <<pageVars, filter, panel, reportVars, faults>>

\* setLastAnalysis(answer) and onAnalyzed()
ReceiveAnalysis(s) ==
    /\ analyses[s].stage = "stored"
    /\ panel' = [call |-> analyses[s].call, source |-> s]
    /\ analyses' = [analyses EXCEPT ![s] = Idle]
    /\ Issue(analyses[s].limit)
    /\ UNCHANGED <<rows, page, limit, loadingMore, older, filter, reportVars, faults>>

\* An error or a lost answer; the row may have been added.
AnalysisFails(s) ==
    /\ analyses[s].stage # "idle"
    /\ Fault
    /\ analyses' = [analyses EXCEPT ![s] = Idle]
    /\ UNCHANGED <<rows, pageVars, filter, panel, reportVars>>

\* A mail or another page adds a row.
RowFromElsewhere ==
    /\ \E c \in Fresh : rows' = <<c>> \o rows
    /\ UNCHANGED <<pageVars, filter, formVars, reportVars, faults>>

-----------------------------------------------------------------------------
\* ReportButton

\* Mutant: the button is not disabled while a report is under way.
NotSubmitted(c) == buttons[c] # "submitted"

\* The button is there and enabled.
CanReport(c) == buttons[c] \in {"idle", "error"}

Report(c) ==
    /\ c \in Visible(page.list, filter)
    /\ CanReport(c)
    /\ Len(clicks) < MaxClicks
    /\ buttons' = [buttons EXCEPT ![c] = "submitting"]
    /\ clicks' = Append(clicks, [call |-> c, stage |-> "sent", mounted |-> TRUE])
    /\ UNCHANGED <<rows, pageVars, filter, formVars, reports, faults>>

\* POST /api/v1/reports of the api and of mcp-server: one row per request,
\* which carries no call_id.
StoreReport(i) ==
    /\ clicks[i].stage = "sent"
    /\ clicks' = [clicks EXCEPT ![i].stage = "stored"]
    /\ reports' = [reports EXCEPT ![clicks[i].call] = @ + 1]
    /\ UNCHANGED <<rows, pageVars, filter, formVars, buttons, faults>>

SetButton(i, state) ==
    buttons' = IF clicks[i].mounted THEN [buttons EXCEPT ![clicks[i].call] = state] ELSE buttons

ReportAnswered(i) ==
    /\ clicks[i].stage = "stored"
    /\ clicks' = [clicks EXCEPT ![i].stage = "answered"]
    /\ SetButton(i, "submitted")
    /\ UNCHANGED <<rows, pageVars, filter, formVars, reports, faults>>

\* A refusal, a timeout of the api after 10 s, or a lost answer.
ReportFails(i) ==
    /\ clicks[i].stage \in {"sent", "stored"}
    /\ Fault
    /\ clicks' = [clicks EXCEPT ![i].stage = "failed", ![i].mounted = FALSE]
    /\ SetButton(i, "error")
    /\ UNCHANGED <<rows, pageVars, filter, formVars, reports>>

-----------------------------------------------------------------------------
RefreshStep ==
    \E i \in DOMAIN refreshes : Read(i) \/ Answer(i) \/ Discard(i) \/ RefreshFails(i)
FormStep ==
    \E s \in Sources : StartAnalysis(s) \/ StoreAnalysis(s) \/ ReceiveAnalysis(s) \/ AnalysisFails(s)
ReportStep ==
    \/ \E c \in High : Report(c)
    \/ \E i \in DOMAIN clicks : StoreReport(i) \/ ReportAnswered(i) \/ ReportFails(i)

Next ==
    \/ Poll \/ LoadMore \/ RefreshStep
    \/ \E f \in Filters : SetFilter(f)
    \/ FormStep \/ RowFromElsewhere
    \/ ReportStep

Spec == Init /\ [][Next]_vars

\* The timer goes on.  Nothing is assumed of the api: whether its answers come
\* before the next request is the premise of ScreenCatchesUp.
FairSpec == Spec /\ WF_vars(Poll)

-----------------------------------------------------------------------------
\* The request ids of refresh: an answer never replaces the answer to a request
\* that was issued later, in whatever order the answers arrive (page.tsx:58-81).
ScreenNeverGoesBack ==
    [][\A i \in DOMAIN refreshes : Answer(i) => i > older]_vars

\* A row is reported twice only if an answer was lost, or its button was taken
\* off the page by a filter or a newer row before the answer came or after it
\* had; what the button calls submitted has been stored (RecentCallsTable.tsx).
ReportsAreAccounted ==
    \A c \in High :
        LET of(stages) == {i \in DOMAIN clicks : clicks[i].call = c /\ clicks[i].stage \in stages} IN
        /\ buttons[c] = "submitted" => reports[c] >= 1
        /\ reports[c] <= Cardinality(of({"stored", "answered", "failed"}))
        /\ Cardinality({i \in of({"sent", "stored", "answered"}) : clicks[i].mounted}) <= 1

\* If again and again all answers are in before the next request goes out, the
\* page ends up showing the newest rows and the totals of the table.
UpToDate ==
    /\ page.list = SubSeq(rows, 1, IF limit < Len(rows) THEN limit ELSE Len(rows))
    /\ page.total = Len(rows)
    /\ ~page.error
ScreenCatchesUp == []<>(refreshes = << >>) => <>[]UpToDate
=============================================================================
