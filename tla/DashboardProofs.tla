--------------------------- MODULE DashboardProofs ---------------------------
(***************************************************************************)
(* Proofs about Dashboard for any calls and filters, any page size, and    *)
(* any number of refreshes at a time, clicks and failed requests.          *)
(***************************************************************************)
EXTENDS Dashboard, SequenceTheorems, FiniteSetTheorems, TLAPS

-----------------------------------------------------------------------------
(***************************************************************************)
(* Type correctness                                                        *)
(***************************************************************************)

Refresh == [limit : 1..MaxLimit, total : Nat \cup {NotRead}, list : Seq(Calls)]

Click == [call : High, stage : {"sent", "stored", "answered", "failed"}, mounted : BOOLEAN]

Analysis == [stage : {"idle", "running", "stored"}, limit : 0..MaxLimit, call : Calls \cup {NoCall}]

\* The timer, the refreshes under way, and what the page shows of them.
RefreshesTyped ==
    /\ refreshes \in Seq(Refresh)
    /\ Len(refreshes) <= MaxInFlight
    /\ current \in BOOLEAN
    /\ older \in 0..Len(refreshes)

\* The latest request under way has not been shown yet.
LatestIsAhead == current => older < Len(refreshes)

PageTyped ==
    /\ page \in [list : Seq(Calls), total : Nat \cup {NotRead}, error : BOOLEAN]
    /\ limit \in PageSize..MaxLimit
    /\ loadingMore \in BOOLEAN
    /\ filter \in Filters

\* An analysis under way keeps the limit of a render.
FormTyped ==
    /\ analyses \in [Sources -> Analysis]
    /\ \A s \in Sources : analyses[s].stage # "idle" => analyses[s].limit >= PageSize
    /\ panel \in [call : Calls \cup {NoCall}, source : Sources \cup {NoCall}]

ReportsTyped ==
    /\ reports \in [Calls -> Nat]
    /\ buttons \in [High -> {"idle", "submitting", "submitted", "error"}]
    /\ clicks \in Seq(Click)

Typed ==
    /\ rows \in Seq(Calls)
    /\ RefreshesTyped /\ LatestIsAhead
    /\ PageTyped /\ FormTyped /\ ReportsTyped
    /\ faults \in 0..MaxFaults

LEMMA Numbers ==
    /\ PageSize \in Nat \ {0} /\ MaxLimit \in Nat /\ MaxInFlight \in Nat \ {0}
    /\ MaxFaults \in Nat /\ MaxClicks \in Nat
    /\ PageSize..MaxLimit \subseteq 1..MaxLimit
    /\ PageSize \in PageSize..MaxLimit
BY DashboardAssumption

LEMMA UnreadType ==
    ASSUME NEW n \in 1..MaxLimit
    PROVE  [Unread EXCEPT !.limit = n] \in Refresh
BY EmptySeq, Numbers DEF Unread, Refresh, NotRead

LEMMA TypedIsTypeOK == Typed => TypeOK
<1> SUFFICES ASSUME Typed PROVE TypeOK
  OBVIOUS
<1>1. current => refreshes # << >>
  <2>1. Len(refreshes) \in Nat /\ older \in 0..Len(refreshes)
    BY LenProperties DEF Typed, RefreshesTyped
  <2>2. Len(<< >>) = 0
    BY EmptySeq
  <2> QED
    BY <2>1, <2>2 DEF Typed, LatestIsAhead
<1> QED
  BY <1>1 DEF Typed, TypeOK, RefreshesTyped, PageTyped, FormTyped, ReportsTyped, Refresh, Click,
     Analysis

LEMMA InitTyped == Init => Typed
<1> SUFFICES ASSUME Init PROVE Typed
  OBVIOUS
<1>1. PageSize \in 1..MaxLimit /\ PageSize \in PageSize..MaxLimit /\ 0 \in 0..MaxLimit
  BY Numbers
<1>2. [Unread EXCEPT !.limit = PageSize] \in Refresh
  BY <1>1, UnreadType
<1>3. /\ <<[Unread EXCEPT !.limit = PageSize]>> \in Seq(Refresh)
      /\ Len(<<[Unread EXCEPT !.limit = PageSize]>>) = 1
  BY <1>2
<1>4. RefreshesTyped /\ LatestIsAhead
  BY <1>3, Numbers DEF Init, RefreshesTyped, LatestIsAhead
<1>5. << >> \in Seq(Calls) /\ << >> \in Seq(Click)
  BY EmptySeq
<1>6. PageTyped
  <2>1. Calls \in Filters
    BY DashboardAssumption
  <2> QED
    BY <1>1, <1>5, <2>1 DEF Init, PageTyped
<1>7. FormTyped
  BY <1>1 DEF Init, FormTyped, Analysis, Idle
<1>8. ReportsTyped
  BY <1>5 DEF Init, ReportsTyped
<1> QED
  BY <1>4, <1>5, <1>6, <1>7, <1>8, Numbers DEF Init, Typed

LEMMA RecentType ==
    ASSUME rows \in Seq(Calls), NEW n \in Nat
    PROVE  Recent(n) \in Seq(Calls) /\ Totals \in Nat
<1>1. Len(rows) \in Nat /\ \A i \in 1..Len(rows) : rows[i] \in Calls
  BY LenProperties, ElementOfSeq
<1> DEFINE m == IF n < Len(rows) THEN n ELSE Len(rows)
<1>2. m \in Int /\ \A i \in 1..m : rows[i] \in Calls
  BY <1>1
<1> HIDE DEF m
<1>3. SubSeq(rows, 1, m) \in Seq(Calls)
  BY <1>2, SubSeqProperties
<1> QED
  BY <1>1, <1>3 DEF Recent, Totals, m

\* A request more.
LEMMA IssueAdds ==
    ASSUME RefreshesTyped, NEW n \in 1..MaxLimit, Issue(n)
    PROVE  /\ refreshes' \in Seq(Refresh)
           /\ Len(refreshes') = Len(refreshes) + 1
           /\ Len(refreshes') <= MaxInFlight
           /\ current'
<1>1. [Unread EXCEPT !.limit = n] \in Refresh
  BY UnreadType
<1>2. Len(refreshes) \in Nat
  BY LenProperties DEF RefreshesTyped
<1> QED
  BY <1>1, <1>2, Numbers, AppendProperties DEF RefreshesTyped, Issue

\* A request less; the latest one is no longer under way if it was that.
LEMMA EndedRemoves ==
    ASSUME RefreshesTyped, NEW i \in DOMAIN refreshes, Ended(i)
    PROVE  /\ i \in 1..Len(refreshes) /\ Len(refreshes) \in Nat
           /\ refreshes' \in Seq(Refresh)
           /\ Len(refreshes') = Len(refreshes) - 1
           /\ Len(refreshes') <= MaxInFlight
           /\ current' <=> (current /\ i # Len(refreshes))
<1>1. /\ refreshes \in Seq(Refresh) /\ Len(refreshes) \in Nat /\ i \in 1..Len(refreshes)
      /\ \A j \in 1..Len(refreshes) : refreshes[j] \in Refresh
  BY LenProperties, ElementOfSeq DEF RefreshesTyped
<1> DEFINE before == SubSeq(refreshes, 1, i - 1)
           behind == SubSeq(refreshes, i + 1, Len(refreshes))
<1>2. before \in Seq(Refresh) /\ Len(before) = i - 1
  <2>1. i - 1 \in Int /\ \A j \in 1..(i - 1) : refreshes[j] \in Refresh
    BY <1>1
  <2> QED
    BY <1>1, <2>1, SubSeqProperties
<1>3. behind \in Seq(Refresh) /\ Len(behind) = Len(refreshes) - i
  <2>1. i + 1 \in Int /\ \A j \in (i + 1)..Len(refreshes) : refreshes[j] \in Refresh
    BY <1>1
  <2> QED
    BY <1>1, <2>1, SubSeqProperties
<1>4. refreshes' = before \o behind
  BY DEF Ended, RemoveAt
<1> HIDE DEF before, behind
<1>5. refreshes' \in Seq(Refresh) /\ Len(refreshes') = Len(refreshes) - 1
  BY <1>1, <1>2, <1>3, <1>4, ConcatProperties
<1>6. current' <=> (current /\ i # Len(refreshes))
  BY DEF Ended
<1>7. Len(refreshes') <= MaxInFlight
  BY <1>1, <1>5, Numbers DEF RefreshesTyped
<1> QED
  BY <1>1, <1>5, <1>6, <1>7

\* The steps that end a refresh keep the older ones behind what is shown.
LEMMA EndedRefreshes ==
    ASSUME RefreshesTyped, LatestIsAhead, NEW i \in DOMAIN refreshes, Ended(i),
           \/ older' = (IF i <= older THEN older - 1 ELSE older)
           \/ older' = i - 1 /\ i = Len(refreshes)
    PROVE  RefreshesTyped' /\ LatestIsAhead'
<1>1. /\ i \in 1..Len(refreshes) /\ Len(refreshes) \in Nat
      /\ refreshes' \in Seq(Refresh)
      /\ Len(refreshes') = Len(refreshes) - 1
      /\ Len(refreshes') <= MaxInFlight
      /\ current' <=> (current /\ i # Len(refreshes))
  BY EndedRemoves
<1>2. older \in 0..Len(refreshes) /\ (current => older < Len(refreshes))
  BY DEF RefreshesTyped, LatestIsAhead
<1>3. CASE older' = i - 1 /\ i = Len(refreshes)
  <2>1. older' \in 0..Len(refreshes') /\ ~current'
    BY <1>1, <1>3
  <2> QED
    BY <1>1, <2>1 DEF RefreshesTyped, LatestIsAhead, Ended
<1>4. CASE older' = (IF i <= older THEN older - 1 ELSE older)
  <2>1. older' \in 0..Len(refreshes')
    BY <1>1, <1>2, <1>4
  <2>2. ASSUME current' PROVE older' < Len(refreshes')
    <3>1. older < Len(refreshes) /\ i < Len(refreshes)
      BY <1>1, <1>2, <2>2
    <3> QED
      BY <1>1, <1>2, <1>4, <3>1
  <2> QED
    BY <1>1, <2>1, <2>2 DEF RefreshesTyped, LatestIsAhead, Ended
<1> QED
  BY <1>3, <1>4

LEMMA NextRefreshes == Typed /\ [Next]_vars => RefreshesTyped' /\ LatestIsAhead'
<1> SUFFICES ASSUME Typed, [Next]_vars PROVE RefreshesTyped' /\ LatestIsAhead'
  OBVIOUS
<1>1. /\ RefreshesTyped /\ LatestIsAhead
      /\ refreshes \in Seq(Refresh) /\ Len(refreshes) \in Nat
      /\ DOMAIN refreshes = 1..Len(refreshes)
  BY LenProperties DEF Typed, RefreshesTyped
<1>2. CASE UNCHANGED <<refreshes, current, older>>
  BY <1>1, <1>2 DEF RefreshesTyped, LatestIsAhead
<1>3. ASSUME NEW n \in 1..MaxLimit, Issue(n), older' = older
      PROVE  RefreshesTyped' /\ LatestIsAhead'
  <2>1. /\ refreshes' \in Seq(Refresh)
        /\ Len(refreshes') = Len(refreshes) + 1
        /\ Len(refreshes') <= MaxInFlight
        /\ current' = TRUE
    BY <1>1, <1>3, IssueAdds DEF Issue
  <2>2. older' \in 0..Len(refreshes') /\ older' < Len(refreshes')
    BY <1>1, <1>3, <2>1 DEF RefreshesTyped
  <2> QED
    BY <2>1, <2>2 DEF RefreshesTyped, LatestIsAhead
<1>4. limit \in 1..MaxLimit
  BY Numbers DEF Typed, PageTyped
<1>5. CASE Poll
  BY <1>3, <1>4, <1>5 DEF Poll
<1>6. CASE LoadMore
  <2>1. limit + PageSize \in 1..MaxLimit
    BY <1>4, <1>6, Numbers DEF LoadMore
  <2> QED
    BY <1>3, <1>6, <2>1 DEF LoadMore
<1>7. ASSUME NEW s \in Sources, ReceiveAnalysis(s) PROVE RefreshesTyped' /\ LatestIsAhead'
  <2>1. /\ analyses[s] \in Analysis /\ analyses[s].limit >= PageSize
    BY <1>7 DEF ReceiveAnalysis, Typed, FormTyped
  <2>2. analyses[s].limit \in 1..MaxLimit
    <3>1. analyses[s].limit \in 0..MaxLimit
      BY <2>1 DEF Analysis
    <3> QED
      BY <2>1, <3>1, Numbers
  <2> QED
    BY <1>3, <1>7, <2>2 DEF ReceiveAnalysis
<1>8. ASSUME NEW i \in DOMAIN refreshes, Read(i) PROVE RefreshesTyped' /\ LatestIsAhead'
  <2> DEFINE r == [refreshes[i] EXCEPT !.total = Totals, !.list = Recent(refreshes[i].limit)]
  <2>1. refreshes[i] \in Refresh
    BY <1>1, ElementOfSeq
  <2>2. refreshes[i].limit \in Nat
    BY <2>1, Numbers DEF Refresh
  <2>3. Recent(refreshes[i].limit) \in Seq(Calls) /\ Totals \in Nat
    BY <2>2, RecentType DEF Typed
  <2>4. r \in Refresh
    BY <2>1, <2>3 DEF Refresh
  <2>5. refreshes' = [refreshes EXCEPT ![i] = r] /\ UNCHANGED <<current, older>>
    BY <1>8 DEF Read
  <2> HIDE DEF r
  <2>6. refreshes' \in Seq(Refresh) /\ Len(refreshes') = Len(refreshes)
    BY <1>1, <2>4, <2>5, ExceptSeq
  <2> QED
    BY <1>1, <2>5, <2>6 DEF RefreshesTyped, LatestIsAhead
<1>9. ASSUME NEW i \in DOMAIN refreshes, Answer(i) \/ Discard(i) \/ RefreshFails(i)
      PROVE  RefreshesTyped' /\ LatestIsAhead'
  <2>1. /\ Ended(i)
        /\ \/ older' = (IF i <= older THEN older - 1 ELSE older)
           \/ older' = i - 1 /\ i = Len(refreshes)
    BY <1>9 DEF Answer, Discard, RefreshFails, IsLatest
  <2> QED
    BY <1>1, <2>1, EndedRefreshes
<1>10. CASE \/ \E f \in Filters : SetFilter(f)
            \/ \E s \in Sources : StartAnalysis(s) \/ StoreAnalysis(s) \/ AnalysisFails(s)
            \/ RowFromElsewhere
            \/ ReportStep
            \/ UNCHANGED vars
  <2>1. UNCHANGED <<refreshes, current, older>>
    BY <1>10 DEF SetFilter, StartAnalysis, StoreAnalysis, AnalysisFails, RowFromElsewhere,
       ReportStep, Report, StoreReport, ReportAnswered, ReportFails, vars, pageVars
  <2> QED
    BY <1>2, <2>1
<1> QED
  BY <1>5, <1>6, <1>7, <1>8, <1>9, <1>10 DEF Next, RefreshStep, FormStep

LEMMA NextPage == Typed /\ [Next]_vars => PageTyped' /\ faults' \in 0..MaxFaults
<1> SUFFICES ASSUME Typed, [Next]_vars PROVE PageTyped' /\ faults' \in 0..MaxFaults
  OBVIOUS
<1>1. PageTyped /\ faults \in 0..MaxFaults /\ MaxFaults \in Nat
  BY Numbers DEF Typed
<1>2. faults' = faults \/ Fault
  BY DEF Next, vars, Poll, LoadMore, RefreshStep, Read, Answer, Discard, RefreshFails, SetFilter,
     FormStep, StartAnalysis, StoreAnalysis, ReceiveAnalysis, AnalysisFails, RowFromElsewhere,
     ReportStep, Report, StoreReport, ReportAnswered, ReportFails
<1>3. faults' \in 0..MaxFaults
  BY <1>1, <1>2 DEF Fault
<1>4. CASE UNCHANGED <<page, limit, loadingMore, filter>>
  BY <1>1, <1>3, <1>4 DEF PageTyped
<1>5. CASE LoadMore
  <2>1. limit' \in PageSize..MaxLimit
    BY <1>1, <1>5, Numbers DEF LoadMore, PageTyped
  <2> QED
    BY <1>1, <1>5, <2>1 DEF LoadMore, PageTyped
<1>6. ASSUME NEW i \in DOMAIN refreshes, Answer(i) PROVE PageTyped'
  <2>1. refreshes[i] \in Refresh
    BY LenProperties, ElementOfSeq DEF Typed, RefreshesTyped
  <2>2. page' \in [list : Seq(Calls), total : Nat \cup {NotRead}, error : BOOLEAN]
    BY <1>6, <2>1 DEF Answer, Refresh
  <2> QED
    BY <1>1, <1>6, <2>2 DEF Answer, PageTyped
<1>7. ASSUME NEW i \in DOMAIN refreshes, RefreshFails(i) PROVE PageTyped'
  <2>1. page' \in [list : Seq(Calls), total : Nat \cup {NotRead}, error : BOOLEAN]
    BY <1>1, <1>7 DEF RefreshFails, PageTyped
  <2> QED
    BY <1>1, <1>7, <2>1 DEF RefreshFails, PageTyped
<1>8. ASSUME NEW f \in Filters, SetFilter(f) PROVE PageTyped'
  BY <1>1, <1>8 DEF SetFilter, PageTyped, pageVars
<1>9. CASE \/ Poll \/ RowFromElsewhere \/ FormStep \/ ReportStep \/ UNCHANGED vars
           \/ \E i \in DOMAIN refreshes : Read(i) \/ Discard(i)
  <2>1. UNCHANGED <<page, limit, loadingMore, filter>>
    BY <1>9 DEF Poll, Read, Discard, FormStep, StartAnalysis, StoreAnalysis, ReceiveAnalysis,
       AnalysisFails, RowFromElsewhere, ReportStep, Report, StoreReport, ReportAnswered,
       ReportFails, vars, pageVars
  <2> QED
    BY <1>4, <2>1
<1> QED
  BY <1>3, <1>5, <1>6, <1>7, <1>8, <1>9 DEF Next, RefreshStep

LEMMA NextForm == Typed /\ [Next]_vars => FormTyped' /\ rows' \in Seq(Calls)
<1> SUFFICES ASSUME Typed, [Next]_vars PROVE FormTyped' /\ rows' \in Seq(Calls)
  OBVIOUS
<1>1. FormTyped /\ rows \in Seq(Calls) /\ limit \in PageSize..MaxLimit
  BY DEF Typed, PageTyped
<1>2. ASSUME NEW c \in Calls PROVE <<c>> \o rows \in Seq(Calls)
  <2>1. <<c>> \in Seq(Calls)
    OBVIOUS
  <2> QED
    BY <1>1, <2>1, ConcatProperties
<1>3. rows' \in Seq(Calls)
  <2>1. rows' = rows \/ \E c \in Calls : rows' = <<c>> \o rows
    BY DEF Next, vars, Poll, LoadMore, RefreshStep, Read, Answer, Discard, RefreshFails, SetFilter,
       FormStep, StartAnalysis, StoreAnalysis, ReceiveAnalysis, AnalysisFails, RowFromElsewhere,
       ReportStep, Report, StoreReport, ReportAnswered, ReportFails, Fresh
  <2> QED
    BY <1>1, <1>2, <2>1
<1>4. CASE UNCHANGED formVars
  BY <1>1, <1>3, <1>4 DEF formVars, FormTyped
<1>5. ASSUME NEW s \in Sources, StartAnalysis(s) PROVE FormTyped'
  <2> DEFINE a == [Idle EXCEPT !.stage = "running", !.limit = limit]
  <2>1. a \in Analysis /\ a.limit >= PageSize
    <3>1. limit \in 0..MaxLimit /\ limit >= PageSize
      BY <1>1, Numbers
    <3>2. Idle \in Analysis
      BY Numbers DEF Analysis, Idle
    <3> QED
      BY <3>1, <3>2 DEF Analysis
  <2>2. analyses' = [analyses EXCEPT ![s] = a] /\ panel' = ClosedPanel
    BY <1>5 DEF StartAnalysis
  <2> HIDE DEF a
  <2> QED
    BY <1>1, <2>1, <2>2 DEF FormTyped, ClosedPanel
<1>6. ASSUME NEW s \in Sources, StoreAnalysis(s) PROVE FormTyped'
  <2>1. PICK c \in Calls :
            analyses' = [analyses EXCEPT ![s].stage = "stored", ![s].call = c]
    BY <1>6 DEF StoreAnalysis, Fresh
  <2> DEFINE a == [analyses[s] EXCEPT !.stage = "stored", !.call = c]
  <2>2. a \in Analysis /\ a.limit >= PageSize
    BY <1>1, <1>6 DEF StoreAnalysis, FormTyped, Analysis
  <2>3. analyses' = [analyses EXCEPT ![s] = a] /\ panel' = panel
    BY <1>6, <2>1 DEF StoreAnalysis
  <2> HIDE DEF a
  <2> QED
    BY <1>1, <2>2, <2>3 DEF FormTyped
<1>7. ASSUME NEW s \in Sources, ReceiveAnalysis(s) \/ AnalysisFails(s) PROVE FormTyped'
  <2>1. Idle \in Analysis /\ Idle.stage = "idle"
    BY Numbers DEF Analysis, Idle
  <2>2. /\ analyses' = [analyses EXCEPT ![s] = Idle]
        /\ panel' = panel \/ panel' = [call |-> analyses[s].call, source |-> s]
    BY <1>7 DEF ReceiveAnalysis, AnalysisFails
  <2>3. analyses[s].call \in Calls \cup {NoCall}
    BY <1>1 DEF FormTyped, Analysis
  <2> QED
    BY <1>1, <2>1, <2>2, <2>3 DEF FormTyped
<1>8. CASE \/ Poll \/ LoadMore \/ RefreshStep \/ RowFromElsewhere \/ ReportStep \/ UNCHANGED vars
           \/ \E f \in Filters : SetFilter(f)
  <2>1. UNCHANGED formVars
    BY <1>8 DEF Poll, LoadMore, RefreshStep, Read, Answer, Discard, RefreshFails, SetFilter,
       RowFromElsewhere, ReportStep, Report, StoreReport, ReportAnswered, ReportFails, vars
  <2> QED
    BY <1>4, <2>1
<1> QED
  BY <1>3, <1>5, <1>6, <1>7, <1>8 DEF Next, FormStep

-----------------------------------------------------------------------------
(***************************************************************************)
(* The report buttons                                                      *)
(***************************************************************************)

\* A step that changes one click.
LEMMA ClickChanged ==
    ASSUME ReportsTyped, NEW i \in DOMAIN clicks, NEW k \in Click, clicks' = [clicks EXCEPT ![i] = k]
    PROVE  /\ clicks' \in Seq(Click)
           /\ DOMAIN clicks' = DOMAIN clicks
           /\ clicks'[i] = k
           /\ \A j \in DOMAIN clicks \ {i} : clicks'[j] = clicks[j]
<1>1. clicks \in Seq(Click) /\ DOMAIN clicks = 1..Len(clicks)
  BY LenProperties DEF ReportsTyped
<1>2. /\ clicks' \in Seq(Click)
      /\ \A j \in 1..Len(clicks) : clicks'[j] = IF j = i THEN k ELSE clicks[j]
  BY <1>1, ExceptSeq
<1> QED
  BY <1>1, <1>2

LEMMA ClickType ==
    ASSUME ReportsTyped, NEW i \in DOMAIN clicks
    PROVE  clicks[i] \in Click /\ clicks[i].call \in High /\ clicks[i].call \in Calls
<1>1. clicks[i] \in Click
  BY LenProperties, ElementOfSeq DEF ReportsTyped
<1> QED
  BY <1>1, DashboardAssumption DEF Click

\* What a re-rendered table does to the buttons and to who hears of an answer.
Rerendered ==
    \E gone \in SUBSET Calls :
        /\ \A c \in High : buttons'[c] = IF c \in gone THEN "idle" ELSE buttons[c]
        /\ DOMAIN clicks' = DOMAIN clicks
        /\ \A i \in DOMAIN clicks :
            /\ clicks'[i].call = clicks[i].call
            /\ clicks'[i].stage = clicks[i].stage
            /\ clicks'[i].mounted => clicks[i].mounted /\ clicks[i].call \notin gone

LEMMA RenderTyped ==
    ASSUME ReportsTyped, NEW list, NEW f, Render(list, f), reports' = reports
    PROVE  ReportsTyped' /\ Rerendered
<1> DEFINE gone == Visible(page.list, filter) \ Visible(list, f)
<1>1. /\ buttons' = [c \in High |-> IF c \in gone THEN "idle" ELSE buttons[c]]
      /\ clicks' = [i \in DOMAIN clicks |->
                      IF clicks[i].call \in gone
                      THEN [clicks[i] EXCEPT !.mounted = FALSE] ELSE clicks[i]]
  BY DEF Render
<1>2. gone \in SUBSET Calls
  BY DEF Visible
<1> HIDE DEF gone
<1>3. Len(clicks) \in Nat /\ DOMAIN clicks = 1..Len(clicks)
  BY LenProperties DEF ReportsTyped
<1>4. /\ DOMAIN clicks' = DOMAIN clicks
      /\ \A i \in DOMAIN clicks :
            /\ clicks'[i] \in Click
            /\ clicks'[i].call = clicks[i].call
            /\ clicks'[i].stage = clicks[i].stage
            /\ clicks'[i].mounted => clicks[i].mounted /\ clicks[i].call \notin gone
  BY <1>1, ClickType DEF Click
<1>5. clicks' \in Seq(Click)
  <2>1. clicks' \in [1..Len(clicks) -> Click]
    BY <1>1, <1>3, <1>4
  <2> QED
    BY <1>3, <2>1, SeqDef
<1>6. \A c \in High : buttons'[c] = IF c \in gone THEN "idle" ELSE buttons[c]
  BY <1>1
<1>7. Rerendered
  BY <1>2, <1>4, <1>6 DEF Rerendered
<1> QED
  BY <1>1, <1>5, <1>7 DEF ReportsTyped

LEMMA NextReportsTyped == Typed /\ [Next]_vars => ReportsTyped'
<1> SUFFICES ASSUME Typed, [Next]_vars PROVE ReportsTyped'
  OBVIOUS
<1>1. ReportsTyped
  BY DEF Typed
<1>2. CASE UNCHANGED reportVars
  BY <1>1, <1>2 DEF reportVars, ReportsTyped
<1>3. ASSUME NEW i \in DOMAIN refreshes, Answer(i) PROVE ReportsTyped'
  BY <1>1, <1>3, RenderTyped DEF Answer
<1>4. ASSUME NEW f \in Filters, SetFilter(f) PROVE ReportsTyped'
  BY <1>1, <1>4, RenderTyped DEF SetFilter
<1>5. ASSUME NEW c \in High, Report(c) PROVE ReportsTyped'
  <2>1. [call |-> c, stage |-> "sent", mounted |-> TRUE] \in Click
    BY DEF Click
  <2> QED
    BY <1>1, <1>5, <2>1, AppendProperties DEF Report, ReportsTyped
<1>6. ASSUME NEW i \in DOMAIN clicks, StoreReport(i) PROVE ReportsTyped'
  <2> DEFINE k == [clicks[i] EXCEPT !.stage = "stored"]
  <2>1. k \in Click /\ clicks[i].call \in Calls
    BY <1>1, ClickType DEF Click
  <2>2. clicks' = [clicks EXCEPT ![i] = k]
    BY <1>6 DEF StoreReport
  <2> HIDE DEF k
  <2>3. clicks' \in Seq(Click)
    BY <1>1, <2>1, <2>2, ClickChanged
  <2>4. reports' \in [Calls -> Nat]
    <3>1. reports \in [Calls -> Nat] /\ reports[clicks[i].call] + 1 \in Nat
      BY <1>1, <2>1 DEF ReportsTyped
    <3> QED
      BY <1>6, <3>1 DEF StoreReport
  <2> QED
    BY <1>1, <1>6, <2>3, <2>4 DEF StoreReport, ReportsTyped
<1>7. ASSUME NEW i \in DOMAIN clicks, ReportAnswered(i) \/ ReportFails(i) PROVE ReportsTyped'
  <2>1. PICK k \in Click : clicks' = [clicks EXCEPT ![i] = k]
    <3>1. clicks[i] \in Click
      BY <1>1, ClickType
    <3>2. CASE ReportAnswered(i)
      <4>1. [clicks[i] EXCEPT !.stage = "answered"] \in Click
        BY <3>1 DEF Click
      <4> QED
        BY <3>2, <4>1 DEF ReportAnswered
    <3>3. CASE ReportFails(i)
      <4>1. [clicks[i] EXCEPT !.stage = "failed", !.mounted = FALSE] \in Click
        BY <3>1 DEF Click
      <4> QED
        BY <3>3, <4>1 DEF ReportFails
    <3> QED
      BY <1>7, <3>2, <3>3
  <2>2. clicks' \in Seq(Click)
    BY <1>1, <2>1, ClickChanged
  <2>3. /\ reports' = reports
        /\ \/ buttons' = buttons
           \/ \E state \in {"submitted", "error"} :
                buttons' = [buttons EXCEPT ![clicks[i].call] = state]
    BY <1>7 DEF ReportAnswered, ReportFails, SetButton
  <2> QED
    BY <1>1, <2>2, <2>3, ClickType DEF ReportsTyped
<1>8. CASE \/ Poll \/ LoadMore \/ FormStep \/ RowFromElsewhere \/ UNCHANGED vars
           \/ \E i \in DOMAIN refreshes : Read(i) \/ Discard(i) \/ RefreshFails(i)
  <2>1. UNCHANGED reportVars
    BY <1>8 DEF Poll, LoadMore, Read, Discard, RefreshFails, FormStep, StartAnalysis,
       StoreAnalysis, ReceiveAnalysis, AnalysisFails, RowFromElsewhere, vars
  <2> QED
    BY <1>2, <2>1
<1> QED
  BY <1>3, <1>4, <1>5, <1>6, <1>7, <1>8 DEF Next, RefreshStep, ReportStep

LEMMA NextTyped == Typed /\ [Next]_vars => Typed'
BY NextRefreshes, NextPage, NextForm, NextReportsTyped DEF Typed

\* Every reachable state of the dashboard is well typed.
THEOREM TypeCorrect == Spec => []TypeOK
BY InitTyped, NextTyped, TypedIsTypeOK, PTL DEF Spec

\* In whatever order the answers come, none replaces the answer to a request
\* that was issued later (the request ids of DashboardPage.refresh).
THEOREM NeverGoesBack == Spec => ScreenNeverGoesBack
<1>1. Typed => (\A i \in DOMAIN refreshes : Answer(i) => i > older)
  <2> SUFFICES ASSUME Typed, NEW i \in DOMAIN refreshes, Answer(i) PROVE i > older
    OBVIOUS
  <2>1. current /\ i = Len(refreshes)
    BY DEF Answer, IsLatest
  <2>2. older < Len(refreshes)
    BY <2>1 DEF Typed, LatestIsAhead
  <2> QED
    BY <2>1, <2>2
<1> QED
  BY InitTyped, NextTyped, <1>1, PTL DEF Spec, ScreenNeverGoesBack

-----------------------------------------------------------------------------
(***************************************************************************)
(* No row is reported twice unnoticed                                      *)
(*                                                                         *)
(* A button that somebody still listens to is disabled, so that a click    *)
(* finds no other one of its row whose answer would be heard.              *)
(***************************************************************************)
Stored(c) ==
    {i \in DOMAIN clicks : clicks[i].call = c /\ clicks[i].stage \in {"stored", "answered", "failed"}}

ReportsInv ==
    /\ \A c \in High :
        /\ buttons[c] = "submitted" => reports[c] >= 1
        /\ reports[c] <= Cardinality(Stored(c))
    /\ \A i \in DOMAIN clicks :
        /\ clicks[i].stage \in {"stored", "answered"} => reports[clicks[i].call] >= 1
        /\ clicks[i].mounted =>
            /\ clicks[i].stage # "failed"
            /\ buttons[clicks[i].call] \in {"submitting", "submitted"}
    /\ \A i, j \in DOMAIN clicks :
        clicks[i].mounted /\ clicks[j].mounted /\ clicks[i].call = clicks[j].call => i = j

LEMMA StoredIsFinite ==
    ASSUME ReportsTyped, NEW c
    PROVE  IsFiniteSet(Stored(c)) /\ Cardinality(Stored(c)) \in Nat
<1>1. Len(clicks) \in Nat /\ DOMAIN clicks = 1..Len(clicks)
  BY LenProperties DEF ReportsTyped
<1>2. IsFiniteSet(1..Len(clicks))
  BY <1>1, FS_Interval
<1>3. Stored(c) \in SUBSET (1..Len(clicks))
  BY <1>1 DEF Stored
<1>4. IsFiniteSet(Stored(c))
  BY <1>2, <1>3, FS_Subset
<1> QED
  BY <1>4, FS_CardinalityType

LEMMA InitReports == Init => ReportsInv
<1> SUFFICES ASSUME Init PROVE ReportsInv
  OBVIOUS
<1>1. DOMAIN clicks = {}
  BY DEF Init
<1>2. \A c \in High : buttons[c] = "idle" /\ reports[c] = 0
  BY DashboardAssumption DEF Init
<1>3. \A c \in High : Cardinality(Stored(c)) = 0
  <2>1. \A c \in High : Stored(c) = {}
    BY <1>1 DEF Stored
  <2> QED
    BY <2>1, FS_EmptySet
<1> QED
  BY <1>1, <1>2, <1>3 DEF ReportsInv

\* A step that stores no report and leaves every click at its stage, or moves
\* one from stored to answered.
LEMMA SameReports ==
    ASSUME ReportsTyped, ReportsInv, reports' = reports, DOMAIN clicks' = DOMAIN clicks,
           \A i \in DOMAIN clicks :
                /\ clicks'[i].call = clicks[i].call
                /\ clicks'[i].mounted => clicks[i].mounted
                /\ \/ clicks'[i].stage = clicks[i].stage
                   \/ clicks'[i].stage = "answered" /\ clicks[i].stage = "stored"
                /\ clicks'[i].mounted => buttons'[clicks[i].call] \in {"submitting", "submitted"},
           \A c \in High : buttons'[c] = "submitted" => reports[c] >= 1
    PROVE  ReportsInv'
<1>1. \A c \in High : Stored(c)' = Stored(c)
  BY DEF Stored
<1>2. \A c \in High : reports'[c] <= Cardinality(Stored(c)')
  BY <1>1 DEF ReportsInv
<1> QED
  BY <1>2 DEF ReportsInv

LEMMA NextReports == Typed /\ ReportsInv /\ [Next]_vars => ReportsInv'
<1> SUFFICES ASSUME Typed, ReportsInv, [Next]_vars PROVE ReportsInv'
  OBVIOUS
<1>1. /\ ReportsTyped
      /\ reports \in [Calls -> Nat]
      /\ buttons \in [High -> {"idle", "submitting", "submitted", "error"}]
      /\ clicks \in Seq(Click) /\ DOMAIN clicks = 1..Len(clicks) /\ Len(clicks) \in Nat
      /\ \A i \in DOMAIN clicks :
            clicks[i] \in Click /\ clicks[i].call \in High /\ clicks[i].call \in Calls
      /\ High \subseteq Calls
  BY ClickType, LenProperties, DashboardAssumption DEF Typed, ReportsTyped
<1>2. CASE UNCHANGED reportVars
  BY <1>2 DEF reportVars, ReportsInv, Stored
<1>3. ASSUME Rerendered, reports' = reports PROVE ReportsInv'
  BY <1>1, <1>3, SameReports DEF Rerendered, ReportsInv
<1>4. ASSUME NEW i \in DOMAIN refreshes, Answer(i) PROVE ReportsInv'
  BY <1>1, <1>3, <1>4, RenderTyped DEF Answer
<1>5. ASSUME NEW f \in Filters, SetFilter(f) PROVE ReportsInv'
  BY <1>1, <1>3, <1>5, RenderTyped DEF SetFilter
<1>6. ASSUME NEW c \in High, Report(c) PROVE ReportsInv'
  <2> DEFINE k == [call |-> c, stage |-> "sent", mounted |-> TRUE]
  <2>n. PICK n \in Nat : n = Len(clicks) + 1
    BY <1>1
  <2>1. /\ clicks' = Append(clicks, k) /\ reports' = reports
        /\ buttons' = [buttons EXCEPT ![c] = "submitting"]
        /\ buttons[c] \in {"idle", "error"}
    BY <1>6 DEF Report, CanReport
  <2>2. k \in Click /\ k.call = c /\ k.stage = "sent" /\ k.mounted
    BY DEF Click
  <2> HIDE DEF k
  <2>3. /\ DOMAIN clicks' = DOMAIN clicks \cup {n} /\ n \notin DOMAIN clicks
        /\ clicks'[n] = k
        /\ \A i \in DOMAIN clicks : clicks'[i] = clicks[i]
    <3>1. /\ clicks' \in Seq(Click) /\ Len(clicks') = Len(clicks) + 1
          /\ \A i \in 1..Len(clicks) : clicks'[i] = clicks[i]
          /\ clicks'[Len(clicks) + 1] = k
      BY <1>1, <2>1, <2>2, AppendProperties
    <3>2. DOMAIN clicks' = 1..(Len(clicks) + 1)
      BY <3>1, LenProperties
    <3> QED
      BY <1>1, <2>n, <3>1, <3>2
  <2>4. \A d \in High : Stored(d)' = Stored(d)
    BY <2>2, <2>3 DEF Stored
  <2>5. \A d \in High : reports'[d] <= Cardinality(Stored(d)')
    BY <2>1, <2>4 DEF ReportsInv
  <2>6. \A i \in DOMAIN clicks : clicks[i].mounted => clicks[i].call # c
    BY <2>1 DEF ReportsInv
  <2>7. \A d \in High : buttons'[d] = "submitted" => reports'[d] >= 1
    BY <1>1, <2>1 DEF ReportsInv
  <2>8. ASSUME NEW i \in DOMAIN clicks'
        PROVE  /\ clicks'[i].stage \in {"stored", "answered"} => reports'[clicks'[i].call] >= 1
               /\ clicks'[i].mounted =>
                    /\ clicks'[i].stage # "failed"
                    /\ buttons'[clicks'[i].call] \in {"submitting", "submitted"}
    <3>1. CASE i = n
      BY <1>1, <2>1, <2>2, <2>3, <3>1
    <3>2. CASE i # n
      <4>1. i \in DOMAIN clicks /\ clicks'[i] = clicks[i]
        BY <2>3, <3>2
      <4> QED
        BY <1>1, <2>1, <2>6, <4>1 DEF ReportsInv
    <3> QED
      BY <3>1, <3>2
  <2>9. \A i, j \in DOMAIN clicks' :
            clicks'[i].mounted /\ clicks'[j].mounted /\ clicks'[i].call = clicks'[j].call => i = j
    BY <2>2, <2>3, <2>6 DEF ReportsInv
  <2> QED
    BY <2>5, <2>7, <2>8, <2>9 DEF ReportsInv
\* One click changes, and the reports of its row or its button with it.
<1>7. ASSUME NEW i \in DOMAIN clicks, NEW k \in Click, clicks' = [clicks EXCEPT ![i] = k],
             k.call = clicks[i].call, k.mounted => clicks[i].mounted,
             k.stage # "failed" \/ ~k.mounted,
             clicks[i].stage \in {"stored", "answered", "failed"}
                => k.stage \in {"stored", "answered", "failed"},
             \A c \in Calls : reports'[c] \in Nat /\ reports'[c] >= reports[c],
             \A c \in High \ {clicks[i].call} : reports'[c] = reports[c],
             k.stage \in {"stored", "answered"} => reports'[clicks[i].call] >= 1,
             reports'[clicks[i].call] = reports[clicks[i].call]
                \/ /\ reports'[clicks[i].call] = reports[clicks[i].call] + 1
                   /\ clicks[i].stage = "sent" /\ k.stage = "stored",
             \A c \in High \ {clicks[i].call} : buttons'[c] = buttons[c],
             \A j \in DOMAIN clicks : clicks[j].call = clicks[i].call /\ clicks'[j].mounted
                => buttons'[clicks[i].call] \in {"submitting", "submitted"},
             buttons'[clicks[i].call] = "submitted" => reports'[clicks[i].call] >= 1
      PROVE  ReportsInv'
  <2>1. /\ DOMAIN clicks' = DOMAIN clicks /\ clicks'[i] = k
        /\ \A j \in DOMAIN clicks \ {i} : clicks'[j] = clicks[j]
        /\ clicks' \in Seq(Click)
    BY <1>1, <1>7, ClickChanged
  <2>2. ASSUME NEW c \in High PROVE reports'[c] <= Cardinality(Stored(c)')
    <3>1. IsFiniteSet(Stored(c)) /\ Cardinality(Stored(c)) \in Nat
      BY <1>1, StoredIsFinite
    <3>2. IsFiniteSet(Stored(c)') /\ Stored(c) \in SUBSET (Stored(c)')
      <4>1. Stored(c) \subseteq Stored(c)' /\ Stored(c)' \subseteq Stored(c) \cup {i}
        BY <1>7, <2>1 DEF Stored
      <4>2. IsFiniteSet(Stored(c) \cup {i})
        BY <3>1, FS_AddElement
      <4> QED
        BY <4>1, <4>2, FS_Subset
    <3>3. Cardinality(Stored(c)) <= Cardinality(Stored(c)') /\ Cardinality(Stored(c)') \in Nat
      BY <3>2, FS_Subset, FS_CardinalityType
    <3>4. CASE reports'[c] = reports[c]
      BY <1>1, <3>1, <3>3, <3>4 DEF ReportsInv
    <3>5. CASE reports'[c] # reports[c]
      <4>1. /\ c = clicks[i].call /\ reports'[c] = reports[c] + 1
            /\ clicks[i].stage = "sent" /\ k.stage = "stored"
        BY <1>7, <3>5
      <4>2. Stored(c)' = Stored(c) \cup {i} /\ i \notin Stored(c)
        BY <1>7, <2>1, <4>1 DEF Stored
      <4>3. Cardinality(Stored(c)') = Cardinality(Stored(c)) + 1
        BY <3>1, <4>2, FS_AddElement
      <4> QED
        BY <1>1, <3>1, <4>1, <4>3 DEF ReportsInv
    <3> QED
      BY <3>4, <3>5
  <2>3. ASSUME NEW c \in High, buttons'[c] = "submitted" PROVE reports'[c] >= 1
    <3>1. CASE c = clicks[i].call
      BY <1>7, <2>3, <3>1
    <3>2. CASE c # clicks[i].call
      BY <1>1, <1>7, <2>3, <3>2 DEF ReportsInv
    <3> QED
      BY <3>1, <3>2
  <2>4. ASSUME NEW j \in DOMAIN clicks'
        PROVE  /\ clicks'[j].stage \in {"stored", "answered"} => reports'[clicks'[j].call] >= 1
               /\ clicks'[j].mounted =>
                    /\ clicks'[j].stage # "failed"
                    /\ buttons'[clicks'[j].call] \in {"submitting", "submitted"}
    <3>1. CASE j = i
      BY <1>1, <1>7, <2>1, <3>1 DEF ReportsInv
    <3>2. CASE j # i
      <4>1. j \in DOMAIN clicks /\ clicks'[j] = clicks[j] /\ clicks[j].call \in High
            /\ reports[clicks[j].call] \in Nat
        BY <1>1, <2>1, <3>2
      <4>2. clicks[j].stage \in {"stored", "answered"} => reports'[clicks[j].call] >= 1
        BY <1>1, <1>7, <4>1 DEF ReportsInv
      <4>3. clicks[j].mounted =>
                /\ clicks[j].stage # "failed"
                /\ buttons'[clicks[j].call] \in {"submitting", "submitted"}
        BY <1>7, <4>1 DEF ReportsInv
      <4> QED
        BY <4>1, <4>2, <4>3
    <3> QED
      BY <3>1, <3>2
  <2>5. \A j, m \in DOMAIN clicks' :
            clicks'[j].mounted /\ clicks'[m].mounted /\ clicks'[j].call = clicks'[m].call => j = m
    BY <1>7, <2>1 DEF ReportsInv
  <2> QED
    BY <2>2, <2>3, <2>4, <2>5 DEF ReportsInv
<1>8. ASSUME NEW i \in DOMAIN clicks, StoreReport(i) PROVE ReportsInv'
  <2> DEFINE k == [clicks[i] EXCEPT !.stage = "stored"]
  <2>1. /\ k \in Click /\ k.call = clicks[i].call /\ k.mounted = clicks[i].mounted
        /\ k.stage = "stored" /\ clicks[i].stage = "sent"
    BY <1>1, <1>8 DEF Click, StoreReport
  <2>2. /\ clicks' = [clicks EXCEPT ![i] = k]
        /\ reports' = [reports EXCEPT ![clicks[i].call] = @ + 1]
        /\ buttons' = buttons
    BY <1>8 DEF StoreReport
  <2> HIDE DEF k
  <2>3. /\ \A c \in Calls : reports'[c] \in Nat /\ reports'[c] >= reports[c]
        /\ \A c \in High \ {clicks[i].call} : reports'[c] = reports[c]
        /\ reports'[clicks[i].call] = reports[clicks[i].call] + 1
        /\ reports'[clicks[i].call] >= 1
    BY <1>1, <2>2
  <2>4. ASSUME NEW j \in DOMAIN clicks, clicks[j].call = clicks[i].call, clicks'[j].mounted
        PROVE  buttons[clicks[i].call] \in {"submitting", "submitted"}
    <3>1. clicks[j].mounted
      BY <1>1, <2>1, <2>2, <2>4, ClickChanged
    <3> QED
      BY <2>4, <3>1 DEF ReportsInv
  <2> QED
    BY <1>7, <2>1, <2>2, <2>3, <2>4
<1>9. ASSUME NEW i \in DOMAIN clicks, ReportAnswered(i) PROVE ReportsInv'
  <2> DEFINE k == [clicks[i] EXCEPT !.stage = "answered"]
  <2>1. /\ k \in Click /\ k.call = clicks[i].call /\ k.mounted = clicks[i].mounted
        /\ k.stage = "answered" /\ clicks[i].stage = "stored"
    BY <1>1, <1>9 DEF Click, ReportAnswered
  <2>2. /\ clicks' = [clicks EXCEPT ![i] = k] /\ reports' = reports
        /\ reports[clicks[i].call] >= 1
    BY <1>9 DEF ReportAnswered, ReportsInv
  <2>3. buttons' = IF clicks[i].mounted THEN [buttons EXCEPT ![clicks[i].call] = "submitted"]
                   ELSE buttons
    BY <1>9 DEF ReportAnswered, SetButton
  <2> HIDE DEF k
  <2>4. ASSUME NEW j \in DOMAIN clicks, clicks[j].call = clicks[i].call, clicks'[j].mounted
        PROVE  buttons'[clicks[i].call] \in {"submitting", "submitted"}
    <3>1. clicks[j].mounted
      BY <1>1, <2>1, <2>2, <2>4, ClickChanged
    <3> QED
      BY <1>1, <2>3, <2>4, <3>1 DEF ReportsInv
  <2>5. \A c \in High \ {clicks[i].call} : buttons'[c] = buttons[c]
    BY <1>1, <2>3
  <2>6. \A c \in Calls : reports'[c] \in Nat /\ reports'[c] >= reports[c]
    BY <1>1, <2>2
  <2> QED
    BY <1>7, <2>1, <2>2, <2>4, <2>5, <2>6
<1>10. ASSUME NEW i \in DOMAIN clicks, ReportFails(i) PROVE ReportsInv'
  <2> DEFINE k == [clicks[i] EXCEPT !.stage = "failed", !.mounted = FALSE]
  <2>1. /\ k \in Click /\ k.call = clicks[i].call /\ ~k.mounted /\ k.stage = "failed"
    BY <1>1 DEF Click
  <2>2. clicks' = [clicks EXCEPT ![i] = k] /\ reports' = reports
    BY <1>10 DEF ReportFails
  <2>3. buttons' = IF clicks[i].mounted THEN [buttons EXCEPT ![clicks[i].call] = "error"]
                   ELSE buttons
    BY <1>10 DEF ReportFails, SetButton
  <2> HIDE DEF k
  <2>4. ASSUME NEW j \in DOMAIN clicks, clicks[j].call = clicks[i].call, clicks'[j].mounted
        PROVE  buttons'[clicks[i].call] \in {"submitting", "submitted"}
    <3>1. j # i /\ clicks[j].mounted
      BY <1>1, <2>1, <2>2, <2>4, ClickChanged
    <3>2. ~clicks[i].mounted
      BY <2>4, <3>1 DEF ReportsInv
    <3> QED
      BY <2>3, <2>4, <3>1, <3>2 DEF ReportsInv
  <2>5. \A c \in High \ {clicks[i].call} : buttons'[c] = buttons[c]
    BY <1>1, <2>3
  <2>6. \A c \in Calls : reports'[c] \in Nat /\ reports'[c] >= reports[c]
    BY <1>1, <2>2
  <2>7. buttons'[clicks[i].call] = "submitted" => reports'[clicks[i].call] >= 1
    BY <1>1, <2>2, <2>3 DEF ReportsInv
  <2> QED
    BY <1>7, <2>1, <2>2, <2>4, <2>5, <2>6, <2>7
<1>11. CASE \/ Poll \/ LoadMore \/ FormStep \/ RowFromElsewhere \/ UNCHANGED vars
            \/ \E i \in DOMAIN refreshes : Read(i) \/ Discard(i) \/ RefreshFails(i)
  <2>1. UNCHANGED reportVars
    BY <1>11 DEF Poll, LoadMore, Read, Discard, RefreshFails, FormStep, StartAnalysis,
       StoreAnalysis, ReceiveAnalysis, AnalysisFails, RowFromElsewhere, vars
  <2> QED
    BY <1>2, <2>1
<1> QED
  BY <1>4, <1>5, <1>6, <1>8, <1>9, <1>10, <1>11 DEF Next, RefreshStep, ReportStep

\* No row has more reports than clicks that reached the server, "submitted" is
\* never said of a row without a report, and no two clicks of a row are both
\* listened to (ReportButton of RecentCallsTable.tsx).
THEOREM ReportsHold == Spec => []ReportsAreAccounted
<1>1. Typed /\ ReportsInv => ReportsAreAccounted
  <2> SUFFICES ASSUME Typed, ReportsInv, NEW c \in High
               PROVE  /\ buttons[c] = "submitted" => reports[c] >= 1
                      /\ reports[c] <= Cardinality(Stored(c))
                      /\ Cardinality({i \in {j \in DOMAIN clicks :
                                                /\ clicks[j].call = c
                                                /\ clicks[j].stage \in {"sent", "stored", "answered"}} :
                                        clicks[i].mounted}) <= 1
    BY DEF ReportsAreAccounted, Stored
  <2> DEFINE Heard == {i \in {j \in DOMAIN clicks :
                                  /\ clicks[j].call = c
                                  /\ clicks[j].stage \in {"sent", "stored", "answered"}} :
                          clicks[i].mounted}
  <2>1. Cardinality(Heard) <= 1
    <3>1. CASE Heard = {}
      BY <3>1, FS_EmptySet
    <3>2. CASE Heard # {}
      <4>1. PICK i : i \in Heard
        BY <3>2
      <4>2. Heard = {i}
        BY <4>1 DEF ReportsInv
      <4> QED
        BY <4>2, FS_Singleton
    <3> QED
      BY <3>1, <3>2
  <2> QED
    BY <2>1 DEF ReportsInv
<1> QED
  BY InitTyped, NextTyped, InitReports, NextReports, <1>1, PTL DEF Spec

=============================================================================
