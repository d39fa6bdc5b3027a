------------------------ MODULE EmailIngestionProofs ------------------------
(***************************************************************************)
(* Proofs about EmailIngestion for every set of mails, every page size and *)
(* every number of faults.                                                 *)
(***************************************************************************)
EXTENDS EmailIngestion, FiniteSetTheorems, TLAPS

\* TypeOK with the number of current mails spelled out.
TypedParts ==
    /\ now \in 0..MaxTime
    /\ DOMAIN arrived \subseteq Mails
    /\ \A m \in DOMAIN arrived : arrived[m] \in 0..now
    /\ labelled \subseteq DOMAIN arrived
    /\ pc \in {"stopped", "idle", "next", "analyzing", "marking"}
    /\ batch \subseteq DOMAIN arrived
    /\ current \subseteq DOMAIN arrived \ batch
    /\ IF pc \in {"analyzing", "marking"} THEN \E m \in batch \cup current : current = {m}
       ELSE current = {}
    /\ running \in [Mails -> Nat]
    /\ analyses \in [Mails -> Nat]
    /\ faults \in 0..MaxFaults
    /\ mishaps \in [Mails -> Nat]

LEMMA PartsAreType == TypedParts => TypeOK
<1> SUFFICES ASSUME TypedParts PROVE TypeOK
  OBVIOUS
<1>1. Cardinality(current) = (IF pc \in {"analyzing", "marking"} THEN 1 ELSE 0)
  <2>1. CASE pc \in {"analyzing", "marking"}
    BY <2>1, FS_Singleton DEF TypedParts
  <2>2. CASE pc \notin {"analyzing", "marking"}
    BY <2>2, FS_EmptySet DEF TypedParts
  <2> QED
    BY <2>1, <2>2
<1> QED
  BY <1>1 DEF TypedParts, TypeOK

LEMMA InitType == Init => TypedParts
BY IngestionAssumption DEF Init, TypedParts

\* Nothing that is counted per mail gets out of its type.
LEMMA CountsType ==
    ASSUME TypedParts, NEW m \in Mails
    PROVE  /\ [analyses EXCEPT ![m] = @ + 1] \in [Mails -> Nat]
           /\ [running EXCEPT ![m] = @ + 1] \in [Mails -> Nat]
           /\ [mishaps EXCEPT ![m] = @ + 1] \in [Mails -> Nat]
           /\ running[m] > 0 => [running EXCEPT ![m] = @ - 1] \in [Mails -> Nat]
BY DEF TypedParts

LEMMA NextType == TypedParts /\ [Next]_vars => TypedParts'
<1> SUFFICES ASSUME TypedParts, [Next]_vars PROVE TypedParts'
  OBVIOUS
<1>0. \A m \in current : m \in Mails
  BY DEF TypedParts
<1>f. ASSUME Fault PROVE faults' \in 0..MaxFaults
  BY <1>f, IngestionAssumption DEF Fault, TypedParts
<1>1. ASSUME Fetch PROVE TypedParts'
  BY <1>1 DEF Fetch, TypedParts, Found
<1>2. ASSUME FetchFails PROVE TypedParts'
  BY <1>2, <1>f DEF FetchFails, TypedParts, Found
<1>3. ASSUME Post PROVE TypedParts'
  <2>1. PICK m \in batch : current' = {m} /\ batch' = batch \ {m}
    BY <1>3 DEF Post
  <2> QED
    BY <1>3, <2>1 DEF Post, TypedParts
<1>4. ASSUME PollEnds PROVE TypedParts'
  BY <1>4 DEF PollEnds, TypedParts
<1>5. ASSUME Analyzed PROVE TypedParts'
  <2>1. PICK m \in current : analyses' = [analyses EXCEPT ![m] = @ + 1]
    BY <1>5 DEF Analyzed
  <2>2. analyses' \in [Mails -> Nat]
    BY <2>1, <1>0, CountsType
  <2> QED
    BY <1>5, <2>2 DEF Analyzed, TypedParts
<1>6. ASSUME AnalysisFails PROVE TypedParts'
  <2>1. mishaps' \in [Mails -> Nat] /\ analyses' \in [Mails -> Nat] /\ running' \in [Mails -> Nat]
    <3>1. PICK m \in current :
            /\ Mishap(m)
            /\ analyses' \in {analyses, [analyses EXCEPT ![m] = @ + 1]}
            /\ running' \in {running, [running EXCEPT ![m] = @ + 1]}
      BY <1>6 DEF AnalysisFails
    <3> QED
      BY <3>1, <1>0, CountsType DEF Mishap, TypedParts
  <2> QED
    BY <1>6, <1>f, <2>1 DEF AnalysisFails, Skip, TypedParts
<1>7. ASSUME Mark PROVE TypedParts'
  BY <1>7 DEF Mark, TypedParts
<1>8. ASSUME MarkFails PROVE TypedParts'
  <2>1. mishaps' \in [Mails -> Nat]
    BY <1>8, <1>0, CountsType DEF MarkFails, Mishap
  <2> QED
    BY <1>8, <1>f, <2>1 DEF MarkFails, TypedParts
<1>9. ASSUME Crash PROVE TypedParts'
  <2>1. mishaps' \in [Mails -> Nat] /\ running' \in [Mails -> Nat]
    BY <1>9, <1>0, CountsType DEF Crash, Mishap, TypedParts
  <2> QED
    BY <1>9, <1>f, <2>1 DEF Crash, TypedParts
<1>10. ASSUME Start PROVE TypedParts'
  BY <1>10 DEF Start, TypedParts
<1>11. ASSUME NEW m \in Mails, LateEnd(m) PROVE TypedParts'
  <2>1. analyses' \in [Mails -> Nat] /\ running' \in [Mails -> Nat]
    BY <1>11, CountsType DEF LateEnd, TypedParts
  <2> QED
    BY <1>11, <2>1 DEF LateEnd, TypedParts
<1>12. ASSUME NEW m \in Mails, Arrive(m) PROVE TypedParts'
  BY <1>12 DEF Arrive, TypedParts
<1>13. ASSUME Tick PROVE TypedParts'
  BY <1>13, IngestionAssumption DEF Tick, TypedParts
<1>14. ASSUME UNCHANGED vars PROVE TypedParts'
  BY <1>14 DEF vars, TypedParts
<1> QED
  BY <1>1, <1>2, <1>3, <1>4, <1>5, <1>6, <1>7, <1>8, <1>9, <1>10, <1>11, <1>12, <1>13, <1>14
  DEF Next, Poller, BoundsReached

LEMMA PartsHold == Spec => []TypedParts
BY InitType, NextType, PTL DEF Spec

\* Every reachable state of the poller and of what it works on is well typed:
\* it treats one mail at a time, and never one that is also in its batch.
THEOREM TypeCorrect == Spec => []TypeOK
<1>1. TypedParts => TypeOK
  BY PartsAreType
<1> QED
  BY <1>1, PartsHold, PTL

-----------------------------------------------------------------------------
(***************************************************************************)
(* What a label says                                                       *)
(***************************************************************************)

\* A mail is labelled only from pc = "marking", which it reaches with a row.
LabelInv ==
    /\ LabelledIsAnalyzed
    /\ pc = "marking" => \A m \in current : analyses[m] > 0

\* Rows are never taken away.
LEMMA RowsStay ==
    ASSUME TypedParts, [Next]_vars, NEW m \in Mails
    PROVE  analyses'[m] >= analyses[m]
<1>0. \A n \in Mails : [analyses EXCEPT ![n] = @ + 1][m] >= analyses[m]
  BY DEF TypedParts
<1>1. \/ analyses' = analyses
      \/ \E n \in Mails : analyses' = [analyses EXCEPT ![n] = @ + 1]
  BY DEF Next, Poller, BoundsReached, vars, TypedParts, Fetch, FetchFails, Post, PollEnds, Analyzed,
         AnalysisFails, Mark, MarkFails, Crash, Start, LateEnd, Arrive, Tick
<1>2. CASE analyses' = analyses
  <2>1. analyses[m] \in Nat
    BY DEF TypedParts
  <2> QED
    BY <1>2, <2>1
<1>3. ASSUME NEW n \in Mails, analyses' = [analyses EXCEPT ![n] = @ + 1]
      PROVE  analyses'[m] >= analyses[m]
  BY <1>0, <1>3
<1> QED
  BY <1>1, <1>2, <1>3

LEMMA NextLabel == TypedParts /\ LabelInv /\ [Next]_vars => LabelInv'
<1> SUFFICES ASSUME TypedParts, LabelInv, [Next]_vars PROVE LabelInv'
  OBVIOUS
<1>0. \A m \in Mails : analyses[m] > 0 => analyses'[m] > 0
  BY RowsStay, NextType DEF TypedParts
<1>t. labelled \subseteq Mails /\ current \subseteq Mails
  BY DEF TypedParts
<1>1. labelled' \subseteq labelled \cup (IF pc = "marking" THEN current ELSE {})
  BY DEF Next, Poller, BoundsReached, vars, Fetch, FetchFails, Post, PollEnds, Analyzed,
         AnalysisFails, Mark, MarkFails, Crash, Start, LateEnd, Arrive, Tick
<1>2. LabelledIsAnalyzed'
  BY <1>0, <1>1, <1>t DEF LabelInv, LabelledIsAnalyzed
<1>3. pc' = "marking" => (Analyzed \/ (pc = "marking" /\ current' = current))
  BY DEF Next, Poller, BoundsReached, vars, Fetch, FetchFails, Post, PollEnds,
         AnalysisFails, Skip, Mark, MarkFails, Crash, Start, LateEnd, Arrive, Tick
<1>4. ASSUME Analyzed, NEW m \in current' PROVE analyses'[m] > 0
  <2>1. PICK n \in current : analyses' = [analyses EXCEPT ![n] = @ + 1]
    BY <1>4 DEF Analyzed
  <2>2. current' = current /\ current = {n}
    BY <1>4, <2>1 DEF Analyzed, TypedParts
  <2> QED
    BY <2>1, <2>2, <1>t, <1>4 DEF TypedParts
<1> QED
  BY <1>0, <1>2, <1>3, <1>4, <1>t DEF LabelInv

\* What the search never shows again has a row in the audit table
\* (poll_once of EmailIngestionService: mark_processed comes after analyze).
THEOREM LabelsHold == Spec => []LabelledIsAnalyzed
<1>1. Init => LabelInv
  BY DEF Init, LabelInv, LabelledIsAnalyzed
<1>2. LabelInv => LabelledIsAnalyzed
  BY DEF LabelInv
<1> QED
  BY <1>1, <1>2, NextLabel, PartsHold, PTL DEF Spec

-----------------------------------------------------------------------------
(***************************************************************************)
(* What a repetition costs                                                 *)
(***************************************************************************)

\* An attempt at m has succeeded, as far as the poller knows.
Succeeded(m) == m \in labelled \/ (pc = "marking" /\ m \in current)

\* The attempt that succeeded is the only one without a mishap; what is in the
\* batch or current has no label.
CauseInv ==
    /\ labelled \cap (batch \cup current) = {}
    /\ \A m \in Mails :
            analyses[m] + running[m] <= mishaps[m] + (IF Succeeded(m) THEN 1 ELSE 0)

\* A mail whose rows, requests and mishaps are left alone.
Untouched(m) ==
    /\ analyses'[m] + running'[m] <= analyses[m] + running[m]
    /\ mishaps'[m] = mishaps[m]
    /\ Succeeded(m) => Succeeded(m)'

\* An attempt at m goes wrong: it leaves one row or request at most, or m had
\* succeeded before.
GoneWrong(m) ==
    /\ mishaps'[m] = mishaps[m] + 1
    /\ analyses'[m] + running'[m] <=
            analyses[m] + running[m] + (IF Succeeded(m) THEN 0 ELSE 1)

LEMMA CauseKept ==
    ASSUME TypedParts, TypedParts', CauseInv, NEW m \in Mails,
           \/ Untouched(m)
           \/ GoneWrong(m)
           \/ /\ analyses'[m] + running'[m] = analyses[m] + running[m] + 1
              /\ mishaps'[m] = mishaps[m]
              /\ ~Succeeded(m)
              /\ Succeeded(m)'
    PROVE  analyses'[m] + running'[m] <= mishaps'[m] + (IF Succeeded(m)' THEN 1 ELSE 0)
<1>1. /\ analyses[m] \in Nat /\ running[m] \in Nat /\ mishaps[m] \in Nat
      /\ analyses'[m] \in Nat /\ running'[m] \in Nat /\ mishaps'[m] \in Nat
  BY DEF TypedParts
<1>2. analyses[m] + running[m] <= mishaps[m] + (IF Succeeded(m) THEN 1 ELSE 0)
  BY DEF CauseInv
<1>3. CASE Untouched(m)
  BY <1>1, <1>2, <1>3 DEF Untouched
<1>4. CASE GoneWrong(m)
  BY <1>1, <1>2, <1>4 DEF GoneWrong
<1>5. CASE /\ analyses'[m] + running'[m] = analyses[m] + running[m] + 1
           /\ mishaps'[m] = mishaps[m]
           /\ ~Succeeded(m)
           /\ Succeeded(m)'
  BY <1>1, <1>2, <1>5
<1> QED
  BY <1>3, <1>4, <1>5

LEMMA NextDisjoint ==
    TypedParts /\ CauseInv /\ [Next]_vars => (labelled \cap (batch \cup current) = {})'
<1> SUFFICES ASSUME TypedParts, CauseInv, [Next]_vars
             PROVE  (labelled \cap (batch \cup current) = {})'
  OBVIOUS
<1>1. CASE Fetch
  BY <1>1 DEF Fetch, Found, Matches, CauseInv
<1>2. CASE FetchFails
  BY <1>2 DEF FetchFails, Found, Matches, CauseInv
<1>3. CASE Mark
  BY <1>3 DEF Mark, CauseInv, TypedParts
<1>4. CASE MarkFails
  BY <1>4 DEF MarkFails
<1>5. CASE Post \/ PollEnds \/ Analyzed \/ AnalysisFails \/ Crash \/ Start
  BY <1>5 DEF Post, PollEnds, Analyzed, AnalysisFails, Skip, Crash, Start, CauseInv
<1>6. CASE (\E m \in Mails : LateEnd(m) \/ Arrive(m)) \/ Tick \/ UNCHANGED vars
  BY <1>6 DEF LateEnd, Arrive, Tick, vars, CauseInv
<1> QED
  BY <1>1, <1>2, <1>3, <1>4, <1>5, <1>6 DEF Next, Poller, BoundsReached

\* What the steps that end an attempt do to a mail m.
LEMMA AnalyzedCase ==
    ASSUME TypedParts, CauseInv, Analyzed, NEW m \in Mails
    PROVE  \/ Untouched(m)
           \/ /\ analyses'[m] + running'[m] = analyses[m] + running[m] + 1
              /\ mishaps'[m] = mishaps[m]
              /\ ~Succeeded(m)
              /\ Succeeded(m)'
<1>1. PICK n \in current : analyses' = [analyses EXCEPT ![n] = @ + 1]
  BY DEF Analyzed
<1>2. current = {n} /\ n \in Mails
  BY <1>1 DEF Analyzed, TypedParts
<1>3. /\ running' = running /\ mishaps' = mishaps /\ labelled' = labelled
      /\ current' = current /\ pc = "analyzing" /\ pc' = "marking"
  BY DEF Analyzed
<1>t. analyses[m] \in Nat /\ running[m] \in Nat /\ m \in DOMAIN analyses
  BY DEF TypedParts
<1>4. CASE m = n
  <2>1. analyses'[m] = analyses[m] + 1
    BY <1>1, <1>4, <1>t
  <2>2. ~Succeeded(m) /\ Succeeded(m)'
    BY <1>2, <1>3, <1>4 DEF Succeeded, CauseInv
  <2> QED
    BY <2>1, <2>2, <1>3, <1>t
<1>5. CASE m # n
  <2>1. analyses'[m] = analyses[m]
    BY <1>1, <1>5, <1>t
  <2>2. Succeeded(m) => Succeeded(m)'
    BY <1>3 DEF Succeeded
  <2> QED
    BY <2>1, <2>2, <1>3, <1>t DEF Untouched
<1> QED
  BY <1>4, <1>5

LEMMA AnalysisFailsCase ==
    ASSUME TypedParts, CauseInv, AnalysisFails, NEW m \in Mails
    PROVE  Untouched(m) \/ GoneWrong(m)
<1>1. PICK n \in current :
        /\ Mishap(n)
        /\ \/ analyses' = analyses /\ running' = running
           \/ analyses' = [analyses EXCEPT ![n] = @ + 1] /\ running' = running
           \/ analyses' = analyses /\ running' = [running EXCEPT ![n] = @ + 1]
  BY DEF AnalysisFails
<1>2. current = {n} /\ n \in Mails
  BY <1>1 DEF AnalysisFails, TypedParts
<1>3. labelled' = labelled /\ pc = "analyzing"
  BY DEF AnalysisFails
<1>t. /\ analyses[m] \in Nat /\ running[m] \in Nat /\ mishaps[m] \in Nat
      /\ m \in DOMAIN analyses /\ m \in DOMAIN running /\ m \in DOMAIN mishaps
  BY DEF TypedParts
<1>4. CASE m = n
  <2>1. mishaps'[m] = mishaps[m] + 1
    BY <1>1, <1>4, <1>t DEF Mishap
  <2>2. ~Succeeded(m)
    BY <1>2, <1>3, <1>4 DEF Succeeded, CauseInv
  <2>3. analyses'[m] + running'[m] <= analyses[m] + running[m] + 1
    BY <1>1, <1>4, <1>t
  <2> QED
    BY <2>1, <2>2, <2>3 DEF GoneWrong
<1>5. CASE m # n
  <2>1. analyses'[m] = analyses[m] /\ running'[m] = running[m] /\ mishaps'[m] = mishaps[m]
    BY <1>1, <1>5, <1>t DEF Mishap
  <2>2. Succeeded(m) => Succeeded(m)'
    BY <1>3 DEF Succeeded
  <2> QED
    BY <2>1, <2>2, <1>t DEF Untouched
<1> QED
  BY <1>4, <1>5

LEMMA MarkFailsCase ==
    ASSUME TypedParts, MarkFails, NEW m \in Mails
    PROVE  Untouched(m) \/ GoneWrong(m)
<1>1. PICK n \in current : Mishap(n)
  BY DEF MarkFails
<1>2. current = {n}
  BY <1>1 DEF MarkFails, TypedParts
<1>3. analyses' = analyses /\ running' = running /\ labelled \subseteq labelled' /\ pc = "marking"
  BY DEF MarkFails
<1>t. /\ analyses[m] \in Nat /\ running[m] \in Nat /\ mishaps[m] \in Nat /\ m \in DOMAIN mishaps
  BY DEF TypedParts
<1>4. CASE m = n
  <2>1. mishaps'[m] = mishaps[m] + 1 /\ Succeeded(m)
    BY <1>1, <1>3, <1>4, <1>t DEF Mishap, Succeeded
  <2> QED
    BY <2>1, <1>3, <1>t DEF GoneWrong
<1>5. CASE m # n
  <2>1. mishaps'[m] = mishaps[m]
    BY <1>1, <1>5, <1>t DEF Mishap
  <2>2. Succeeded(m) => Succeeded(m)'
    BY <1>2, <1>3, <1>5 DEF Succeeded
  <2> QED
    BY <2>1, <2>2, <1>3, <1>t DEF Untouched
<1> QED
  BY <1>4, <1>5

LEMMA CrashCase ==
    ASSUME TypedParts, CauseInv, Crash, NEW m \in Mails
    PROVE  Untouched(m) \/ GoneWrong(m)
<1>3. analyses' = analyses /\ labelled' = labelled
  BY DEF Crash
<1>t. /\ analyses[m] \in Nat /\ running[m] \in Nat /\ mishaps[m] \in Nat
      /\ m \in DOMAIN running /\ m \in DOMAIN mishaps
  BY DEF TypedParts
<1>1. CASE current = {} /\ running' = running /\ mishaps' = mishaps
  <2>1. Succeeded(m) => Succeeded(m)'
    BY <1>1, <1>3 DEF Succeeded
  <2> QED
    BY <1>1, <1>3, <1>t, <2>1 DEF Untouched
<1>2. CASE \E n \in current :
             /\ Mishap(n)
             /\ running' = [running EXCEPT ![n] = @ + (IF pc = "analyzing" THEN 1 ELSE 0)]
  <2>1. PICK n \in current :
             /\ Mishap(n)
             /\ running' = [running EXCEPT ![n] = @ + (IF pc = "analyzing" THEN 1 ELSE 0)]
    BY <1>2
  <2>2. current = {n} /\ pc \in {"analyzing", "marking"}
    BY <2>1 DEF TypedParts
  <2>4. CASE m = n
    <3>1. mishaps'[m] = mishaps[m] + 1
      BY <2>1, <2>4, <1>t DEF Mishap
    <3>2. CASE pc = "analyzing"
      <4>1. ~Succeeded(m)
        BY <2>2, <3>2, <2>4 DEF Succeeded, CauseInv
      <4>2. running'[m] = running[m] + 1
        BY <2>1, <2>4, <3>2, <1>t
      <4> QED
        BY <3>1, <4>1, <4>2, <1>3, <1>t DEF GoneWrong
    <3>3. CASE pc = "marking"
      <4>1. Succeeded(m)
        BY <2>2, <3>3, <2>4 DEF Succeeded
      <4>2. running'[m] = running[m]
        BY <2>1, <2>4, <3>3, <1>t
      <4> QED
        BY <3>1, <4>1, <4>2, <1>3, <1>t DEF GoneWrong
    <3> QED
      BY <2>2, <3>2, <3>3
  <2>5. CASE m # n
    <3>1. mishaps'[m] = mishaps[m] /\ running'[m] = running[m]
      BY <2>1, <2>5, <1>t DEF Mishap
    <3>2. Succeeded(m) => Succeeded(m)'
      BY <2>2, <1>3, <2>5 DEF Succeeded
    <3> QED
      BY <3>1, <3>2, <1>3, <1>t DEF Untouched
  <2> QED
    BY <2>4, <2>5
<1> QED
  BY <1>1, <1>2 DEF Crash

LEMMA LateEndCase ==
    ASSUME TypedParts, NEW n \in Mails, LateEnd(n), NEW m \in Mails
    PROVE  Untouched(m)
<1>t. /\ analyses[m] \in Nat /\ running[m] \in Nat
      /\ m \in DOMAIN running /\ m \in DOMAIN analyses
  BY DEF TypedParts
<1>1. /\ running' = [running EXCEPT ![n] = @ - 1]
      /\ analyses' \in {analyses, [analyses EXCEPT ![n] = @ + 1]}
      /\ mishaps' = mishaps
  BY DEF LateEnd
<1>2. Succeeded(m) => Succeeded(m)'
  BY DEF LateEnd, Succeeded
<1>3. analyses'[m] + running'[m] <= analyses[m] + running[m]
  BY <1>1, <1>t
<1> QED
  BY <1>1, <1>2, <1>3 DEF Untouched

LEMMA NextCause == TypedParts /\ CauseInv /\ [Next]_vars => CauseInv'
<1> SUFFICES ASSUME TypedParts, CauseInv, [Next]_vars PROVE CauseInv'
  OBVIOUS
<1>0. TypedParts' /\ (labelled \cap (batch \cup current) = {})'
  BY NextType, NextDisjoint
<1>1. ASSUME NEW m \in Mails
      PROVE  analyses'[m] + running'[m] <= mishaps'[m] + (IF Succeeded(m)' THEN 1 ELSE 0)
  <2>t. analyses[m] \in Nat /\ running[m] \in Nat
    BY DEF TypedParts
  <2>1. CASE Analyzed
    BY <2>1, <1>0, AnalyzedCase, CauseKept
  <2>2. CASE AnalysisFails
    BY <2>2, <1>0, AnalysisFailsCase, CauseKept
  <2>3. CASE MarkFails
    BY <2>3, <1>0, MarkFailsCase, CauseKept
  <2>4. CASE Crash
    BY <2>4, <1>0, CrashCase, CauseKept
  <2>5. CASE \E n \in Mails : LateEnd(n)
    BY <2>5, <1>0, LateEndCase, CauseKept
  <2>6. CASE \/ Fetch \/ FetchFails \/ Post \/ PollEnds \/ Mark \/ Start \/ Tick
             \/ (\E n \in Mails : Arrive(n)) \/ UNCHANGED vars
    <3>1. analyses' = analyses /\ running' = running /\ mishaps' = mishaps
      BY <2>6 DEF Fetch, FetchFails, Post, PollEnds, Mark, Start, Tick, Arrive, vars
    <3>2. Succeeded(m) => Succeeded(m)'
      BY <2>6 DEF Fetch, FetchFails, Post, PollEnds, Mark, Start, Tick, Arrive, vars, Succeeded
    <3>3. Untouched(m)
      BY <3>1, <3>2, <2>t DEF Untouched
    <3> QED
      BY <3>3, <1>0, CauseKept
  <2> QED
    BY <2>1, <2>2, <2>3, <2>4, <2>5, <2>6 DEF Next, Poller, BoundsReached
<1> QED
  BY <1>0, <1>1 DEF CauseInv, Succeeded

\* A mail has at most one analysis more than attempts at it that failed or
\* seemed to: neither polling nor the page that is searched again repeats one
\* (poll_once and fetch_new_emails).
THEOREM RepetitionsAreCaused == Spec => []RepetitionsAreBounded
<1>1. Init => CauseInv
  BY DEF Init, CauseInv, Succeeded
<1>2. TypedParts /\ CauseInv => RepetitionsAreBounded
  <2> SUFFICES ASSUME TypedParts, CauseInv, NEW m \in Mails
               PROVE  analyses[m] + running[m] <= 1 + mishaps[m]
    BY DEF RepetitionsAreBounded
  <2>1. analyses[m] \in Nat /\ running[m] \in Nat /\ mishaps[m] \in Nat
    BY DEF TypedParts
  <2>2. analyses[m] + running[m] <= mishaps[m] + (IF Succeeded(m) THEN 1 ELSE 0)
    BY DEF CauseInv
  <2> QED
    BY <2>1, <2>2
<1> QED
  BY <1>1, <1>2, NextCause, PartsHold, PTL DEF Spec
=============================================================================
