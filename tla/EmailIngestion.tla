--------------------------- MODULE EmailIngestion ---------------------------
(***************************************************************************)
(* scripts/poll_gmail_inbox.py: one process polls a Gmail inbox, posts     *)
(* each new mail to apps/api for an analysis and then adds a label to it.  *)
(* The label is the only state that survives the process.                  *)
(*                                                                         *)
(* apps/api appears as module CallAnalysis describes it to a client: an    *)
(* answer means a row in the audit table; an error or a timeout tells      *)
(* nothing, for the row may be there already or come later.                *)
(***************************************************************************)
EXTENDS Integers, FiniteSets

CONSTANTS
    Mails,      \* mails that may reach the inbox
    Lookback,   \* newer_than:1d, in ticks
    PageSize,   \* mails in one answer of messages.list
    MaxFaults,  \* bound: crashes, failed calls and lost answers
    MaxTime     \* bound: the clock stops here

ASSUME IngestionAssumption ==
    /\ IsFiniteSet(Mails)
    /\ Lookback \in Nat \ {0}
    /\ PageSize \in Nat \ {0}
    /\ MaxFaults \in Nat
    /\ MaxTime \in Nat

VARIABLES
    now,        \* the clock of Gmail
    arrived,    \* internalDate of the mails in the inbox
    labelled,   \* mails with the label VPS-Detector-Processed
    pc,         \* what the poller does next
    batch,      \* fetched mails that poll_once has still to treat
    current,    \* the mail it is treating, if any
    running,    \* per mail, requests in apps/api whose client has gone
    analyses,   \* per mail, its rows in the audit table
    faults,     \* bound: faults so far
    mishaps     \* history: attempts per mail that failed, or seemed to

vars == <<now, arrived, labelled, pc, batch, current, running, analyses, faults, mishaps>>

TypeOK ==
    /\ now \in 0..MaxTime
    /\ DOMAIN arrived \subseteq Mails
    /\ \A m \in DOMAIN arrived : arrived[m] \in 0..now
    /\ labelled \subseteq DOMAIN arrived
    /\ pc \in {"stopped", "idle", "next", "analyzing", "marking"}
    /\ batch \subseteq DOMAIN arrived
    /\ current \subseteq DOMAIN arrived \ batch
    /\ Cardinality(current) = (IF pc \in {"analyzing", "marking"} THEN 1 ELSE 0)
    /\ running \in [Mails -> Nat]
    /\ analyses \in [Mails -> Nat]
    /\ faults \in 0..MaxFaults
    /\ mishaps \in [Mails -> Nat]

Init ==
    /\ now = 0
    /\ arrived = << >>
    /\ labelled = {}
    /\ pc = "stopped"
    /\ batch = {}
    /\ current = {}
    /\ running = [m \in Mails |-> 0]
    /\ analyses = [m \in Mails |-> 0]
    /\ faults = 0
    /\ mishaps = [m \in Mails |-> 0]

Fault ==
    /\ faults < MaxFaults
    /\ faults' = faults + 1

\* The attempt at m is noted as a failed one.
Mishap(m) == mishaps' = [mishaps EXCEPT ![m] = @ + 1]

-----------------------------------------------------------------------------
\* GmailEmailSourceAdapter.fetch_new_emails

\* Mutant: a mail is looked for only in the tick in which it came.
OnlyToday(m) == m \notin labelled /\ arrived[m] = now

\* -label:VPS-Detector-Processed newer_than:1d
Matches(m) ==
    /\ m \notin labelled
    /\ now - arrived[m] < Lookback

Found == {m \in DOMAIN arrived : Matches(m)}

\* messages.list answers the newest mails, one page of them; the page token
\* for more is not used.
Page(mails) ==
    /\ mails \subseteq Found
    /\ Cardinality(mails) <= PageSize
    /\ mails # Found => Cardinality(mails) = PageSize
    /\ \A m \in mails, n \in Found \ mails : arrived[n] <= arrived[m]

\* A poll that finds nothing changes nothing and is left out.
Fetch ==
    /\ pc = "idle"
    /\ \E page \in SUBSET Found :
          /\ Page(page)
          /\ page # {}
          /\ batch' = page
    /\ pc' = "next"
    /\ UNCHANGED <<now, arrived, labelled, current, running, analyses, faults, mishaps>>

\* A mail of the page that cannot be read is left out of the batch; so are
\* all if the query itself fails.
FetchFails ==
    /\ pc = "idle"
    /\ Fault
    /\ \E page \in SUBSET Found :
          /\ Page(page)
          /\ \E read \in SUBSET page : batch' = read
    /\ pc' = "next"
    /\ UNCHANGED <<now, arrived, labelled, current, running, analyses, mishaps>>

-----------------------------------------------------------------------------
\* EmailIngestionService.poll_once

\* The next mail of the batch, the newest first, is posted to apps/api.
Post ==
    /\ pc = "next"
    /\ \E m \in batch :
          /\ \A n \in batch : arrived[n] <= arrived[m]
          /\ current' = {m}
          /\ batch' = batch \ {m}
    /\ pc' = "analyzing"
    /\ UNCHANGED <<now, arrived, labelled, running, analyses, faults, mishaps>>

\* The batch is done; poll_once returns.
PollEnds ==
    /\ pc = "next"
    /\ batch = {}
    /\ pc' = "idle"
    /\ UNCHANGED <<now, arrived, labelled, batch, current, running, analyses, faults, mishaps>>

\* The mail's row has been added and the answer is there.
Analyzed ==
    /\ pc = "analyzing"
    /\ \E m \in current : analyses' = [analyses EXCEPT ![m] = @ + 1]
    /\ pc' = "marking"
    /\ UNCHANGED <<now, arrived, labelled, batch, current, running, faults, mishaps>>

\* Mutant: a mail whose analysis failed is marked as well.
MarksAnyway == pc' = "marking" /\ current' = current

\* Mutant: the mail stays the current one.
KeepsCurrent == pc' = "next" /\ current' = current

\* `continue': the mail is skipped, without a label.
Skip == pc' = "next" /\ current' = {}

\* analyze raises: an error without a row, an error with a row, or a
\* timeout, after which apps/api goes on with the request.
AnalysisFails ==
    /\ pc = "analyzing"
    /\ Fault
    /\ \E m \in current :
          /\ Mishap(m)
          /\ \/ UNCHANGED <<analyses, running>>
             \/ /\ analyses' = [analyses EXCEPT ![m] = @ + 1]
                /\ UNCHANGED running
             \/ /\ running' = [running EXCEPT ![m] = @ + 1]
                /\ UNCHANGED analyses
    /\ Skip
    /\ UNCHANGED <<now, arrived, labelled, batch>>

\* mark_processed
Mark ==
    /\ pc = "marking"
    /\ labelled' = labelled \cup current
    /\ current' = {}
    /\ pc' = "next"
    /\ UNCHANGED <<now, arrived, batch, running, analyses, faults, mishaps>>

\* The exception of mark_processed leaves poll_once and ends the process;
\* the label may be there all the same.
MarkFails ==
    /\ pc = "marking"
    /\ Fault
    /\ \E m \in current : Mishap(m)
    /\ labelled' \in {labelled, labelled \cup current}
    /\ current' = {}
    /\ batch' = {}
    /\ pc' = "stopped"
    /\ UNCHANGED <<now, arrived, running, analyses>>

\* The process is killed, a request it has posted runs on.
Crash ==
    /\ pc # "stopped"
    /\ Fault
    /\ \/ /\ current = {}
          /\ UNCHANGED <<running, mishaps>>
       \/ \E m \in current :
             /\ Mishap(m)
             /\ running' = [running EXCEPT ![m] = @ + (IF pc = "analyzing" THEN 1 ELSE 0)]
    /\ current' = {}
    /\ batch' = {}
    /\ pc' = "stopped"
    /\ UNCHANGED <<now, arrived, labelled, analyses>>

\* main(): a start, by hand or by a scheduler.
Start ==
    /\ pc = "stopped"
    /\ pc' = "idle"
    /\ UNCHANGED <<now, arrived, labelled, batch, current, running, analyses, faults, mishaps>>

-----------------------------------------------------------------------------
\* The environment.

\* A request whose client has gone ends, with a row or without.
LateEnd(m) ==
    /\ running[m] > 0
    /\ running' = [running EXCEPT ![m] = @ - 1]
    /\ analyses' \in {analyses, [analyses EXCEPT ![m] = @ + 1]}
    /\ UNCHANGED <<now, arrived, labelled, pc, batch, current, faults, mishaps>>

Arrive(m) ==
    /\ m \notin DOMAIN arrived
    /\ arrived' = [n \in DOMAIN arrived \cup {m} |-> IF n = m THEN now ELSE arrived[n]]
    /\ UNCHANGED <<now, labelled, pc, batch, current, running, analyses, faults, mishaps>>

Tick ==
    /\ now < MaxTime
    /\ now' = now + 1
    /\ UNCHANGED <<arrived, labelled, pc, batch, current, running, analyses, faults, mishaps>>

\* No mail is to come or to be found, and the clock stands still.
BoundsReached ==
    /\ now = MaxTime
    /\ DOMAIN arrived = Mails
    /\ pc = "idle"
    /\ Found = {}
    /\ UNCHANGED vars

Poller == Start \/ Fetch \/ Post \/ PollEnds \/ Analyzed \/ Mark

Next ==
    \/ Poller
    \/ FetchFails \/ AnalysisFails \/ MarkFails \/ Crash
    \/ \E m \in Mails : LateEnd(m) \/ Arrive(m)
    \/ Tick
    \/ BoundsReached

Spec == Init /\ [][Next]_vars

\* The loop of the script goes on polling, is started again when it has
\* ended, and its calls return or raise (timeouts of 60 seconds).
FairSpec == Spec /\ WF_vars(Poller)

-----------------------------------------------------------------------------
\* Properties.

\* No mail is marked as processed without a row in the audit table: what is
\* never searched again has been analyzed.
LabelledIsAnalyzed == \A m \in labelled : analyses[m] > 0

\* What gmail_email_source_adapter.py:9-11 says of a restart: the label alone
\* makes it safe, nothing is treated twice. A poller that starts would find no
\* mail that has its row in the audit table already. The code adds the label
\* after the analysis (services.py:439-445), so a crash, or an error of
\* mark_processed, between the two leaves such a mail.
RestartRepeatsNothing ==
    [][Start => \A m \in Found : analyses[m] = 0]_vars

\* What holds instead: a mail is analyzed at most once more for each attempt
\* at it that failed, or seemed to. Polling as such repeats nothing.
RepetitionsAreBounded ==
    \A m \in Mails : analyses[m] + running[m] <= 1 + mishaps[m]

\* A mail is analyzed in the end, unless it gets older than the search goes
\* back: no failure makes the poller give up on it, however often it ends.
EveryMailIsAnalyzed ==
    \A m \in Mails :
        m \in DOMAIN arrived ~>
            \/ analyses[m] > 0
            \/ m \in DOMAIN arrived /\ now - arrived[m] >= Lookback
=============================================================================
