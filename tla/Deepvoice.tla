----------------------------- MODULE Deepvoice -----------------------------
(***************************************************************************)
(* Is this the voice of a person?  The two detectors of apps/api, acoustic *)
(* indicators (v1) and a classifier that falls back to them (v2), and the  *)
(* form of the dashboard that uploads a recording to them.                 *)
(*                                                                         *)
(* Of a recording there remain how it can be read, how much of it is       *)
(* voiced, the indicators that trigger on it and what the classifier does  *)
(* with it.  The thresholds of the indicators are left out.                *)
(***************************************************************************)
EXTENDS Integers, FiniteSets

CONSTANTS
    Recordings,     \* the files that the user may choose
    FormApis,       \* the replicas of apps/api
    MaxChoices      \* bound: how often the user chooses a file

Indicators == {"pitch_stability", "spectral_uniformity", "pause_regularity"}

Recording == [wav : {"pcm16", "other", "cut"}, voiced : {"empty", "no_frame", "few", "enough"},
              triggered : SUBSET Indicators, label : {"synthetic", "authentic", "raises"}]

ASSUME DeepvoiceAssumption ==
    /\ Recordings \subseteq Recording
    /\ FormApis # {}
    /\ MaxChoices \in Nat

VARIABLE
    form    \* what the form shows and what it waits for

-----------------------------------------------------------------------------
\* The detectors

Verdict == [status : {"ok", "unsupported", "crash"}, synthetic : {"yes", "no", "undecided"},
            shown : SUBSET (Indicators \cup {"classifier"}), triggered : SUBSET Indicators]

Rejected(status) == [status |-> status, synthetic |-> "undecided", shown |-> {}, triggered |-> {}]

Undecided(shown, triggered) ==
    [status |-> "ok", synthetic |-> "undecided", shown |-> shown, triggered |-> triggered]

\* _read_wav: another format is a ValueError, which the handler answers
\* with 422; the end of the file within a chunk is an EOFError, which it
\* does not catch.
ReadError(recording) == IF recording.wav = "other" THEN "unsupported" ELSE "crash"

\* HeuristicDeepvoiceAdapter.analyze
Heuristic(recording) ==
    CASE recording.wav # "pcm16" -> Rejected(ReadError(recording))
      [] recording.wav = "pcm16" /\ recording.voiced \in {"empty", "no_frame"} -> Undecided({}, {})
      [] recording.wav = "pcm16" /\ recording.voiced = "few" ->
            Undecided(Indicators, recording.triggered)
      [] recording.wav = "pcm16" /\ recording.voiced = "enough" ->
            [status |-> "ok", shown |-> Indicators, triggered |-> recording.triggered,
             synthetic |-> CASE Cardinality(recording.triggered) >= 2 -> "yes"
                             [] Cardinality(recording.triggered) = 1 -> "undecided"
                             [] OTHER -> "no"]

\* Wav2Vec2DeepvoiceAdapter.analyze beyond the label of the model: the
\* indicators of v1 are shown beside it.
Classified(recording) ==
    [status |-> "ok", synthetic |-> IF recording.label = "synthetic" THEN "yes" ELSE "no",
     shown |-> {"classifier"} \cup Heuristic(recording).shown,
     triggered |-> Heuristic(recording).triggered]

\* Every failure of v2, to read the file included, is left to v1.
WithClassifier(loaded, recording) ==
    CASE ~loaded \/ recording.wav # "pcm16" -> Heuristic(recording)
      [] loaded /\ recording.wav = "pcm16" /\ recording.voiced = "empty" -> Undecided({}, {})
      [] loaded /\ recording.wav = "pcm16" /\ recording.voiced # "empty" ->
            IF recording.label = "raises" THEN Heuristic(recording) ELSE Classified(recording)

\* What may be answered: each process loads the model when it starts, or
\* fails to and does without.
Detected(recording) == {WithClassifier(loaded, recording) : loaded \in BOOLEAN}

-----------------------------------------------------------------------------
\* DeepvoiceCheckForm

NoFile == [wav |-> "none", voiced |-> "empty", triggered |-> {}, label |-> "raises"]
NoVerdict == [status |-> "none", synthetic |-> "undecided", shown |-> {}, triggered |-> {}]

\* `sent' is the file of the check under way or, when none is, of the last
\* one; `replaced' whether the user chose a file while it was under way.
FormType ==
    [file : Recordings \cup {NoFile}, loading : BOOLEAN, verdict : Verdict \cup {NoVerdict},
     sent : Recordings \cup {NoFile}, to : FormApis, choices : 0..MaxChoices, replaced : BOOLEAN]

FormInit ==
    form = [file |-> NoFile, loading |-> FALSE, verdict |-> NoVerdict, sent |-> NoFile,
            to |-> CHOOSE a \in FormApis : TRUE, choices |-> 0, replaced |-> FALSE]

\* Mutant: the verdict of the file before stays.
KeepsVerdict(file) ==
    [form EXCEPT !.file = file, !.choices = @ + 1, !.replaced = form.loading]

\* onChange of the file input, which is not disabled during a check.
WithFile(file) ==
    [form EXCEPT !.file = file, !.choices = @ + 1, !.replaced = form.loading, !.verdict = NoVerdict]

ChooseFile ==
    /\ form.choices < MaxChoices
    /\ \E file \in Recordings : form' = WithFile(file)

\* handleCheck; the button is disabled without a file and during a check.
Check ==
    /\ form.file # NoFile
    /\ ~form.loading
    /\ \E a \in FormApis :
            form' = [form EXCEPT !.loading = TRUE, !.verdict = NoVerdict, !.sent = form.file,
                                 !.to = a, !.replaced = FALSE]

\* POST /api/v1/calls/deepvoice-check and what the form shows of its answer:
\* the verdict or the error.  The handler computes without awaiting, so it
\* needs the process to itself.
Checked(free) ==
    /\ form.loading
    /\ form.to \in free
    /\ \E verdict \in Detected(form.sent) :
            form' = [form EXCEPT !.loading = FALSE, !.verdict = verdict]

-----------------------------------------------------------------------------
(***************************************************************************)
(* The verdict beside the name of a file is the verdict of this file,      *)
(* unless the user replaced the file while its check was under way; and    *)
(* whichever detector is active, the files that are refused are those that *)
(* v1 cannot read, with its status, although v2 answers all of its own     *)
(* failures with the verdict of v1.                                        *)
(***************************************************************************)
VerdictIsOfItsFile ==
    form.verdict # NoVerdict =>
        /\ ~form.replaced => form.verdict \in Detected(form.file)
        /\ form.verdict.status = Heuristic(form.sent).status
        /\ form.verdict.status = "ok" <=> form.sent.wav = "pcm16"
=============================================================================
