------------------------------ MODULE Analyzer ------------------------------
(***************************************************************************)
(* How mcp-server judges a text: by keyword rules (v1), or by the answer   *)
(* of a language model (v2) whose score and categories it takes over.      *)
(*                                                                         *)
(* A text is, per category, the number of its keywords found in it.  An    *)
(* answer of the model is its score and the category of each of its items. *)
(* Sentences are left out: of a reason there remain the category it is     *)
(* labelled with and the one it argues about.                              *)
(***************************************************************************)
EXTENDS Integers, Sequences, FiniteSetsExt

\* PATTERN_RULES, in its order.
CategoryOrder == <<"authority", "fear", "urgent", "personal", "remote">>
Categories == {CategoryOrder[i] : i \in DOMAIN CategoryOrder}

\* A category that the enumeration does not have.
Unknown == "unknown"

CategoryWeights ==
    [authority |-> 30, fear |-> 30, urgent |-> 35, personal |-> 25, remote |-> 35]

Levels == {"low", "medium", "high"}

RiskLevelForScore(score) ==
    IF score >= 70 THEN "high" ELSE IF score >= 40 THEN "medium" ELSE "low"

Least(a, b) == IF a <= b THEN a ELSE b

Result == [by : {"rules", "model"}, patterns : Seq(Categories), score : 0..100, level : Levels,
           breakdown : SUBSET Categories,
           reasons : Seq([label : Categories, about : Categories \cup {Unknown}])]

\* The items that are in the set, in their order: a loop that passes over the
\* others.  (Written out because the prover does not know SelectSeq.)
Only(items, set) ==
    LET kept[n \in 0..Len(items)] ==
            IF n = 0 THEN << >>
            ELSE IF items[n] \in set THEN Append(kept[n - 1], items[n])
            ELSE kept[n - 1]
    IN  kept[Len(items)]

-----------------------------------------------------------------------------
\* PatternDetectionService, RiskScoringService and ExplanationService

Detect(text) == Only(CategoryOrder, {c \in Categories : text[c] > 0})

Score(detected) == Least(100, MapThenSumSet(LAMBDA c : CategoryWeights[c], detected))

\* ExplanationService.generate: one reason for each pattern, none without any.
ReasonForEach(patterns) ==
    [i \in DOMAIN patterns |-> [label |-> patterns[i], about |-> patterns[i]]]

RuleResult(text) ==
    LET patterns == Detect(text)
        detected == {patterns[i] : i \in DOMAIN patterns}
    IN [by |-> "rules", patterns |-> patterns, score |-> Score(detected),
        level |-> RiskLevelForScore(Score(detected)), breakdown |-> detected,
        reasons |-> ReasonForEach(patterns)]

-----------------------------------------------------------------------------
\* OllamaCallAnalysisAdapter

\* Mutant: the score of the model is taken as it is.
Unclamped(answer) == answer.score

ClampedScore(answer) == IF answer.score < 0 THEN 0 ELSE Least(100, answer.score)

\* zip(items, patterns): the i-th reasoning under the label of the i-th pattern.
Reasons(items, patterns) ==
    [i \in 1..Least(Len(items), Len(patterns)) |-> [label |-> patterns[i], about |-> items[i]]]

\* _to_domain: no breakdown, and an unknown category is left out.
ModelResult(answer) ==
    LET patterns == Only(answer.items, Categories)
        score    == ClampedScore(answer)
    IN [by |-> "model", patterns |-> patterns, score |-> score,
        level |-> RiskLevelForScore(score), breakdown |-> {},
        reasons |-> Reasons(answer.items, patterns)]

-----------------------------------------------------------------------------
HasRiskIndicators(result) == result.patterns # << >>
=============================================================================
