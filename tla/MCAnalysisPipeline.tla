------------------------- MODULE MCAnalysisPipeline -------------------------
EXTENDS AnalysisPipeline, TLC

CONSTANTS a1, a2, t1, t2, v1

Says(found, url) ==
    [keywords |-> [c \in Categories |-> IF c \in found THEN 1 ELSE 0], url |-> url]

\* The first text names a URL, the second one is harmless, the recording has
\* the two heaviest categories.
MCTextOf ==
    (t1 :> Says({"authority", "fear"}, TRUE))
        @@ (t2 :> Says({}, FALSE)) @@ (v1 :> Says({"urgent", "remote"}, FALSE))

MCApiOf == (t1 :> a1) @@ (t2 :> a2) @@ (v1 :> a1)

\* A score above 100 and an unknown category; an answer that breaks off; one
\* with a null summary.
MCAnswers ==
    {[outcome |-> "usable", score |-> 130, items |-> <<"fear", Unknown, "remote">>],
     [outcome |-> "caught", score |-> 0, items |-> << >>],
     [outcome |-> "raised", score |-> 80, items |-> <<"fear">>]}

MCRecordings ==
    {[wav |-> "pcm16", voiced |-> "enough", triggered |-> {"pause_regularity"}, label |-> "synthetic"],
     [wav |-> "other", voiced |-> "enough", triggered |-> {}, label |-> "authentic"]}
=============================================================================
