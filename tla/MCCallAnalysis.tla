--------------------------- MODULE MCCallAnalysis ---------------------------
(***************************************************************************)
(* Model values and small instances for checking CallAnalysis.             *)
(***************************************************************************)
EXTENDS CallAnalysis, TLC

CONSTANTS e1, e2, call, sms, email, url, phone, account, p1, p2

TwoEvents == {e1, e2}
OneProcess == {p1}
TwoProcesses == {p1, p2}
AllChannels == {call, sms, email}
OneUrl == {url}
OneNumber == {phone}
TwoNumbers == {phone, account}

Asked(channels, entities, paths) == [channel : channels, entities : entities, via : paths]

\* Calls and mails with a URL and a phone number or nothing, through the two
\* processes of the api; calls with both that are analyzed at mcp-server.
MixedRequests ==
    Asked({call, email}, {{}, {url, phone}}, TwoProcesses)
        \cup Asked({call}, {{url, phone}}, {"mcp"})

UrlRequests == Asked({call, sms}, {{url}}, OneProcess)

Symmetry == Permutations(Events) \cup Permutations(ApiProcesses)
=============================================================================
