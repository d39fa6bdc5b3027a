----------------------- MODULE MCIdentityVerification -----------------------
(***************************************************************************)
(* Model values and small instances for checking IdentityVerification.     *)
(***************************************************************************)
EXTENDS IdentityVerification

CONSTANTS t1, t2, call1, ip1, ip2, api, code1, bank, demo

TwoThreads == {t1, t2}
ProcessEach == [t \in TwoThreads |-> t]
OneCall == {call1}
TwoClients == {ip1, ip2}
OneCode == {code1}
MCAnswers == WorkerReasons
MCIssuers == {bank}
Seeded == {demo}
MCDemoIssuer == [c \in Seeded |-> bank]
ApiTrusted == {api}
=============================================================================
