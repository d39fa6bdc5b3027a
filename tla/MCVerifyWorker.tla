--------------------------- MODULE MCVerifyWorker ---------------------------
(***************************************************************************)
(* Model values and small instances for checking VerifyWorker.             *)
(***************************************************************************)
EXTENDS VerifyWorker

CONSTANTS bank, demo, hired, code1, code2, ip1, ip2

MCIssuers == {bank}
MCCredentials == {demo, hired}
MCDemoCredentials == {demo}
MCDemoIssuer == [c \in MCDemoCredentials |-> bank]
MCCodes == {code1, code2}
MCClients == {ip1, ip2}
OneClient == {ip1}
OneCode == {code1}
=============================================================================
