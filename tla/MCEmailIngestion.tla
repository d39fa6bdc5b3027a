-------------------------- MODULE MCEmailIngestion --------------------------
(***************************************************************************)
(* Model values and small instances for checking EmailIngestion.           *)
(***************************************************************************)
EXTENDS EmailIngestion, TLC

CONSTANTS m1, m2

TwoMails == {m1, m2}

MailSymmetry == Permutations(Mails)
=============================================================================
