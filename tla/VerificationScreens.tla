------------------------ MODULE VerificationScreens ------------------------
(***************************************************************************)
(* The two ends of an identity check as people see them: the page on which *)
(* a member of staff makes a code and reads it out (StaffProofPanel), and  *)
(* the pages on which citizens type it and read the verdict                *)
(* (CitizenVerifyPanel), with the servers in between.                      *)
(*                                                                         *)
(* The worker is the abstract OneTimeProof, which module VerifyWorker is   *)
(* shown to implement; whether a limiter refuses a request is left open,   *)
(* since clients share addresses.  apps/api applies VerificationRules.  A  *)
(* page shows the clock of the worker: skewed clocks are not modelled.     *)
(***************************************************************************)
EXTENDS VerificationRules

CONSTANTS
    Panels,       \* citizens' pages
    CallOf,       \* the call each of them names; "standalone" without a call_id
    Codes,        \* the code space; a code nobody made is a typing mistake
    Staff,        \* the credential of the one member of staff
    Ttl,          \* life time of a proof
    MaxRequests,  \* bound: codes submitted
    MaxFaults,    \* bound: requests that fail
    MaxRestarts,  \* bound: restarts of the worker
    MaxTime       \* bound: the clock stops here

ASSUME ScreensAssumption ==
    /\ DOMAIN CallOf = Panels
    /\ Ttl \in Nat \ {0}
    /\ {MaxRequests, MaxFaults, MaxRestarts, MaxTime} \subseteq Nat

VARIABLES
    now, live, spent, withdrawn,   \* the worker (module OneTimeProof)
    restarts,     \* how often the worker has lost its memory
    asking,       \* the staff page waits for a proof
    made,         \* the answer under way, at most one proof
    shown,        \* the proof on the staff page, at most one
    screen,       \* what each citizen's page shows, and the request it is about
    requests,     \* submitted codes, in the order of the clicks
    log,          \* InMemoryCallVerificationLog: records per call
    alerts,       \* MockGuardianNotifier: alerts per call
    faults        \* bound: failed requests so far

workerVars == <<now, live, spent, withdrawn, restarts>>
staffVars == <<asking, made, shown>>
apiVars == <<log, alerts>>
vars == <<workerVars, staffVars, screen, requests, apiVars, faults>>

Worker == INSTANCE OneTimeProof WITH Holders <- {Staff}

Calls == {CallOf[p] : p \in Panels}
Proofs == [code : Codes, deadline : Nat, life : 0..MaxRestarts]
Nothing == "nothing"

Stages == {"sent", "evaluated", "decided", "recorded", "dropped"}

TypeOK ==
    /\ Worker!TypeOK
    /\ now <= MaxTime
    /\ restarts \in 0..MaxRestarts
    /\ asking \in BOOLEAN
    /\ (made \cup shown) \subseteq Proofs
    /\ Cardinality(made) <= (IF asking THEN 1 ELSE 0)
    /\ Cardinality(shown) <= 1
    /\ screen \in [Panels -> [kind : {"form", "notice", "red", "green", "gray"},
                              of : 0..MaxRequests]]
    /\ requests \in Seq([panel : Panels, code : Codes, stage : Stages,
                         reason : WorkerReasons \cup {Nothing}, retry : BOOLEAN,
                         waiting : BOOLEAN, lost : BOOLEAN])
    /\ Len(requests) <= MaxRequests
    /\ log \in [Calls -> Seq([reason : WorkerReasons])]
    /\ alerts \in [Calls -> Nat]
    /\ faults \in 0..MaxFaults

Init ==
    /\ now = 0
    /\ live = {}
    /\ spent = {}
    /\ withdrawn = {}
    /\ restarts = 0
    /\ asking = FALSE
    /\ made = {}
    /\ shown = {}
    /\ screen = [p \in Panels |-> [kind |-> "form", of |-> 0]]
    /\ requests = << >>
    /\ log = [c \in Calls |-> << >>]
    /\ alerts = [c \in Calls |-> 0]
    /\ faults = 0

\* The request or its answer is lost, or it is answered with an error: the
\* functions of lib/verify.ts throw.  429 is no error, but a verdict.
Fault ==
    /\ faults < MaxFaults
    /\ faults' = faults + 1

-----------------------------------------------------------------------------
\* StaffProofPanel

\* handleSend; the button is disabled while a proof is being made.
AskProof ==
    /\ ~asking
    /\ asking' = TRUE
    /\ UNCHANGED <<workerVars, made, shown, screen, requests, apiVars, faults>>

\* POST /api/v1/proofs
MakeProof(code) ==
    /\ asking /\ made = {}
    /\ Worker!Mint(code, Staff)
    /\ made' = {[code |-> code, deadline |-> now + Ttl, life |-> restarts]}
    /\ UNCHANGED <<restarts, asking, shown, screen, requests, apiVars, faults>>

\* Mutant: the countdown starts with ttl_seconds when the answer arrives.
FromArrival(answer) == [answer EXCEPT !.deadline = now + Ttl]

\* setProof(answer): the countdown is that of expires_at.
Countdown(answer) == answer

ShowProof ==
    /\ made # {}
    /\ shown' = {Countdown(answer) : answer \in made}
    /\ asking' = FALSE
    /\ made' = {}
    /\ UNCHANGED <<workerVars, screen, requests, apiVars, faults>>

\* A lost request or answer, or 409 for a revoked credential: the page shows an
\* error and keeps the proof it had.
ProofFails ==
    /\ asking
    /\ \/ Fault
       \/ made = {} /\ Staff \in withdrawn /\ UNCHANGED faults
    /\ asking' = FALSE
    /\ made' = {}
    /\ UNCHANGED <<workerVars, shown, screen, requests, apiVars>>

-----------------------------------------------------------------------------
\* CitizenVerifyPanel

OnForm(p) == screen[p].kind \in {"form", "notice"}

Loading(p) == \E i \in DOMAIN requests : requests[i].panel = p /\ requests[i].waiting

\* Mutant: the button is not disabled while a check is under way.
EvenWhileLoading(p) == OnForm(p)

CanSubmit(p) == OnForm(p) /\ ~Loading(p)

\* handleSubmit, and the request it sends.
Submit(p, code) ==
    /\ CanSubmit(p)
    /\ Len(requests) < MaxRequests
    /\ requests' = Append(requests,
                          [panel |-> p, code |-> code, stage |-> "sent", reason |-> Nothing,
                           retry |-> FALSE, waiting |-> TRUE, lost |-> FALSE])
    /\ UNCHANGED <<workerVars, staffVars, screen, apiVars, faults>>

\* Which screen follows an answer.
Verdict(request) ==
    IF request.retry THEN "notice"
    ELSE IF request.reason = "verified" THEN "green" ELSE "red"

\* The answer of the api is shown.
Receive(i) ==
    /\ requests[i].waiting
    /\ requests[i].stage = "recorded"
    /\ screen' = [screen EXCEPT ![requests[i].panel] =
                    [kind |-> Verdict(requests[i]), of |-> i]]
    /\ requests' = [requests EXCEPT ![i].waiting = FALSE]
    /\ UNCHANGED <<workerVars, staffVars, apiVars, faults>>

\* No connection, a lost answer, or an error of the api.  The servers go on,
\* unless the request never reached them or the api gave up on the worker,
\* whose work stays done.
RequestFails(i) ==
    /\ requests[i].waiting
    /\ Fault
    /\ \E stage \in {requests[i].stage}
                        \cup (IF requests[i].stage \in {"sent", "evaluated"} THEN {"dropped"} ELSE {}) :
        requests' = [requests EXCEPT ![i].waiting = FALSE, ![i].lost = TRUE, ![i].stage = stage]
    /\ screen' = [screen EXCEPT ![requests[i].panel] = [kind |-> "gray", of |-> i]]
    /\ UNCHANGED <<workerVars, staffVars, apiVars>>

\* The button under a verdict or an error.
Reset(p) ==
    /\ ~OnForm(p)
    /\ screen' = [screen EXCEPT ![p] = [kind |-> "form", of |-> 0]]
    /\ UNCHANGED <<workerVars, staffVars, requests, apiVars, faults>>

\* The choice between a call and a visit takes the notice away.
SwitchScene(p) ==
    /\ screen[p].kind = "notice"
    /\ screen' = [screen EXCEPT ![p] = [kind |-> "form", of |-> 0]]
    /\ UNCHANGED <<workerVars, staffVars, requests, apiVars, faults>>

-----------------------------------------------------------------------------
\* The servers

\* A used proof says so until its deadline, which OneTimeProof does not keep.
Refusals(code) ==
    IF ~Worker!Taken(code) THEN {"code_not_found"}
    ELSE IF Staff \in withdrawn THEN {"credential_revoked"}
    ELSE IF code \in spent THEN {"proof_already_used", "proof_expired"}
    ELSE {"proof_expired"}

Acceptable(code) ==
    /\ Staff \notin withdrawn
    /\ \E p \in live : p.code = code /\ now < p.deadline

Evaluated(i, reason) ==
    requests' = [requests EXCEPT ![i].stage = "evaluated", ![i].reason = reason]

AcceptCode(i) ==
    /\ requests[i].stage = "sent"
    /\ \E p \in live : p.code = requests[i].code /\ Worker!Accept(p)
    /\ Evaluated(i, "verified")
    /\ UNCHANGED <<restarts, staffVars, screen, apiVars, faults>>

RefuseCode(i) ==
    /\ requests[i].stage = "sent"
    /\ ~Acceptable(requests[i].code)
    /\ \E reason \in Refusals(requests[i].code) : Evaluated(i, reason)
    /\ UNCHANGED <<workerVars, staffVars, screen, apiVars, faults>>

\* The limiter of the api or of the worker; the code is not looked at.
LimitRequest(i) ==
    /\ requests[i].stage = "sent"
    /\ Evaluated(i, "rate_limited")
    /\ UNCHANGED <<workerVars, staffVars, screen, apiVars, faults>>

\* The api decides on a copy of the call's records, and notifies the guardian.
Decide(i) ==
    LET call == CallOf[requests[i].panel]
        reason == requests[i].reason
        retry == AllowsCodeRetry(reason, log[call])
        skip == reason = "verified" \/ retry \/ IsRepeatedRateLimit(reason, log[call])
    IN  /\ requests[i].stage = "evaluated"
        /\ requests' = [requests EXCEPT ![i].stage = "decided", ![i].retry = retry]
        /\ alerts' = IF skip THEN alerts ELSE [alerts EXCEPT ![call] = @ + 1]
        /\ UNCHANGED <<workerVars, staffVars, screen, log, faults>>

RecordIt(i) ==
    /\ requests[i].stage = "decided"
    /\ requests' = [requests EXCEPT ![i].stage = "recorded"]
    /\ log' = [log EXCEPT ![CallOf[requests[i].panel]] =
                    Append(@, [reason |-> requests[i].reason])]
    /\ UNCHANGED <<workerVars, staffVars, screen, alerts, faults>>

\* POST /api/v1/credentials/{id}/revoke
Revoke ==
    /\ Staff \notin withdrawn
    /\ Worker!Withdraw(Staff)
    /\ UNCHANGED <<restarts, staffVars, screen, requests, apiVars, faults>>

\* The worker restarts; the seeded credential comes back under the same id.
Restart ==
    /\ restarts < MaxRestarts
    /\ restarts' = restarts + 1
    /\ Worker!Forget
    /\ UNCHANGED <<staffVars, screen, requests, apiVars, faults>>

Tick ==
    /\ now < MaxTime
    /\ Worker!Tick
    /\ UNCHANGED <<restarts, staffVars, screen, requests, apiVars, faults>>

-----------------------------------------------------------------------------
Next ==
    \/ AskProof \/ ShowProof \/ ProofFails
    \/ \E code \in Codes : MakeProof(code)
    \/ \E p \in Panels :
        \/ \E code \in Codes : Submit(p, code)
        \/ Reset(p)
        \/ SwitchScene(p)
    \/ \E i \in DOMAIN requests :
        \/ AcceptCode(i) \/ RefuseCode(i) \/ LimitRequest(i)
        \/ Decide(i) \/ RecordIt(i)
        \/ Receive(i) \/ RequestFails(i)
    \/ Revoke \/ Restart \/ Tick

Spec == Init /\ [][Next]_vars

-----------------------------------------------------------------------------
\* Whoever reads red has a guardian who was alerted for this call, also when
\* the refusal was a repetition that sends no alert of its own.
RedHasAlert ==
    \A p \in Panels : screen[p].kind = "red" => alerts[CallOf[p]] > 0

\* Red never follows an acceptance of the same code for the same citizen,
\* unless the answer that carried it was lost on its way or the citizen has
\* read it in green before typing the code again.
GenuineIsNotAccused ==
    \A p \in Panels, i \in DOMAIN requests :
        LET shownNow == screen[p].of IN
        (/\ screen[p].kind = "red"
         /\ requests[shownNow].code = requests[i].code
         /\ requests[i].panel = p
         /\ requests[i].reason = "verified")
        => \/ requests[i].lost
           \/ i < shownNow /\ ~requests[i].waiting

\* While the countdown of the code on the staff page runs, the worker accepts
\* it, unless it was used, the credential was revoked or the worker restarted.
CountdownIsHonest ==
    \A proof \in shown :
        (/\ now < proof.deadline
         /\ proof.life = restarts
         /\ proof.code \notin spent
         /\ withdrawn = {})
        => Acceptable(proof.code)

\* Red for an unknown code is never the first word on a call: another unknown
\* code, or a limit, was evaluated for that call before.
FirstTypoOfCallIsForgiven ==
    \A p \in Panels :
        (screen[p].kind = "red" /\ requests[screen[p].of].reason = "code_not_found")
        => \E j \in DOMAIN requests \ {screen[p].of} :
                /\ CallOf[requests[j].panel] = CallOf[p]
                /\ requests[j].reason \in {"code_not_found", "rate_limited"}
=============================================================================
