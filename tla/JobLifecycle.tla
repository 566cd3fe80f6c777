---------------------------- MODULE JobLifecycle ----------------------------
(* One job of the jobs slice (backend/app/features/jobs) under concurrent    *)
(* HTTP requests.  A request runs in its own READ COMMITTED session: it      *)
(* loads the job row, checks what it loaded, may read further rows, and      *)
(* commits at the end of the router.  Between the load and the commit other  *)
(* requests commit, so the loaded row may be stale; the commit writes only   *)
(* the columns whose value the handler changed relative to the loaded row    *)
(* (what SQLAlchemy puts in its UPDATE).  The UPDATE keeps the row locked    *)
(* until the commit, so flush and commit are one step here.                  *)
(*                                                                           *)
(* A request slot is used once; its final pc is the answer it was given.     *)
EXTENDS Naturals, FiniteSets

CONSTANTS
    Requests,   \* the HTTP requests that reach this job
    Techs,      \* technicians
    Forms,      \* work-completion forms (time, fuel and materials of one submission)
    Rates,      \* configurations of the money rates (labour, fuel per km)
    Amounts,    \* negotiated amounts, in paisa
    Total,      \* Total[f, r]: the bill of form f at rates r
    IntakeTech, \* the assignee given at intake, or None
    MaxClosing, \* bound: closing-phase media rows at any one time
    None        \* SQL NULL

ASSUME ConstantsAssumption ==
    /\ None \notin Techs \cup Forms \cup Rates \cup Amounts
    /\ Total \in [Forms \X Rates -> Nat]
    /\ Amounts \subseteq Nat
    /\ IntakeTech \in Techs \cup {None}
    /\ MaxClosing \in Nat
    /\ None \notin Nat

VARIABLES
    row,            \* the committed columns of the job row
    completionRate, \* rates pinned in the completion row; None while there is none
    closing,        \* number of closing-phase media rows of the job, pending included
    rate,           \* the rates in the running configuration
    pc,             \* where each request is, or how it was answered
    kind, arg,      \* what each request asks for
    seen,           \* the job row as each request loaded it
    found,          \* whether the request's own read found a completion row
    logged          \* whether the request appended its timeline event

dbVars == <<row, completionRate, closing, rate>>
reqVars == <<pc, kind, arg, seen, found, logged>>
vars == <<row, completionRate, closing, rate, pc, kind, arg, seen, found, logged>>

-----------------------------------------------------------------------------
Statuses == {"open", "waiting", "ready", "closed"}

Row == [status     : Statuses,
        closedAt   : BOOLEAN,              \* closed_at IS NOT NULL
        abandoned  : BOOLEAN,
        tech       : Techs \cup {None},
        original   : Nat \cup {None},
        negotiated : Amounts \cup {None},
        billStatus : {"none", "generated", "negotiated"}]

\* A job just created by create_job, assigned to t (or to nobody).
NewRow(t) == [status |-> "open", closedAt |-> FALSE, abandoned |-> FALSE, tech |-> t,
              original |-> None, negotiated |-> None, billStatus |-> "none"]

Transitions == {"ready", "wait", "abandon", "close"}
Kinds == Transitions \cup {"claim", "assign", "submit", "negotiate"}
Args(k) == CASE k \in {"claim", "assign"} -> Techs
             [] k = "submit"              -> Forms
             [] k = "negotiate"           -> Amounts
             [] OTHER                     -> {None}

InFlight == {"loaded", "counted", "read"}
Answers  == {"ok", "rejected", "error", "lost"}
PC       == {"new"} \cup InFlight \cup Answers

Init ==
    /\ row = NewRow(IntakeTech)
    /\ completionRate = None
    /\ closing = 0
    /\ rate \in Rates
    /\ pc = [r \in Requests |-> "new"]
    /\ kind = [r \in Requests |-> "ready"]
    /\ arg = [r \in Requests |-> None]
    /\ seen = [r \in Requests |-> NewRow(None)]
    /\ found = [r \in Requests |-> FALSE]
    /\ logged = [r \in Requests |-> FALSE]

-----------------------------------------------------------------------------
(* The request's session *)

\* The request ends with an answer; its session, and what it loaded, is gone.
Answer(r, a) ==
    /\ pc' = [pc EXCEPT ![r] = a]
    /\ seen' = [seen EXCEPT ![r] = NewRow(None)]
    /\ found' = [found EXCEPT ![r] = FALSE]

\* Answered without an effect: a raised domain error, nothing committed.
Refuse(r, a) ==
    /\ Answer(r, a)
    /\ UNCHANGED <<dbVars, kind, arg, logged>>

\* One column of the UPDATE: written only if the handler changed it.
Column(loaded, new, current) == IF new # loaded THEN new ELSE current

\* The committed row after request r, which made `new` of the row it loaded.
Merge(r, new) ==
    [status     |-> Column(seen[r].status, new.status, row.status),
     closedAt   |-> Column(seen[r].closedAt, new.closedAt, row.closedAt),
     abandoned  |-> Column(seen[r].abandoned, new.abandoned, row.abandoned),
     tech       |-> Column(seen[r].tech, new.tech, row.tech),
     original   |-> Column(seen[r].original, new.original, row.original),
     negotiated |-> Column(seen[r].negotiated, new.negotiated, row.negotiated),
     billStatus |-> Column(seen[r].billStatus, new.billStatus, row.billStatus)]

\* The handler appends its timeline event and the router commits.
Commit(r, new) ==
    /\ row' = Merge(r, new)
    /\ logged' = [logged EXCEPT ![r] = TRUE]
    /\ Answer(r, "ok")

-----------------------------------------------------------------------------
(* Requests *)

\* Mutants: the guard of negotiate_bill, or of submit_completion, is missing.
NoBillNeeded(k) == k \in {"claim", "submit", "negotiate"} /\ row.status = "closed"
LateSubmitTaken(k) ==
    \/ k \in {"claim", "negotiate"} /\ row.status = "closed"
    \/ k = "negotiate" /\ row.original = None

\* Checks a handler makes on the row it has just loaded.
Refused(k) ==
    \/ k \in {"claim", "submit", "negotiate"} /\ row.status = "closed"
    \/ k = "negotiate" /\ row.original = None

Receive(r, k, a) ==
    /\ pc[r] = "new"
    /\ kind' = [kind EXCEPT ![r] = k]
    /\ arg' = [arg EXCEPT ![r] = a]
    /\ IF Refused(k)
       THEN pc' = [pc EXCEPT ![r] = "rejected"] /\ UNCHANGED seen
       ELSE pc' = [pc EXCEPT ![r] = "loaded"] /\ seen' = [seen EXCEPT ![r] = row]
    /\ UNCHANGED <<dbVars, found, logged>>

\* close: the closing-video gate counts pending rows too.
CountClosing(r) ==
    /\ pc[r] = "loaded" /\ kind[r] = "close"
    /\ \/ closing = 0 /\ Refuse(r, "rejected")
       \/ closing > 0 /\ pc' = [pc EXCEPT ![r] = "counted"]
                      /\ UNCHANGED <<dbVars, kind, arg, seen, found, logged>>

\* Mutant: a close without the completion form.
FormOptional == FALSE

\* close needs the completion form.
CloseNeedsForm == completionRate = None

\* close and submit both look the completion row up before they act.
ReadCompletion(r) ==
    /\ \/ pc[r] = "loaded" /\ kind[r] = "submit"
       \/ pc[r] = "counted" /\ kind[r] = "close"
    /\ IF kind[r] = "close" /\ CloseNeedsForm
       THEN Refuse(r, "rejected")
       ELSE /\ pc' = [pc EXCEPT ![r] = "read"]
            /\ found' = [found EXCEPT ![r] = completionRate # None]
            /\ UNCHANGED <<dbVars, kind, arg, seen, logged>>

\* What a status transition makes of the loaded row.
Transitioned(k, old) ==
    CASE k = "ready"   -> [old EXCEPT !.status = "ready"]
      [] k = "wait"    -> [old EXCEPT !.status = "waiting"]
      [] k = "close"   -> [old EXCEPT !.status = "closed", !.closedAt = TRUE]
      [] k = "abandon" -> [old EXCEPT !.status = "closed", !.closedAt = TRUE,
                                      !.abandoned = TRUE]

Transition(r) ==
    /\ kind[r] \in Transitions
    /\ pc[r] = IF kind[r] = "close" THEN "read" ELSE "loaded"
    /\ Commit(r, Transitioned(kind[r], seen[r]))
    /\ UNCHANGED <<completionRate, closing, rate, kind, arg>>

\* Mutant: every submission prices at the running configuration.
ConfiguredRate(r) == rate

\* A first submission inserts the completion row with the configured rates;
\* uq_job_completion_job makes a second insert fail the whole request.
PinnedRate(r) == IF found[r] THEN completionRate ELSE rate
SubmitCollides(r) == ~found[r] /\ completionRate # None

\* Mutant: a submission drops the negotiated amount, as a bill made afresh.
BilledAfresh(r) ==
    [seen[r] EXCEPT
        !.original   = Total[arg[r], PinnedRate(r)],
        !.negotiated = None,
        !.billStatus = "generated"]

Submitted(r) ==
    [seen[r] EXCEPT
        !.original   = Total[arg[r], PinnedRate(r)],
        !.billStatus = IF seen[r].negotiated # None THEN "negotiated" ELSE "generated"]

SubmitCompletion(r) ==
    /\ kind[r] = "submit" /\ pc[r] = "read"
    /\ IF SubmitCollides(r)
       THEN Refuse(r, "error")
       ELSE /\ completionRate' = PinnedRate(r)
            /\ Commit(r, Submitted(r))
            /\ UNCHANGED <<closing, rate, kind, arg>>

NegotiateBill(r) ==
    /\ kind[r] = "negotiate" /\ pc[r] = "loaded"
    /\ Commit(r, [seen[r] EXCEPT !.negotiated = arg[r], !.billStatus = "negotiated"])
    /\ UNCHANGED <<completionRate, closing, rate, kind, arg>>

AssignJob(r) ==
    /\ kind[r] = "assign" /\ pc[r] = "loaded"
    /\ Commit(r, [seen[r] EXCEPT !.tech = arg[r]])
    /\ UNCHANGED <<completionRate, closing, rate, kind, arg>>

\* Mutant: check-then-set, judged on the row as it was loaded.
CouldClaim(r) == seen[r].status # "closed" /\ seen[r].tech \in {None, arg[r]}

\* The conditional UPDATE of try_claim judges the row as it is at the write.
CanClaim(r) == row.status # "closed" /\ row.tech \in {None, arg[r]}

\* Mutant: already_mine computed after the UPDATE and the refresh.
MineByNow(r) == CanClaim(r)

\* A re-claim retry is told apart on the row as it was loaded.
AlreadyMine(r) == seen[r].tech = arg[r]

ClaimJob(r) ==
    /\ kind[r] = "claim" /\ pc[r] = "loaded"
    /\ IF CanClaim(r)
       THEN /\ row' = [row EXCEPT !.tech = arg[r]]
            /\ logged' = [logged EXCEPT ![r] = ~AlreadyMine(r)]
            /\ Answer(r, "ok")
            /\ UNCHANGED <<completionRate, closing, rate, kind, arg>>
       ELSE Refuse(r, "rejected")

\* The request dies before its commit: connection lost, exception, timeout.
Abort(r) == pc[r] \in InFlight /\ Refuse(r, "lost")

-----------------------------------------------------------------------------
(* The surroundings *)

\* The process restarts, perhaps with other rates: nothing in flight commits.
Restart(newRate) ==
    /\ rate' = newRate
    /\ pc' = [r \in Requests |-> IF pc[r] \in InFlight THEN "lost" ELSE pc[r]]
    /\ seen' = [r \in Requests |-> NewRow(None)]
    /\ found' = [r \in Requests |-> FALSE]
    /\ UNCHANGED <<row, completionRate, closing, kind, arg, logged>>

\* The media slice registers a closing clip, or deletes one.
RegisterClosing ==
    /\ closing < MaxClosing
    /\ closing' = closing + 1
    /\ UNCHANGED <<row, completionRate, rate, reqVars>>

\* Mutant: a delete that is counted for a row already gone.
DeleteGone ==
    /\ closing' = closing - 1
    /\ UNCHANGED <<row, completionRate, rate, reqVars>>

DeleteClosing ==
    /\ closing > 0
    /\ closing' = closing - 1
    /\ UNCHANGED <<row, completionRate, rate, reqVars>>

Next ==
    \/ \E r \in Requests :
          \/ \E k \in Kinds : \E a \in Args(k) : Receive(r, k, a)
          \/ CountClosing(r)
          \/ ReadCompletion(r)
          \/ Transition(r)
          \/ SubmitCompletion(r)
          \/ NegotiateBill(r)
          \/ AssignJob(r)
          \/ ClaimJob(r)
          \/ Abort(r)
    \/ \E newRate \in Rates : Restart(newRate)
    \/ RegisterClosing
    \/ DeleteClosing

Spec == Init /\ [][Next]_vars

-----------------------------------------------------------------------------
(* Invariants *)

TypeOK ==
    /\ row \in Row
    /\ completionRate \in Rates \cup {None}
    /\ closing \in 0..MaxClosing
    /\ rate \in Rates
    /\ pc \in [Requests -> PC]
    /\ kind \in [Requests -> Kinds]
    /\ arg \in [Requests -> Techs \cup Forms \cup Amounts \cup {None}]
    /\ seen \in [Requests -> Row]
    /\ found \in [Requests -> BOOLEAN]
    /\ logged \in [Requests -> BOOLEAN]

Accepted(r, k) == pc[r] = "ok" /\ kind[r] = k

\* Whatever requests interleave, a closed job has its closing time, and unless
\* it was abandoned it has its completion row and a bill: the money guard of
\* the close action in transition().
ClosedIsBilled ==
    row.status = "closed" =>
        /\ row.closedAt
        /\ row.abandoned \/ (completionRate # None /\ row.original # None)

\* bill_status and the two amounts of a row agree on how far billing has come.
BillFieldsAgree(x) ==
    /\ x.billStatus = "none" <=> x.original = None
    /\ x.billStatus = "negotiated" => x.negotiated # None
    /\ x.negotiated # None => x.original # None

\* The three places that say how far billing has come agree although they are
\* written by different requests from stale rows: bill_status, the two amounts
\* and the completion row (submit_completion, negotiate_bill).
BillStatusSound ==
    /\ BillFieldsAgree(row)
    /\ row.original = None <=> completionRate = None

\* Everything the row x records once and for all, the row y records as well.
Grows(x, y) ==
    /\ x.closedAt => y.closedAt
    /\ x.abandoned => y.abandoned
    /\ x.tech # None => y.tech # None
    /\ x.original # None => y.original # None
    /\ x.negotiated # None => y.negotiated # None
    /\ x.billStatus # "none" => y.billStatus # "none"

\* What a request still believes when it writes: its snapshot may be stale but
\* is a consistent row that the committed row has only outgrown, and a
\* completion row it found is still there (_load, get_completion).
SessionsSound ==
    \A r \in Requests :
        /\ arg[r] \in Args(kind[r])
        /\ found[r] => completionRate # None
        /\ pc[r] = "read" /\ kind[r] = "close" => completionRate # None
        /\ pc[r] = "loaded" /\ kind[r] = "negotiate" => seen[r].original # None
        /\ pc[r] \in InFlight /\ kind[r] \in {"claim", "submit", "negotiate"} =>
              seen[r].status # "closed"
        /\ Grows(seen[r], row)
        /\ BillFieldsAgree(seen[r])

\* A technician whose claim was accepted still holds the job, unless a manager
\* assigned it to whoever holds it now: no claim steals (claim_job, try_claim).
ClaimStands ==
    \A r \in Requests : Accepted(r, "claim") =>
        \/ row.tech = arg[r]
        \/ \E a \in Requests : Accepted(a, "assign") /\ arg[a] = row.tech

\* No accepted request is undone by another one that wrote from a row it
\* loaded earlier: the columns it set are still set, if perhaps to the value of
\* a later request (the column-wise UPDATE of the session).
AcceptedWritesStand ==
    \A r \in Requests :
        /\ Accepted(r, "submit") => completionRate # None /\ row.original # None
        /\ Accepted(r, "negotiate") => row.negotiated # None
        /\ Accepted(r, "close") => row.closedAt
        /\ Accepted(r, "abandon") => row.closedAt /\ row.abandoned
        /\ Accepted(r, "assign") => row.tech # None

\* The status a transition leaves.
StatusOf(k) == CASE k = "ready" -> "ready"
                 [] k = "wait"  -> "waiting"
                 [] OTHER       -> "closed"

\* The timeline explains the row: status, assignee and both amounts each come
\* from an accepted request that appended its event.  The event a re-claim
\* leaves out is never the only one (add_event in claim_job and the others).
TimelineExplainsRow ==
    /\ row.status # "open" =>
          \E r \in Requests : /\ logged[r] /\ pc[r] = "ok" /\ kind[r] \in Transitions
                             /\ StatusOf(kind[r]) = row.status
    /\ row.tech # IntakeTech =>
          \E r \in Requests : /\ logged[r] /\ pc[r] = "ok" /\ kind[r] \in {"claim", "assign"}
                             /\ arg[r] = row.tech
    /\ row.negotiated # None =>
          \E r \in Requests : logged[r] /\ Accepted(r, "negotiate") /\ arg[r] = row.negotiated
    /\ row.original # None =>
          \E r \in Requests : /\ logged[r] /\ Accepted(r, "submit")
                             /\ row.original = Total[arg[r], completionRate]

-----------------------------------------------------------------------------
(* Action properties *)

\* Once a completion row exists its rates never change, and every later bill is
\* priced at them: a configuration change never reprices a job, not even with
\* a restart between two submissions (the rate snapshot of submit_completion).
NeverRepriced ==
    [][completionRate # None =>
          /\ completionRate' = completionRate
          /\ row'.original # row.original =>
                \E f \in Forms : row'.original = Total[f, completionRate]]_vars

\* The bill of a closed job can only be moved by a request that loaded the row
\* before the close: once those are answered it is settled, until somebody
\* reopens the job (the closed-job guards of submit_completion, negotiate_bill).
SettledUnlessInFlight ==
    [][/\ row.status = "closed"
       /\ \A r \in Requests : pc[r] \in InFlight => seen[r].status = "closed"
       => row'.original = row.original /\ row'.negotiated = row.negotiated]_vars
=============================================================================
