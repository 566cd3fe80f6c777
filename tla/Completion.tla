----------------------------- MODULE Completion -----------------------------
(* The rows behind a job's bill: its work-completion form, the form's         *)
(* material lines and the bill that submit_completion makes of them           *)
(* (backend/app/features/jobs/service.py).  A submission is an upsert spread  *)
(* over several statements of a READ COMMITTED transaction that locks no row  *)
(* it reads; "safe to replay from the offline queue", it is sent again        *)
(* whenever its answer was lost, the first one perhaps still running.         *)
EXTENDS Naturals, FiniteSets

CONSTANTS
    Submissions,  \* POST .../completion; each is made once
    MaxLines,     \* bound on the material lines of one form, all of price 1
    MaxMinutes,   \* bound on the time spent
    Typed,        \* what the technician may type as the fuel's cost
    Routes,       \* what a route may cost
    Derived,      \* fuel_paisa omitted: the server derives it
    Rates,        \* labour rates that the settings may hold
    NoForm        \* no form, or no bill, yet

ASSUME CompletionAssumption ==
    /\ MaxLines \in Nat /\ MaxMinutes \in Nat
    /\ Typed \subseteq Nat /\ Routes \subseteq Nat /\ Rates \subseteq Nat /\ Rates # {}
    /\ Derived \notin Typed /\ NoForm \notin Nat

VARIABLES
    form,       \* the committed job_completion row
    lines,      \* the committed job_material rows
    bill,       \* job.bill_original_paisa
    closed,     \* job.status = "closed"
    labourRate, \* settings.labour_rate_paisa
    routeFuel,  \* what the job's route costs by now
    submission, \* the requests made so far
    torn        \* history: the last one to commit had not seen another's commit

completionVars == <<form, lines, bill, closed, labourRate, routeFuel, submission, torn>>

-----------------------------------------------------------------------------
FormRow == [minutes : 0 .. MaxMinutes, fuel : Typed \cup Routes, rate : Rates]
ASSUME NoFormIsApart == NoForm \notin FormRow

Body == [lines : 0 .. MaxLines, minutes : 0 .. MaxMinutes, fuel : Typed \cup {Derived}]

NotSent == [body |-> NoForm, form |-> NoForm, bill |-> NoForm, clear |-> {}, fuel |-> 0,
            alone |-> TRUE, pc |-> "new"]

CompletionInit ==
    /\ form = NoForm /\ bill = NoForm
    /\ lines = {}
    /\ closed = FALSE
    /\ labourRate \in Rates /\ routeFuel \in Routes
    /\ submission = [s \in Submissions |-> NotSent]
    /\ torn = FALSE

Underway(s) == submission[s].pc \in {"loaded", "read", "cleared"}

-----------------------------------------------------------------------------
\* The job is loaded: its bill, and its status.
LoadJob(s) ==
    /\ submission[s].pc = "new"
    /\ \E b \in Body :
         submission' = [submission EXCEPT ![s] =
           [NotSent EXCEPT !.body = b, !.bill = bill, !.pc = IF closed THEN "conflict" ELSE "loaded"]]
    /\ UNCHANGED <<form, lines, bill, closed, labourRate, routeFuel, torn>>

\* get_completion
ReadForm(s) ==
    /\ submission[s].pc = "loaded"
    /\ submission' = [submission EXCEPT ![s].form = form, ![s].pc = "read"]
    /\ UNCHANGED <<form, lines, bill, closed, labourRate, routeFuel, torn>>

\* Mutant: the old lines stay.
NothingToClear(s) == {}

\* clear_materials: one DELETE finds the lines that are committed by now.  A line
\* that two have found is deleted once, and the second has waited for the first.
ToClear(s) == IF submission[s].form = NoForm THEN {} ELSE lines

\* The lines are cleared and the fuel is settled: typed, or derived from the route.
ClearMaterials(s) ==
    LET typed == submission[s].body.fuel IN
    /\ submission[s].pc = "read"
    /\ submission' = [submission EXCEPT ![s].clear = ToClear(s), ![s].pc = "cleared",
                                        ![s].fuel = IF typed = Derived THEN routeFuel ELSE typed]
    /\ UNCHANGED <<form, lines, bill, closed, labourRate, routeFuel, torn>>

\* The ORM writes a column only if its value is not the loaded one.
Written(new, loaded, committed) == IF new = loaded THEN committed ELSE new

\* The form after s, at the rates of the first submission.
Upserted(s) ==
    LET sub == submission[s] IN
    IF sub.form = NoForm
    THEN [minutes |-> sub.body.minutes, fuel |-> sub.fuel, rate |-> labourRate]
    ELSE [form EXCEPT !.minutes = Written(sub.body.minutes, sub.form.minutes, @),
                      !.fuel    = Written(sub.fuel, sub.form.fuel, @)]

\* completion_total_paisa
Total(count, minutes, rate, fuel) == count + minutes * rate + fuel

CommitForm(s) ==
    LET sub  == submission[s]
        rate == IF sub.form = NoForm THEN labourRate ELSE sub.form.rate
    IN
    /\ sub.pc = "cleared"
    /\ sub.form = NoForm => form = NoForm
    /\ form' = Upserted(s)
    /\ lines' = (lines \ sub.clear) \cup ({s} \X (1 .. sub.body.lines))
    /\ bill' = Written(Total(sub.body.lines, sub.body.minutes, rate, sub.fuel), sub.bill, bill)
    /\ torn' = ~sub.alone
    /\ submission' = [t \in Submissions |->
                        IF t = s THEN [submission[t] EXCEPT !.pc = "ok"]
                        ELSE IF Underway(t) THEN [submission[t] EXCEPT !.alone = FALSE]
                        ELSE submission[t]]
    /\ UNCHANGED <<closed, labourRate, routeFuel>>

\* One form per job: the second of two first submissions fails, or it dies
\* anywhere, and nothing of it stays.
Fail(s) ==
    /\ Underway(s)
    /\ submission' = [submission EXCEPT ![s].pc = "error"]
    /\ UNCHANGED <<form, lines, bill, closed, labourRate, routeFuel, torn>>

-----------------------------------------------------------------------------
(* What happens around it                                                    *)

\* transition closes the job.
Close ==
    /\ closed' = TRUE
    /\ UNCHANGED <<form, lines, bill, labourRate, routeFuel, submission, torn>>

\* Punches or breadcrumbs have come in.
RouteChanges ==
    /\ routeFuel' \in Routes
    /\ UNCHANGED <<form, lines, bill, closed, labourRate, submission, torn>>

\* A deploy with other settings; what was under way is lost.
Redeploy ==
    /\ labourRate' \in Rates
    /\ submission' = [s \in Submissions |->
                        IF Underway(s) THEN [submission[s] EXCEPT !.pc = "error"] ELSE submission[s]]
    /\ UNCHANGED <<form, lines, bill, closed, routeFuel, torn>>

CompletionNext ==
    \/ \E s \in Submissions :
         LoadJob(s) \/ ReadForm(s) \/ ClearMaterials(s) \/ CommitForm(s) \/ Fail(s)
    \/ Close \/ RouteChanges \/ Redeploy

CompletionSpec == CompletionInit /\ [][CompletionNext]_completionVars

-----------------------------------------------------------------------------
(* Properties                                                                *)

\* The bill is what its form adds up to, line by line, at the rate that was
\* pinned by the first submission, however often the form is sent again, edited,
\* repriced or lost; only a submission that overlapped another's commit may leave
\* a form that is neither's (submit_completion locks nothing).
BillAddsUp ==
    (form # NoForm /\ ~torn)
      => bill = Total(Cardinality(lines), form.minutes, form.rate, form.fuel)
=============================================================================
