----------------------------- MODULE MCJobMoney -----------------------------
(* The instances of KeyedWrites and Completion that TLC checks: what a job's  *)
(* money is made of.  They share no table, so one behaviour looks at one of   *)
(* them, the other being idle; which one is chosen at the start.              *)
EXTENDS KeyedWrites, Completion, TLC

CONSTANT MaxSent  \* bound on the submissions of a form

VARIABLE focus  \* the module this behaviour is about

\* A client id is named by the kind of write it is stamped on.
MCKeys == Kinds
MCKindOf == [k \in Kinds |-> k]

\* The first tokens to be handed out are taken, as after a partial restore.
MCRestored == {0, 1, 3, 4, 5, 6}

\* The rate and the route's cost move once.
FormBounds ==
    /\ Cardinality({s \in Submissions : submission'[s].pc # "new"}) <= MaxSent
    /\ labourRate <= labourRate' /\ routeFuel <= routeFuel'

\* What is idle starts in one of its initial states only.
MoneyInit ==
    /\ focus \in {"writes", "form"}
    /\ Init /\ (focus # "writes" => key = [s \in Sends |-> CHOOSE k \in Keys : TRUE])
    /\ CompletionInit /\ labourRate = 1 /\ routeFuel = 0

MoneyNext ==
    /\ UNCHANGED focus
    /\ \/ focus = "writes" /\ Next /\ UNCHANGED completionVars
       \/ focus = "form" /\ CompletionNext /\ FormBounds /\ UNCHANGED vars

MoneySpec == MoneyInit /\ [][MoneyNext]_<<focus, vars, completionVars>>

\* Sends are interchangeable.
Symmetric == Permutations(Sends)
=============================================================================
