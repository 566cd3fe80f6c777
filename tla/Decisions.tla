------------------------------ MODULE Decisions ------------------------------
(* What send_cloud_message promises of each (job, kind), without batches,     *)
(* transactions and races: one attempt at a time reaches the customer at most *)
(* once; it ends in a decision, which says what it did and is final, or goes  *)
(* to waste.                                                                  *)
EXTENDS Naturals

CONSTANT Messages

VARIABLES
    decision,  \* on each message: "sent", "failed", "suppressed", or "none"
    reached,   \* how often the customer got each message
    wasted     \* how many of these were of an attempt that went to waste

decisionVars == <<decision, reached, wasted>>

\* The attempt that is being made has reached the customer.
HasReached(m) == reached[m] > wasted[m]

\* What may be said of it: a call that failed may have reached him all the same.
Truthful(m) == IF HasReached(m) THEN {"sent", "failed"} ELSE {"failed", "suppressed"}

DecisionsInit ==
    /\ decision = [m \in Messages |-> "none"]
    /\ reached = [m \in Messages |-> 0]
    /\ wasted = [m \in Messages |-> 0]

Reach(m) ==
    /\ decision[m] = "none" /\ ~HasReached(m)
    /\ reached' = [reached EXCEPT ![m] = @ + 1]
    /\ UNCHANGED <<decision, wasted>>

\* A batch decides on several messages at once, or wastes several attempts.
Decide(M) ==
    /\ \A m \in M : decision[m] = "none"
    /\ \E said \in [M -> {"sent", "failed", "suppressed"}] :
         /\ \A m \in M : said[m] \in Truthful(m)
         /\ decision' = [m \in Messages |-> IF m \in M THEN said[m] ELSE decision[m]]
    /\ UNCHANGED <<reached, wasted>>

Waste(M) ==
    /\ \A m \in M : decision[m] = "none" /\ HasReached(m)
    /\ wasted' = [m \in Messages |-> IF m \in M THEN wasted[m] + 1 ELSE wasted[m]]
    /\ UNCHANGED <<decision, reached>>

DecisionsNext ==
    \/ \E m \in Messages : Reach(m)
    \/ \E M \in SUBSET Messages : Decide(M) \/ Waste(M)

DecisionsSpec == DecisionsInit /\ [][DecisionsNext]_decisionVars
=============================================================================
