----------------------------- MODULE MCServices -----------------------------
(* The instances of Evidence, Accounts, Customers and DeliveryStatus that TLC *)
(* checks.  The four share the pool of requests and no table, so one behaviour *)
(* looks at one of them, the others being idle; which one is chosen at the    *)
(* start.                                                                     *)
EXTENDS Evidence, Accounts, Customers, DeliveryStatus, TLC

CONSTANTS
    MaxVisits,  \* bound on the intakes and consent requests of a behaviour
    MaxHooks    \* bound on its webhooks

VARIABLE focus  \* the module this behaviour is about

Focuses == {"evidence", "accounts", "customers", "delivery"}

\* What is idle starts in one of its initial states only.
ServicesInit ==
    /\ focus \in Focuses
    /\ EvidenceInit /\ (focus # "evidence" => media = [m \in Media |-> None])
    /\ AccountsInit /\ (focus # "accounts" => account.role = "tech" /\ account.pin = CHOOSE p \in LongPins : TRUE)
    /\ CustomersInit
    /\ DeliveryInit

ServicesNext ==
    /\ UNCHANGED focus
    /\ \/ /\ focus = "evidence" /\ EvidenceNext
          /\ UNCHANGED <<accountVars, customersVars, deliveryVars>>
       \/ /\ focus = "accounts" /\ AccountsNext
          /\ UNCHANGED <<evidenceVars, customersVars, deliveryVars>>
       \/ /\ focus = "customers" /\ CustomersNext /\ begun' <= MaxVisits
          /\ UNCHANGED <<evidenceVars, accountVars, deliveryVars>>
       \/ /\ focus = "delivery" /\ DeliveryNext
          /\ Cardinality({h \in Hooks : hook'[h] # Silent}) <= MaxHooks
          /\ UNCHANGED <<evidenceVars, accountVars, customersVars>>

ServicesSpec == ServicesInit /\ [][ServicesNext]_<<focus, evidenceVars, accountVars, customersVars, deliveryVars>>

\* Requests are interchangeable, and so are technicians.
Interchangeable == Permutations(Requests) \cup Permutations(Techs)
=============================================================================
