-------------------------------- MODULE Ledger --------------------------------
(* What the keyed tables promise their clients: an append-only ledger with at *)
(* most one entry per client_id, written once by one of the sends of it,      *)
(* never edited or deleted; a payment may be voided, for good (JobPayment,    *)
(* uq_job_payment_client and the like).                                       *)
CONSTANTS Keys, Sends, None

VARIABLES
    entries, \* the send each key's entry was written by, or None
    voided   \* the keys of voided entries

ledgerVars == <<entries, voided>>

Init == entries = [k \in Keys |-> None] /\ voided = {}

Add(k, s) ==
    /\ entries[k] = None
    /\ entries' = [entries EXCEPT ![k] = s]
    /\ UNCHANGED voided

Void(k) ==
    /\ entries[k] # None
    /\ voided' = voided \cup {k}
    /\ UNCHANGED entries

Next == \E k \in Keys : Void(k) \/ \E s \in Sends : Add(k, s)

Spec == Init /\ [][Next]_ledgerVars
=============================================================================
