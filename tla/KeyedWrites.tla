----------------------------- MODULE KeyedWrites -----------------------------
(* The server's insert-once writes: a client stamps a write with a client_id  *)
(* and sends it until it is answered, so one write may arrive several times,  *)
(* also at the same time.  A payment, an intake (create_job), an attendance   *)
(* punch or presence event, a GPS punch and a batched sample differ in how    *)
(* they find out that they are late: a lookup first, the unique constraint    *)
(* with or without recovery, or ON CONFLICT DO NOTHING.                       *)
(*                                                                            *)
(* A send is one request, in one transaction, used once.                      *)
EXTENDS Naturals, FiniteSets

CONSTANTS
    Sends,       \* requests
    Keys,        \* client ids
    KindOf,      \* what each client id is stamped on
    Restored,    \* tokens in use although the sequence has not handed them out
    MaxAttempts, \* inserts an intake tries (3 in create_job)
    None

Kinds == {"payment", "intake", "punch", "location", "sample"}

ASSUME ConstantsAssumption ==
    /\ KindOf \in [Keys -> Kinds]
    /\ Restored \subseteq Nat
    /\ MaxAttempts \in Nat \ {0}
    /\ None \notin Sends

VARIABLES
    rows,      \* the send whose row is committed for each key, or None
    voided,    \* keys of voided payments
    events,    \* committed timeline events about each key's insertion
    customers, \* committed customers created for each key's intake
    nextToken, \* job_token_seq
    pc, key,   \* where each send is, and the client id it carries
    token,     \* the token an intake has drawn last
    staged,    \* whether a send's open transaction has created a customer
    attempts   \* inserts a send has tried in vain

tables == <<rows, voided, events, customers>>
vars == <<rows, voided, events, customers, nextToken, pc, key, token, staged, attempts>>

-----------------------------------------------------------------------------
InFlight == {"missing", "linked", "inserted", "voiding"}
Answers == {"ok", "rejected", "error", "lost"}
Kind(s) == KindOf[key[s]]

\* The job-side writes append a timeline event, attendance and samples do not.
HasEvent(k) == KindOf[k] \in {"payment", "intake", "location"}

Init ==
    /\ rows = [k \in Keys |-> None]
    /\ voided = {}
    /\ events = [k \in Keys |-> 0]
    /\ customers = [k \in Keys |-> 0]
    /\ nextToken = 0
    /\ pc = [s \in Sends |-> "new"]
    /\ key \in [Sends -> Keys]
    /\ token = [s \in Sends |-> 0]
    /\ staged = [s \in Sends |-> 0]
    /\ attempts = [s \in Sends |-> 0]

-----------------------------------------------------------------------------
(* Transactions *)

Goto(s, where) == pc' = [pc EXCEPT ![s] = where]
CustomersStaged(s, n) == staged' = [staged EXCEPT ![s] = n]

\* Mutant: only a savepoint is rolled back, what was staged before it stays.
ToSavepoint(s) == staged[s]

\* What a session has staged once it is rolled back.
RolledBack(s) == 0

\* The request ends without a commit.
End(s, answer) ==
    /\ Goto(s, answer)
    /\ CustomersStaged(s, 0)
    /\ UNCHANGED <<tables, nextToken, key, token, attempts>>

\* The handler rolls its session back, finds the winner's row and returns; the
\* router then commits, whatever is still staged.
Recover(s) ==
    /\ customers' = [customers EXCEPT ![key[s]] = @ + RolledBack(s)]
    /\ Goto(s, "ok")
    /\ CustomersStaged(s, 0)
    /\ UNCHANGED <<rows, voided, events, nextToken, key, token, attempts>>

-----------------------------------------------------------------------------
(* Insertions *)

Stored(k) == rows[k] # None

\* The fast path: a row that is there already is the answer.  Samples have none.
LookUp(s) ==
    /\ pc[s] = "new"
    /\ IF Kind(s) # "sample" /\ Stored(key[s])
       THEN End(s, "ok")
       ELSE End(s, "missing")

\* An intake first resolves its customer, creates one if need be, and draws a
\* token, which no rollback returns.
LinkCustomer(s, created) ==
    /\ pc[s] = "missing" /\ Kind(s) = "intake"
    /\ Goto(s, "linked")
    /\ CustomersStaged(s, staged[s] + created)
    /\ token' = [token EXCEPT ![s] = nextToken]
    /\ nextToken' = nextToken + 1
    /\ UNCHANGED <<tables, key, attempts>>

Ready(s) == pc[s] = IF Kind(s) = "intake" THEN "linked" ELSE "missing"

\* A unique index makes an insertion wait for an open transaction that has
\* inserted the same key, and fail once that has committed.
\* Mutant: no unique constraint on client_id.
Unconstrained(s) == FALSE
Taken(s) == Stored(key[s])
Waits(s) == \E t \in Sends \ {s} : key[t] = key[s] /\ pc[t] = "inserted"

\* The token drawn for an intake belongs to a job already (uq_job_token).
TokenTaken(s) == Kind(s) = "intake" /\ token[s] \in Restored

Insert(s) ==
    /\ Ready(s) /\ ~Waits(s)
    /\ ~Taken(s) /\ ~TokenTaken(s)
    /\ Goto(s, "inserted")
    /\ UNCHANGED <<tables, nextToken, key, token, staged, attempts>>

\* Mutant: the fast path is thought to be enough for payments.
RecoversPunches == {"intake", "punch", "sample"}

\* The kinds that recover when the insertion finds the key taken.  ON CONFLICT
\* DO NOTHING inserts nothing and succeeds.
Recovers == {"payment", "intake", "punch", "sample"}

\* Mutant: the loser appends the event too.
RecoverAndTell(s) ==
    /\ Ready(s) /\ Taken(s)
    /\ Goto(s, "ok")
    /\ events' = [events EXCEPT ![key[s]] = @ + IF HasEvent(key[s]) THEN 1 ELSE 0]
    /\ UNCHANGED <<rows, voided, customers, nextToken, key, token, staged, attempts>>

\* The insertion fails on client_id.
LoseRace(s) ==
    /\ Ready(s) /\ Taken(s)
    /\ IF Kind(s) \in Recovers THEN Recover(s) ELSE End(s, "error")

GivesUp(s) == attempts[s] + 1 = MaxAttempts

\* The insertion fails on the token, whose index is the older one and does not
\* wait; no job has the client id, so roll back and try the next token.
RetryToken(s) ==
    /\ Ready(s) /\ ~Taken(s) /\ TokenTaken(s)
    /\ attempts' = [attempts EXCEPT ![s] = @ + 1]
    /\ CustomersStaged(s, RolledBack(s))
    /\ Goto(s, IF GivesUp(s) THEN "error" ELSE "missing")
    /\ UNCHANGED <<tables, nextToken, key, token>>

\* Mutant: the router returns the handler's answer without a commit.
ForgetCommit(s) == pc[s] = "inserted" /\ End(s, "ok")

\* The event is appended and the router commits.
Commit(s) ==
    /\ pc[s] = "inserted"
    /\ rows' = [rows EXCEPT ![key[s]] = s]
    /\ events' = [events EXCEPT ![key[s]] = @ + IF HasEvent(key[s]) THEN 1 ELSE 0]
    /\ customers' = [customers EXCEPT ![key[s]] = @ + staged[s]]
    /\ Goto(s, "ok")
    /\ CustomersStaged(s, 0)
    /\ UNCHANGED <<voided, nextToken, key, token, attempts>>

-----------------------------------------------------------------------------
(* Voiding a payment *)

LoadPayment(s) ==
    /\ pc[s] = "new" /\ Kind(s) = "payment"
    /\ End(s, IF Stored(key[s]) THEN "voiding" ELSE "rejected")

VoidPayment(s) ==
    /\ pc[s] = "voiding"
    /\ voided' = voided \cup {key[s]}
    /\ Goto(s, "ok")
    /\ UNCHANGED <<rows, events, customers, nextToken, key, token, staged, attempts>>

-----------------------------------------------------------------------------
\* The request dies before its commit; or all of them do, with the process.
Abort(s) == pc[s] \in InFlight /\ End(s, "lost")

Restart ==
    /\ pc' = [s \in Sends |-> IF pc[s] \in InFlight THEN "lost" ELSE pc[s]]
    /\ staged' = [s \in Sends |-> 0]
    /\ UNCHANGED <<tables, nextToken, key, token, attempts>>

Next ==
    \/ \E s \in Sends :
          \/ LookUp(s)
          \/ \E created \in {0, 1} : LinkCustomer(s, created)
          \/ Insert(s)
          \/ LoseRace(s)
          \/ RetryToken(s)
          \/ Commit(s)
          \/ LoadPayment(s)
          \/ VoidPayment(s)
          \/ Abort(s)
    \/ Restart

Spec == Init /\ [][Next]_vars

-----------------------------------------------------------------------------
(* Invariants *)

TypeOK ==
    /\ rows \in [Keys -> Sends \cup {None}]
    /\ voided \subseteq Keys
    /\ events \in [Keys -> Nat]
    /\ customers \in [Keys -> Nat]
    /\ nextToken \in Nat
    /\ pc \in [Sends -> {"new"} \cup InFlight \cup Answers]
    /\ key \in [Sends -> Keys]
    /\ token \in [Sends -> Nat]
    /\ staged \in [Sends -> {0, 1}]
    /\ attempts \in [Sends -> 0..MaxAttempts]

\* An acknowledged write is stored, whichever of its sends stored it: a client
\* that hears "ok" may forget the write (log_payment, create_job, record_punch).
AcknowledgedIsStored == \A s \in Sends : pc[s] = "ok" => Stored(key[s])

\* A stored write has exactly one event on the timeline, and one that is not
\* stored has none: neither a replay nor a lost race appends another.
OneEventEach ==
    \A k \in Keys : events[k] = IF Stored(k) /\ HasEvent(k) THEN 1 ELSE 0

\* Only the send that stored an intake leaves the customer it created behind:
\* no retry, race or crash leaves a second or an ownerless one (_link_customer).
CustomersBelong ==
    \A k \in Keys : customers[k] <= IF Stored(k) THEN 1 ELSE 0

-----------------------------------------------------------------------------
(* Action properties and refinement *)

\* A duplicate of a stored write is never answered with a server error, except
\* for a GPS punch, whose insertion does not recover (log_payment: "a 500 for
\* what is actually a successful no-op").
ReplaysSucceed ==
    [][\A s \in Sends :
          pc'[s] = "error" /\ pc[s] # "error" /\ Kind(s) # "location" => ~Stored(key[s])]_vars

\* The tables are a write-once ledger, however sends interleave and die.
L == INSTANCE Ledger WITH entries <- rows
WriteOnceLedger == L!Spec
=============================================================================
