------------------------------ MODULE Dispatch ------------------------------
(* The job_event outbox and its WhatsApp consumer: requests append events,   *)
(* run_dispatch_once drains them past a cursor, send_cloud_message decides   *)
(* and performs at most one automated message per (job, kind), and the       *)
(* manual send endpoint takes the same decision in a transaction of its own. *)
(*                                                                           *)
(* An event's seq is drawn from a database sequence when it is flushed and   *)
(* becomes visible when its transaction commits: the two orders may differ.  *)
(* Everything a dispatcher batch does, and everything one manual send does,  *)
(* is one transaction: it becomes visible, or is lost, as a whole - except   *)
(* the POST to the provider, which no rollback takes back.                   *)
EXTENDS Naturals, FiniteSets, Sequences

CONSTANTS
    Producers,   \* requests that append one event each
    Senders,     \* requests to the manual send endpoint
    Messages,    \* (job, message kind) pairs an event or a sender may ask for
    Dispatcher,  \* the scheduled dispatcher; one instance (max_instances = 1)
    Passed,      \* the content of an event that triggers no message
    Poisoned,    \* the content of an event whose handler raises
    Content,     \* the content of each producer's event
    Limit,       \* events per batch
    MaxRestarts  \* bound: process restarts

ASSUME ConstantsAssumption ==
    /\ Dispatcher \notin Senders
    /\ Passed \notin Messages /\ Poisoned \notin Messages
    /\ Content \in [Producers -> Messages \cup {Passed, Poisoned}]
    /\ Limit \in Nat \ {0}
    /\ MaxRestarts \in Nat

Agents == Senders \cup {Dispatcher}

VARIABLES
    nextSeq,    \* the database sequence behind job_event.seq
    drawn,      \* the seq each producer drew; 0 before it did
    state,      \* each producer: "new", "drawn", "committed" or "gone"
    cursor,     \* committed dispatch_cursor.last_seq
    rows,       \* committed customer_message status per message, or "none"
    tx,         \* the rows each agent's open transaction has added
    agent,      \* where each agent is
    wanted,     \* the message each agent is working on
    batch,      \* the events of the current batch still to be handled
    position,   \* last_seq as the open batch has it
    done,       \* seqs the open batch has handled
    restarts,   \* process restarts so far
    handled,    \* history: seqs handled by a committed batch
    seenUpTo,   \* history: the highest seq any batch has read
    late,       \* history: seqs committed below seenUpTo
    delivered,  \* history: times the provider accepted each message
    hits,       \* history: messages each open transaction got delivered
    orphaned    \* history: deliveries whose transaction was rolled back

eventVars == <<nextSeq, drawn, state>>
batchVars == <<batch, position, done>>
histVars == <<handled, seenUpTo, late>>
postVars == <<delivered, hits, orphaned>>
vars == <<nextSeq, drawn, state, cursor, rows, tx, agent, wanted, batch, position, done,
          restarts, handled, seenUpTo, late, delivered, hits, orphaned>>

-----------------------------------------------------------------------------
Statuses == {"none", "pending", "sent", "failed", "suppressed"}
NoRows == [m \in Messages |-> "none"]

\* The committed events and their seqs.
Committed == {p \in Producers : state[p] = "committed"}
Visible == {drawn[p] : p \in Committed}
ContentOf(s) == Content[CHOOSE p \in Committed : drawn[p] = s]

Init ==
    /\ nextSeq = 1
    /\ drawn = [p \in Producers |-> 0]
    /\ state = [p \in Producers |-> "new"]
    /\ cursor = 0
    /\ rows = NoRows
    /\ tx = [a \in Agents |-> NoRows]
    /\ agent = [a \in Agents |-> "idle"]
    /\ wanted = [a \in Agents |-> Passed]
    /\ batch = <<>>
    /\ position = 0
    /\ done = {}
    /\ restarts = 0
    /\ handled = {}
    /\ seenUpTo = 0
    /\ late = {}
    /\ delivered = [m \in Messages |-> 0]
    /\ hits = [a \in Agents |-> {}]
    /\ orphaned = [m \in Messages |-> 0]

-----------------------------------------------------------------------------
(* Producers: a request that appends an event with add_event *)

DrawSeq(p) ==
    /\ state[p] = "new"
    /\ state' = [state EXCEPT ![p] = "drawn"]
    /\ drawn' = [drawn EXCEPT ![p] = nextSeq]
    /\ nextSeq' = nextSeq + 1
    /\ UNCHANGED <<cursor, rows, tx, agent, wanted, batchVars, restarts, histVars,
                   postVars>>

CommitEvent(p) ==
    /\ state[p] = "drawn"
    /\ state' = [state EXCEPT ![p] = "committed"]
    /\ late' = IF drawn[p] < seenUpTo THEN late \cup {drawn[p]} ELSE late
    /\ UNCHANGED <<nextSeq, drawn, cursor, rows, tx, agent, wanted, batchVars,
                   restarts, handled, seenUpTo, postVars>>

\* The request fails: its seq is never used.
RollbackEvent(p) ==
    /\ state[p] = "drawn"
    /\ state' = [state EXCEPT ![p] = "gone"]
    /\ UNCHANGED <<nextSeq, drawn, cursor, rows, tx, agent, wanted, batchVars,
                   restarts, histVars, postVars>>

-----------------------------------------------------------------------------
(* Transactions of the agents *)

\* Where agent a is once its transaction is over: the dispatcher ticks again, a
\* request has been answered.
After(a) == IF a = Dispatcher THEN "idle" ELSE "answered"

\* The transactions of the agents in A are rolled back; what the provider
\* accepted for them stays accepted.
RollbackAll(A) ==
    /\ tx' = [a \in Agents |-> IF a \in A THEN NoRows ELSE tx[a]]
    /\ agent' = [a \in Agents |-> IF a \in A THEN After(a) ELSE agent[a]]
    /\ wanted' = [a \in Agents |-> IF a \in A THEN Passed ELSE wanted[a]]
    /\ hits' = [a \in Agents |-> IF a \in A THEN {} ELSE hits[a]]
    /\ orphaned' = [m \in Messages |->
                       IF \E a \in A : m \in hits[a] THEN orphaned[m] + 1 ELSE orphaned[m]]
    /\ UNCHANGED delivered

DropBatch == batch' = <<>> /\ position' = 0 /\ done' = {}

\* Agent a's transaction commits: the rows it added become visible.
CommitRows(a) ==
    /\ rows' = [m \in Messages |-> IF tx[a][m] # "none" THEN tx[a][m] ELSE rows[m]]
    /\ tx' = [tx EXCEPT ![a] = NoRows]
    /\ agent' = [agent EXCEPT ![a] = After(a)]
    /\ wanted' = [wanted EXCEPT ![a] = Passed]
    /\ hits' = [hits EXCEPT ![a] = {}]
    /\ UNCHANGED <<delivered, orphaned>>

-----------------------------------------------------------------------------
(* The dispatcher *)

\* The visible events past the cursor in seq order, at most Limit of them.
Pending == {s \in Visible : s > cursor}
\* Mutant: the query forgets ORDER BY.
NewestFirst(S) ==
    CHOOSE q \in [1..Cardinality(S) -> S] : \A i, j \in DOMAIN q : i < j => q[i] > q[j]
Ordered(S) ==
    CHOOSE q \in [1..Cardinality(S) -> S] : \A i, j \in DOMAIN q : i < j => q[i] < q[j]
FirstOf(q) == SubSeq(q, 1, IF Len(q) < Limit THEN Len(q) ELSE Limit)

Drain ==
    /\ agent[Dispatcher] = "idle"
    /\ Pending # {}
    /\ batch' = FirstOf(Ordered(Pending))
    /\ position' = cursor
    /\ done' = {}
    /\ seenUpTo' = LET top == batch'[Len(batch')] IN IF top > seenUpTo THEN top ELSE seenUpTo
    /\ agent' = [agent EXCEPT ![Dispatcher] = "next"]
    /\ UNCHANGED <<eventVars, cursor, rows, tx, wanted, restarts, handled, late, postVars>>

\* The batch moves past its first event.
Advance ==
    /\ position' = Head(batch)
    /\ done' = done \cup {Head(batch)}
    /\ batch' = Tail(batch)

\* Mutant: a poisoned event halts the batch, as without a dead_letter handler.
PassOrHalt ==
    /\ agent[Dispatcher] = "next" /\ batch # <<>>
    /\ ContentOf(Head(batch)) \in {Passed, Poisoned}
    /\ IF ContentOf(Head(batch)) = Passed
       THEN Advance
       ELSE batch' = <<>> /\ UNCHANGED <<position, done>>
    /\ UNCHANGED <<eventVars, cursor, rows, tx, agent, wanted, restarts, histVars, postVars>>

\* The handler accepts the event at once, or raises and it is dead-lettered.
PassEvent ==
    /\ agent[Dispatcher] = "next" /\ batch # <<>>
    /\ ContentOf(Head(batch)) \in {Passed, Poisoned}
    /\ Advance
    /\ UNCHANGED <<eventVars, cursor, rows, tx, agent, wanted, restarts, histVars, postVars>>

\* The handler calls send_cloud_message for the event's message.
TakeEvent ==
    /\ agent[Dispatcher] = "next" /\ batch # <<>>
    /\ ContentOf(Head(batch)) \in Messages
    /\ wanted' = [wanted EXCEPT ![Dispatcher] = ContentOf(Head(batch))]
    /\ agent' = [agent EXCEPT ![Dispatcher] = "asked"]
    /\ UNCHANGED <<eventVars, cursor, rows, tx, batchVars, restarts, histVars, postVars>>

CommitBatch ==
    /\ agent[Dispatcher] = "next" /\ batch = <<>>
    /\ cursor' = position
    /\ handled' = handled \cup done
    /\ CommitRows(Dispatcher)
    /\ DropBatch
    /\ UNCHANGED <<eventVars, restarts, seenUpTo, late>>

-----------------------------------------------------------------------------
(* send_cloud_message, on behalf of either kind of agent *)

\* The call returns: the dispatcher takes its next event, a sender commits.
Return(a) ==
    IF a = Dispatcher
    THEN /\ agent' = [agent EXCEPT ![a] = "next"] /\ Advance
    ELSE /\ agent' = [agent EXCEPT ![a] = "sent"] /\ UNCHANGED batchVars

\* A manual send arrives.
AskToSend(a, m) ==
    /\ a \in Senders /\ agent[a] = "idle"
    /\ wanted' = [wanted EXCEPT ![a] = m]
    /\ agent' = [agent EXCEPT ![a] = "asked"]
    /\ UNCHANGED <<eventVars, cursor, rows, tx, batchVars, restarts, histVars, postVars>>

\* A decision is there already, in the database or in the own transaction.
Decided(a, m) == rows[m] # "none" \/ tx[a][m] # "none"

LookUp(a) ==
    /\ agent[a] = "asked"
    /\ IF Decided(a, wanted[a])
       THEN Return(a)
       ELSE agent' = [agent EXCEPT ![a] = "missing"] /\ UNCHANGED batchVars
    /\ UNCHANGED <<eventVars, cursor, rows, tx, wanted, restarts, histVars, postVars>>

\* Insert the row, pending or - without consent or an addressable phone -
\* suppressed.  uq_customer_message_job_kind makes the insert wait for a
\* transaction that has the row uncommitted, and fail once it is committed.
\* Mutant: no unique constraint, so nothing to wait for.
NeverBlocked(a, m) == FALSE
Blocked(a, m) == \E b \in Agents \ {a} : tx[b][m] # "none"

\* Mutant: the insert overwrites the row another transaction committed.
Overwrite(a, decision) ==
    /\ agent[a] = "missing"
    /\ ~Blocked(a, wanted[a])
    /\ tx' = [tx EXCEPT ![a][wanted[a]] = decision]
    /\ IF decision = "suppressed"
       THEN Return(a)
       ELSE agent' = [agent EXCEPT ![a] = "claimed"] /\ UNCHANGED batchVars
    /\ UNCHANGED <<eventVars, cursor, rows, wanted, restarts, histVars, postVars>>

Claim(a, decision) ==
    /\ agent[a] = "missing"
    /\ ~Blocked(a, wanted[a])
    /\ rows[wanted[a]] = "none"
    /\ tx' = [tx EXCEPT ![a][wanted[a]] = decision]
    /\ IF decision = "suppressed"
       THEN Return(a)
       ELSE agent' = [agent EXCEPT ![a] = "claimed"] /\ UNCHANGED batchVars
    /\ UNCHANGED <<eventVars, cursor, rows, wanted, restarts, histVars, postVars>>

\* The insert fails and the session is rolled back.  A sender answers with the
\* winner's row.  For the dispatcher the rollback also expires the events it
\* loaded, reading event.seq then raises, and the whole batch is lost.
LoseRace(a) ==
    /\ agent[a] = "missing"
    /\ ~Blocked(a, wanted[a])
    /\ rows[wanted[a]] # "none"
    /\ RollbackAll({a})
    /\ IF a = Dispatcher THEN DropBatch ELSE UNCHANGED batchVars
    /\ UNCHANGED <<eventVars, cursor, rows, restarts, histVars>>

\* Mutant: after an exception the code goes on to the line that marks the row sent.
FallThrough(a, accepted, acknowledged) ==
    /\ agent[a] = "claimed"
    /\ acknowledged => accepted
    /\ tx' = [tx EXCEPT ![a][wanted[a]] = "sent"]
    /\ IF accepted
       THEN /\ delivered' = [delivered EXCEPT ![wanted[a]] = @ + 1]
            /\ hits' = [hits EXCEPT ![a] = @ \cup {wanted[a]}]
       ELSE UNCHANGED <<delivered, hits>>
    /\ Return(a)
    /\ UNCHANGED <<eventVars, cursor, rows, wanted, restarts, histVars, orphaned>>

\* The POST: accepted; or refused; or accepted but timed out on our side.
Post(a, accepted, acknowledged) ==
    /\ agent[a] = "claimed"
    /\ acknowledged => accepted
    /\ tx' = [tx EXCEPT ![a][wanted[a]] = IF acknowledged THEN "sent" ELSE "failed"]
    /\ IF accepted
       THEN /\ delivered' = [delivered EXCEPT ![wanted[a]] = @ + 1]
            /\ hits' = [hits EXCEPT ![a] = @ \cup {wanted[a]}]
       ELSE UNCHANGED <<delivered, hits>>
    /\ Return(a)
    /\ UNCHANGED <<eventVars, cursor, rows, wanted, restarts, histVars, orphaned>>

\* The manual send endpoint commits its row.
CommitSend(a) ==
    /\ a \in Senders /\ agent[a] = "sent"
    /\ CommitRows(a)
    /\ UNCHANGED <<eventVars, cursor, batchVars, restarts, histVars>>

-----------------------------------------------------------------------------
\* The process dies with every transaction it had open, requests included.
Restart ==
    /\ restarts < MaxRestarts
    /\ restarts' = restarts + 1
    /\ RollbackAll({a \in Agents : agent[a] # "idle"})
    /\ DropBatch
    /\ state' = [p \in Producers |-> IF state[p] = "drawn" THEN "gone" ELSE state[p]]
    /\ UNCHANGED <<nextSeq, drawn, cursor, rows, histVars>>

Produce(p) == DrawSeq(p) \/ CommitEvent(p) \/ RollbackEvent(p)

Send(a) ==
    \/ LookUp(a)
    \/ \E decision \in {"pending", "suppressed"} : Claim(a, decision)
    \/ LoseRace(a)
    \/ \E accepted, acknowledged \in BOOLEAN : Post(a, accepted, acknowledged)

Dispatch == Drain \/ PassEvent \/ TakeEvent \/ CommitBatch \/ Send(Dispatcher)
Serve(a) == Send(a) \/ CommitSend(a)

Next ==
    \/ \E p \in Producers : Produce(p)
    \/ Dispatch
    \/ \E a \in Senders : Serve(a) \/ \E m \in Messages : AskToSend(a, m)
    \/ Restart

Spec == Init /\ [][Next]_vars

\* The scheduler ticks for ever, a tick runs to its end (the POST times out
\* after ten seconds), and so does every request.
FairSpec == Spec /\ WF_vars(Dispatch) /\ \A a \in Senders : WF_vars(Serve(a))

-----------------------------------------------------------------------------
(* Invariants *)

Seqs == 1..Cardinality(Producers)

\* At most one decision per (job, kind): two transactions never hold a row for
\* the same message, nor does one while a row is committed
\* (uq_customer_message_job_kind, send_cloud_message).
OneDecision ==
    \A m \in Messages :
        /\ \A a, b \in Agents : tx[a][m] # "none" /\ tx[b][m] # "none" => a = b
        /\ rows[m] # "none" => \A a \in Agents : tx[a][m] = "none"

\* A message reaches the customer more than once only if a transaction that had
\* already got it delivered was rolled back: neither a replayed event, nor the
\* manual endpoint racing the dispatcher, sends it twice (send_cloud_message).
DuplicatesNeedRollback ==
    \A m \in Messages : delivered[m] <= orphaned[m] + 1

\* The cursor passes an event without its being handled only if the event
\* committed after a batch had read past its seq (run_dispatch_once).
OnlyLateEventsSkipped ==
    \A s \in Visible : s <= cursor /\ s \notin handled => s \in late

-----------------------------------------------------------------------------
(* Action and temporal properties *)

\* Batches, transactions, races and restarts implement the abstract decisions: of
\* each message there is one attempt at a time; a committed row says truthfully
\* what its attempt did and is never pending; it is final, even if consent arrives,
\* and nothing is posted for it any more; only rolled-back attempts reach the
\* customer besides (send_cloud_message: "exactly one decision
\* row ever exists per (job, kind)").
D == INSTANCE Decisions WITH decision <- rows, reached <- delivered, wasted <- orphaned
TruthfulDecisions == D!DecisionsSpec

\* Every event that commits in seq order is eventually handled or dead-lettered:
\* a poisoned event, a failing provider, a lost race or a restart holds the
\* queue up but never wedges it.
EventuallyHandled ==
    \A s \in Seqs : (s \in Visible /\ s \notin late) ~> (s \in handled)

\* The claim-before-send order never double-sends: a message is delivered at
\* most once, crash or no crash (the module comment of customer_messaging).
AtMostOnce == \A m \in Messages : delivered[m] <= 1
=============================================================================
