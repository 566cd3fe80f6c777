--------------------------- MODULE DeliveryStatus ---------------------------
(* What becomes of one WhatsApp message once it is posted: the row that       *)
(* send_cloud_message commits, the statuses the provider moves through, and   *)
(* the webhooks that tell of them, early, late, repeated, out of order and at *)
(* the same time (receive_webhook, apply_status_update).                      *)
EXTENDS Naturals, Sequences, FiniteSets

CONSTANTS
    Hooks,     \* webhook requests
    MaxNews,   \* bound on the statuses that one of them carries
    NoRow      \* no row is committed, or none was found

ASSUME DeliveryAssumption == MaxNews \in Nat \ {0}

VARIABLES
    message,   \* the committed row: its status, and whether it has the wamid
    posting,   \* where send_cloud_message is
    reached,   \* the statuses the provider has reached
    hook,      \* the webhook requests made so far
    folded,    \* history: the statuses folded into the row, committed
    overwritten \* history: a webhook that had loaded an older row has put the
                \* status back

deliveryVars == <<message, posting, reached, hook, folded, overwritten>>

-----------------------------------------------------------------------------
Statuses == {"pending", "sent", "delivered", "read", "failed"}

\* _STATUS_RANK
Rank == [s \in Statuses |-> CASE s = "pending" -> 0 [] s = "sent" -> 1 [] s = "delivered" -> 2
                              [] s = "read" -> 3 [] s = "failed" -> 4]

\* The columns of customer_message that a status touches.
CustomerMessage == [status : Statuses, wamid : BOOLEAN]

ASSUME NoRowIsApart == NoRow \notin CustomerMessage

Silent == [news |-> <<>>, row |-> NoRow, loaded |-> NoRow, seen |-> {}, pc |-> "new"]

DeliveryInit ==
    /\ message = NoRow /\ posting = "claimed" /\ reached = {}
    /\ hook = [h \in Hooks |-> Silent]
    /\ folded = {} /\ overwritten = FALSE

-----------------------------------------------------------------------------
(* The send, from the claim on: the row is flushed, not committed            *)

\* The provider accepts the message, whether or not its answer arrives.
Post ==
    /\ posting = "claimed" /\ reached = {}
    /\ reached' = {"sent"}
    /\ \E next \in {"answered", "failed"} : posting' = next
    /\ UNCHANGED <<message, hook, folded, overwritten>>

\* It refuses it, or is never reached.
PostRefused ==
    /\ posting = "claimed" /\ posting' = "failed"
    /\ UNCHANGED <<message, reached, hook, folded, overwritten>>

\* The caller commits the row: "sent" with the wamid, or "failed" without.
CommitMessage ==
    /\ posting \in {"answered", "failed"} /\ posting' = "committed"
    /\ message' = IF posting = "answered" THEN [status |-> "sent", wamid |-> TRUE]
                  ELSE [status |-> "failed", wamid |-> FALSE]
    /\ UNCHANGED <<reached, hook, folded, overwritten>>

\* The process dies, and with it the row.
LoseMessage ==
    /\ posting \in {"claimed", "answered", "failed"} /\ posting' = "lost"
    /\ UNCHANGED <<message, reached, hook, folded, overwritten>>

\* The provider's own progress; it may fail at any point before the reading.
Progress ==
    /\ \E s \in {"delivered", "read", "failed"} :
         /\ reached # {} /\ reached \cap {"read", "failed", s} = {}
         /\ s = "read" => "delivered" \in reached
         /\ reached' = reached \cup {s}
    /\ UNCHANGED <<message, posting, hook, folded, overwritten>>

-----------------------------------------------------------------------------
(* Webhooks                                                                  *)

\* A webhook tells of statuses that were reached, in some order, perhaps again.
ReceiveWebhook(h) ==
    /\ hook[h].pc = "new"
    /\ \E n \in 1..MaxNews : \E news \in [1..n -> reached] :
         hook' = [hook EXCEPT ![h] = [Silent EXCEPT !.news = news, !.pc = "folding"]]
    /\ UNCHANGED <<message, posting, reached, folded, overwritten>>

\* Mutant: whatever comes last is taken.
LastTold(status, told) == told

\* Only a higher rank moves the row.
Folded(status, told) == IF Rank[told] <= Rank[status] THEN status ELSE told

\* apply_status_update, for the next status: the row is looked up by its wamid
\* until it is found, and the one that was found is used from then on.
ApplyStatusUpdate(h) ==
    LET next == Head(hook[h].news)
        new  == hook[h].row = NoRow /\ message # NoRow /\ message.wamid
        row  == IF new THEN message ELSE hook[h].row
    IN
    /\ hook[h].pc = "folding" /\ hook[h].news # <<>>
    /\ hook' = [hook EXCEPT
                  ![h].news = Tail(@),
                  ![h].loaded = IF new THEN message ELSE @,
                  ![h].row = IF row = NoRow THEN NoRow ELSE [row EXCEPT !.status = Folded(@, next)],
                  ![h].seen = IF row = NoRow THEN @ ELSE @ \cup {next}]
    /\ UNCHANGED <<message, posting, reached, folded, overwritten>>

\* The commit writes the status if it differs from the loaded one; answered
\* 200, also if no row was found, so the provider does not send this one again.
CommitWebhook(h) ==
    LET moved == hook[h].row # hook[h].loaded IN
    /\ hook[h].pc = "folding" /\ hook[h].news = <<>>
    /\ message' = IF moved THEN [message EXCEPT !.status = hook[h].row.status] ELSE message
    /\ overwritten' = (\/ overwritten
                       \/ moved /\ message # hook[h].loaded /\ Rank[message'.status] < Rank[message.status])
    /\ folded' = folded \cup hook[h].seen
    /\ hook' = [hook EXCEPT ![h] = [Silent EXCEPT !.pc = "answered"]]
    /\ UNCHANGED <<posting, reached>>

\* No answer: the provider sends it again, as one of the webhooks to come.
LoseWebhook(h) ==
    /\ hook[h].pc = "folding"
    /\ hook' = [hook EXCEPT ![h] = Silent]
    /\ UNCHANGED <<message, posting, reached, folded, overwritten>>

DeliveryNext ==
    \/ Post \/ PostRefused \/ CommitMessage \/ LoseMessage \/ Progress
    \/ \E h \in Hooks : \/ ReceiveWebhook(h) \/ ApplyStatusUpdate(h)
                        \/ CommitWebhook(h) \/ LoseWebhook(h)

DeliverySpec == DeliveryInit /\ [][DeliveryNext]_deliveryVars

-----------------------------------------------------------------------------
(* Properties                                                                *)

\* "Forward-only, so an out-of-order 'delivered' after 'read' can't regress the
\* row" (_STATUS_RANK): the status of a sent message is the highest-ranked one
\* any webhook has told it, whatever their order and however often they come,
\* unless two were folded into the same loaded row.  It is never a status the
\* provider has not reached.
DeliveryStatusHonest ==
    (message # NoRow /\ message.wamid) =>
      /\ message.status \in reached
      /\ ~overwritten => \A s \in folded \cup {"sent"} : Rank[s] <= Rank[message.status]
      /\ ~overwritten => message.status \in folded \cup {"sent"}
=============================================================================
