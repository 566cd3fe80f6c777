------------------------- MODULE Background_proofs --------------------------
(* Theorems about what the backend does besides answering: Dispatch, Push and *)
(* Rollup, for any number of events, senders, messages, phones, routes and  *)
(* restarts.                                                                *)
EXTENDS Dispatch, Push, Rollup, Induction, TLAPS

-----------------------------------------------------------------------------
(* Dispatch                                                                 *)

(* The part of the state the argument is about, and its type. *)
SendTypes ==
    /\ rows \in [Messages -> Statuses]
    /\ tx \in [Agents -> [Messages -> Statuses]]
    /\ agent \in [Agents -> {"idle", "next", "asked", "missing", "claimed", "sent", "answered"}]
    /\ wanted \in [Agents -> Messages \cup {Passed}]
    /\ delivered \in [Messages -> Nat]
    /\ orphaned \in [Messages -> Nat]
    /\ hits \in [Agents -> SUBSET Messages]

(* Where an agent is says what its transaction holds for the message it works *)
(* on: nothing before the insert, a pending row until the answer.             *)
WorkingOn ==
    \A a \in Agents :
        /\ agent[a] \in {"asked", "missing", "claimed"} => wanted[a] \in Messages
        /\ agent[a] = "missing" => tx[a][wanted[a]] = "none"
        /\ agent[a] = "claimed" => tx[a][wanted[a]] = "pending"

(* What a transaction got delivered it has a row for, and no longer a pending one. *)
HitsHaveRows ==
    \A a \in Agents : \A m \in hits[a] : tx[a][m] \notin {"none", "pending"}

(* A message nobody holds a delivered row for is fully accounted for by the   *)
(* deliveries that were rolled back.                                          *)
Accounted ==
    \A m \in Messages :
        rows[m] = "none" /\ (\A a \in Agents : m \notin hits[a]) => delivered[m] <= orphaned[m]

SendInv ==
    /\ SendTypes
    /\ OneDecision
    /\ WorkingOn
    /\ HitsHaveRows
    /\ Accounted
    /\ DuplicatesNeedRollback

sendVars == <<rows, tx, agent, wanted, delivered, hits, orphaned>>

LEMMA InitInv == Init => SendInv
  BY ConstantsAssumption DEF Init, SendInv, SendTypes, OneDecision, WorkingOn, HitsHaveRows,
     Accounted, DuplicatesNeedRollback, NoRows, Statuses, Agents

(* A step that leaves rows, tx, delivered, hits and orphaned alone, and moves *)
(* one agent without contradicting WorkingOn, preserves the invariant.        *)
LEMMA MoveInv ==
    ASSUME SendInv,
           UNCHANGED <<rows, tx, delivered, hits, orphaned>>,
           agent' \in [Agents -> {"idle", "next", "asked", "missing", "claimed", "sent", "answered"}],
           wanted' \in [Agents -> Messages \cup {Passed}],
           WorkingOn'
    PROVE  SendInv'
  BY DEF SendInv, SendTypes, OneDecision, WorkingOn, HitsHaveRows, Accounted,
     DuplicatesNeedRollback

(* Rolling transactions back keeps every decision, and moves what they had    *)
(* delivered from hits to orphaned.                                           *)
LEMMA RollbackInv ==
    ASSUME SendInv, NEW A \in SUBSET Agents, RollbackAll(A), UNCHANGED rows
    PROVE  SendInv'
  <1> USE DEF SendInv
  <1>1. SendTypes'
    BY DEF SendTypes, RollbackAll, NoRows, Statuses, After
  <1>2. OneDecision'
    BY DEF OneDecision, RollbackAll, NoRows, SendTypes
  <1>3. WorkingOn'
    BY DEF WorkingOn, RollbackAll, SendTypes, After
  <1>4. HitsHaveRows'
    BY DEF HitsHaveRows, RollbackAll, SendTypes
  <1>5. ASSUME NEW m \in Messages, rows[m] = "none", \A a \in Agents : m \notin hits'[a]
        PROVE  delivered'[m] <= orphaned'[m]
    <2>1. CASE \E a \in A : m \in hits[a]
      BY <2>1 DEF DuplicatesNeedRollback, RollbackAll, SendTypes
    <2>2. CASE \A a \in A : m \notin hits[a]
      <3>1. \A a \in Agents : m \notin hits[a]
        BY <1>5, <2>2 DEF RollbackAll, SendTypes
      <3> QED
        BY <1>5, <2>2, <3>1 DEF Accounted, RollbackAll, SendTypes
    <2> QED
      BY <2>1, <2>2
  <1>6. Accounted'
    BY <1>5 DEF Accounted
  <1>7. DuplicatesNeedRollback'
    BY DEF DuplicatesNeedRollback, RollbackAll, SendTypes
  <1> QED
    BY <1>1, <1>2, <1>3, <1>4, <1>6, <1>7

(* A commit turns a transaction's decisions into committed ones. *)
LEMMA CommitInv ==
    ASSUME SendInv, NEW a \in Agents, CommitRows(a)
    PROVE  SendInv'
  <1> USE DEF SendInv
  <1>1. SendTypes'
    BY DEF SendTypes, CommitRows, NoRows, Statuses, After
  <1>2. OneDecision'
    BY DEF OneDecision, CommitRows, NoRows, SendTypes
  <1>3. WorkingOn'
    BY DEF WorkingOn, CommitRows, SendTypes, After
  <1>4. HitsHaveRows'
    BY DEF HitsHaveRows, CommitRows, SendTypes
  <1>5. ASSUME NEW m \in Messages, rows'[m] = "none", \A b \in Agents : m \notin hits'[b]
        PROVE  delivered'[m] <= orphaned'[m]
    <2>1. tx[a][m] = "none" /\ rows[m] = "none"
      BY <1>5 DEF CommitRows, SendTypes
    <2>2. \A b \in Agents : m \notin hits[b]
      BY <1>5, <2>1 DEF CommitRows, SendTypes, HitsHaveRows
    <2> QED
      BY <2>1, <2>2 DEF Accounted, CommitRows
  <1>6. Accounted'
    BY <1>5 DEF Accounted
  <1>7. DuplicatesNeedRollback'
    BY DEF DuplicatesNeedRollback, CommitRows, SendTypes
  <1> QED
    BY <1>1, <1>2, <1>3, <1>4, <1>6, <1>7

(* The call returns: whoever made it is no longer working on the message. *)
LEMMA ReturnMoves ==
    ASSUME SendInv, NEW a \in Agents, Return(a)
    PROVE  /\ agent' \in [Agents -> {"idle", "next", "asked", "missing", "claimed", "sent",
                                    "answered"}]
           /\ agent'[a] \in {"next", "sent"}
           /\ \A b \in Agents \ {a} : agent'[b] = agent[b]
  BY DEF Return, SendInv, SendTypes

LEMMA LookUpInv ==
    ASSUME SendInv, NEW a \in Agents, LookUp(a)
    PROVE  SendInv'
  <1> USE DEF SendInv
  <1>1. /\ agent' \in [Agents -> {"idle", "next", "asked", "missing", "claimed", "sent", "answered"}]
        /\ \A b \in Agents \ {a} : agent'[b] = agent[b]
        /\ \/ agent'[a] \in {"next", "sent"}
           \/ agent'[a] = "missing" /\ ~Decided(a, wanted[a])
    BY ReturnMoves DEF LookUp, SendTypes
  <1>2. /\ UNCHANGED <<rows, tx, wanted, delivered, hits, orphaned>>
        /\ wanted[a] \in Messages
    BY DEF LookUp, postVars, WorkingOn
  <1>3. WorkingOn'
    BY <1>1, <1>2 DEF WorkingOn, Decided
  <1> QED
    BY <1>1, <1>2, <1>3, MoveInv DEF SendTypes

LEMMA ClaimInv ==
    ASSUME SendInv, NEW a \in Agents, NEW decision \in {"pending", "suppressed"},
           Claim(a, decision)
    PROVE  SendInv'
  <1> DEFINE w == wanted[a]
  <1> USE DEF SendInv
  <1>1. /\ agent' \in [Agents -> {"idle", "next", "asked", "missing", "claimed", "sent", "answered"}]
        /\ \A b \in Agents \ {a} : agent'[b] = agent[b]
        /\ \/ agent'[a] \in {"next", "sent"}
           \/ agent'[a] = "claimed" /\ decision = "pending"
    BY ReturnMoves DEF Claim, SendTypes
  <1>2. /\ UNCHANGED <<rows, wanted, delivered, hits, orphaned>>
        /\ w \in Messages /\ rows[w] = "none" /\ tx[a][w] = "none"
        /\ tx' = [tx EXCEPT ![a][w] = decision]
        /\ \A b \in Agents \ {a} : tx[b][w] = "none"
    BY DEF Claim, postVars, WorkingOn, Blocked, SendTypes
  <1>3. SendTypes'
    BY <1>1, <1>2 DEF SendTypes, Statuses
  <1>4. OneDecision'
    BY <1>2 DEF OneDecision, SendTypes
  <1>5. WorkingOn'
    BY <1>1, <1>2 DEF WorkingOn, SendTypes
  <1>6. HitsHaveRows'
    BY <1>2 DEF HitsHaveRows, SendTypes
  <1>7. Accounted' /\ DuplicatesNeedRollback'
    BY <1>2 DEF Accounted, DuplicatesNeedRollback
  <1> QED
    BY <1>3, <1>4, <1>5, <1>6, <1>7

(* The POST: nobody else has a row for the message, so it was not delivered   *)
(* by anybody whose transaction is still open or committed.                   *)
LEMMA PostInv ==
    ASSUME SendInv, NEW a \in Agents, NEW accepted \in BOOLEAN, NEW acknowledged \in BOOLEAN,
           Post(a, accepted, acknowledged)
    PROVE  SendInv'
  <1> DEFINE w == wanted[a]
             outcome == IF acknowledged THEN "sent" ELSE "failed"
  <1> USE DEF SendInv
  <1>1. /\ agent' \in [Agents -> {"idle", "next", "asked", "missing", "claimed", "sent", "answered"}]
        /\ \A b \in Agents \ {a} : agent'[b] = agent[b]
        /\ agent'[a] \in {"next", "sent"}
    BY ReturnMoves DEF Post
  <1>2. /\ UNCHANGED <<rows, wanted, orphaned>>
        /\ w \in Messages /\ tx[a][w] = "pending"
        /\ tx' = [tx EXCEPT ![a][w] = outcome]
    BY DEF Post, WorkingOn
  <1>3. /\ rows[w] = "none"
        /\ \A b \in Agents \ {a} : tx[b][w] = "none"
    BY <1>2 DEF OneDecision
  <1>4. \/ /\ delivered' = [delivered EXCEPT ![w] = @ + 1]
           /\ hits' = [hits EXCEPT ![a] = @ \cup {w}]
        \/ UNCHANGED <<delivered, hits>>
    BY DEF Post
  <1>5. delivered[w] <= orphaned[w]
    BY <1>2, <1>3 DEF Accounted, HitsHaveRows
  <1>6. SendTypes'
    <2>1. outcome \in Statuses
      BY DEF Statuses
    <2>2. tx' \in [Agents -> [Messages -> Statuses]]
      BY <1>2, <2>1 DEF SendTypes
    <2>3. delivered' \in [Messages -> Nat] /\ hits' \in [Agents -> SUBSET Messages]
      <3>1. delivered[w] + 1 \in Nat /\ hits[a] \cup {w} \in SUBSET Messages
        BY <1>2 DEF SendTypes
      <3> QED
        BY <1>4, <3>1 DEF SendTypes
    <2> QED
      BY <1>1, <1>2, <2>2, <2>3 DEF SendTypes
  <1>7. OneDecision'
    BY <1>2, <1>3 DEF OneDecision, SendTypes
  <1>8. WorkingOn'
    BY <1>1, <1>2 DEF WorkingOn, SendTypes
  <1>9. HitsHaveRows'
    BY <1>2, <1>4 DEF HitsHaveRows, SendTypes
  <1>10. Accounted'
    BY <1>2, <1>4 DEF Accounted, SendTypes
  <1>11. DuplicatesNeedRollback'
    BY <1>2, <1>4, <1>5 DEF DuplicatesNeedRollback, SendTypes
  <1> QED
    BY <1>6, <1>7, <1>8, <1>9, <1>10, <1>11

LEMMA LoseRaceInv ==
    ASSUME SendInv, NEW a \in Agents, LoseRace(a)
    PROVE  SendInv'
  BY RollbackInv, {a} \in SUBSET Agents DEF LoseRace

LEMMA SendKeepsInv ==
    ASSUME SendInv, NEW a \in Agents, Send(a)
    PROVE  SendInv'
  BY LookUpInv, ClaimInv, LoseRaceInv, PostInv DEF Send

LEMMA ProduceInv ==
    ASSUME SendInv, NEW p \in Producers, Produce(p)
    PROVE  SendInv'
  <1>1. UNCHANGED sendVars
    BY DEF Produce, DrawSeq, CommitEvent, RollbackEvent, postVars, sendVars
  <1> QED
    BY <1>1, MoveInv DEF sendVars, SendInv, SendTypes, WorkingOn

LEMMA DispatchInv ==
    ASSUME SendInv, Dispatch
    PROVE  SendInv'
  <1> Dispatcher \in Agents
    BY DEF Agents
  <1>1. CASE Drain
    <2>1. /\ UNCHANGED <<rows, tx, wanted, delivered, hits, orphaned>>
          /\ agent' = [agent EXCEPT ![Dispatcher] = "next"]
      BY <1>1 DEF Drain, postVars
    <2> QED
      BY <2>1, MoveInv DEF SendInv, SendTypes, WorkingOn
  <1>2. CASE PassEvent
    <2>1. UNCHANGED sendVars
      BY <1>2 DEF PassEvent, postVars, sendVars
    <2> QED
      BY <2>1, MoveInv DEF sendVars, SendInv, SendTypes, WorkingOn
  <1>3. CASE TakeEvent
    <2>1. /\ UNCHANGED <<rows, tx, delivered, hits, orphaned>>
          /\ agent' = [agent EXCEPT ![Dispatcher] = "asked"]
          /\ \E m \in Messages : wanted' = [wanted EXCEPT ![Dispatcher] = m]
      BY <1>3 DEF TakeEvent, postVars
    <2> QED
      BY <2>1, MoveInv DEF SendInv, SendTypes, WorkingOn
  <1>4. CASE CommitBatch
    BY <1>4, CommitInv DEF CommitBatch
  <1>5. CASE Send(Dispatcher)
    BY <1>5, SendKeepsInv
  <1> QED
    BY <1>1, <1>2, <1>3, <1>4, <1>5 DEF Dispatch

LEMMA AskInv ==
    ASSUME SendInv, NEW a \in Senders, NEW m \in Messages, AskToSend(a, m)
    PROVE  SendInv'
  <1>1. /\ UNCHANGED <<rows, tx, delivered, hits, orphaned>>
        /\ agent' = [agent EXCEPT ![a] = "asked"]
        /\ wanted' = [wanted EXCEPT ![a] = m]
        /\ a \in Agents
    BY DEF AskToSend, postVars, Agents
  <1> QED
    BY <1>1, MoveInv DEF SendInv, SendTypes, WorkingOn

LEMMA StepInv == SendInv /\ [Next]_vars => SendInv'
  <1> SUFFICES ASSUME SendInv, [Next]_vars
               PROVE  SendInv'
    OBVIOUS
  <1>1. ASSUME NEW p \in Producers, Produce(p) PROVE SendInv'
    BY <1>1, ProduceInv
  <1>2. CASE Dispatch
    BY <1>2, DispatchInv
  <1>3. ASSUME NEW a \in Senders, Serve(a) PROVE SendInv'
    BY <1>3, SendKeepsInv, CommitInv DEF Serve, CommitSend, Agents
  <1>4. ASSUME NEW a \in Senders, NEW m \in Messages, AskToSend(a, m) PROVE SendInv'
    BY <1>4, AskInv
  <1>5. CASE Restart
    BY <1>5, RollbackInv, {a \in Agents : agent[a] # "idle"} \in SUBSET Agents DEF Restart
  <1>6. CASE UNCHANGED vars
    <2>1. UNCHANGED sendVars
      BY <1>6 DEF vars, sendVars
    <2> QED
      BY <2>1, MoveInv DEF sendVars, SendInv, SendTypes, WorkingOn
  <1> QED
    BY <1>1, <1>2, <1>3, <1>4, <1>5, <1>6 DEF Next

LEMMA Invariant == Spec => []SendInv
  BY InitInv, StepInv, PTL DEF Spec

-----------------------------------------------------------------------------
(* The dispatcher and the manual endpoint never both hold a decision for the  *)
(* same message, nor a second one beside a committed one.                     *)
THEOREM AtMostOneDecision == Spec => []OneDecision
  BY Invariant, PTL DEF SendInv

(* However producers, batches, manual sends and restarts interleave, each     *)
(* delivery beyond the first is paid for by a rolled-back transaction that    *)
(* had already delivered the message.                                         *)
THEOREM DuplicatesAreRollbacks == Spec => []DuplicatesNeedRollback
  BY Invariant, PTL DEF SendInv

-----------------------------------------------------------------------------
(* The abstract decisions                                                   *)

\* An undecided message has reached the customer once more than went to waste if
\* an open transaction got it delivered, and else no more often.
Balance ==
    \A m \in Messages : rows[m] = "none" =>
        /\ (\A a \in Agents : m \notin hits[a]) => delivered[m] = orphaned[m]
        /\ (\E a \in Agents : m \in hits[a]) => delivered[m] = orphaned[m] + 1

\* A row says what its transaction did, and is pending for the time of the call only.
RowsAreTruthful ==
    \A a \in Agents : \A m \in Messages :
        /\ tx[a][m] = "sent" => m \in hits[a]
        /\ tx[a][m] = "suppressed" => m \notin hits[a]
        /\ tx[a][m] = "pending" => agent[a] = "claimed" /\ wanted[a] = m

TruthInv == Balance /\ RowsAreTruthful
Implements == [D!DecisionsNext]_(D!decisionVars)

\* What an open transaction got delivered is undecided, and nobody else's.
LEMMA HitsAreUndecided ==
    ASSUME SendInv, NEW a \in Agents, NEW m \in hits[a]
    PROVE  /\ m \in Messages /\ rows[m] = "none" /\ tx[a][m] \in {"sent", "failed", "suppressed"}
           /\ \A b \in Agents : m \in hits[b] => b = a
<1>1. m \in Messages /\ tx[a][m] \notin {"none", "pending"} /\ tx[a][m] \in Statuses
    BY DEF SendInv, SendTypes, HitsHaveRows
<1>2. \A b \in Agents : m \in hits[b] => tx[b][m] # "none"
    BY DEF SendInv, HitsHaveRows
<1>3. rows[m] = "none" /\ \A b \in Agents : tx[b][m] # "none" => b = a
    BY <1>1 DEF SendInv, OneDecision
<1> QED
    BY <1>1, <1>2, <1>3 DEF Statuses

LEMMA TruthInvInit == Init => TruthInv /\ D!DecisionsInit
<1> SUFFICES ASSUME Init PROVE TruthInv /\ D!DecisionsInit
    OBVIOUS
<1>1. /\ \A m \in Messages : rows[m] = "none" /\ delivered[m] = 0 /\ orphaned[m] = 0
      /\ \A a \in Agents : hits[a] = {} /\ \A m \in Messages : tx[a][m] = "none"
    BY DEF Init, NoRows
<1>2. D!DecisionsInit
    BY DEF Init, NoRows, D!DecisionsInit
<1> QED
    BY <1>1, <1>2 DEF TruthInv, Balance, RowsAreTruthful

\* A step that neither decides nor delivers, and leaves who is calling alone.
LEMMA QuietIsTruthful ==
    ASSUME TruthInv, UNCHANGED <<rows, tx, delivered, hits, orphaned>>,
           \A b \in Agents : agent[b] = "claimed" => agent'[b] = "claimed" /\ wanted'[b] = wanted[b]
    PROVE  TruthInv' /\ Implements
<1>1. Balance'
    BY DEF TruthInv, Balance
<1>2. RowsAreTruthful'
    BY DEF TruthInv, RowsAreTruthful
<1> QED
    BY <1>1, <1>2 DEF TruthInv, Implements, D!decisionVars

\* Rolled-back transactions waste what they got delivered.
LEMMA RollbackIsWaste ==
    ASSUME SendInv, TruthInv, NEW A \in SUBSET Agents, RollbackAll(A), UNCHANGED rows
    PROVE  TruthInv' /\ Implements
<1> DEFINE M == {m \in Messages : \E a \in A : m \in hits[a]}
<1>1. /\ tx' = [a \in Agents |-> IF a \in A THEN NoRows ELSE tx[a]]
      /\ agent' = [a \in Agents |-> IF a \in A THEN After(a) ELSE agent[a]]
      /\ wanted' = [a \in Agents |-> IF a \in A THEN Passed ELSE wanted[a]]
      /\ hits' = [a \in Agents |-> IF a \in A THEN {} ELSE hits[a]]
      /\ orphaned' = [m \in Messages |-> IF m \in M THEN orphaned[m] + 1 ELSE orphaned[m]]
      /\ delivered' = delivered
    BY DEF RollbackAll
<1>2. \A m \in M : m \in Messages /\ rows[m] = "none" /\ delivered[m] = orphaned[m] + 1
  <2> SUFFICES ASSUME NEW m \in M PROVE rows[m] = "none" /\ delivered[m] = orphaned[m] + 1
      OBVIOUS
  <2>1. PICK a \in Agents : m \in hits[a]
      OBVIOUS
  <2> QED
      BY <2>1, HitsAreUndecided DEF TruthInv, Balance
<1>3. \A m \in Messages : delivered[m] \in Nat /\ orphaned[m] \in Nat
    BY DEF SendInv, SendTypes
<1>4. M \in SUBSET Messages
    OBVIOUS
<1>5. ASSUME NEW m \in M, NEW a \in Agents PROVE m \notin hits'[a]
  <2>1. PICK b \in A : m \in hits[b]
      OBVIOUS
  <2> QED
      BY <1>1, <2>1, HitsAreUndecided
<1>6. ASSUME NEW m \in Messages, m \notin M, NEW a \in Agents PROVE m \in hits'[a] <=> m \in hits[a]
    BY <1>1, <1>6
<1> HIDE DEF M
<1>7. D!Waste(M)
  <2>1. \A m \in M : D!HasReached(m)
      BY <1>2, <1>3 DEF D!HasReached
  <2> QED
      BY <1>1, <1>2, <2>1 DEF D!Waste
<1>8. Balance'
  <2> SUFFICES ASSUME NEW m \in Messages, rows[m] = "none"
               PROVE  /\ (\A a \in Agents : m \notin hits'[a]) => delivered[m] = orphaned'[m]
                      /\ (\E a \in Agents : m \in hits'[a]) => delivered[m] = orphaned'[m] + 1
      BY <1>1 DEF Balance
  <2>1. CASE m \in M
      BY <1>1, <1>2, <1>5, <2>1
  <2>2. CASE m \notin M
      BY <1>1, <1>6, <2>2 DEF TruthInv, Balance
  <2> QED
      BY <2>1, <2>2
<1>9. RowsAreTruthful'
  <2> SUFFICES ASSUME NEW a \in Agents, NEW m \in Messages
               PROVE  /\ tx'[a][m] = "sent" => m \in hits'[a]
                      /\ tx'[a][m] = "suppressed" => m \notin hits'[a]
                      /\ tx'[a][m] = "pending" => agent'[a] = "claimed" /\ wanted'[a] = m
      BY DEF RowsAreTruthful
  <2>1. CASE a \in A
    <3>1. tx'[a][m] = "none"
        BY <1>1, <2>1 DEF NoRows
    <3> QED
        BY <3>1
  <2>2. CASE a \notin A
      BY <1>1, <2>2 DEF TruthInv, RowsAreTruthful
  <2> QED
      BY <2>1, <2>2
<1> QED
    BY <1>4, <1>7, <1>8, <1>9 DEF TruthInv, Implements, D!DecisionsNext

\* A commit decides what its transaction has rows for.
LEMMA CommitIsDecision ==
    ASSUME SendInv, TruthInv, NEW a \in Agents, CommitRows(a), agent[a] # "claimed"
    PROVE  TruthInv' /\ Implements
<1> DEFINE M == {m \in Messages : tx[a][m] # "none"}
           said == [m \in M |-> tx[a][m]]
<1>1. /\ rows' = [m \in Messages |-> IF m \in M THEN tx[a][m] ELSE rows[m]]
      /\ tx' = [tx EXCEPT ![a] = NoRows]
      /\ agent' = [agent EXCEPT ![a] = After(a)]
      /\ wanted' = [wanted EXCEPT ![a] = Passed]
      /\ hits' = [hits EXCEPT ![a] = {}]
      /\ delivered' = delivered /\ orphaned' = orphaned
    BY DEF CommitRows
<1>2. /\ tx \in [Agents -> [Messages -> Statuses]] /\ hits \in [Agents -> SUBSET Messages]
      /\ agent \in [Agents -> {"idle", "next", "asked", "missing", "claimed", "sent", "answered"}]
      /\ wanted \in [Agents -> Messages \cup {Passed}]
      /\ \A m \in Messages : delivered[m] \in Nat /\ orphaned[m] \in Nat
    BY DEF SendInv, SendTypes
<1>3. ASSUME NEW m \in M
      PROVE  /\ rows[m] = "none" /\ tx[a][m] \in {"sent", "failed", "suppressed"}
             /\ tx[a][m] \in D!Truthful(m)
  <2>1. rows[m] = "none" /\ \A b \in Agents : tx[b][m] # "none" => b = a
      BY DEF SendInv, OneDecision
  <2>2. tx[a][m] \in {"sent", "failed", "suppressed"}
      BY <1>2 DEF Statuses, TruthInv, RowsAreTruthful
  <2>3. \A b \in Agents : m \in hits[b] => b = a
      BY <2>1 DEF SendInv, HitsHaveRows
  <2>4. CASE m \in hits[a]
    <3>1. delivered[m] = orphaned[m] + 1
        BY <2>1, <2>4 DEF TruthInv, Balance
    <3>2. D!HasReached(m)
        BY <1>2, <3>1 DEF D!HasReached
    <3>3. tx[a][m] # "suppressed"
        BY <2>4 DEF TruthInv, RowsAreTruthful
    <3> QED
        BY <2>1, <2>2, <3>2, <3>3 DEF D!Truthful
  <2>5. CASE m \notin hits[a]
    <3>1. delivered[m] = orphaned[m]
        BY <2>1, <2>3, <2>5 DEF TruthInv, Balance
    <3>2. ~D!HasReached(m)
        BY <1>2, <3>1 DEF D!HasReached
    <3>3. tx[a][m] # "sent"
        BY <2>5 DEF TruthInv, RowsAreTruthful
    <3> QED
        BY <2>1, <2>2, <3>2, <3>3 DEF D!Truthful
  <2> QED
      BY <2>4, <2>5
<1>4. M \in SUBSET Messages
    OBVIOUS
<1>5. said \in [M -> {"sent", "failed", "suppressed"}] /\ \A m \in M : said[m] = tx[a][m]
    BY <1>3
<1>6. \A m \in Messages : m \notin M => rows'[m] = rows[m] /\ tx[a][m] = "none" /\ m \notin hits[a]
    BY <1>1 DEF SendInv, HitsHaveRows
<1>7. \A m \in M : rows'[m] # "none"
    BY <1>1, <1>3
<1> HIDE DEF M, said
<1>8. D!Decide(M)
  <2>1. rows' = [m \in Messages |-> IF m \in M THEN said[m] ELSE rows[m]]
      BY <1>1, <1>4, <1>5
  <2> QED
      BY <1>1, <1>3, <1>5, <2>1 DEF D!Decide
<1>9. Balance'
  <2> SUFFICES ASSUME NEW m \in Messages, rows'[m] = "none"
               PROVE  /\ (\A b \in Agents : m \notin hits'[b]) => delivered[m] = orphaned[m]
                      /\ (\E b \in Agents : m \in hits'[b]) => delivered[m] = orphaned[m] + 1
      BY <1>1 DEF Balance
  <2>1. rows[m] = "none" /\ m \notin hits[a]
      BY <1>6, <1>7
  <2>2. \A b \in Agents : m \in hits'[b] <=> m \in hits[b]
      BY <1>1, <1>2, <2>1
  <2> QED
      BY <2>1, <2>2 DEF TruthInv, Balance
<1>10. RowsAreTruthful'
  <2> SUFFICES ASSUME NEW b \in Agents, NEW m \in Messages
               PROVE  /\ tx'[b][m] = "sent" => m \in hits'[b]
                      /\ tx'[b][m] = "suppressed" => m \notin hits'[b]
                      /\ tx'[b][m] = "pending" => agent'[b] = "claimed" /\ wanted'[b] = m
      BY DEF RowsAreTruthful
  <2>1. CASE b = a
    <3>1. tx'[b][m] = "none"
        BY <1>1, <1>2, <2>1 DEF NoRows
    <3> QED
        BY <3>1
  <2>2. CASE b # a
    <3>1. tx'[b] = tx[b] /\ hits'[b] = hits[b] /\ agent'[b] = agent[b] /\ wanted'[b] = wanted[b]
        BY <1>1, <1>2, <2>2
    <3> QED
        BY <3>1 DEF TruthInv, RowsAreTruthful
  <2> QED
      BY <2>1, <2>2
<1> QED
    BY <1>4, <1>8, <1>9, <1>10 DEF TruthInv, Implements, D!DecisionsNext

LEMMA LookUpIsQuiet ==
    ASSUME SendInv, TruthInv, NEW a \in Agents, LookUp(a)
    PROVE  TruthInv' /\ Implements
<1>1. /\ agent[a] = "asked" /\ \A b \in Agents \ {a} : agent'[b] = agent[b]
      /\ UNCHANGED <<rows, tx, wanted, delivered, hits, orphaned>>
    BY ReturnMoves DEF LookUp, postVars, SendInv, SendTypes
<1> QED
    BY <1>1, QuietIsTruthful

\* The row is inserted: no decision yet, and nothing is delivered.
LEMMA ClaimIsQuiet ==
    ASSUME SendInv, TruthInv, NEW a \in Agents, NEW said \in {"pending", "suppressed"}, Claim(a, said)
    PROVE  TruthInv' /\ Implements
<1> DEFINE w == wanted[a]
<1>1. /\ agent[a] = "missing" /\ \A b \in Agents \ {a} : agent'[b] = agent[b]
      /\ said = "pending" => agent'[a] = "claimed"
      /\ UNCHANGED <<rows, wanted, delivered, hits, orphaned>>
    BY ReturnMoves DEF Claim, postVars, SendInv, SendTypes
<1>2. /\ w \in Messages /\ tx[a][w] = "none" /\ w \notin hits[a]
      /\ tx' = [tx EXCEPT ![a][w] = said] /\ tx \in [Agents -> [Messages -> Statuses]]
    BY <1>1 DEF Claim, SendInv, SendTypes, WorkingOn, HitsHaveRows
<1> HIDE DEF w
<1>3. /\ tx'[a][w] = said
      /\ \A b \in Agents : \A m \in Messages : b # a \/ m # w => tx'[b][m] = tx[b][m]
    BY <1>2
<1>4. Balance'
    BY <1>1 DEF TruthInv, Balance
<1>5. RowsAreTruthful'
  <2> SUFFICES ASSUME NEW b \in Agents, NEW m \in Messages
               PROVE  /\ tx'[b][m] = "sent" => m \in hits[b]
                      /\ tx'[b][m] = "suppressed" => m \notin hits[b]
                      /\ tx'[b][m] = "pending" => agent'[b] = "claimed" /\ wanted[b] = m
      BY <1>1 DEF RowsAreTruthful
  <2>1. CASE b = a /\ m = w
      BY <1>1, <1>2, <1>3, <2>1 DEF w
  <2>2. CASE b # a
      BY <1>1, <1>3, <2>2 DEF TruthInv, RowsAreTruthful
  <2>3. CASE b = a /\ m # w
      BY <1>1, <1>3, <2>3 DEF TruthInv, RowsAreTruthful
  <2> QED
      BY <2>1, <2>2, <2>3
<1> QED
    BY <1>1, <1>4, <1>5 DEF TruthInv, Implements, D!decisionVars

\* The POST: it reaches the customer for the first time in this attempt, or not.
LEMMA PostReaches ==
    ASSUME SendInv, TruthInv, NEW a \in Agents, NEW accepted \in BOOLEAN, NEW acknowledged \in BOOLEAN,
           Post(a, accepted, acknowledged)
    PROVE  TruthInv' /\ Implements
<1> DEFINE w == wanted[a]
           said == IF acknowledged THEN "sent" ELSE "failed"
<1>1. /\ agent[a] = "claimed" /\ \A b \in Agents \ {a} : agent'[b] = agent[b]
      /\ acknowledged => accepted
      /\ UNCHANGED <<rows, wanted, orphaned>>
      /\ tx' = [tx EXCEPT ![a][w] = said]
      /\ IF accepted
         THEN delivered' = [delivered EXCEPT ![w] = @ + 1] /\ hits' = [hits EXCEPT ![a] = @ \cup {w}]
         ELSE UNCHANGED <<delivered, hits>>
    BY ReturnMoves DEF Post
<1>2. /\ tx \in [Agents -> [Messages -> Statuses]] /\ hits \in [Agents -> SUBSET Messages]
      /\ delivered \in [Messages -> Nat] /\ orphaned \in [Messages -> Nat]
    BY DEF SendInv, SendTypes
<1>3. w \in Messages /\ tx[a][w] = "pending"
    BY <1>1 DEF SendInv, WorkingOn
<1>4. rows[w] = "none" /\ \A b \in Agents : w \notin hits[b]
  <2>1. rows[w] = "none" /\ \A b \in Agents : tx[b][w] # "none" => b = a
      BY <1>3 DEF SendInv, OneDecision
  <2>2. \A b \in Agents : w \in hits[b] => tx[b][w] # "none" /\ tx[b][w] # "pending"
      BY DEF SendInv, HitsHaveRows
  <2> QED
      BY <1>3, <2>1, <2>2
<1>5. delivered[w] = orphaned[w]
    BY <1>3, <1>4 DEF TruthInv, Balance
<1> HIDE DEF w
<1>6. /\ tx'[a][w] = said
      /\ \A b \in Agents : \A m \in Messages : b # a \/ m # w => tx'[b][m] = tx[b][m]
    BY <1>1, <1>2, <1>3
<1>7. /\ \A b \in Agents : \A m \in Messages : b # a \/ m # w => (m \in hits'[b] <=> m \in hits[b])
      /\ w \in hits'[a] <=> accepted
      /\ \A m \in Messages : m # w => delivered'[m] = delivered[m]
      /\ delivered'[w] = IF accepted THEN delivered[w] + 1 ELSE delivered[w]
    BY <1>1, <1>2, <1>3, <1>4
<1>8. Implements
  <2>1. CASE accepted
    <3>1. ~D!HasReached(w)
        BY <1>2, <1>3, <1>5 DEF D!HasReached
    <3>2. D!Reach(w)
        BY <1>1, <1>4, <2>1, <3>1 DEF D!Reach
    <3> QED
        BY <1>3, <3>2 DEF Implements, D!DecisionsNext
  <2>2. CASE ~accepted
      BY <1>1, <2>2 DEF Implements, D!decisionVars
  <2> QED
      BY <2>1, <2>2
<1>9. Balance'
  <2> SUFFICES ASSUME NEW m \in Messages, rows[m] = "none"
               PROVE  /\ (\A b \in Agents : m \notin hits'[b]) => delivered'[m] = orphaned[m]
                      /\ (\E b \in Agents : m \in hits'[b]) => delivered'[m] = orphaned[m] + 1
      BY <1>1 DEF Balance
  <2>1. CASE m = w
      BY <1>4, <1>5, <1>7, <2>1
  <2>2. CASE m # w
      BY <1>7, <2>2 DEF TruthInv, Balance
  <2> QED
      BY <2>1, <2>2
<1>10. RowsAreTruthful'
  <2> SUFFICES ASSUME NEW b \in Agents, NEW m \in Messages
               PROVE  /\ tx'[b][m] = "sent" => m \in hits'[b]
                      /\ tx'[b][m] = "suppressed" => m \notin hits'[b]
                      /\ tx'[b][m] = "pending" => agent'[b] = "claimed" /\ wanted[b] = m
      BY <1>1 DEF RowsAreTruthful
  <2>1. CASE b = a /\ m = w
      BY <1>1, <1>6, <1>7, <2>1
  <2>2. CASE b # a
      BY <1>1, <1>6, <1>7, <2>2 DEF TruthInv, RowsAreTruthful
  <2>3. CASE b = a /\ m # w
    <3>1. tx[a][m] # "pending"
        BY <2>3 DEF TruthInv, RowsAreTruthful, w
    <3> QED
        BY <1>6, <1>7, <2>3, <3>1 DEF TruthInv, RowsAreTruthful
  <2> QED
      BY <2>1, <2>2, <2>3
<1> QED
    BY <1>8, <1>9, <1>10 DEF TruthInv

LEMMA SendImplements ==
    ASSUME SendInv, TruthInv, NEW a \in Agents, Send(a)
    PROVE  TruthInv' /\ Implements
<1>1. CASE LoseRace(a)
  <2>1. {a} \in SUBSET Agents /\ RollbackAll({a}) /\ UNCHANGED rows
      BY <1>1 DEF LoseRace
  <2> QED
      BY <2>1, RollbackIsWaste
<1> QED
    BY <1>1, LookUpIsQuiet, ClaimIsQuiet, PostReaches DEF Send

LEMMA StepImplements == ASSUME SendInv, TruthInv, [Next]_vars PROVE TruthInv' /\ Implements
<1>1. ASSUME NEW p \in Producers, Produce(p) PROVE TruthInv' /\ Implements
  <2>1. UNCHANGED <<rows, tx, delivered, hits, orphaned, agent, wanted>>
      BY <1>1 DEF Produce, DrawSeq, CommitEvent, RollbackEvent, postVars
  <2> QED
      BY <2>1, QuietIsTruthful
<1>2. CASE Drain \/ PassEvent \/ TakeEvent
  <2>1. /\ UNCHANGED <<rows, tx, delivered, hits, orphaned>>
        /\ \A b \in Agents : agent[b] = "claimed" => agent'[b] = agent[b] /\ wanted'[b] = wanted[b]
      BY <1>2 DEF Drain, PassEvent, TakeEvent, postVars, SendInv, SendTypes
  <2> QED
      BY <2>1, QuietIsTruthful
<1>3. CASE CommitBatch
  <2>1. Dispatcher \in Agents /\ agent[Dispatcher] # "claimed" /\ CommitRows(Dispatcher)
      BY <1>3 DEF CommitBatch, Agents
  <2> QED
      BY <2>1, CommitIsDecision
<1>4. ASSUME NEW a \in Agents, Send(a) PROVE TruthInv' /\ Implements
    BY <1>4, SendImplements
<1>5. ASSUME NEW a \in Senders, CommitSend(a) PROVE TruthInv' /\ Implements
  <2>1. a \in Agents /\ agent[a] # "claimed" /\ CommitRows(a)
      BY <1>5 DEF CommitSend, Agents
  <2> QED
      BY <2>1, CommitIsDecision
<1>6. ASSUME NEW a \in Senders, NEW m \in Messages, AskToSend(a, m) PROVE TruthInv' /\ Implements
  <2>1. /\ UNCHANGED <<rows, tx, delivered, hits, orphaned>>
        /\ \A b \in Agents : agent[b] = "claimed" => agent'[b] = agent[b] /\ wanted'[b] = wanted[b]
      BY <1>6 DEF AskToSend, postVars, SendInv, SendTypes
  <2> QED
      BY <2>1, QuietIsTruthful
<1>7. CASE Restart
  <2>1. UNCHANGED rows /\ RollbackAll({a \in Agents : agent[a] # "idle"})
      BY <1>7 DEF Restart
  <2>2. {a \in Agents : agent[a] # "idle"} \in SUBSET Agents
      OBVIOUS
  <2> QED
      BY <2>1, <2>2, RollbackIsWaste
<1>8. CASE UNCHANGED vars
  <2>1. UNCHANGED <<rows, tx, delivered, hits, orphaned, agent, wanted>>
      BY <1>8 DEF vars
  <2> QED
      BY <2>1, QuietIsTruthful
<1>9. Dispatcher \in Agents /\ Senders \subseteq Agents
    BY DEF Agents
<1> QED
    BY <1>1, <1>2, <1>3, <1>4, <1>5, <1>6, <1>7, <1>8, <1>9 DEF Next, Dispatch, Serve

(* The dispatcher and the manual endpoint, with their batches, transactions,  *)
(* races and restarts, implement the abstract decisions: for each message one *)
(* attempt at a time, a final and truthful row, and no delivery besides but   *)
(* those of attempts that were rolled back.                                   *)
THEOREM DecisionsAreTruthful == Spec => TruthfulDecisions
<1>1. Init => TruthInv /\ D!DecisionsInit
    BY TruthInvInit
<1>2. SendInv /\ TruthInv /\ [Next]_vars => TruthInv' /\ [D!DecisionsNext]_(D!decisionVars)
    BY StepImplements DEF Implements
<1> QED
    BY <1>1, <1>2, Invariant, PTL DEF Spec, TruthfulDecisions, D!DecisionsSpec

-----------------------------------------------------------------------------
(* The cursor *)

\* The seqs that are accounted for, the open batch included.
Settled == handled \cup done \cup late

Numbered ==
    /\ nextSeq \in Nat \ {0} /\ cursor \in Nat /\ seenUpTo \in Nat
    /\ drawn \in [Producers -> Nat]
    /\ state \in [Producers -> {"new", "drawn", "committed", "gone"}]
    /\ \A p \in Producers : state[p] # "new" => 0 < drawn[p] /\ drawn[p] < nextSeq
    /\ \A p, r \in Producers : state[p] # "new" /\ state[r] # "new" /\ drawn[p] = drawn[r] => p = r

\* What was read last was visible, and nothing was handled that had not been read.
ReadFirst == (seenUpTo = 0 \/ seenUpTo \in Visible) /\ cursor <= seenUpTo

Rising(q) == \A i, j \in 1..Len(q) : i < j => q[i] < q[j]

\* What an open batch has passed is accounted for, and what it still has to pass
\* is in it.
OpenBatch ==
    agent[Dispatcher] # "idle" =>
      /\ agent[Dispatcher] # "next" => batch # <<>>
      /\ batch \in Seq(Nat) /\ position \in Nat /\ position <= seenUpTo /\ Rising(batch)
      /\ \A i \in 1..Len(batch) : batch[i] <= seenUpTo
      /\ \A s \in Visible : s <= position => s \in Settled
      /\ \A s \in Visible : \A i \in 1..Len(batch) :
           s <= batch[i] => s \in Settled \/ \E j \in 1..Len(batch) : batch[j] = s

CursorInv == Numbered /\ ReadFirst /\ OpenBatch /\ OnlyLateEventsSkipped

queueVars == <<eventVars, cursor, batchVars, histVars>>

LEMMA CursorInvInit == Init => CursorInv
<1> SUFFICES ASSUME Init PROVE CursorInv
    OBVIOUS
<1>1. Visible = {} /\ agent[Dispatcher] = "idle"
    BY DEF Init, Visible, Committed, Agents
<1> QED
    BY <1>1 DEF Init, CursorInv, Numbered, ReadFirst, OpenBatch, OnlyLateEventsSkipped

\* The queue stays as it is.
LEMMA QueueStays ==
    ASSUME CursorInv, UNCHANGED queueVars, agent'[Dispatcher] # "idle" => agent[Dispatcher] # "idle",
           agent'[Dispatcher] \in {"next", agent[Dispatcher]} \/ batch # <<>>
    PROVE  CursorInv'
<1>1. Visible' = Visible /\ Settled' = Settled
    BY DEF queueVars, eventVars, batchVars, histVars, Visible, Committed, Settled
<1> QED
    BY <1>1 DEF queueVars, eventVars, batchVars, histVars, CursorInv, Numbered, ReadFirst, OpenBatch,
       OnlyLateEventsSkipped, Rising

\* The batch moves past its first event: what comes before that one is accounted
\* for, or in the batch and so not before it.
LEMMA AdvanceKeeps ==
    ASSUME CursorInv, agent[Dispatcher] # "idle", batch # <<>>, Advance,
           agent'[Dispatcher] = "next", UNCHANGED <<eventVars, cursor, histVars>>
    PROVE  CursorInv'
<1>1. Visible' = Visible /\ Settled' = Settled \cup {Head(batch)}
    BY DEF Advance, eventVars, histVars, Visible, Committed, Settled
<1>2. /\ batch \in Seq(Nat) /\ Rising(batch) /\ batch # <<>>
      /\ \A i \in 1..Len(batch) : batch[i] <= seenUpTo
      /\ \A s \in Visible : \A i \in 1..Len(batch) :
           s <= batch[i] => s \in Settled \/ \E j \in 1..Len(batch) : batch[j] = s
    BY DEF CursorInv, OpenBatch
<1>3. /\ Len(batch) \in Nat /\ 1 \in 1..Len(batch) /\ Head(batch) = batch[1] /\ batch[1] \in Nat
      /\ Tail(batch) \in Seq(Nat) /\ Len(Tail(batch)) = Len(batch) - 1
      /\ \A i \in 1..Len(Tail(batch)) : i + 1 \in 1..Len(batch) /\ Tail(batch)[i] = batch[i + 1]
    BY <1>2
<1>4. Visible \subseteq Nat
    BY DEF Visible, Committed, CursorInv, Numbered
<1>5. \A s \in Visible : s <= batch[1] => s \in Settled \cup {batch[1]}
  <2> SUFFICES ASSUME NEW s \in Visible, s <= batch[1], s \notin Settled PROVE s = batch[1]
      OBVIOUS
  <2>1. PICK j \in 1..Len(batch) : batch[j] = s
      BY <1>2, <1>3
  <2>2. j # 1 => batch[1] < batch[j]
      BY <1>2, <1>3 DEF Rising
  <2> QED
      BY <1>2, <1>3, <2>1, <2>2
<1>6. \A s \in Visible : \A i \in 1..Len(Tail(batch)) :
        s <= Tail(batch)[i] =>
          s \in Settled \cup {batch[1]} \/ \E j \in 1..Len(Tail(batch)) : Tail(batch)[j] = s
  <2> SUFFICES ASSUME NEW s \in Visible, NEW i \in 1..Len(Tail(batch)), s <= Tail(batch)[i],
                      s \notin Settled, s # batch[1]
               PROVE  \E j \in 1..Len(Tail(batch)) : Tail(batch)[j] = s
      OBVIOUS
  <2>1. PICK j \in 1..Len(batch) : batch[j] = s
      BY <1>2, <1>3
  <2>2. j - 1 \in 1..Len(Tail(batch)) /\ Tail(batch)[j - 1] = batch[j]
      BY <1>2, <1>3, <2>1
  <2> QED
      BY <2>1, <2>2
<1>7. Rising(Tail(batch))
  <2> SUFFICES ASSUME NEW i \in 1..Len(Tail(batch)), NEW j \in 1..Len(Tail(batch)), i < j
               PROVE  batch[i + 1] < batch[j + 1]
      BY <1>3 DEF Rising
  <2> QED
      BY <1>2, <1>3 DEF Rising
<1>8. OpenBatch'
    BY <1>1, <1>2, <1>3, <1>5, <1>6, <1>7 DEF Advance, histVars, OpenBatch
<1>9. Numbered' /\ ReadFirst' /\ OnlyLateEventsSkipped'
    BY <1>1 DEF eventVars, histVars, CursorInv, Numbered, ReadFirst, OnlyLateEventsSkipped
<1> QED
    BY <1>8, <1>9 DEF CursorInv

\* The visible events past the cursor are finitely many, and Ordered puts them in order.
LEMMA DrainsInOrder ==
    ASSUME CursorInv, Pending # {}
    PROVE  LET q == FirstOf(Ordered(Pending))
           IN  /\ q \in Seq(Pending) /\ q # <<>> /\ Rising(q)
               /\ \A s \in Pending : \A i \in 1..Len(q) : s <= q[i] => \E j \in 1..Len(q) : q[j] = s
<1> DEFINE all == Ordered(Pending)
           n == Cardinality(Pending)
           top == IF n < Limit THEN n ELSE Limit
<1>1. Pending \subseteq Nat /\ IsFiniteSet(Pending)
  <2>1. Pending \subseteq 1..(nextSeq - 1)
      BY DEF Pending, Visible, Committed, CursorInv, Numbered
  <2>2. IsFiniteSet(1..(nextSeq - 1))
      BY FS_Interval DEF CursorInv, Numbered
  <2>3. IsFiniteSet(Pending)
      BY <2>1, <2>2, FS_Subset
  <2> QED
      BY <2>1, <2>3 DEF CursorInv, Numbered
<1>2. n \in Nat \ {0}
    BY <1>1, FS_EmptySet, FS_CardinalityType
<1>3. all \in [1..n -> Pending] /\ \A i, j \in DOMAIN all : i < j => all[i] < all[j]
    BY <1>1, InOrder DEF Ordered
<1> HIDE DEF all
<1>4. \A s \in Pending : \E i \in 1..n : all[i] = s
    BY <1>1, <1>3, AllInOrder
<1> DEFINE S == Pending
<1>5. S \subseteq Nat /\ n \in Nat \ {0} /\ all \in [1..n -> S]
    BY <1>1, <1>2, <1>3
<1> HIDE DEF S, n
<1>6. all \in Seq(S) /\ Len(all) = n
    BY <1>5
<1>7. top \in 1..n
    BY <1>5, ConstantsAssumption
<1>8. FirstOf(all) = SubSeq(all, 1, top)
    BY <1>6 DEF FirstOf
<1> HIDE DEF top
<1> DEFINE q == SubSeq(all, 1, top)
<1>9. q \in Seq(S) /\ Len(q) = top /\ \A i \in 1..top : q[i] = all[i]
    BY <1>5, <1>6, <1>7
<1> HIDE DEF q
<1>10. Rising(q)
    BY <1>3, <1>5, <1>7, <1>9 DEF Rising
<1>11. ASSUME NEW s \in S, NEW i \in 1..Len(q), s <= q[i] PROVE \E j \in 1..Len(q) : q[j] = s
  <2>1. PICK j \in 1..n : all[j] = s
      BY <1>4 DEF S
  <2>2. j \in 1..top
    <3>1. i \in 1..top
        BY <1>9
    <3>3. i \in 1..n /\ all[i] = q[i] /\ all[i] \in Nat /\ all[j] \in Nat
      <4>1. n \in Nat /\ top \in 1..n
          BY <1>5, <1>7
      <4>2. i \in 1..n
          BY <3>1, <4>1
      <4>3. all[i] \in S /\ all[j] \in S
          BY <1>5, <4>2
      <4> QED
          BY <1>5, <1>9, <3>1, <4>2, <4>3
    <3>2. ~(i < j)
        BY <1>3, <1>5, <1>11, <2>1, <3>3
    <3> QED
        BY <1>7, <3>1, <3>2
  <2> QED
      BY <1>9, <2>1, <2>2
<1>12. q # <<>>
    BY <1>7, <1>9
<1> QED
    BY <1>8, <1>9, <1>10, <1>11, <1>12 DEF S, q, all

LEMMA DrainKeeps == ASSUME CursorInv, SendTypes, Drain PROVE CursorInv'
<1> DEFINE q == FirstOf(Ordered(Pending))
<1>1. /\ q \in Seq(Pending) /\ q # <<>> /\ Rising(q)
      /\ \A s \in Pending : \A i \in 1..Len(q) : s <= q[i] => \E j \in 1..Len(q) : q[j] = s
    BY DrainsInOrder DEF Drain
<1>2. /\ batch' = q /\ position' = cursor /\ done' = {}
      /\ seenUpTo' = IF q[Len(q)] > seenUpTo THEN q[Len(q)] ELSE seenUpTo
      /\ UNCHANGED <<nextSeq, drawn, state, cursor, handled, late>>
    BY DEF Drain, eventVars
<1> HIDE DEF q
<1>3. Visible' = Visible /\ Visible \subseteq Nat /\ Pending \subseteq Visible
    BY <1>2 DEF Visible, Committed, Pending, CursorInv, Numbered
<1> DEFINE P == Pending
<1>4. q \in Seq(P) /\ P \subseteq Nat
    BY <1>1, <1>3
<1> HIDE DEF P
<1>5. /\ q \in Seq(Nat) /\ Len(q) \in 1..Len(q) /\ q[Len(q)] \in P
      /\ \A i \in 1..Len(q) : q[i] \in Nat /\ q[i] <= q[Len(q)]
  <2>1. Len(q) \in Nat \ {0}
      BY <1>1, <1>4
  <2>2. q \in Seq(Nat) /\ \A i \in 1..Len(q) : q[i] \in P
    <3>1. \A i \in 1..Len(q) : q[i] \in P
        BY <1>4
    <3>2. q = [i \in 1..Len(q) |-> q[i]] /\ Len(q) \in Nat
        BY <1>4
    <3> QED
        BY <1>4, <3>1, <3>2
  <2> QED
      BY <1>1, <1>4, <2>1, <2>2 DEF Rising
<1>6. seenUpTo' \in Nat /\ seenUpTo' >= seenUpTo /\ seenUpTo' >= q[Len(q)]
    BY <1>2, <1>4, <1>5 DEF CursorInv, Numbered
<1>7. Numbered'
    BY <1>2, <1>6 DEF CursorInv, Numbered
<1>8. ReadFirst'
    BY <1>2, <1>3, <1>5, <1>6 DEF CursorInv, ReadFirst, Numbered, P
<1>9. OnlyLateEventsSkipped'
    BY <1>2, <1>3 DEF CursorInv, OnlyLateEventsSkipped
<1>10. \A s \in Visible : s <= cursor => s \in handled \cup late
    BY DEF CursorInv, OnlyLateEventsSkipped
<1>11. OpenBatch'
  <2>1. cursor \in Nat /\ cursor <= seenUpTo'
      BY <1>6 DEF CursorInv, Numbered, ReadFirst
  <2>2. \A i \in 1..Len(q) : q[i] <= seenUpTo'
      BY <1>4, <1>5, <1>6
  <2>3. Settled' = handled \cup late
      BY <1>2 DEF Settled
  <2>4. \A s \in Visible : \A i \in 1..Len(q) :
          s <= q[i] => s \in handled \cup late \/ \E j \in 1..Len(q) : q[j] = s
      BY <1>1, <1>3, <1>10 DEF Pending, CursorInv, Numbered
  <2> QED
      BY <1>1, <1>2, <1>3, <1>5, <1>10, <2>1, <2>2, <2>3, <2>4 DEF OpenBatch
<1> QED
    BY <1>7, <1>8, <1>9, <1>11 DEF CursorInv

LEMMA CommitBatchKeeps == ASSUME CursorInv, SendTypes, CommitBatch PROVE CursorInv'
<1>1. /\ cursor' = position /\ handled' = handled \cup done /\ done' = {}
      /\ UNCHANGED <<nextSeq, drawn, state, seenUpTo, late>>
      /\ agent[Dispatcher] = "next" /\ agent'[Dispatcher] = "idle"
    BY DEF CommitBatch, CommitRows, DropBatch, After, eventVars, SendTypes, Agents
<1>2. Visible' = Visible
    BY <1>1 DEF Visible, Committed
<1>3. Numbered' /\ ReadFirst' /\ OnlyLateEventsSkipped'
    BY <1>1, <1>2 DEF CursorInv, Numbered, ReadFirst, OpenBatch, OnlyLateEventsSkipped, Settled
<1> QED
    BY <1>1, <1>3 DEF CursorInv, OpenBatch

\* A batch is dropped, and seqs with it that were drawn.
LEMMA DropKeeps ==
    ASSUME CursorInv, agent'[Dispatcher] = "idle", UNCHANGED <<nextSeq, drawn, cursor, histVars>>,
           \/ UNCHANGED state
           \/ state' = [p \in Producers |-> IF state[p] = "drawn" THEN "gone" ELSE state[p]]
    PROVE  CursorInv'
<1>1. Committed' = Committed /\ state' \in [Producers -> {"new", "drawn", "committed", "gone"}]
    BY DEF Committed, CursorInv, Numbered
<1>2. Visible' = Visible
    BY <1>1 DEF Visible
<1>3. \A p \in Producers : state'[p] # "new" => state[p] # "new"
    BY DEF CursorInv, Numbered
<1>4. Numbered' /\ ReadFirst' /\ OnlyLateEventsSkipped'
    BY <1>1, <1>2, <1>3 DEF histVars, CursorInv, Numbered, ReadFirst, OnlyLateEventsSkipped
<1> QED
    BY <1>4 DEF CursorInv, OpenBatch

LEMMA ProduceKeeps == ASSUME CursorInv, NEW p \in Producers, Produce(p) PROVE CursorInv'
<1>0. UNCHANGED <<cursor, agent, batch, position, done, handled, seenUpTo>>
    BY DEF Produce, DrawSeq, CommitEvent, RollbackEvent, batchVars, histVars
<1>1. CASE DrawSeq(p)
  <2>1. /\ state[p] = "new" /\ state' = [state EXCEPT ![p] = "drawn"] /\ late' = late
        /\ drawn' = [drawn EXCEPT ![p] = nextSeq] /\ nextSeq' = nextSeq + 1
      BY <1>1 DEF DrawSeq, histVars
  <2>2. Visible' = Visible
      BY <2>1 DEF Visible, Committed, CursorInv, Numbered
  <2>3. Numbered'
    <3>1. drawn' \in [Producers -> Nat] /\ nextSeq' \in Nat \ {0}
          /\ state' \in [Producers -> {"new", "drawn", "committed", "gone"}]
        BY <2>1 DEF CursorInv, Numbered
    <3>2. \A r \in Producers : state'[r] # "new" =>
            \/ r = p /\ drawn'[r] = nextSeq
            \/ r # p /\ state[r] # "new" /\ drawn'[r] = drawn[r] /\ 0 < drawn[r] /\ drawn[r] < nextSeq
        BY <2>1 DEF CursorInv, Numbered
    <3> QED
        BY <1>0, <2>1, <3>1, <3>2 DEF CursorInv, Numbered
  <2> QED
      BY <1>0, <2>1, <2>2, <2>3 DEF CursorInv, ReadFirst, OpenBatch, OnlyLateEventsSkipped, Settled, Rising
<1>2. CASE RollbackEvent(p)
  <2>1. state[p] = "drawn" /\ state' = [state EXCEPT ![p] = "gone"] /\ UNCHANGED <<nextSeq, drawn, late>>
      BY <1>2 DEF RollbackEvent, histVars
  <2>2. Visible' = Visible
      BY <2>1 DEF Visible, Committed, CursorInv, Numbered
  <2>3. Numbered'
      BY <1>0, <2>1 DEF CursorInv, Numbered
  <2> QED
      BY <1>0, <2>1, <2>2, <2>3 DEF CursorInv, ReadFirst, OpenBatch, OnlyLateEventsSkipped, Settled, Rising
<1>3. CASE CommitEvent(p)
  <2>1. /\ state[p] = "drawn" /\ state' = [state EXCEPT ![p] = "committed"] /\ UNCHANGED <<nextSeq, drawn>>
        /\ late' = IF drawn[p] < seenUpTo THEN late \cup {drawn[p]} ELSE late
      BY <1>3 DEF CommitEvent
  <2>2. Visible' = Visible \cup {drawn[p]}
      BY <2>1 DEF Visible, Committed, CursorInv, Numbered
  <2>3. drawn[p] # seenUpTo
      BY <2>1 DEF Visible, Committed, CursorInv, Numbered, ReadFirst
  <2>4. drawn[p] <= seenUpTo => drawn[p] \in late'
      BY <2>1, <2>3 DEF CursorInv, Numbered
  <2>5. Numbered' /\ Settled \subseteq Settled' /\ late' \subseteq Settled'
      BY <1>0, <2>1 DEF CursorInv, Numbered, Settled
  <2>6. drawn[p] \in Nat
      BY DEF CursorInv, Numbered
  <2>7. OnlyLateEventsSkipped'
      BY <1>0, <2>1, <2>2, <2>4, <2>6 DEF CursorInv, Numbered, ReadFirst, OnlyLateEventsSkipped
  <2>8. OpenBatch'
    <3> SUFFICES ASSUME agent[Dispatcher] # "idle"
                 PROVE  /\ \A s \in Visible' : s <= position => s \in Settled'
                        /\ \A s \in Visible' : \A i \in 1..Len(batch) :
                             s <= batch[i] => s \in Settled' \/ \E j \in 1..Len(batch) : batch[j] = s
        BY <1>0 DEF CursorInv, OpenBatch, Rising
    <3>1. /\ batch \in Seq(Nat) /\ position \in Nat /\ seenUpTo \in Nat /\ position <= seenUpTo
          /\ \A i \in 1..Len(batch) : batch[i] \in Nat /\ batch[i] <= seenUpTo
        BY DEF CursorInv, Numbered, OpenBatch
    <3>2. /\ drawn[p] <= position => drawn[p] \in Settled'
          /\ \A i \in 1..Len(batch) : drawn[p] <= batch[i] => drawn[p] \in Settled'
        BY <2>4, <2>5, <2>6, <3>1
    <3> QED
        BY <2>2, <2>5, <3>2 DEF CursorInv, OpenBatch
  <2> QED
      BY <1>0, <2>2, <2>5, <2>7, <2>8 DEF CursorInv, ReadFirst
<1> QED
    BY <1>1, <1>2, <1>3 DEF Produce

LEMMA SendKeeps ==
    ASSUME CursorInv, SendTypes, NEW a \in Agents, Send(a)
    PROVE  CursorInv'
<1>1. /\ agent[a] \in {"asked", "missing", "claimed"} /\ UNCHANGED <<eventVars, cursor, histVars>>
      /\ a = Dispatcher => batch # <<>>
    BY DEF Send, LookUp, Claim, LoseRace, Post, CursorInv, OpenBatch
<1>2. CASE Return(a)
  <2>1. CASE a = Dispatcher
    <3>1. Advance /\ agent'[Dispatcher] = "next"
        BY <1>2, <2>1 DEF Return, SendTypes
    <3> QED
        BY <1>1, <2>1, <3>1, AdvanceKeeps
  <2>2. CASE a # Dispatcher
    <3>1. UNCHANGED batchVars /\ agent'[Dispatcher] = agent[Dispatcher]
        BY <1>2, <2>2 DEF Return, SendTypes, Agents
    <3> QED
        BY <1>1, <3>1, QueueStays DEF queueVars
  <2> QED
      BY <2>1, <2>2
<1>3. ASSUME NEW next, agent' = [agent EXCEPT ![a] = next], next # "idle", UNCHANGED batchVars
      PROVE  CursorInv'
  <2>1. /\ a # Dispatcher => agent'[Dispatcher] = agent[Dispatcher]
        /\ a = Dispatcher => agent[Dispatcher] # "idle"
      BY <1>1, <1>3 DEF SendTypes, Agents
  <2> QED
      BY <1>1, <1>3, <2>1, QueueStays DEF queueVars
<1>4. CASE LoseRace(a)
  <2>1. CASE a = Dispatcher
    <3>1. agent'[Dispatcher] = "idle" /\ UNCHANGED <<nextSeq, drawn, cursor, histVars, state>>
        BY <1>4, <2>1 DEF LoseRace, RollbackAll, After, eventVars, Agents
    <3> QED
        BY <3>1, DropKeeps
  <2>2. CASE a # Dispatcher
    <3>1. agent'[Dispatcher] = agent[Dispatcher] /\ UNCHANGED queueVars
        BY <1>4, <2>2 DEF LoseRace, RollbackAll, Agents, queueVars
    <3> QED
        BY <3>1, QueueStays
  <2> QED
      BY <2>1, <2>2
<1>5. LookUp(a) => Return(a) \/ (agent' = [agent EXCEPT ![a] = "missing"] /\ UNCHANGED batchVars)
    BY DEF LookUp
<1>6. \A decision : Claim(a, decision) =>
        Return(a) \/ (agent' = [agent EXCEPT ![a] = "claimed"] /\ UNCHANGED batchVars)
    BY DEF Claim
<1>7. \A accepted, acknowledged : Post(a, accepted, acknowledged) => Return(a)
    BY DEF Post
<1> QED
    BY <1>2, <1>3, <1>4, <1>5, <1>6, <1>7 DEF Send

LEMMA CursorInvNext == SendTypes /\ CursorInv /\ [Next]_vars => CursorInv'
<1> SUFFICES ASSUME SendTypes, CursorInv, [Next]_vars PROVE CursorInv'
    OBVIOUS
<1>1. ASSUME NEW p \in Producers, Produce(p) PROVE CursorInv'
    BY <1>1, ProduceKeeps
<1>2. CASE PassEvent
  <2>1. /\ agent[Dispatcher] = "next" /\ agent'[Dispatcher] = "next" /\ batch # <<>> /\ Advance
        /\ UNCHANGED <<eventVars, cursor, histVars>>
      BY <1>2 DEF PassEvent
  <2> QED
      BY <2>1, AdvanceKeeps
<1>3. CASE TakeEvent
  <2>1. agent[Dispatcher] = "next" /\ batch # <<>> /\ UNCHANGED queueVars
      BY <1>3 DEF TakeEvent, queueVars
  <2> QED
      BY <2>1, QueueStays
<1>4. ASSUME NEW a \in Senders, CommitSend(a) PROVE CursorInv'
  <2>1. agent'[Dispatcher] = agent[Dispatcher] /\ UNCHANGED queueVars
      BY <1>4, ConstantsAssumption DEF CommitSend, CommitRows, queueVars, SendTypes, Agents
  <2> QED
      BY <2>1, QueueStays
<1>5. ASSUME NEW a \in Senders, NEW m \in Messages, AskToSend(a, m) PROVE CursorInv'
  <2>1. agent'[Dispatcher] = agent[Dispatcher] /\ UNCHANGED queueVars
      BY <1>5, ConstantsAssumption DEF AskToSend, queueVars, SendTypes, Agents
  <2> QED
      BY <2>1, QueueStays
<1>6. CASE Restart
  <2>1. /\ agent' = [a \in Agents |-> IF a \in {b \in Agents : agent[b] # "idle"} THEN After(a) ELSE agent[a]]
        /\ state' = [p \in Producers |-> IF state[p] = "drawn" THEN "gone" ELSE state[p]]
        /\ UNCHANGED <<nextSeq, drawn, cursor, histVars>>
      BY <1>6 DEF Restart, RollbackAll
  <2>2. agent'[Dispatcher] = "idle"
      BY <2>1 DEF After, Agents
  <2> QED
      BY <2>1, <2>2, DropKeeps
<1>7. CASE UNCHANGED vars
    BY <1>7, QueueStays DEF vars, queueVars, eventVars, batchVars, histVars
<1>8. Dispatch => Drain \/ PassEvent \/ TakeEvent \/ CommitBatch \/ \E a \in Agents : Send(a)
    BY DEF Dispatch, Agents
<1>9. \A a \in Senders : Serve(a) => a \in Agents /\ (Send(a) \/ CommitSend(a))
    BY DEF Serve, Agents
<1> QED
    BY <1>1, <1>2, <1>3, <1>4, <1>5, <1>6, <1>7, <1>8, <1>9, DrainKeeps, CommitBatchKeeps, SendKeeps DEF Next

\* Only an event that commits after a batch has read past its seq is skipped.
THEOREM OnlyLateSkipped == Spec => []OnlyLateEventsSkipped
<1>1. SendInv /\ CursorInv => SendTypes /\ OnlyLateEventsSkipped
    BY DEF SendInv, CursorInv
<1>2. Spec => []CursorInv
    BY <1>1, CursorInvInit, CursorInvNext, Invariant, PTL DEF Spec, SendInv
<1> QED
    BY <1>1, <1>2, Invariant, PTL

-----------------------------------------------------------------------------
(* Push                                                                     *)

Newer(k) == k[2] > issued[k[1]]

\* Tokens are numbered in the order FCM issues them; nothing is known of those
\* not issued yet, and what a push takes for dead has been replaced.
TokensInOrder ==
    /\ issued \in [Phones -> 1 .. MaxTokens]
    /\ DOMAIN tokenOwner = Tokens /\ DOMAIN registrant = Tokens
    /\ \A k \in Tokens : Newer(k) => tokenOwner[k] = Nobody /\ registrant[k] = Nobody

\* A registration under way has its row's owner as it was, unless it was pruned
\* or somebody else registered the token.
RegistrationsKnow ==
    /\ DOMAIN registration = Registrations
    /\ \A r \in Registrations : registration[r].pc = "loaded" =>
         LET reg == registration[r] IN
         /\ reg.token \in Tokens /\ ~Newer(reg.token) /\ reg.tech \in Crew
         /\ reg.alone => tokenOwner[reg.token] \in {reg.seen, Nobody}

PrunesTheDead ==
    /\ DOMAIN assignment = Assignments
    /\ \A a \in Assignments : assignment[a].pc = "sending" =>
         /\ \A k \in assignment[a].todo : k \in Tokens /\ ~Newer(k)
         /\ \A k \in assignment[a].dead : k \in Tokens /\ k[2] < issued[k[1]]

PushInv == TokensInOrder /\ RegistrationsKnow /\ PrunesTheDead /\ PushesFindTheirTech

-----------------------------------------------------------------------------
LEMMA TokenParts == \A k \in Tokens : k[1] \in Phones /\ k[2] \in Nat /\ k = <<k[1], k[2]>>
    BY DEF Tokens

LEMMA PushInvInit == PushInit => PushInv
<1> SUFFICES ASSUME PushInit PROVE PushInv
    OBVIOUS
<1>1. TokensInOrder
    BY PushAssumption DEF PushInit, TokensInOrder
<1>2. RegistrationsKnow
    BY DEF PushInit, RegistrationsKnow, Unregistered
<1>3. PrunesTheDead
    BY DEF PushInit, PrunesTheDead, Unassigned
<1>4. PushesFindTheirTech
    BY DEF PushInit, PushesFindTheirTech
<1> QED
    BY <1>1, <1>2, <1>3, <1>4 DEF PushInv

LEMMA RotateKeeps == ASSUME PushInv, NEW p \in Phones, Rotate(p) PROVE PushInv'
<1>1. /\ issued' \in [Phones -> 1 .. MaxTokens]
      /\ issued'[p] = issued[p] + 1 /\ \A q \in Phones \ {p} : issued'[q] = issued[q]
      /\ UNCHANGED <<tokenOwner, registration, assignment, registrant, crossed>>
    BY PushAssumption DEF Rotate, PushInv, TokensInOrder
<1>2. \A k \in Tokens : Newer(k)' => Newer(k)
    BY <1>1, TokenParts DEF Newer, PushInv, TokensInOrder
<1>3. TokensInOrder'
    BY <1>1, <1>2 DEF PushInv, TokensInOrder
<1>4. RegistrationsKnow'
    BY <1>1, <1>2 DEF PushInv, RegistrationsKnow
<1>5. PrunesTheDead'
    BY <1>1, <1>2 DEF PushInv, PrunesTheDead, TokensInOrder, Tokens
<1>6. PushesFindTheirTech'
  <2> SUFFICES ASSUME NEW k \in Tokens, k \notin crossed, Lives(k)'
               PROVE  tokenOwner[k] = registrant[k]
    BY <1>1 DEF PushesFindTheirTech
  <2>1. CASE k[1] = p
    <3>1. Newer(k)
      BY <2>1, <1>1 DEF Lives, Newer, PushInv, TokensInOrder
    <3> QED
      BY <3>1 DEF PushInv, TokensInOrder
  <2>2. CASE k[1] # p
    BY <2>2, <1>1, TokenParts DEF Lives, PushInv, PushesFindTheirTech
  <2> QED
    BY <2>1, <2>2
<1> QED
    BY <1>3, <1>4, <1>5, <1>6 DEF PushInv

LEMMA LoadTokenKeeps == ASSUME PushInv, NEW r \in Registrations, LoadToken(r) PROVE PushInv'
<1>1. PICK p \in Phones, t \in Crew :
        registration' = [registration EXCEPT ![r] =
          [token |-> <<p, issued[p]>>, tech |-> t, seen |-> tokenOwner[<<p, issued[p]>>],
           alone |-> TRUE, pc |-> "loaded"]]
    BY DEF LoadToken
<1>2. UNCHANGED <<issued, tokenOwner, assignment, registrant, crossed>>
    BY DEF LoadToken
<1> DEFINE token == <<p, issued[p]>>
<1>3. token \in Tokens /\ ~Newer(token)
    BY DEF Tokens, Newer, PushInv, TokensInOrder
<1>4. RegistrationsKnow'
    BY <1>1, <1>2, <1>3 DEF PushInv, RegistrationsKnow, Newer
<1> QED
    BY <1>2, <1>4 DEF PushInv, TokensInOrder, PrunesTheDead, PushesFindTheirTech, Newer, Lives

LEMMA CommitTokenKeeps == ASSUME PushInv, NEW r \in Registrations, CommitToken(r) PROVE PushInv'
<1> DEFINE reg == registration[r]
           k   == reg.token
<1>1. reg.pc = "loaded" /\ UNCHANGED <<issued, assignment>>
    BY DEF CommitToken
<1>2. /\ k \in Tokens /\ ~Newer(k) /\ reg.tech \in Crew
      /\ reg.alone => tokenOwner[k] \in {reg.seen, Nobody}
    BY <1>1 DEF PushInv, RegistrationsKnow
<1>3. CASE ~Registrable(reg)
  <2>1. /\ registration' = [registration EXCEPT ![r].pc = "error"]
        /\ UNCHANGED <<tokenOwner, registrant, crossed>>
    BY <1>3 DEF CommitToken
  <2>2. RegistrationsKnow'
    BY <2>1, <1>1 DEF PushInv, RegistrationsKnow, Newer
  <2> QED
    BY <2>1, <2>2, <1>1 DEF PushInv, TokensInOrder, PrunesTheDead, PushesFindTheirTech, Newer,
       Lives
<1>4. CASE Registrable(reg)
  <2>1. /\ tokenOwner' = [tokenOwner EXCEPT ![k] = Owner(reg)]
        /\ registrant' = [registrant EXCEPT ![k] = reg.tech]
        /\ crossed' = IF reg.alone THEN crossed \ {k} ELSE crossed \cup {k}
        /\ registration' = [s \in Registrations |->
             IF s = r THEN [registration[s] EXCEPT !.pc = "ok"]
             ELSE IF registration[s].token = k THEN [registration[s] EXCEPT !.alone = FALSE]
             ELSE registration[s]]
    BY <1>4 DEF CommitToken
  <2>2. reg.alone => Owner(reg) = reg.tech
    BY <1>2, <1>4 DEF Owner, Registrable
  <2> HIDE DEF k, reg
  <2>3. TokensInOrder'
    BY <2>1, <1>1, <1>2 DEF PushInv, TokensInOrder, Newer
  <2>4. RegistrationsKnow'
    <3> SUFFICES ASSUME NEW s \in Registrations, registration'[s].pc = "loaded"
                 PROVE  /\ registration'[s].token \in Tokens /\ ~Newer(registration'[s].token)
                        /\ registration'[s].tech \in Crew
                        /\ registration'[s].alone =>
                             tokenOwner'[registration'[s].token] \in {registration'[s].seen, Nobody}
      BY <2>1, <1>1 DEF RegistrationsKnow, Newer
    <3>1. s # r
      BY <2>1
    <3>2. CASE registration[s].token = k
      BY <3>1, <3>2, <2>1, <1>2 DEF PushInv, RegistrationsKnow
    <3>3. CASE registration[s].token # k
      BY <3>1, <3>3, <2>1 DEF PushInv, RegistrationsKnow
    <3> QED
      BY <3>2, <3>3
  <2>5. PrunesTheDead'
    BY <1>1 DEF PushInv, PrunesTheDead, Newer
  <2>6. PushesFindTheirTech'
    BY <2>1, <2>2, <1>1, <1>2 DEF PushInv, PushesFindTheirTech, TokensInOrder, Lives
  <2> QED
    BY <2>3, <2>4, <2>5, <2>6 DEF PushInv
<1> QED
    BY <1>3, <1>4

LEMMA ListTokensKeeps == ASSUME PushInv, NEW a \in Assignments, ListTokens(a) PROVE PushInv'
<1>1. PICK t \in Crew :
        assignment' = [assignment EXCEPT ![a] =
          [tech |-> t, todo |-> {k \in Tokens : tokenOwner[k] = t}, dead |-> {}, pc |-> "sending"]]
    BY DEF ListTokens
<1>2. UNCHANGED <<issued, tokenOwner, registration, registrant, crossed>>
    BY DEF ListTokens
<1>3. \A k \in Tokens : tokenOwner[k] = t => ~Newer(k)
    BY PushAssumption DEF PushInv, TokensInOrder
<1>4. PrunesTheDead'
    BY <1>1, <1>2, <1>3 DEF PushInv, PrunesTheDead, Newer
<1> QED
    BY <1>2, <1>4 DEF PushInv, TokensInOrder, RegistrationsKnow, PushesFindTheirTech, Newer, Lives

LEMMA PushToKeeps == ASSUME PushInv, NEW a \in Assignments, PushTo(a) PROVE PushInv'
<1>1. PICK k \in assignment[a].todo, refused \in BOOLEAN :
        assignment' = [assignment EXCEPT ![a].todo = @ \ {k},
                         ![a].dead = IF refused /\ Gone(k) THEN @ \cup {k} ELSE @]
    BY DEF PushTo
<1>2. /\ assignment[a].pc = "sending"
      /\ UNCHANGED <<issued, tokenOwner, registration, registrant, crossed>>
    BY DEF PushTo
<1>3. k \in Tokens /\ ~Newer(k)
    BY <1>2 DEF PushInv, PrunesTheDead
<1>4. Gone(k) => k[2] < issued[k[1]]
    BY <1>3, TokenParts DEF Gone, Lives, Newer, PushInv, TokensInOrder
<1>5. PrunesTheDead'
    BY <1>1, <1>2, <1>3, <1>4 DEF PushInv, PrunesTheDead, Newer
<1> QED
    BY <1>2, <1>5 DEF PushInv, TokensInOrder, RegistrationsKnow, PushesFindTheirTech, Newer, Lives

LEMMA CommitPrunedKeeps == ASSUME PushInv, NEW a \in Assignments, CommitPruned(a) PROVE PushInv'
<1>1. /\ assignment[a].pc = "sending"
      /\ tokenOwner' = [k \in Tokens |-> IF k \in assignment[a].dead THEN Nobody ELSE tokenOwner[k]]
      /\ assignment' = [assignment EXCEPT ![a].pc = "done"]
      /\ UNCHANGED <<issued, registration, registrant, crossed>>
    BY DEF CommitPruned
<1>2. \A k \in assignment[a].dead : k \in Tokens /\ k[2] < issued[k[1]]
    BY <1>1 DEF PushInv, PrunesTheDead
<1>3. TokensInOrder'
    BY <1>1 DEF PushInv, TokensInOrder, Newer
<1>4. RegistrationsKnow'
    BY <1>1 DEF PushInv, RegistrationsKnow, Newer
<1>5. PrunesTheDead'
    BY <1>1 DEF PushInv, PrunesTheDead, Newer
<1>6. PushesFindTheirTech'
    BY <1>1, <1>2, TokenParts DEF PushInv, PushesFindTheirTech, Lives
<1> QED
    BY <1>3, <1>4, <1>5, <1>6 DEF PushInv

LEMMA LosePushKeeps == ASSUME PushInv, NEW a \in Assignments, LosePush(a) PROVE PushInv'
<1>1. /\ assignment' = [assignment EXCEPT ![a].pc = "lost"]
      /\ UNCHANGED <<issued, tokenOwner, registration, registrant, crossed>>
    BY DEF LosePush
<1>2. PrunesTheDead'
    BY <1>1 DEF PushInv, PrunesTheDead, Newer
<1> QED
    BY <1>1, <1>2 DEF PushInv, TokensInOrder, RegistrationsKnow, PushesFindTheirTech, Newer, Lives

LEMMA PushInvNext == PushInv /\ [PushNext]_pushVars => PushInv'
<1> SUFFICES ASSUME PushInv, [PushNext]_pushVars PROVE PushInv'
    OBVIOUS
<1>1. ASSUME NEW p \in Phones, Rotate(p) PROVE PushInv'
    BY <1>1, RotateKeeps
<1>2. ASSUME NEW r \in Registrations, LoadToken(r) \/ CommitToken(r) PROVE PushInv'
    BY <1>2, LoadTokenKeeps, CommitTokenKeeps
<1>3. ASSUME NEW a \in Assignments,
             ListTokens(a) \/ PushTo(a) \/ CommitPruned(a) \/ LosePush(a)
      PROVE  PushInv'
    BY <1>3, ListTokensKeeps, PushToKeeps, CommitPrunedKeeps, LosePushKeeps
<1>4. CASE UNCHANGED pushVars
    BY <1>4 DEF pushVars, PushInv, TokensInOrder, RegistrationsKnow, PrunesTheDead,
       PushesFindTheirTech, Newer, Lives
<1> QED
    BY <1>1, <1>2, <1>3, <1>4 DEF PushNext

-----------------------------------------------------------------------------
\* Pushes reach the phones a technician registered last, and prunes take only
\* tokens that FCM has replaced.
THEOREM PushesReachTheirTech == PushSpec => []PushesFindTheirTech
<1>1. PushSpec => []PushInv
    BY PushInvInit, PushInvNext, PTL DEF PushSpec
<1>2. PushInv => PushesFindTheirTech
    BY DEF PushInv
<1> QED
    BY <1>1, <1>2, PTL

-----------------------------------------------------------------------------
(* Rollup                                                                   *)

Counts == [count : Int, errors : Int]

\* What is being committed runs from the baseline to its own snapshot.
WindowFits ==
    window.on =>
      seeded /\ \A r \in Routes : window.delta[r] = Minus(window.current[r], baseline[r])

RollupSane ==
    /\ registry \in [Routes -> Counts] /\ baseline \in [Routes -> Counts]
    /\ served \in [Routes -> Counts] /\ seeded \in BOOLEAN /\ echoed \in BOOLEAN
    /\ rolled \in [Routes -> Counts]
    /\ window \in [current : [Routes -> Counts], delta : [Routes -> Counts], on : BOOLEAN]

RollupInv == RollupSane /\ WindowFits /\ RolledUpOnce

-----------------------------------------------------------------------------
\* The sums behind each action: x is in the rows, g in the registry, b in the
\* baseline, c in the snapshot.
LEMMA CountsAreClosed ==
    ASSUME NEW x \in Counts, NEW g \in Counts
    PROVE  Plus(x, g) \in Counts /\ Minus(x, g) \in Counts
<1>1. /\ x.count \in Int /\ x.errors \in Int
      /\ g.count \in Int /\ g.errors \in Int
    BY DEF Counts
<1> QED
    BY <1>1 DEF Counts, Plus, Minus

LEMMA SumOfNothing ==
    ASSUME NEW x \in Counts, NEW g \in Counts
    PROVE  Plus(x, Minus(g, g)) = Plus(x, Zero)
<1>1. /\ x.count \in Int /\ x.errors \in Int
      /\ g.count \in Int /\ g.errors \in Int
    BY DEF Counts
<1> QED
    BY <1>1 DEF Minus, Zero

LEMMA SumWithARequest ==
    ASSUME NEW x \in Counts, NEW g \in Counts, NEW b \in Counts, NEW c \in Counts
    PROVE  Plus(Plus(x, Minus(g, b)), c) = Plus(x, Minus(Plus(g, c), b))
<1>1. /\ x.count \in Int /\ x.errors \in Int
      /\ g.count \in Int /\ g.errors \in Int
      /\ b.count \in Int /\ b.errors \in Int
      /\ c.count \in Int /\ c.errors \in Int
    BY DEF Counts
<1> QED
    BY <1>1 DEF Plus, Minus

LEMMA SumWithARow ==
    ASSUME NEW x \in Counts, NEW g \in Counts, NEW b \in Counts, NEW c \in Counts
    PROVE  Plus(x, Minus(g, b)) = Plus(Plus(x, Minus(c, b)), Minus(g, c))
<1>1. /\ x.count \in Int /\ x.errors \in Int
      /\ g.count \in Int /\ g.errors \in Int
      /\ b.count \in Int /\ b.errors \in Int
      /\ c.count \in Int /\ c.errors \in Int
    BY DEF Counts
<1> QED
    BY <1>1 DEF Plus, Minus

LEMMA SumOfTheLost ==
    ASSUME NEW x \in Counts, NEW g \in Counts, NEW b \in Counts
    PROVE  Minus(Plus(x, Minus(g, b)), Minus(g, b)) = Plus(x, Zero)
<1>1. /\ x.count \in Int /\ x.errors \in Int
      /\ g.count \in Int /\ g.errors \in Int
      /\ b.count \in Int /\ b.errors \in Int
    BY DEF Counts
<1> QED
    BY <1>1 DEF Plus, Minus, Zero

LEMMA SumOfTheApplied ==
    ASSUME NEW x \in Counts, NEW g \in Counts, NEW b \in Counts, NEW c \in Counts
    PROVE  Minus(Plus(x, Minus(g, b)), Minus(g, c)) = Plus(Plus(x, Minus(c, b)), Zero)
<1>1. /\ x.count \in Int /\ x.errors \in Int
      /\ g.count \in Int /\ g.errors \in Int
      /\ b.count \in Int /\ b.errors \in Int
      /\ c.count \in Int /\ c.errors \in Int
    BY DEF Counts
<1> QED
    BY <1>1 DEF Plus, Minus, Zero

LEMMA NothingFits ==
    /\ Nothing \in [Routes -> Counts]
    /\ NoTick \in [current : [Routes -> Counts], delta : [Routes -> Counts], on : BOOLEAN]
<1>1. Zero \in Counts
    BY DEF Zero, Counts
<1> QED
    BY <1>1 DEF Nothing, NoTick

\* The rows of a window add its delta to each route.
LEMMA RowsOfAWindow ==
    ASSUME RollupSane
    PROVE  /\ WithRows(window.delta) \in [Routes -> Counts]
           /\ \A r \in Routes : WithRows(window.delta)[r] = Plus(rolled[r], window.delta[r])
    BY CountsAreClosed DEF WithRows, RollupSane

LEMMA RollupInvInit == RollupInit => RollupInv
<1> SUFFICES ASSUME RollupInit PROVE RollupInv
    OBVIOUS
<1>1. RollupSane
    BY NothingFits DEF RollupInit, RollupSane, Nothing
<1>2. WindowFits
    BY DEF RollupInit, WindowFits, NoTick
<1>3. RolledUpOnce
  <2>1. Plus(Zero, Zero) = Zero /\ \A r \in Routes : Nothing[r] = Zero
    BY DEF Plus, Zero, Nothing
  <2> QED
    BY <2>1 DEF RollupInit, RolledUpOnce
<1> QED
    BY <1>1, <1>2, <1>3 DEF RollupInv

LEMMA CountRequestKeeps == ASSUME RollupInv, NEW r \in Routes, CountRequest(r) PROVE RollupInv'
<1>1. PICK error \in {0, 1} :
        LET one == [count |-> 1, errors |-> error] IN
        /\ registry' = [registry EXCEPT ![r] = Plus(@, one)]
        /\ served' = [served EXCEPT ![r] = IF seeded THEN Plus(@, one) ELSE @]
    BY DEF CountRequest
<1> DEFINE one == [count |-> 1, errors |-> error]
<1>2. one \in Counts
    BY DEF Counts
<1> HIDE DEF one
<1>3. /\ registry' = [registry EXCEPT ![r] = Plus(@, one)]
      /\ served' = [served EXCEPT ![r] = IF seeded THEN Plus(@, one) ELSE @]
      /\ UNCHANGED <<baseline, seeded, window, rolled, echoed>>
    BY <1>1 DEF CountRequest, one
<1>4. RollupSane'
    BY <1>2, <1>3, CountsAreClosed DEF RollupInv, RollupSane
<1>5. WindowFits'
    BY <1>3 DEF RollupInv, WindowFits
<1>6. RolledUpOnce'
  <2> SUFFICES ASSUME ~echoed, NEW q \in Routes
               PROVE  served'[q] = Plus(rolled[q], IF seeded THEN Minus(registry'[q], baseline[q]) ELSE Zero)
    BY <1>3 DEF RolledUpOnce
  <2>1. served[q] = Plus(rolled[q], IF seeded THEN Minus(registry[q], baseline[q]) ELSE Zero)
    BY DEF RollupInv, RolledUpOnce
  <2>2. CASE q # r
    BY <2>1, <2>2, <1>3
  <2>3. CASE q = r /\ ~seeded
    BY <2>1, <2>3, <1>3
  <2>4. CASE q = r /\ seeded
    <3>1. served'[q] = Plus(served[q], one) /\ registry'[q] = Plus(registry[q], one)
      BY <2>4, <1>3 DEF RollupInv, RollupSane
    <3>2. /\ rolled[q] \in Counts /\ registry[q] \in Counts /\ baseline[q] \in Counts
      BY DEF RollupInv, RollupSane
    <3> QED
      BY <3>1, <3>2, <2>1, <2>4, <1>2, SumWithARequest
  <2> QED
    BY <2>2, <2>3, <2>4
<1> QED
    BY <1>4, <1>5, <1>6 DEF RollupInv

LEMMA SeedKeeps == ASSUME RollupInv, Seed PROVE RollupInv'
<1>1. /\ ~seeded /\ baseline' = registry /\ seeded' = TRUE
      /\ UNCHANGED <<registry, window, rolled, served, echoed>>
    BY DEF Seed
<1>2. RollupSane'
    BY <1>1 DEF RollupInv, RollupSane
<1>3. WindowFits'
    BY <1>1 DEF RollupInv, WindowFits
<1>4. RolledUpOnce'
    BY <1>1, SumOfNothing DEF RollupInv, RollupSane, RolledUpOnce
<1> QED
    BY <1>2, <1>3, <1>4 DEF RollupInv

LEMMA SnapshotKeeps == ASSUME RollupInv, Snapshot PROVE RollupInv'
<1>1. /\ seeded /\ UNCHANGED <<registry, baseline, seeded, rolled, served, echoed>>
      /\ window' = [current |-> registry,
                     delta   |-> [r \in Routes |-> Minus(registry[r], baseline[r])],
                     on      |-> TRUE]
    BY DEF Snapshot
<1>2. RollupSane'
    BY <1>1, CountsAreClosed DEF RollupInv, RollupSane
<1>3. WindowFits'
    BY <1>1 DEF WindowFits
<1>4. RolledUpOnce'
    BY <1>1 DEF RollupInv, RolledUpOnce
<1> QED
    BY <1>2, <1>3, <1>4 DEF RollupInv

LEMMA CommitTickKeeps == ASSUME RollupInv, CommitTick PROVE RollupInv'
<1>1. /\ window.on /\ rolled' = WithRows(window.delta) /\ baseline' = window.current
      /\ window' = NoTick /\ UNCHANGED <<registry, seeded, served, echoed>>
    BY DEF CommitTick
<1>2. seeded /\ \A r \in Routes : rolled'[r] = Plus(rolled[r], Minus(window.current[r], baseline[r]))
    BY <1>1, RowsOfAWindow DEF RollupInv, WindowFits
<1>3. RollupSane'
    BY <1>1, RowsOfAWindow, NothingFits DEF RollupInv, RollupSane
<1>4. WindowFits'
    BY <1>1 DEF WindowFits, NoTick
<1>5. RolledUpOnce'
  <2> SUFFICES ASSUME ~echoed, NEW r \in Routes
               PROVE  served[r] = Plus(rolled'[r], Minus(registry[r], window.current[r]))
    BY <1>1, <1>2 DEF RolledUpOnce
  <2>1. served[r] = Plus(rolled[r], Minus(registry[r], baseline[r]))
    BY <1>2 DEF RollupInv, RolledUpOnce
  <2>2. /\ rolled[r] \in Counts /\ registry[r] \in Counts /\ baseline[r] \in Counts
        /\ window.current[r] \in Counts
    BY DEF RollupInv, RollupSane
  <2> QED
    BY <2>1, <2>2, <1>2, SumWithARow
<1> QED
    BY <1>3, <1>4, <1>5 DEF RollupInv

LEMMA FailTickKeeps == ASSUME RollupInv, FailTick PROVE RollupInv'
<1>1. /\ window.on /\ window' = NoTick /\ UNCHANGED <<registry, baseline, seeded, served>>
      /\ \/ UNCHANGED <<rolled, echoed>>
         \/ rolled' = WithRows(window.delta) /\ echoed' = TRUE
    BY DEF FailTick
<1>2. RollupSane'
    BY <1>1, RowsOfAWindow, NothingFits DEF RollupInv, RollupSane
<1>3. WindowFits'
    BY <1>1 DEF WindowFits, NoTick
<1>4. RolledUpOnce'
    BY <1>1 DEF RollupInv, RolledUpOnce
<1> QED
    BY <1>2, <1>3, <1>4 DEF RollupInv

LEMMA ReplaceKeeps == ASSUME RollupInv, Replace PROVE RollupInv'
<1>1. /\ registry' = Nothing /\ baseline' = Nothing /\ seeded' = FALSE /\ window' = NoTick
      /\ echoed' = echoed
    BY DEF Replace
<1>2. \A r \in Routes : /\ rolled[r] \in Counts /\ registry[r] \in Counts /\ served[r] \in Counts
                        /\ baseline[r] \in Counts /\ window.current[r] \in Counts
    BY DEF RollupInv, RollupSane
<1>3. WindowFits'
    BY <1>1 DEF WindowFits, NoTick
<1>4. CASE /\ UNCHANGED rolled
           /\ served' = [r \in Routes |-> IF seeded THEN Minus(served[r], Minus(registry[r], baseline[r]))
                                          ELSE served[r]]
  <2>1. RollupSane'
    BY <1>1, <1>2, <1>4, CountsAreClosed, NothingFits DEF RollupInv, RollupSane
  <2>2. RolledUpOnce'
    BY <1>1, <1>2, <1>4, SumOfTheLost DEF RollupInv, RolledUpOnce
  <2> QED
    BY <1>3, <2>1, <2>2 DEF RollupInv
<1>5. CASE /\ window.on
           /\ rolled' = WithRows(window.delta)
           /\ served' = [r \in Routes |-> Minus(served[r], Minus(registry[r], window.current[r]))]
  <2>1. seeded /\ \A r \in Routes : rolled'[r] = Plus(rolled[r], Minus(window.current[r], baseline[r]))
    BY <1>5, RowsOfAWindow DEF RollupInv, WindowFits
  <2>2. RollupSane'
    <3>1. rolled' \in [Routes -> Counts]
      BY <1>5, RowsOfAWindow DEF RollupInv
    <3>2. served' \in [Routes -> Counts]
      BY <1>2, <1>5, CountsAreClosed
    <3> QED
      BY <1>1, <3>1, <3>2, NothingFits DEF RollupInv, RollupSane
  <2>3. RolledUpOnce'
    BY <1>1, <1>2, <1>5, <2>1, SumOfTheApplied DEF RollupInv, RolledUpOnce
  <2> QED
    BY <1>3, <2>2, <2>3 DEF RollupInv
<1> QED
    BY <1>4, <1>5 DEF Replace

LEMMA RollupInvNext == RollupInv /\ [RollupNext]_rollupVars => RollupInv'
<1> SUFFICES ASSUME RollupInv, [RollupNext]_rollupVars PROVE RollupInv'
    OBVIOUS
<1>1. ASSUME NEW r \in Routes, CountRequest(r) PROVE RollupInv'
    BY <1>1, CountRequestKeeps
<1>2. CASE Seed \/ Snapshot \/ CommitTick \/ FailTick \/ Replace
    BY <1>2, SeedKeeps, SnapshotKeeps, CommitTickKeeps, FailTickKeeps, ReplaceKeeps
<1>3. CASE UNCHANGED rollupVars
    BY <1>3 DEF rollupVars, RollupInv, RollupSane, WindowFits, RolledUpOnce
<1> QED
    BY <1>1, <1>2, <1>3 DEF RollupNext

-----------------------------------------------------------------------------
\* Every request counted after a first tick is rolled up once or still to be,
\* through failed ticks and replaced processes, unless an answer was lost.
THEOREM RequestsAreRolledUpOnce == RollupSpec => []RolledUpOnce
<1>1. RollupSpec => []RollupInv
    BY RollupInvInit, RollupInvNext, PTL DEF RollupSpec
<1>2. RollupInv => RolledUpOnce
    BY DEF RollupInv
<1> QED
    BY <1>1, <1>2, PTL
=============================================================================
