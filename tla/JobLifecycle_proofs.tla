------------------------ MODULE JobLifecycle_proofs ------------------------
(* Theorems about JobLifecycle, for any set of requests, technicians, forms, *)
(* rates and amounts.                                                        *)
EXTENDS JobLifecycle, TLAPS

-----------------------------------------------------------------------------
(* Type correctness *)

\* The row a request leaves is a row if what it made of its snapshot is one.
LEMMA MergeType ==
    ASSUME TypeOK, NEW r \in Requests, NEW new \in Row
    PROVE  Merge(r, new) \in Row
BY DEF TypeOK, Row, Merge, Column

LEMMA NewRowType == \A t \in Techs \cup {None} : NewRow(t) \in Row
BY DEF NewRow, Row, Statuses

LEMMA TransitionedType ==
    ASSUME NEW k \in Transitions, NEW old \in Row
    PROVE  Transitioned(k, old) \in Row
BY DEF Transitions, Transitioned, Row, Statuses

LEMMA SubmittedType ==
    ASSUME TypeOK, NEW r \in Requests, kind[r] = "submit", arg[r] \in Forms,
           PinnedRate(r) \in Rates
    PROVE  Submitted(r) \in Row
<1>1. Total[arg[r], PinnedRate(r)] \in Nat
  BY ConstantsAssumption
<1>2. seen[r] \in Row
  BY DEF TypeOK
<1> QED BY <1>1, <1>2 DEF Submitted, Row

LEMMA AnswerType ==
    ASSUME TypeOK, NEW r \in Requests, NEW a \in Answers, Answer(r, a)
    PROVE  /\ pc' \in [Requests -> PC]
           /\ seen' \in [Requests -> Row]
           /\ found' \in [Requests -> BOOLEAN]
<1>1. NewRow(None) \in Row
  BY NewRowType
<1> QED BY <1>1 DEF TypeOK, Answer, PC

LEMMA RefuseType ==
    ASSUME TypeOK, NEW r \in Requests, NEW a \in Answers, Refuse(r, a)
    PROVE  TypeOK'
<1>1. /\ pc' \in [Requests -> PC]
      /\ seen' \in [Requests -> Row]
      /\ found' \in [Requests -> BOOLEAN]
  BY AnswerType DEF Refuse
<1> QED BY <1>1 DEF Refuse, TypeOK, dbVars

LEMMA CommitType ==
    ASSUME TypeOK, NEW r \in Requests, NEW new \in Row, Commit(r, new),
           completionRate' \in Rates \cup {None},
           UNCHANGED <<closing, rate, kind, arg>>
    PROVE  TypeOK'
<1>1. row' \in Row
  BY MergeType DEF Commit
<1>2. /\ pc' \in [Requests -> PC]
      /\ seen' \in [Requests -> Row]
      /\ found' \in [Requests -> BOOLEAN]
  BY AnswerType DEF Commit, Answers
<1>3. logged' \in [Requests -> BOOLEAN]
  BY DEF Commit, TypeOK
<1> QED BY <1>1, <1>2, <1>3 DEF TypeOK

\* Every step keeps the types.
LEMMA TypeStep ==
    ASSUME TypeOK, SessionsSound, [Next]_vars
    PROVE  TypeOK'
<1>1. ASSUME NEW r \in Requests, NEW k \in Kinds, NEW a \in Args(k), Receive(r, k, a)
      PROVE  TypeOK'
  <2>1. a \in Techs \cup Forms \cup Amounts \cup {None}
    <3>1. CASE k \in {"claim", "assign"}
      BY <3>1, <1>1 DEF Args
    <3>2. CASE k = "submit"
      BY <3>2, <1>1 DEF Args
    <3>3. CASE k = "negotiate"
      BY <3>3, <1>1 DEF Args
    <3>4. CASE k \in Transitions
      BY <3>4, <1>1 DEF Args, Transitions
    <3> QED BY <3>1, <3>2, <3>3, <3>4 DEF Kinds
  <2>2. /\ kind' \in [Requests -> Kinds]
        /\ arg' \in [Requests -> Techs \cup Forms \cup Amounts \cup {None}]
    BY <1>1, <2>1 DEF Receive, TypeOK
  <2>3. pc' \in [Requests -> PC] /\ seen' \in [Requests -> Row]
    BY <1>1 DEF Receive, TypeOK, PC, InFlight, Answers
  <2> QED BY <1>1, <2>2, <2>3 DEF Receive, TypeOK, dbVars
<1>2. ASSUME NEW r \in Requests, CountClosing(r)
      PROVE  TypeOK'
  <2>1. CASE Refuse(r, "rejected")
    BY <2>1, RefuseType DEF Answers
  <2>2. CASE pc' = [pc EXCEPT ![r] = "counted"]
             /\ UNCHANGED <<dbVars, kind, arg, seen, found, logged>>
    BY <2>2 DEF TypeOK, dbVars, PC, InFlight
  <2> QED BY <1>2, <2>1, <2>2 DEF CountClosing
<1>3. ASSUME NEW r \in Requests, ReadCompletion(r)
      PROVE  TypeOK'
  <2>1. CASE Refuse(r, "rejected")
    BY <2>1, RefuseType DEF Answers
  <2>2. CASE /\ pc' = [pc EXCEPT ![r] = "read"]
             /\ found' = [found EXCEPT ![r] = completionRate # None]
             /\ UNCHANGED <<dbVars, kind, arg, seen, logged>>
    BY <2>2 DEF TypeOK, dbVars, PC, InFlight
  <2> QED BY <1>3, <2>1, <2>2 DEF ReadCompletion
<1>4. ASSUME NEW r \in Requests, Transition(r)
      PROVE  TypeOK'
  <2>1. Transitioned(kind[r], seen[r]) \in Row
    BY <1>4, TransitionedType DEF Transition, TypeOK
  <2> QED BY <1>4, <2>1, CommitType DEF Transition, TypeOK
<1>5. ASSUME NEW r \in Requests, SubmitCompletion(r)
      PROVE  TypeOK'
  <2>1. CASE Refuse(r, "error")
    BY <2>1, RefuseType DEF Answers
  <2>2. CASE /\ completionRate' = PinnedRate(r)
             /\ Commit(r, Submitted(r))
             /\ UNCHANGED <<closing, rate, kind, arg>>
    <3>1. PinnedRate(r) \in Rates
      BY DEF PinnedRate, SessionsSound, TypeOK
    <3>2. kind[r] = "submit" /\ arg[r] \in Forms
      BY <1>5 DEF SubmitCompletion, SessionsSound, Args
    <3>3. Submitted(r) \in Row
      BY <3>1, <3>2, SubmittedType
    <3> QED BY <2>2, <3>1, <3>3, CommitType
  <2> QED BY <1>5, <2>1, <2>2 DEF SubmitCompletion
<1>6. ASSUME NEW r \in Requests, NegotiateBill(r)
      PROVE  TypeOK'
  <2>1. arg[r] \in Amounts
    BY <1>6 DEF NegotiateBill, SessionsSound, Args
  <2>2. [seen[r] EXCEPT !.negotiated = arg[r], !.billStatus = "negotiated"] \in Row
    BY <2>1 DEF TypeOK, Row
  <2> QED BY <1>6, <2>2, CommitType DEF NegotiateBill, TypeOK
<1>7. ASSUME NEW r \in Requests, AssignJob(r)
      PROVE  TypeOK'
  <2>1. arg[r] \in Techs
    BY <1>7 DEF AssignJob, SessionsSound, Args
  <2>2. [seen[r] EXCEPT !.tech = arg[r]] \in Row
    BY <2>1 DEF TypeOK, Row
  <2> QED BY <1>7, <2>2, CommitType DEF AssignJob, TypeOK
<1>8. ASSUME NEW r \in Requests, ClaimJob(r)
      PROVE  TypeOK'
  <2>1. CASE Refuse(r, "rejected")
    BY <2>1, RefuseType DEF Answers
  <2>2. CASE /\ row' = [row EXCEPT !.tech = arg[r]]
             /\ logged' = [logged EXCEPT ![r] = ~AlreadyMine(r)]
             /\ Answer(r, "ok")
             /\ UNCHANGED <<completionRate, closing, rate, kind, arg>>
    <3>1. arg[r] \in Techs
      BY <1>8 DEF ClaimJob, SessionsSound, Args
    <3>2. row' \in Row
      BY <2>2, <3>1 DEF TypeOK, Row
    <3>3. /\ pc' \in [Requests -> PC]
          /\ seen' \in [Requests -> Row]
          /\ found' \in [Requests -> BOOLEAN]
      BY <2>2, AnswerType DEF Answers
    <3>4. logged' \in [Requests -> BOOLEAN]
      BY <2>2 DEF TypeOK, AlreadyMine
    <3> QED BY <2>2, <3>2, <3>3, <3>4 DEF TypeOK
  <2> QED BY <1>8, <2>1, <2>2 DEF ClaimJob
<1>9. ASSUME NEW r \in Requests, Abort(r)
      PROVE  TypeOK'
  BY <1>9, RefuseType DEF Abort, Answers
<1>10. ASSUME NEW newRate \in Rates, Restart(newRate)
       PROVE  TypeOK'
  <2>1. NewRow(None) \in Row
    BY NewRowType
  <2> QED BY <1>10, <2>1 DEF Restart, TypeOK, PC, Answers
<1>11. ASSUME RegisterClosing \/ DeleteClosing
       PROVE  TypeOK'
  BY <1>11, ConstantsAssumption DEF RegisterClosing, DeleteClosing, TypeOK, reqVars
<1>12. ASSUME UNCHANGED vars
       PROVE  TypeOK'
  BY <1>12 DEF TypeOK, vars
<1> QED
  BY <1>1, <1>2, <1>3, <1>4, <1>5, <1>6, <1>7, <1>8, <1>9, <1>10, <1>11, <1>12 DEF Next

-----------------------------------------------------------------------------
(* Merging a stale row: the facts every invariant below rests on *)

\* A request that only adds to its snapshot only adds to the committed row.
LEMMA MergeGrows ==
    ASSUME TypeOK, NEW r \in Requests, NEW new \in Row, Grows(seen[r], new)
    PROVE  Grows(row, Merge(r, new))
BY DEF TypeOK, Row, Grows, Merge, Column

\* If the snapshot, the committed row and what the request made of its snapshot
\* each agree on billing, then so does the row the commit leaves.
LEMMA MergeAgrees ==
    ASSUME NEW r \in Requests, NEW new, SessionsSound, BillFieldsAgree(row),
           Grows(seen[r], new), BillFieldsAgree(new)
    PROVE  BillFieldsAgree(Merge(r, new))
<1>1. Grows(seen[r], row) /\ BillFieldsAgree(seen[r])
  BY DEF SessionsSound
<1> QED BY <1>1 DEF Grows, BillFieldsAgree, Merge, Column

LEMMA GrowsTransitive ==
    ASSUME NEW x, NEW y, NEW z, Grows(x, y), Grows(y, z)
    PROVE  Grows(x, z)
BY DEF Grows

LEMMA GrowsReflexive ==
    ASSUME NEW x
    PROVE  Grows(x, x)
BY DEF Grows

\* A blank session is behind every row.
LEMMA BlankBehind ==
    ASSUME NEW x
    PROVE  Grows(NewRow(None), x) /\ BillFieldsAgree(NewRow(None))
BY DEF Grows, NewRow, BillFieldsAgree

\* What each handler makes of a consistent snapshot.
LEMMA TransitionedGrows ==
    ASSUME NEW k \in Transitions, NEW old \in Row, BillFieldsAgree(old)
    PROVE  Grows(old, Transitioned(k, old)) /\ BillFieldsAgree(Transitioned(k, old))
<1>1. CASE k = "ready"
  BY <1>1 DEF Transitioned, Row, Grows, BillFieldsAgree
<1>2. CASE k = "wait"
  BY <1>2 DEF Transitioned, Row, Grows, BillFieldsAgree
<1>3. CASE k = "close"
  BY <1>3 DEF Transitioned, Row, Grows, BillFieldsAgree
<1>4. CASE k = "abandon"
  BY <1>4 DEF Transitioned, Row, Grows, BillFieldsAgree
<1> QED BY <1>1, <1>2, <1>3, <1>4 DEF Transitions

LEMMA SubmittedGrows ==
    ASSUME TypeOK, SessionsSound, NEW r \in Requests, kind[r] = "submit"
    PROVE  /\ PinnedRate(r) \in Rates
           /\ arg[r] \in Forms
           /\ Submitted(r) \in Row
           /\ Submitted(r).original = Total[arg[r], PinnedRate(r)]
           /\ Submitted(r).original # None
           /\ Grows(seen[r], Submitted(r))
           /\ BillFieldsAgree(Submitted(r))
<1>1. PinnedRate(r) \in Rates
  BY DEF PinnedRate, SessionsSound, TypeOK
<1>2. arg[r] \in Forms
  BY DEF SessionsSound, Args
<1>3. Submitted(r) \in Row
  BY <1>1, <1>2, SubmittedType
<1>4. seen[r] \in Row /\ BillFieldsAgree(seen[r])
  BY DEF TypeOK, SessionsSound
<1>5. Submitted(r).original = Total[arg[r], PinnedRate(r)]
  BY <1>4 DEF Submitted, Row
<1>6. Total[arg[r], PinnedRate(r)] \in Nat /\ None \notin Nat
  BY <1>1, <1>2, ConstantsAssumption
<1>7. /\ Submitted(r).negotiated = seen[r].negotiated
      /\ Submitted(r).closedAt = seen[r].closedAt
      /\ Submitted(r).abandoned = seen[r].abandoned
      /\ Submitted(r).tech = seen[r].tech
      /\ Submitted(r).billStatus
           = IF seen[r].negotiated # None THEN "negotiated" ELSE "generated"
  BY <1>4 DEF Submitted, Row
<1>8. Grows(seen[r], Submitted(r))
  BY <1>5, <1>6, <1>7 DEF Grows
<1>9. BillFieldsAgree(Submitted(r))
  BY <1>5, <1>6, <1>7 DEF BillFieldsAgree
<1> QED BY <1>1, <1>2, <1>3, <1>5, <1>6, <1>8, <1>9

LEMMA NegotiatedGrows ==
    ASSUME TypeOK, SessionsSound, NEW r \in Requests, kind[r] = "negotiate", pc[r] = "loaded",
           NEW new, new = [seen[r] EXCEPT !.negotiated = arg[r], !.billStatus = "negotiated"]
    PROVE  new \in Row /\ Grows(seen[r], new) /\ BillFieldsAgree(new)
<1>1. arg[r] \in Amounts /\ arg[r] # None
  BY ConstantsAssumption DEF SessionsSound, Args
<1>2. seen[r] \in Row /\ BillFieldsAgree(seen[r]) /\ seen[r].original # None
  BY DEF TypeOK, SessionsSound
<1>3. new \in Row
  BY <1>1, <1>2 DEF Row
<1>4. /\ new.negotiated = arg[r] /\ new.billStatus = "negotiated"
      /\ new.original = seen[r].original /\ new.tech = seen[r].tech
      /\ new.closedAt = seen[r].closedAt /\ new.abandoned = seen[r].abandoned
  BY <1>2 DEF Row
<1> QED BY <1>1, <1>2, <1>3, <1>4 DEF Grows, BillFieldsAgree

LEMMA AssignedGrows ==
    ASSUME TypeOK, SessionsSound, NEW r \in Requests, kind[r] = "assign",
           NEW new, new = [seen[r] EXCEPT !.tech = arg[r]]
    PROVE  new \in Row /\ Grows(seen[r], new) /\ BillFieldsAgree(new)
<1>1. arg[r] \in Techs /\ arg[r] # None
  BY ConstantsAssumption DEF SessionsSound, Args
<1>2. seen[r] \in Row /\ BillFieldsAgree(seen[r])
  BY DEF TypeOK, SessionsSound
<1> QED BY <1>1, <1>2 DEF Row, Grows, BillFieldsAgree


-----------------------------------------------------------------------------
(* The inductive invariant *)

IInv == TypeOK /\ SessionsSound /\ ClosedIsBilled /\ BillStatusSound

\* The part of SessionsSound that speaks of one request.
SessionSound(r) ==
    /\ arg[r] \in Args(kind[r])
    /\ found[r] => completionRate # None
    /\ pc[r] = "read" /\ kind[r] = "close" => completionRate # None
    /\ pc[r] = "loaded" /\ kind[r] = "negotiate" => seen[r].original # None
    /\ pc[r] \in InFlight /\ kind[r] \in {"claim", "submit", "negotiate"} =>
          seen[r].status # "closed"
    /\ Grows(seen[r], row)
    /\ BillFieldsAgree(seen[r])

LEMMA SessionsAreSound == SessionsSound <=> \A r \in Requests : SessionSound(r)
BY DEF SessionsSound, SessionSound

\* A request that is not at step keeps its sound session while the committed
\* row grows and the completion row stays.
LEMMA OthersSound ==
    ASSUME NEW q \in Requests, SessionSound(q),
           pc'[q] = pc[q], kind'[q] = kind[q], arg'[q] = arg[q],
           seen'[q] = seen[q], found'[q] = found[q],
           Grows(row, row'), completionRate # None => completionRate' # None
    PROVE  SessionSound(q)'
<1>1. Grows(seen[q], row')
  BY GrowsTransitive DEF SessionSound
<1> QED BY <1>1 DEF SessionSound, BillFieldsAgree, Grows

\* An answer leaves every session sound.
LEMMA AnswerSound ==
    ASSUME TypeOK, SessionsSound, NEW r \in Requests, NEW a \in Answers, Answer(r, a),
           UNCHANGED <<kind, arg>>,
           Grows(row, row'), completionRate # None => completionRate' # None
    PROVE  SessionsSound'
<1> SUFFICES ASSUME NEW q \in Requests PROVE SessionSound(q)'
  BY DEF SessionsSound, SessionSound
<1>1. SessionSound(q)
  BY SessionsAreSound
<1>2. CASE q = r
  <2>1. pc'[q] = a /\ seen'[q] = NewRow(None) /\ found'[q] = FALSE
    BY <1>2 DEF Answer, TypeOK
  <2>2. Grows(NewRow(None), row') /\ BillFieldsAgree(NewRow(None))
    BY BlankBehind
  <2> QED BY <1>1, <2>1, <2>2 DEF SessionSound, Answers, InFlight, BillFieldsAgree, Grows
<1>3. CASE q # r
  <2>1. pc'[q] = pc[q] /\ seen'[q] = seen[q] /\ found'[q] = found[q]
    BY <1>3 DEF Answer, TypeOK
  <2> QED BY <1>1, <2>1, OthersSound
<1> QED BY <1>2, <1>3

\* Refusing a request keeps the invariant.
LEMMA RefuseKeeps ==
    ASSUME IInv, NEW r \in Requests, NEW a \in Answers, Refuse(r, a)
    PROVE  IInv'
<1>1. TypeOK'
  BY RefuseType DEF IInv
<1>2. row' = row /\ completionRate' = completionRate
  BY DEF Refuse, dbVars
<1>3. Grows(row, row')
  BY <1>2, GrowsReflexive
<1>4. SessionsSound'
  BY <1>2, <1>3, AnswerSound DEF Refuse, IInv
<1> QED
  BY <1>1, <1>2, <1>4 DEF IInv, ClosedIsBilled, BillStatusSound, BillFieldsAgree

\* A commit of what a handler made of its snapshot keeps the invariant, if it
\* only adds to the snapshot, keeps the billing fields in step with each other
\* and with the completion row, and closes the job only when that is due.
LEMMA CommitKeeps ==
    ASSUME IInv, NEW r \in Requests, NEW new \in Row, Commit(r, new),
           UNCHANGED <<closing, rate, kind, arg>>,
           completionRate' \in Rates \cup {None},
           completionRate # None => completionRate' # None,
           new.original # seen[r].original => completionRate' # None,
           completionRate' # completionRate => new.original # None,
           Grows(seen[r], new), BillFieldsAgree(new),
           new.status = "closed" /\ seen[r].status # "closed" =>
               new.closedAt /\ (new.abandoned \/ completionRate # None)
    PROVE  IInv'
<1>1. TypeOK'
  BY CommitType DEF IInv
<1>2. row' = Merge(r, new)
  BY DEF Commit
<1>3. Grows(row, row')
  BY <1>2, MergeGrows DEF IInv
<1>4. SessionsSound'
  BY <1>3, AnswerSound DEF Commit, IInv, Answers
<1>5. BillFieldsAgree(row')
  BY <1>2, MergeAgrees DEF IInv, BillStatusSound
<1>6. seen[r] \in Row /\ row \in Row /\ row' \in Row /\ Grows(seen[r], row)
  BY <1>1 DEF IInv, TypeOK, SessionsSound
<1>7. row'.original = None <=> completionRate' = None
  <2>1. row'.original = Column(seen[r].original, new.original, row.original)
    BY <1>2 DEF Merge
  <2>2. row.original = None <=> completionRate = None
    BY DEF IInv, BillStatusSound
  <2>3. CASE new.original = seen[r].original
    BY <2>1, <2>2, <2>3, <1>6 DEF Column, Grows
  <2>4. CASE new.original # seen[r].original
    BY <2>1, <2>2, <2>4, <1>6 DEF Column, Grows
  <2> QED BY <2>3, <2>4
<1>8. BillStatusSound'
  BY <1>5, <1>7 DEF BillStatusSound, BillFieldsAgree
<1>9. ClosedIsBilled'
  <2> SUFFICES ASSUME row'.status = "closed"
               PROVE  row'.closedAt /\ (row'.abandoned \/ completionRate' # None)
    BY <1>7 DEF ClosedIsBilled
  <2>1. row'.status = Column(seen[r].status, new.status, row.status)
    BY <1>2 DEF Merge
  <2>2. CASE row.status = "closed"
    BY <2>2, <1>3 DEF IInv, ClosedIsBilled, Grows
  <2>3. CASE row.status # "closed"
    <3>1. new.status = "closed" /\ seen[r].status # "closed"
      BY <2>1, <2>3 DEF Column
    <3>2. new.closedAt /\ (new.abandoned \/ completionRate # None)
      BY <3>1
    <3>3. /\ row'.closedAt = Column(seen[r].closedAt, new.closedAt, row.closedAt)
          /\ row'.abandoned = Column(seen[r].abandoned, new.abandoned, row.abandoned)
      BY <1>2 DEF Merge
    <3>4. row'.closedAt
      BY <3>2, <3>3, <1>6 DEF Column, Grows, Row
    <3>5. new.abandoned => row'.abandoned
      BY <3>3, <1>6 DEF Column, Grows, Row
    <3> QED BY <3>2, <3>4, <3>5
  <2> QED BY <2>2, <2>3
<1> QED BY <1>1, <1>4, <1>8, <1>9 DEF IInv


LEMMA InitIInv == Init => IInv
<1> SUFFICES ASSUME Init PROVE IInv
  OBVIOUS
<1>1. NewRow(None) \in Row /\ NewRow(IntakeTech) \in Row
  BY NewRowType, ConstantsAssumption
<1>2. TypeOK
  BY <1>1, ConstantsAssumption DEF Init, TypeOK, PC, Kinds, Transitions
<1>3. SessionsSound
  <2> SUFFICES ASSUME NEW r \in Requests PROVE SessionSound(r)
    BY SessionsAreSound
  <2>1. arg[r] \in Args(kind[r])
    BY DEF Init, Args
  <2>2. Grows(NewRow(None), row) /\ BillFieldsAgree(NewRow(None))
    BY BlankBehind
  <2> QED BY <2>1, <2>2 DEF Init, SessionSound
<1>4. ClosedIsBilled /\ BillStatusSound
  BY DEF Init, NewRow, ClosedIsBilled, BillStatusSound, BillFieldsAgree
<1> QED BY <1>2, <1>3, <1>4 DEF IInv

LEMMA StepIInv ==
    ASSUME IInv, [Next]_vars
    PROVE  IInv'
<1> USE DEF IInv
<1>0. TypeOK'
  BY TypeStep
<1>1. ASSUME NEW r \in Requests, NEW k \in Kinds, NEW a \in Args(k), Receive(r, k, a)
      PROVE  IInv'
  <2>1. UNCHANGED <<row, completionRate>>
    BY <1>1 DEF Receive, dbVars
  <2>2. SessionsSound'
    <3> SUFFICES ASSUME NEW q \in Requests PROVE SessionSound(q)'
      BY DEF SessionsSound, SessionSound
    <3>1. SessionSound(q)
      BY SessionsAreSound
    <3>2. CASE q = r
      <4>1. kind'[q] = k /\ arg'[q] = a /\ found'[q] = found[q]
        BY <1>1, <3>2 DEF Receive, TypeOK
      <4>2. CASE pc'[q] = "rejected" /\ seen'[q] = seen[q]
        BY <2>1, <3>1, <4>1, <4>2 DEF SessionSound, Grows, BillFieldsAgree, InFlight
      <4>3. CASE pc'[q] = "loaded" /\ seen'[q] = row /\ ~Refused(k)
        BY <2>1, <3>1, <4>1, <4>3, GrowsReflexive
           DEF SessionSound, BillStatusSound, BillFieldsAgree, Refused, Grows
      <4> QED BY <1>1, <3>2, <4>2, <4>3 DEF Receive, TypeOK
    <3>3. CASE q # r
      BY <1>1, <2>1, <3>1, <3>3, OthersSound, GrowsReflexive DEF Receive, TypeOK
    <3> QED BY <3>2, <3>3
  <2> QED BY <1>0, <2>1, <2>2 DEF ClosedIsBilled, BillStatusSound, BillFieldsAgree
<1>2. ASSUME NEW r \in Requests, CountClosing(r)
      PROVE  IInv'
  <2>1. CASE Refuse(r, "rejected")
    BY <2>1, RefuseKeeps DEF Answers
  <2>2. CASE pc' = [pc EXCEPT ![r] = "counted"]
             /\ UNCHANGED <<dbVars, kind, arg, seen, found, logged>>
    <3>1. SessionsSound'
      BY <1>2, <2>2 DEF CountClosing, TypeOK, dbVars, SessionsSound, InFlight,
                        BillFieldsAgree, Grows
    <3> QED BY <1>0, <2>2, <3>1 DEF dbVars, ClosedIsBilled, BillStatusSound, BillFieldsAgree
  <2> QED BY <1>2, <2>1, <2>2 DEF CountClosing
<1>3. ASSUME NEW r \in Requests, ReadCompletion(r)
      PROVE  IInv'
  <2>1. CASE Refuse(r, "rejected")
    BY <2>1, RefuseKeeps DEF Answers
  <2>2. CASE /\ ~(kind[r] = "close" /\ CloseNeedsForm)
             /\ pc' = [pc EXCEPT ![r] = "read"]
             /\ found' = [found EXCEPT ![r] = completionRate # None]
             /\ UNCHANGED <<dbVars, kind, arg, seen, logged>>
    <3>1. SessionsSound'
      BY <1>3, <2>2 DEF ReadCompletion, TypeOK, dbVars, SessionsSound, InFlight,
                        BillFieldsAgree, Grows, CloseNeedsForm
    <3> QED BY <2>2, <1>0, <3>1 DEF dbVars, ClosedIsBilled, BillStatusSound, BillFieldsAgree
  <2> QED BY <1>3, <2>1, <2>2 DEF ReadCompletion
<1>4. ASSUME NEW r \in Requests, Transition(r)
      PROVE  IInv'
  <2> DEFINE new == Transitioned(kind[r], seen[r])
  <2>1. seen[r] \in Row /\ BillFieldsAgree(seen[r]) /\ kind[r] \in Transitions
    BY <1>4 DEF TypeOK, SessionsSound, Transition
  <2>2. new \in Row /\ Grows(seen[r], new) /\ BillFieldsAgree(new)
    BY <2>1, TransitionedType, TransitionedGrows
  <2>3. kind[r] = "close" => completionRate # None
    BY <1>4 DEF Transition, SessionsSound
  <2>4. /\ new.original = seen[r].original
        /\ new.status = "closed" /\ seen[r].status # "closed" =>
              new.closedAt /\ (new.abandoned \/ completionRate # None)
    <3>1. CASE kind[r] = "ready"
      BY <2>1, <3>1 DEF Transitioned, Row
    <3>2. CASE kind[r] = "wait"
      BY <2>1, <3>2 DEF Transitioned, Row
    <3>3. CASE kind[r] = "close"
      BY <2>1, <2>3, <3>3 DEF Transitioned, Row
    <3>4. CASE kind[r] = "abandon"
      BY <2>1, <3>4 DEF Transitioned, Row
    <3> QED BY <2>1, <3>1, <3>2, <3>3, <3>4 DEF Transitions
  <2>5. Commit(r, new) /\ UNCHANGED <<completionRate, closing, rate, kind, arg>>
    BY <1>4 DEF Transition
  <2>6. completionRate \in Rates \cup {None}
    BY DEF TypeOK
  <2> HIDE DEF new, IInv
  <2> QED BY <2>2, <2>4, <2>5, <2>6, CommitKeeps
<1>5. ASSUME NEW r \in Requests, SubmitCompletion(r)
      PROVE  IInv'
  <2>1. CASE Refuse(r, "error")
    BY <2>1, RefuseKeeps DEF Answers
  <2>2. CASE /\ completionRate' = PinnedRate(r)
             /\ Commit(r, Submitted(r))
             /\ UNCHANGED <<closing, rate, kind, arg>>
    <3>1. /\ PinnedRate(r) \in Rates
          /\ Submitted(r) \in Row
          /\ Submitted(r).original # None
          /\ Grows(seen[r], Submitted(r)) /\ BillFieldsAgree(Submitted(r))
      BY <1>5, SubmittedGrows DEF SubmitCompletion
    <3>2. PinnedRate(r) # None
      BY <3>1, ConstantsAssumption
    <3>3. Submitted(r).status = seen[r].status
      BY DEF Submitted, TypeOK, Row
    <3> QED BY <2>2, <3>1, <3>2, <3>3, CommitKeeps
  <2> QED BY <1>5, <2>1, <2>2 DEF SubmitCompletion
<1>6. ASSUME NEW r \in Requests, NegotiateBill(r)
      PROVE  IInv'
  <2> DEFINE new == [seen[r] EXCEPT !.negotiated = arg[r], !.billStatus = "negotiated"]
  <2>1. new \in Row /\ Grows(seen[r], new) /\ BillFieldsAgree(new)
    BY <1>6, NegotiatedGrows DEF NegotiateBill
  <2>2. new.original = seen[r].original /\ new.status = seen[r].status
    BY DEF TypeOK, Row
  <2>3. Commit(r, new) /\ UNCHANGED <<completionRate, closing, rate, kind, arg>>
    BY <1>6 DEF NegotiateBill
  <2>4. completionRate \in Rates \cup {None}
    BY DEF TypeOK
  <2> HIDE DEF new, IInv
  <2> QED BY <2>1, <2>2, <2>3, <2>4, CommitKeeps
<1>7. ASSUME NEW r \in Requests, AssignJob(r)
      PROVE  IInv'
  <2> DEFINE new == [seen[r] EXCEPT !.tech = arg[r]]
  <2>1. new \in Row /\ Grows(seen[r], new) /\ BillFieldsAgree(new)
    BY <1>7, AssignedGrows DEF AssignJob
  <2>2. new.original = seen[r].original /\ new.status = seen[r].status
    BY DEF TypeOK, Row
  <2>3. Commit(r, new) /\ UNCHANGED <<completionRate, closing, rate, kind, arg>>
    BY <1>7 DEF AssignJob
  <2>4. completionRate \in Rates \cup {None}
    BY DEF TypeOK
  <2> HIDE DEF new, IInv
  <2> QED BY <2>1, <2>2, <2>3, <2>4, CommitKeeps
<1>8. ASSUME NEW r \in Requests, ClaimJob(r)
      PROVE  IInv'
  <2>1. CASE Refuse(r, "rejected")
    BY <2>1, RefuseKeeps DEF Answers
  <2>2. CASE /\ row' = [row EXCEPT !.tech = arg[r]]
             /\ logged' = [logged EXCEPT ![r] = ~AlreadyMine(r)]
             /\ Answer(r, "ok")
             /\ UNCHANGED <<completionRate, closing, rate, kind, arg>>
    <3>1. arg[r] \in Techs /\ arg[r] # None
      BY <1>8, ConstantsAssumption DEF ClaimJob, SessionsSound, Args
    <3>2. /\ row'.status = row.status /\ row'.closedAt = row.closedAt
          /\ row'.abandoned = row.abandoned /\ row'.original = row.original
          /\ row'.negotiated = row.negotiated /\ row'.billStatus = row.billStatus
          /\ row'.tech = arg[r]
      BY <2>2 DEF TypeOK, Row
    <3>3. Grows(row, row')
      BY <3>1, <3>2 DEF Grows
    <3>4. SessionsSound'
      BY <2>2, <3>3, AnswerSound DEF Answers
    <3> QED BY <1>0, <2>2, <3>2, <3>4 DEF ClosedIsBilled, BillStatusSound, BillFieldsAgree
  <2> QED BY <1>8, <2>1, <2>2 DEF ClaimJob
<1>9. ASSUME NEW r \in Requests, Abort(r)
      PROVE  IInv'
  BY <1>9, RefuseKeeps DEF Abort, Answers
<1>10. ASSUME NEW newRate \in Rates, Restart(newRate)
       PROVE  IInv'
  <2>1. SessionsSound'
    <3> SUFFICES ASSUME NEW q \in Requests PROVE SessionSound(q)'
      BY DEF SessionsSound, SessionSound
    <3>1. arg[q] \in Args(kind[q])
      BY DEF SessionsSound
    <3>2. Grows(NewRow(None), row) /\ BillFieldsAgree(NewRow(None))
      BY BlankBehind
    <3> QED BY <1>10, <3>1, <3>2
            DEF Restart, SessionSound, Grows, BillFieldsAgree, TypeOK, PC, InFlight, Answers
  <2> QED BY <1>0, <1>10, <2>1 DEF Restart, ClosedIsBilled, BillStatusSound, BillFieldsAgree
<1>11. ASSUME RegisterClosing \/ DeleteClosing
       PROVE  IInv'
  BY <1>0, <1>11 DEF RegisterClosing, DeleteClosing, reqVars, SessionsSound, Grows,
                     ClosedIsBilled, BillStatusSound, BillFieldsAgree
<1>12. ASSUME UNCHANGED vars
       PROVE  IInv'
  BY <1>0, <1>12 DEF vars, SessionsSound, Grows, ClosedIsBilled, BillStatusSound,
                     BillFieldsAgree
<1> QED
  BY <1>1, <1>2, <1>3, <1>4, <1>5, <1>6, <1>7, <1>8, <1>9, <1>10, <1>11, <1>12 DEF Next

-----------------------------------------------------------------------------
(* Theorems *)

LEMMA InvariantHolds == Spec => []IInv
BY InitIInv, StepIInv, PTL DEF Spec

\* Every variable keeps its type, for any set of requests.
THEOREM TypeCorrect == Spec => []TypeOK
BY InvariantHolds, PTL DEF IInv

\* No interleaving of requests closes a job without its completion row and its
\* bill, unless it is abandoned (the money guard of transition()).
THEOREM ClosedJobsAreBilled == Spec => []ClosedIsBilled
BY InvariantHolds, PTL DEF IInv

\* bill_status, the two amounts and the completion row never disagree on how
\* far billing has come, although they are written from stale rows.
THEOREM BillStatusIsSound == Spec => []BillStatusSound
BY InvariantHolds, PTL DEF IInv

\* A stale snapshot is always a consistent row that the committed row has only
\* outgrown (_load).
THEOREM SessionsAreBehind == Spec => []SessionsSound
BY InvariantHolds, PTL DEF IInv


-----------------------------------------------------------------------------
(* Accepted requests *)

\* A step that accepts no request leaves the row, and what was accepted, alone.
Quiet ==
    /\ row' = row
    /\ completionRate' = completionRate
    /\ \A q \in Requests : /\ pc'[q] = "ok" <=> pc[q] = "ok"
                           /\ pc[q] = "ok" => kind'[q] = kind[q] /\ arg'[q] = arg[q]
    /\ logged' = logged

\* A step that accepts request r; every other answer stays.
Accepts(r) ==
    /\ pc[r] \in InFlight /\ pc'[r] = "ok"
    /\ kind' = kind /\ arg' = arg
    /\ \A q \in Requests \ {r} : pc'[q] = pc[q] /\ logged'[q] = logged[q]

LEMMA RefuseIsQuiet ==
    ASSUME TypeOK, NEW r \in Requests, NEW a \in Answers \ {"ok"}, pc[r] # "ok", Refuse(r, a)
    PROVE  Quiet
BY DEF Quiet, Refuse, Answer, dbVars, TypeOK

LEMMA CommitAccepts ==
    ASSUME TypeOK, NEW r \in Requests, NEW new, pc[r] \in InFlight, Commit(r, new),
           UNCHANGED <<kind, arg>>
    PROVE  Accepts(r) /\ logged'[r] /\ row' = Merge(r, new)
BY DEF Accepts, Commit, Answer, TypeOK

\* Every step is quiet or accepts one request, and then it is one of these.
LEMMA StepShape ==
    ASSUME TypeOK, [Next]_vars
    PROVE  \/ Quiet
           \/ \E r \in Requests : Accepts(r) /\
                \/ Transition(r) \/ NegotiateBill(r) \/ AssignJob(r)
                \/ SubmitCompletion(r) /\ ~SubmitCollides(r)
                \/ ClaimJob(r) /\ CanClaim(r)
<1>1. ASSUME NEW r \in Requests, NEW k \in Kinds, NEW a \in Args(k), Receive(r, k, a)
      PROVE  Quiet
  BY <1>1 DEF Receive, Quiet, dbVars, TypeOK
<1>2. ASSUME NEW r \in Requests, CountClosing(r)
      PROVE  Quiet
  <2>1. CASE Refuse(r, "rejected")
    BY <1>2, <2>1, RefuseIsQuiet DEF CountClosing, Answers
  <2>2. CASE pc' = [pc EXCEPT ![r] = "counted"]
             /\ UNCHANGED <<dbVars, kind, arg, seen, found, logged>>
    BY <1>2, <2>2 DEF CountClosing, Quiet, dbVars, TypeOK
  <2> QED BY <1>2, <2>1, <2>2 DEF CountClosing
<1>3. ASSUME NEW r \in Requests, ReadCompletion(r)
      PROVE  Quiet
  <2>1. CASE Refuse(r, "rejected")
    BY <1>3, <2>1, RefuseIsQuiet DEF ReadCompletion, Answers
  <2>2. CASE /\ pc' = [pc EXCEPT ![r] = "read"]
             /\ UNCHANGED <<dbVars, kind, arg, seen, logged>>
    BY <1>3, <2>2 DEF ReadCompletion, Quiet, dbVars, TypeOK
  <2> QED BY <1>3, <2>1, <2>2 DEF ReadCompletion
<1>4. ASSUME NEW r \in Requests, Transition(r)
      PROVE  Accepts(r)
  BY <1>4, CommitAccepts DEF Transition, InFlight
<1>5. ASSUME NEW r \in Requests, SubmitCompletion(r)
      PROVE  Quiet \/ (Accepts(r) /\ ~SubmitCollides(r))
  <2>1. CASE SubmitCollides(r)
    BY <1>5, <2>1, RefuseIsQuiet DEF SubmitCompletion, Answers
  <2>2. CASE ~SubmitCollides(r)
    BY <1>5, <2>2, CommitAccepts DEF SubmitCompletion, InFlight
  <2> QED BY <2>1, <2>2
<1>6. ASSUME NEW r \in Requests, NegotiateBill(r)
      PROVE  Accepts(r)
  BY <1>6, CommitAccepts DEF NegotiateBill, InFlight
<1>7. ASSUME NEW r \in Requests, AssignJob(r)
      PROVE  Accepts(r)
  BY <1>7, CommitAccepts DEF AssignJob, InFlight
<1>8. ASSUME NEW r \in Requests, ClaimJob(r)
      PROVE  Quiet \/ (Accepts(r) /\ CanClaim(r))
  <2>1. CASE ~CanClaim(r)
    BY <1>8, <2>1, RefuseIsQuiet DEF ClaimJob, Answers
  <2>2. CASE CanClaim(r)
    BY <1>8, <2>2 DEF ClaimJob, Answer, Accepts, InFlight, TypeOK
  <2> QED BY <2>1, <2>2
<1>9. ASSUME NEW r \in Requests, Abort(r)
      PROVE  Quiet
  BY <1>9, RefuseIsQuiet DEF Abort, Answers, InFlight
<1>10. ASSUME NEW newRate \in Rates, Restart(newRate)
       PROVE  Quiet
  BY <1>10 DEF Restart, Quiet, InFlight, TypeOK
<1>11. ASSUME RegisterClosing \/ DeleteClosing \/ UNCHANGED vars
       PROVE  Quiet
  BY <1>11 DEF RegisterClosing, DeleteClosing, reqVars, vars, Quiet
<1> QED
  BY <1>1, <1>2, <1>3, <1>4, <1>5, <1>6, <1>7, <1>8, <1>9, <1>10, <1>11 DEF Next

\* The columns a commit leaves that its handler did not touch.
LEMMA UntouchedTech ==
    ASSUME NEW r \in Requests, NEW new, new.tech = seen[r].tech
    PROVE  Merge(r, new).tech = row.tech
BY DEF Merge, Column

LEMMA UntouchedBill ==
    ASSUME NEW r \in Requests, NEW new,
           new.original = seen[r].original, new.negotiated = seen[r].negotiated
    PROVE  Merge(r, new).original = row.original /\ Merge(r, new).negotiated = row.negotiated
BY DEF Merge, Column

LEMMA TransitionedUntouched ==
    ASSUME NEW k \in Transitions, NEW old \in Row
    PROVE  /\ Transitioned(k, old).tech = old.tech
           /\ Transitioned(k, old).original = old.original
           /\ Transitioned(k, old).negotiated = old.negotiated
BY DEF Transitions, Transitioned, Row

LEMMA ClaimStep ==
    ASSUME IInv, ClaimStands, [Next]_vars
    PROVE  ClaimStands'
<1>1. CASE Quiet
  BY <1>1 DEF Quiet, ClaimStands, Accepted
<1>2. ASSUME NEW r \in Requests, Accepts(r), kind[r] # "claim",
             row'.tech = row.tech \/ (kind[r] = "assign" /\ row'.tech = arg[r])
      PROVE  ClaimStands'
  <2> SUFFICES ASSUME NEW q \in Requests, Accepted(q, "claim")'
               PROVE  \/ row'.tech = arg'[q]
                      \/ \E a \in Requests : Accepted(a, "assign")' /\ arg'[a] = row'.tech
    BY DEF ClaimStands
  <2>1. Accepted(q, "claim") /\ q # r
    BY <1>2 DEF Accepts, Accepted
  <2>2. CASE row'.tech = row.tech
    BY <1>2, <2>1, <2>2 DEF ClaimStands, Accepted, Accepts, InFlight
  <2>3. CASE kind[r] = "assign" /\ row'.tech = arg[r]
    BY <1>2, <2>3 DEF Accepted, Accepts
  <2> QED BY <1>2, <2>2, <2>3
<1>3. ASSUME NEW r \in Requests, Accepts(r), Transition(r)
      PROVE  ClaimStands'
  <2>1. row'.tech = row.tech
    BY <1>3, UntouchedTech, TransitionedUntouched DEF Transition, Commit, IInv, TypeOK
  <2> QED BY <1>2, <1>3, <2>1 DEF Transition, Transitions
<1>4. ASSUME NEW r \in Requests, Accepts(r), SubmitCompletion(r), ~SubmitCollides(r)
      PROVE  ClaimStands'
  <2>1. Submitted(r).tech = seen[r].tech
    BY DEF Submitted, IInv, TypeOK, Row
  <2>2. row'.tech = row.tech
    BY <1>4, <2>1, UntouchedTech DEF SubmitCompletion, Commit
  <2> QED BY <1>2, <1>4, <2>2 DEF SubmitCompletion
<1>5. ASSUME NEW r \in Requests, Accepts(r), NegotiateBill(r)
      PROVE  ClaimStands'
  <2>1. [seen[r] EXCEPT !.negotiated = arg[r], !.billStatus = "negotiated"].tech = seen[r].tech
    BY DEF IInv, TypeOK, Row
  <2>2. row'.tech = row.tech
    BY <1>5, <2>1, UntouchedTech DEF NegotiateBill, Commit
  <2> QED BY <1>2, <1>5, <2>2 DEF NegotiateBill
<1>6. ASSUME NEW r \in Requests, Accepts(r), AssignJob(r)
      PROVE  ClaimStands'
  <2>1. [seen[r] EXCEPT !.tech = arg[r]].tech = arg[r]
    BY DEF IInv, TypeOK, Row
  <2>2. row'.tech = row.tech \/ row'.tech = arg[r]
    BY <1>6, <2>1 DEF AssignJob, Commit, Merge, Column
  <2> QED BY <1>2, <1>6, <2>2 DEF AssignJob
<1>7. ASSUME NEW r \in Requests, Accepts(r), ClaimJob(r), CanClaim(r)
      PROVE  ClaimStands'
  <2> SUFFICES ASSUME NEW q \in Requests, Accepted(q, "claim")'
               PROVE  \/ row'.tech = arg'[q]
                      \/ \E a \in Requests : Accepted(a, "assign")' /\ arg'[a] = row'.tech
    BY DEF ClaimStands
  <2>1. row'.tech = arg[r]
    BY <1>7 DEF ClaimJob, IInv, TypeOK, Row
  <2>2. CASE q = r
    BY <1>7, <2>1, <2>2 DEF Accepts
  <2>3. CASE q # r
    <3>1. Accepted(q, "claim")
      BY <1>7, <2>3 DEF Accepts, Accepted
    <3>2. arg[q] \in Techs /\ (\A a \in Requests : Accepted(a, "assign") => arg[a] \in Techs)
      BY <3>1 DEF IInv, SessionsSound, Accepted, Args
    <3>3. row.tech # None
      BY <3>1, <3>2, ConstantsAssumption DEF ClaimStands
    <3>4. row'.tech = row.tech
      BY <1>7, <2>1, <3>3 DEF CanClaim
    <3> QED BY <1>7, <2>3, <3>1, <3>4 DEF ClaimStands, Accepts, Accepted, InFlight
  <2> QED BY <2>2, <2>3
<1> QED
  <2>1. TypeOK
    BY DEF IInv
  <2> QED BY <1>1, <1>3, <1>4, <1>5, <1>6, <1>7, <2>1, StepShape

\* A technician told that a claim succeeded keeps the job until a manager
\* assigns it, whatever other claims race (claim_job and try_claim).
THEOREM ClaimsNeverSteal == Spec => []ClaimStands
<1>1. Init => ClaimStands
  BY DEF Init, ClaimStands, Accepted
<1> QED BY <1>1, ClaimStep, InvariantHolds, PTL DEF Spec


-----------------------------------------------------------------------------
(* Bills *)

\* What a step does to the two amounts and to the pinned rates.
LEMMA BillStep ==
    ASSUME IInv, [Next]_vars
    PROVE  \/ /\ row'.original = row.original /\ row'.negotiated = row.negotiated
              /\ completionRate' = completionRate
           \/ \E r \in Requests :
                /\ Accepts(r) /\ logged'[r] /\ kind[r] = "submit"
                /\ row'.original \in {row.original, Total[arg[r], PinnedRate(r)]}
                /\ row'.original # None
                /\ row'.negotiated = row.negotiated
                /\ completionRate' = PinnedRate(r) /\ ~SubmitCollides(r)
           \/ \E r \in Requests :
                /\ Accepts(r) /\ logged'[r] /\ kind[r] = "negotiate"
                /\ row'.original = row.original
                /\ row'.negotiated \in {row.negotiated, arg[r]}
                /\ row'.negotiated # None
                /\ completionRate' = completionRate
<1>0. TypeOK /\ SessionsSound
  BY DEF IInv
<1>1. CASE Quiet
  BY <1>1 DEF Quiet
<1>2. ASSUME NEW r \in Requests, Accepts(r), Transition(r)
      PROVE  /\ row'.original = row.original /\ row'.negotiated = row.negotiated
             /\ completionRate' = completionRate
  BY <1>0, <1>2, UntouchedBill, TransitionedUntouched DEF Transition, Commit, TypeOK
<1>3. ASSUME NEW r \in Requests, Accepts(r), NegotiateBill(r)
      PROVE  /\ logged'[r] /\ kind[r] = "negotiate"
             /\ row'.original = row.original
             /\ row'.negotiated \in {row.negotiated, arg[r]}
             /\ row'.negotiated # None
             /\ completionRate' = completionRate
  <2> DEFINE new == [seen[r] EXCEPT !.negotiated = arg[r], !.billStatus = "negotiated"]
  <2>1. new.negotiated = arg[r] /\ new.original = seen[r].original
    BY <1>0 DEF TypeOK, Row
  <2>2. row' = Merge(r, new) /\ logged'[r] /\ kind[r] = "negotiate"
    BY <1>0, <1>3 DEF NegotiateBill, Commit, TypeOK
  <2>3. arg[r] # None
    BY <1>0, <2>2, ConstantsAssumption DEF SessionsSound, Args
  <2>4. row'.original = row.original
    BY <2>1, <2>2 DEF Merge, Column
  <2>5. row'.negotiated \in {row.negotiated, arg[r]} /\ row'.negotiated # None
    BY <1>0, <2>1, <2>2, <2>3 DEF Merge, Column, SessionsSound, Grows
  <2> QED BY <1>3, <2>2, <2>4, <2>5 DEF NegotiateBill
<1>4. ASSUME NEW r \in Requests, Accepts(r), AssignJob(r)
      PROVE  /\ row'.original = row.original /\ row'.negotiated = row.negotiated
             /\ completionRate' = completionRate
  <2>1. /\ [seen[r] EXCEPT !.tech = arg[r]].original = seen[r].original
        /\ [seen[r] EXCEPT !.tech = arg[r]].negotiated = seen[r].negotiated
    BY <1>0 DEF TypeOK, Row
  <2> QED BY <1>4, <2>1, UntouchedBill DEF AssignJob, Commit
<1>5. ASSUME NEW r \in Requests, Accepts(r), SubmitCompletion(r), ~SubmitCollides(r)
      PROVE  /\ logged'[r] /\ kind[r] = "submit"
             /\ row'.original \in {row.original, Total[arg[r], PinnedRate(r)]}
             /\ row'.original # None
             /\ row'.negotiated = row.negotiated
             /\ completionRate' = PinnedRate(r)
  <2>1. /\ completionRate' = PinnedRate(r) /\ row' = Merge(r, Submitted(r))
        /\ logged'[r] /\ kind[r] = "submit"
    BY <1>0, <1>5 DEF SubmitCompletion, Commit, TypeOK
  <2>2. /\ Submitted(r).original = Total[arg[r], PinnedRate(r)]
        /\ Submitted(r).original # None
    BY <1>0, <2>1, SubmittedGrows
  <2>3. Submitted(r).negotiated = seen[r].negotiated
    BY <1>0 DEF Submitted, TypeOK, Row
  <2>4. row'.negotiated = row.negotiated
    BY <2>1, <2>3 DEF Merge, Column
  <2>5. /\ row'.original \in {row.original, Total[arg[r], PinnedRate(r)]}
        /\ row'.original # None
    BY <1>0, <2>1, <2>2 DEF Merge, Column, SessionsSound, Grows
  <2> QED BY <2>1, <2>4, <2>5
<1>6. ASSUME NEW r \in Requests, Accepts(r), ClaimJob(r), CanClaim(r)
      PROVE  /\ row'.original = row.original /\ row'.negotiated = row.negotiated
             /\ completionRate' = completionRate
  BY <1>0, <1>6 DEF ClaimJob, TypeOK, Row
<1> QED
  BY <1>0, <1>1, <1>2, <1>3, <1>4, <1>5, <1>6, StepShape

\* The rates of a completion row never change and later bills are priced at
\* them, whatever the configuration becomes (submit_completion).
THEOREM BillsAreNeverRepriced == Spec => NeverRepriced
<1> DEFINE Priced == completionRate # None =>
              /\ completionRate' = completionRate
              /\ row'.original # row.original =>
                    \E f \in Forms : row'.original = Total[f, completionRate]
<1>1. ASSUME IInv, [Next]_vars
      PROVE  Priced
  <2>1. ASSUME NEW r \in Requests, kind[r] = "submit", completionRate # None,
               ~SubmitCollides(r)
        PROVE  PinnedRate(r) = completionRate /\ arg[r] \in Forms
    BY <1>1, <2>1 DEF PinnedRate, SubmitCollides, IInv, SessionsSound, Args
  <2> QED BY <1>1, <2>1, BillStep
<1>2. IInv /\ [Next]_vars => [Priced]_vars
  BY <1>1
<1> HIDE DEF Priced
<1>3. Spec => [][Priced]_vars
  BY <1>2, InvariantHolds, PTL DEF Spec
<1> QED BY <1>3 DEF NeverRepriced, Priced

\* Once the requests that loaded the row before the close are answered, the
\* bill of a closed job stands still (the closed-job guards).
THEOREM ClosedBillSettles == Spec => SettledUnlessInFlight
<1> DEFINE Settled ==
      /\ row.status = "closed"
      /\ \A r \in Requests : pc[r] \in InFlight => seen[r].status = "closed"
      => row'.original = row.original /\ row'.negotiated = row.negotiated
<1>1. ASSUME IInv, [Next]_vars
      PROVE  Settled
  BY <1>1, BillStep DEF IInv, SessionsSound, Accepts
<1>2. IInv /\ [Next]_vars => [Settled]_vars
  BY <1>1
<1> HIDE DEF Settled
<1>3. Spec => [][Settled]_vars
  BY <1>2, InvariantHolds, PTL DEF Spec
<1> QED BY <1>3 DEF SettledUnlessInFlight, Settled


-----------------------------------------------------------------------------
(* Accepted writes *)

\* What a step does to the columns a request may set once.
LEMMA ColumnStep ==
    ASSUME IInv, [Next]_vars
    PROVE  /\ Grows(row, row')
           /\ completionRate # None => completionRate' # None
           /\ \A r \in Requests :
                 pc'[r] = "ok" /\ pc[r] # "ok" =>
                     /\ kind[r] = "close" => row'.closedAt
                     /\ kind[r] = "abandon" => row'.closedAt /\ row'.abandoned
                     /\ kind[r] = "assign" => row'.tech # None
                     /\ kind[r] = "submit" => row'.original # None /\ completionRate' # None
                     /\ kind[r] = "negotiate" => row'.negotiated # None
<1>0. TypeOK /\ SessionsSound /\ BillStatusSound /\ TypeOK' /\ BillStatusSound'
  BY StepIInv DEF IInv
<1>1. CASE Quiet
  BY <1>1, GrowsReflexive DEF Quiet
<1>2. ASSUME NEW r \in Requests, Accepts(r), NEW new \in Row, Grows(seen[r], new),
             row' = Merge(r, new)
      PROVE  /\ Grows(row, row')
             /\ new.closedAt => row'.closedAt
             /\ new.abandoned => row'.abandoned
             /\ new.tech # None => row'.tech # None
             /\ new.negotiated # None => row'.negotiated # None
  <2>1. Grows(row, row')
    BY <1>0, <1>2, MergeGrows
  <2>2. seen[r] \in Row /\ row \in Row /\ Grows(seen[r], row)
    BY <1>0 DEF TypeOK, SessionsSound
  <2> QED BY <1>2, <2>1, <2>2 DEF Grows, Merge, Column, Row
<1>3. ASSUME NEW r \in Requests, Accepts(r), Transition(r)
      PROVE  /\ Grows(row, row') /\ kind[r] \in Transitions
             /\ completionRate' = completionRate
             /\ kind[r] = "close" => row'.closedAt
             /\ kind[r] = "abandon" => row'.closedAt /\ row'.abandoned
  <2> DEFINE new == Transitioned(kind[r], seen[r])
  <2>1. /\ kind[r] \in Transitions /\ seen[r] \in Row /\ BillFieldsAgree(seen[r])
        /\ row' = Merge(r, new) /\ completionRate' = completionRate
    BY <1>0, <1>3 DEF Transition, Commit, TypeOK, SessionsSound
  <2>2. new \in Row /\ Grows(seen[r], new)
    BY <2>1, TransitionedType, TransitionedGrows
  <2>3. /\ kind[r] = "close" => new.closedAt
        /\ kind[r] = "abandon" => new.closedAt /\ new.abandoned
    BY <2>1 DEF Transitioned, Row
  <2> HIDE DEF new
  <2> QED BY <1>2, <1>3, <2>1, <2>2, <2>3
<1>4. ASSUME NEW r \in Requests, Accepts(r), NegotiateBill(r)
      PROVE  /\ Grows(row, row') /\ kind[r] = "negotiate" /\ row'.negotiated # None
             /\ completionRate' = completionRate
  <2> DEFINE new == [seen[r] EXCEPT !.negotiated = arg[r], !.billStatus = "negotiated"]
  <2>1. /\ kind[r] = "negotiate" /\ pc[r] = "loaded" /\ row' = Merge(r, new)
        /\ completionRate' = completionRate
    BY <1>4 DEF NegotiateBill, Commit
  <2>2. new \in Row /\ Grows(seen[r], new)
    BY <1>0, <2>1, NegotiatedGrows
  <2>3. new.negotiated # None
    BY <1>0, <2>1, ConstantsAssumption DEF TypeOK, Row, SessionsSound, Args
  <2> HIDE DEF new
  <2> QED BY <1>2, <1>4, <2>1, <2>2, <2>3
<1>5. ASSUME NEW r \in Requests, Accepts(r), AssignJob(r)
      PROVE  /\ Grows(row, row') /\ kind[r] = "assign" /\ row'.tech # None
             /\ completionRate' = completionRate
  <2> DEFINE new == [seen[r] EXCEPT !.tech = arg[r]]
  <2>1. /\ kind[r] = "assign" /\ row' = Merge(r, new) /\ completionRate' = completionRate
    BY <1>5 DEF AssignJob, Commit
  <2>2. new \in Row /\ Grows(seen[r], new)
    BY <1>0, <2>1, AssignedGrows
  <2>3. new.tech # None
    BY <1>0, <2>1, ConstantsAssumption DEF TypeOK, Row, SessionsSound, Args
  <2> HIDE DEF new
  <2> QED BY <1>2, <1>5, <2>1, <2>2, <2>3
<1>6. ASSUME NEW r \in Requests, Accepts(r), SubmitCompletion(r), ~SubmitCollides(r)
      PROVE  Grows(row, row') /\ kind[r] = "submit" /\ completionRate' # None
  <2>1. kind[r] = "submit" /\ row' = Merge(r, Submitted(r)) /\ completionRate' = PinnedRate(r)
    BY <1>6 DEF SubmitCompletion, Commit
  <2>2. /\ Submitted(r) \in Row /\ Grows(seen[r], Submitted(r))
        /\ PinnedRate(r) \in Rates
    BY <1>0, <2>1, SubmittedGrows
  <2> QED BY <1>2, <1>6, <2>1, <2>2, ConstantsAssumption
<1>7. ASSUME NEW r \in Requests, Accepts(r), ClaimJob(r), CanClaim(r)
      PROVE  Grows(row, row') /\ kind[r] = "claim" /\ completionRate' = completionRate
  <2>1. arg[r] # None
    BY <1>0, <1>7, ConstantsAssumption DEF ClaimJob, SessionsSound, Args
  <2> QED BY <1>0, <1>7, <2>1 DEF ClaimJob, TypeOK, Row, Grows
<1>8. ASSUME NEW r \in Requests, Accepts(r), NEW q \in Requests,
             pc'[q] = "ok", pc[q] # "ok"
      PROVE  q = r
  BY <1>8 DEF Accepts
<1>9. completionRate # None => completionRate' # None
  BY <1>0, <1>1, <1>3, <1>4, <1>5, <1>6, <1>7, StepShape DEF Quiet
<1>10. Grows(row, row')
  BY <1>0, <1>1, <1>3, <1>4, <1>5, <1>6, <1>7, StepShape DEF Quiet
<1>11. completionRate' # None => row'.original # None
  BY <1>0 DEF BillStatusSound
<1>12. ASSUME NEW r \in Requests, pc'[r] = "ok", pc[r] # "ok"
       PROVE  /\ kind[r] = "close" => row'.closedAt
              /\ kind[r] = "abandon" => row'.closedAt /\ row'.abandoned
              /\ kind[r] = "assign" => row'.tech # None
              /\ kind[r] = "submit" => row'.original # None /\ completionRate' # None
              /\ kind[r] = "negotiate" => row'.negotiated # None
  <2>1. ~Quiet
    BY <1>12 DEF Quiet
  <2>2. Accepts(r)
    BY <1>0, <1>8, <1>12, <2>1, StepShape
  <2>3. \/ Transition(r) \/ NegotiateBill(r) \/ AssignJob(r)
        \/ SubmitCompletion(r) /\ ~SubmitCollides(r)
        \/ ClaimJob(r) /\ CanClaim(r)
    BY <1>0, <1>8, <1>12, <2>1, StepShape
  <2> QED BY <1>3, <1>4, <1>5, <1>6, <1>7, <1>11, <2>2, <2>3 DEF Transitions
<1> QED BY <1>9, <1>10, <1>12

\* An accepted request is never undone by one that wrote from an older row.
THEOREM AcceptedWritesAreKept == Spec => []AcceptedWritesStand
<1>1. Init => AcceptedWritesStand
  BY DEF Init, AcceptedWritesStand, Accepted
<1>2. ASSUME IInv, AcceptedWritesStand, [Next]_vars
      PROVE  AcceptedWritesStand'
  <2>1. ASSUME NEW r \in Requests, pc'[r] = "ok"
        PROVE  kind'[r] = kind[r]
    BY <1>2, <2>1, StepShape DEF IInv, Quiet, Accepts
  <2>2. ASSUME NEW r \in Requests, pc[r] = "ok"
        PROVE  /\ kind[r] = "submit" => completionRate # None /\ row.original # None
               /\ kind[r] = "negotiate" => row.negotiated # None
               /\ kind[r] = "close" => row.closedAt
               /\ kind[r] = "abandon" => row.closedAt /\ row.abandoned
               /\ kind[r] = "assign" => row.tech # None
    BY <1>2, <2>2 DEF AcceptedWritesStand, Accepted
  <2> QED BY <1>2, <2>1, <2>2, ColumnStep DEF AcceptedWritesStand, Accepted, Grows
<1> QED BY <1>1, <1>2, InvariantHolds, PTL DEF Spec


-----------------------------------------------------------------------------
(* The timeline *)

\* What a step does to status and assignee, and which event explains it.
LEMMA StatusStep ==
    ASSUME IInv, [Next]_vars
    PROVE  \/ row'.status = row.status
           \/ \E r \in Requests : /\ Accepts(r) /\ logged'[r] /\ kind[r] \in Transitions
                                  /\ row'.status = StatusOf(kind[r])
<1>0. TypeOK /\ SessionsSound
  BY DEF IInv
<1>1. CASE Quiet
  BY <1>1 DEF Quiet
<1>2. ASSUME NEW r \in Requests, Accepts(r), Transition(r)
      PROVE  /\ logged'[r] /\ kind[r] \in Transitions
             /\ row'.status \in {row.status, StatusOf(kind[r])}
  <2> DEFINE new == Transitioned(kind[r], seen[r])
  <2>1. kind[r] \in Transitions /\ row' = Merge(r, new) /\ logged'[r]
    BY <1>0, <1>2 DEF Transition, Commit, TypeOK
  <2>2. seen[r] \in Row
    BY <1>0 DEF TypeOK
  <2>3. new.status = StatusOf(kind[r])
    <3>1. CASE kind[r] = "ready"
      BY <2>2, <3>1 DEF Transitioned, StatusOf, Row
    <3>2. CASE kind[r] = "wait"
      BY <2>2, <3>2 DEF Transitioned, StatusOf, Row
    <3>3. CASE kind[r] = "close"
      BY <2>2, <3>3 DEF Transitioned, StatusOf, Row
    <3>4. CASE kind[r] = "abandon"
      BY <2>2, <3>4 DEF Transitioned, StatusOf, Row
    <3> QED BY <2>1, <3>1, <3>2, <3>3, <3>4 DEF Transitions
  <2> HIDE DEF new
  <2> QED BY <2>1, <2>3 DEF Merge, Column
<1>3. ASSUME NEW r \in Requests, Accepts(r),
             \/ NegotiateBill(r) \/ AssignJob(r)
             \/ SubmitCompletion(r) /\ ~SubmitCollides(r)
             \/ ClaimJob(r) /\ CanClaim(r)
      PROVE  row'.status = row.status
  <2>1. CASE NegotiateBill(r)
    <3>1. [seen[r] EXCEPT !.negotiated = arg[r], !.billStatus = "negotiated"].status
            = seen[r].status
      BY <1>0 DEF TypeOK, Row
    <3> QED BY <2>1, <3>1 DEF NegotiateBill, Commit, Merge, Column
  <2>2. CASE AssignJob(r)
    <3>1. [seen[r] EXCEPT !.tech = arg[r]].status = seen[r].status
      BY <1>0 DEF TypeOK, Row
    <3> QED BY <2>2, <3>1 DEF AssignJob, Commit, Merge, Column
  <2>3. CASE SubmitCompletion(r) /\ ~SubmitCollides(r)
    <3>1. Submitted(r).status = seen[r].status
      BY <1>0 DEF Submitted, TypeOK, Row
    <3> QED BY <2>3, <3>1 DEF SubmitCompletion, Commit, Merge, Column
  <2>4. CASE ClaimJob(r) /\ CanClaim(r)
    BY <1>0, <2>4 DEF ClaimJob, TypeOK, Row
  <2> QED BY <1>3, <2>1, <2>2, <2>3, <2>4
<1> QED BY <1>0, <1>1, <1>2, <1>3, StepShape

LEMMA HolderStep ==
    ASSUME IInv, [Next]_vars
    PROVE  \/ row'.tech = row.tech
           \/ \E r \in Requests : /\ Accepts(r) /\ logged'[r] /\ kind[r] \in {"claim", "assign"}
                                  /\ row'.tech = arg[r]
<1>0. TypeOK /\ SessionsSound
  BY DEF IInv
<1>1. CASE Quiet
  BY <1>1 DEF Quiet
<1>2. ASSUME NEW r \in Requests, Accepts(r),
             \/ Transition(r) \/ NegotiateBill(r)
             \/ SubmitCompletion(r) /\ ~SubmitCollides(r)
      PROVE  row'.tech = row.tech
  <2>1. CASE Transition(r)
    BY <1>0, <2>1, UntouchedTech, TransitionedUntouched DEF Transition, Commit, TypeOK
  <2>2. CASE NegotiateBill(r)
    <3>1. [seen[r] EXCEPT !.negotiated = arg[r], !.billStatus = "negotiated"].tech = seen[r].tech
      BY <1>0 DEF TypeOK, Row
    <3> QED BY <2>2, <3>1, UntouchedTech DEF NegotiateBill, Commit
  <2>3. CASE SubmitCompletion(r) /\ ~SubmitCollides(r)
    <3>1. Submitted(r).tech = seen[r].tech
      BY <1>0 DEF Submitted, TypeOK, Row
    <3> QED BY <2>3, <3>1, UntouchedTech DEF SubmitCompletion, Commit
  <2> QED BY <1>2, <2>1, <2>2, <2>3
<1>3. ASSUME NEW r \in Requests, Accepts(r), AssignJob(r)
      PROVE  logged'[r] /\ kind[r] = "assign" /\ row'.tech \in {row.tech, arg[r]}
  <2>1. [seen[r] EXCEPT !.tech = arg[r]].tech = arg[r]
    BY <1>0 DEF TypeOK, Row
  <2> QED BY <1>0, <1>3, <2>1 DEF AssignJob, Commit, Merge, Column, TypeOK
<1>4. ASSUME NEW r \in Requests, Accepts(r), ClaimJob(r), CanClaim(r)
      PROVE  row'.tech = row.tech \/ (logged'[r] /\ kind[r] = "claim" /\ row'.tech = arg[r])
  <2>1. row'.tech = arg[r] /\ kind[r] = "claim" /\ (logged'[r] <=> ~AlreadyMine(r))
    BY <1>0, <1>4 DEF ClaimJob, TypeOK, Row
  <2>2. CASE AlreadyMine(r)
    <3>1. arg[r] # None
      BY <1>0, <2>1, ConstantsAssumption DEF SessionsSound, Args
    <3>2. row.tech # None
      BY <1>0, <2>2, <3>1 DEF AlreadyMine, SessionsSound, Grows
    <3> QED BY <1>4, <2>1, <3>2 DEF CanClaim
  <2> QED BY <2>1, <2>2
<1> QED BY <1>0, <1>1, <1>2, <1>3, <1>4, StepShape

\* Status, assignee and both amounts of the row are always explained by an
\* accepted request whose event is on the timeline (add_event).
THEOREM TimelineExplains == Spec => []TimelineExplainsRow
<1>1. Init => TimelineExplainsRow
  BY DEF Init, NewRow, TimelineExplainsRow
<1>2. ASSUME IInv, TimelineExplainsRow, [Next]_vars
      PROVE  TimelineExplainsRow'
  <2>0. TypeOK /\ SessionsSound
    BY <1>2 DEF IInv
  <2>1. ASSUME NEW q \in Requests, logged[q], pc[q] = "ok"
        PROVE  logged'[q] /\ pc'[q] = "ok" /\ kind'[q] = kind[q] /\ arg'[q] = arg[q]
    BY <1>2, <2>0, <2>1, StepShape DEF Quiet, Accepts, InFlight
  <2>2. ASSUME NEW r \in Requests, Accepts(r)
        PROVE  pc'[r] = "ok" /\ kind'[r] = kind[r] /\ arg'[r] = arg[r]
    BY <2>2 DEF Accepts
  <2>3. row'.status # "open" =>
          \E r \in Requests : /\ logged'[r] /\ pc'[r] = "ok" /\ kind'[r] \in Transitions
                             /\ StatusOf(kind'[r]) = row'.status
    <3>1. CASE row'.status = row.status
      BY <1>2, <2>1, <3>1 DEF TimelineExplainsRow
    <3>2. CASE row'.status # row.status
      BY <1>2, <2>2, <3>2, StatusStep
    <3> QED BY <3>1, <3>2
  <2>4. row'.tech # IntakeTech =>
          \E r \in Requests : /\ logged'[r] /\ pc'[r] = "ok" /\ kind'[r] \in {"claim", "assign"}
                             /\ arg'[r] = row'.tech
    <3>1. CASE row'.tech = row.tech
      BY <1>2, <2>1, <3>1 DEF TimelineExplainsRow
    <3>2. CASE row'.tech # row.tech
      BY <1>2, <2>2, <3>2, HolderStep
    <3> QED BY <3>1, <3>2
  <2>5. row'.negotiated # None =>
          \E r \in Requests : /\ logged'[r] /\ pc'[r] = "ok" /\ kind'[r] = "negotiate"
                             /\ arg'[r] = row'.negotiated
    <3>1. CASE row'.negotiated = row.negotiated
      BY <1>2, <2>1, <3>1 DEF TimelineExplainsRow, Accepted
    <3>2. CASE row'.negotiated # row.negotiated
      BY <1>2, <2>2, <3>2, BillStep
    <3> QED BY <3>1, <3>2
  <2>6. row'.original # None =>
          \E r \in Requests : /\ logged'[r] /\ pc'[r] = "ok" /\ kind'[r] = "submit"
                             /\ row'.original = Total[arg'[r], completionRate']
    <3>1. row.original # None => completionRate # None
      BY <1>2 DEF IInv, BillStatusSound
    <3>2. ASSUME NEW r \in Requests, completionRate # None, ~SubmitCollides(r)
          PROVE  PinnedRate(r) = completionRate
      BY <3>2 DEF PinnedRate, SubmitCollides
    <3>3. row.original # None => completionRate' = completionRate
      BY <1>2, <3>1, <3>2, BillStep
    <3>4. CASE row'.original = row.original
      <4> SUFFICES ASSUME row.original # None
                   PROVE  \E r \in Requests :
                             /\ logged'[r] /\ pc'[r] = "ok" /\ kind'[r] = "submit"
                             /\ row'.original = Total[arg'[r], completionRate']
        BY <3>4
      <4>1. PICK q \in Requests : /\ logged[q] /\ pc[q] = "ok" /\ kind[q] = "submit"
                                 /\ row.original = Total[arg[q], completionRate]
        BY <1>2 DEF TimelineExplainsRow, Accepted
      <4>2. logged'[q] /\ pc'[q] = "ok" /\ kind'[q] = "submit" /\ arg'[q] = arg[q]
        BY <2>1, <4>1
      <4>3. row'.original = Total[arg'[q], completionRate']
        BY <3>3, <3>4, <4>1, <4>2
      <4> QED BY <4>2, <4>3
    <3>5. CASE row'.original # row.original
      <4>1. PICK r \in Requests :
              /\ Accepts(r) /\ logged'[r] /\ kind[r] = "submit"
              /\ row'.original \in {row.original, Total[arg[r], PinnedRate(r)]}
              /\ completionRate' = PinnedRate(r)
        BY <1>2, <3>5, BillStep
      <4>2. row'.original = Total[arg'[r], completionRate']
        BY <2>2, <3>5, <4>1
      <4> QED BY <2>2, <4>1, <4>2
    <3> QED BY <3>4, <3>5
  <2> QED BY <2>3, <2>4, <2>5, <2>6 DEF TimelineExplainsRow, Accepted, StatusOf
<1> QED BY <1>1, <1>2, InvariantHolds, PTL DEF Spec

=============================================================================
