-------------------------- MODULE JobMoney_proofs --------------------------
(* Theorems about what a job's money is made of: KeyedWrites, for any sends,  *)
(* client ids, kinds, taken tokens and number of attempts, and Completion, for *)
(* any submissions, prices and rates.                                         *)
EXTENDS KeyedWrites, Completion, FiniteSetTheorems, TLAPS

-----------------------------------------------------------------------------
(* The inductive invariant *)

\* What a send in flight may rely on: one that has inserted is the only one to
\* have done so and its key is free, one that is about to void has a payment, a
\* customer is staged only while its intake goes on, and an intake that may
\* still insert has an attempt left.
InFlightSound ==
    /\ \A s, t \in Sends :
          pc[s] = "inserted" /\ pc[t] = "inserted" /\ key[s] = key[t] => s = t
    /\ \A s \in Sends :
          /\ pc[s] = "inserted" => ~Stored(key[s])
          /\ pc[s] = "voiding" => Stored(key[s])
          /\ staged[s] # 0 => pc[s] \in {"linked", "inserted"}
          /\ pc[s] \in {"new", "missing", "linked"} => attempts[s] < MaxAttempts

IInv ==
    /\ TypeOK
    /\ InFlightSound
    /\ AcknowledgedIsStored
    /\ OneEventEach
    /\ CustomersBelong

\* Before any send arrives, nothing is stored and the invariant holds.
LEMMA Initially == Init => IInv
<1> SUFFICES ASSUME Init PROVE IInv
  OBVIOUS
<1> USE ConstantsAssumption DEF Init
<1>1. TypeOK
  BY DEF TypeOK, InFlight, Answers
<1>2. InFlightSound
  BY DEF InFlightSound, Stored
<1>3. AcknowledgedIsStored /\ OneEventEach /\ CustomersBelong
  BY DEF AcknowledgedIsStored, OneEventEach, CustomersBelong, Stored
<1> QED
  BY <1>1, <1>2, <1>3 DEF IInv

-----------------------------------------------------------------------------
(* One lemma per action *)

\* A lookup changes where its send is, and nothing else.
LEMMA LookUpKeeps ==
    ASSUME IInv, NEW s \in Sends, LookUp(s)
    PROVE  IInv'
<1> USE ConstantsAssumption DEF IInv, LookUp, End, Goto, CustomersStaged, tables
<1>1. TypeOK'
  BY DEF TypeOK, InFlightSound, InFlight, Answers, Kind, Stored
<1>2. InFlightSound'
  BY DEF TypeOK, InFlightSound, InFlight, Answers, Kind, Stored
<1>3. AcknowledgedIsStored'
  BY DEF TypeOK, InFlightSound, AcknowledgedIsStored, InFlight, Stored
<1>4. OneEventEach'
  BY DEF TypeOK, InFlightSound, OneEventEach, HasEvent, Stored
<1>5. CustomersBelong'
  BY DEF TypeOK, InFlightSound, CustomersBelong, Stored
<1> QED
  BY <1>1, <1>2, <1>3, <1>4, <1>5

\* An intake stages at most one customer, since none was staged before.
LEMMA LinkCustomerKeeps ==
    ASSUME IInv, NEW s \in Sends, NEW created \in {0, 1}, LinkCustomer(s, created)
    PROVE  IInv'
<1> USE ConstantsAssumption DEF IInv, LinkCustomer, Goto, CustomersStaged, tables
<1>1. TypeOK'
  BY DEF TypeOK, InFlightSound, InFlight, Answers, Kind, Stored
<1>2. InFlightSound'
  BY DEF TypeOK, InFlightSound, InFlight, Answers, Kind, Stored
<1>3. AcknowledgedIsStored'
  BY DEF TypeOK, InFlightSound, AcknowledgedIsStored, InFlight, Stored
<1>4. OneEventEach'
  BY DEF TypeOK, InFlightSound, OneEventEach, HasEvent, Stored
<1>5. CustomersBelong'
  BY DEF TypeOK, InFlightSound, CustomersBelong, Stored
<1> QED
  BY <1>1, <1>2, <1>3, <1>4, <1>5

\* An insertion neither waits nor fails only if nobody else holds the key.
LEMMA InsertKeeps ==
    ASSUME IInv, NEW s \in Sends, Insert(s)
    PROVE  IInv'
<1> USE ConstantsAssumption DEF IInv, Insert, Ready, Waits, Taken, Goto, tables
<1>1. TypeOK'
  BY DEF TypeOK, InFlightSound, InFlight, Answers, Kind, Stored
<1>2. InFlightSound'
  BY DEF TypeOK, InFlightSound, InFlight, Answers, Kind, Stored
<1>3. AcknowledgedIsStored'
  BY DEF TypeOK, InFlightSound, AcknowledgedIsStored, InFlight, Stored
<1>4. OneEventEach'
  BY DEF TypeOK, InFlightSound, OneEventEach, HasEvent, Stored
<1>5. CustomersBelong'
  BY DEF TypeOK, InFlightSound, CustomersBelong, Stored
<1> QED
  BY <1>1, <1>2, <1>3, <1>4, <1>5

\* A lost race leaves nothing behind: what was staged is rolled back.
LEMMA LoseRaceKeeps ==
    ASSUME IInv, NEW s \in Sends, LoseRace(s)
    PROVE  IInv'
<1> USE ConstantsAssumption DEF IInv, LoseRace, Ready, Taken, Recover, RolledBack, End, Goto, CustomersStaged, tables
<1>1. TypeOK'
  BY DEF TypeOK, InFlightSound, InFlight, Answers, Kind, Stored
<1>2. InFlightSound'
  BY DEF TypeOK, InFlightSound, InFlight, Answers, Kind, Stored
<1>3. AcknowledgedIsStored'
  BY DEF TypeOK, InFlightSound, AcknowledgedIsStored, InFlight, Stored
<1>4. OneEventEach'
  BY DEF TypeOK, InFlightSound, OneEventEach, HasEvent, Stored
<1>5. CustomersBelong'
  BY DEF TypeOK, InFlightSound, CustomersBelong, Stored
<1> QED
  BY <1>1, <1>2, <1>3, <1>4, <1>5

\* A taken token costs an attempt and the staged customer.
LEMMA RetryTokenKeeps ==
    ASSUME IInv, NEW s \in Sends, RetryToken(s)
    PROVE  IInv'
<1> USE ConstantsAssumption DEF IInv, RetryToken, Ready, Taken, GivesUp, RolledBack, Goto, CustomersStaged, tables
<1>1. TypeOK'
  BY DEF TypeOK, InFlightSound, InFlight, Answers, Kind, Stored
<1>2. InFlightSound'
  BY DEF TypeOK, InFlightSound, InFlight, Answers, Kind, Stored
<1>3. AcknowledgedIsStored'
  BY DEF TypeOK, InFlightSound, AcknowledgedIsStored, InFlight, Stored
<1>4. OneEventEach'
  BY DEF TypeOK, InFlightSound, OneEventEach, HasEvent, Stored
<1>5. CustomersBelong'
  BY DEF TypeOK, InFlightSound, CustomersBelong, Stored
<1> QED
  BY <1>1, <1>2, <1>3, <1>4, <1>5

\* A commit stores the row, its event and its customer together.
LEMMA CommitKeeps ==
    ASSUME IInv, NEW s \in Sends, Commit(s)
    PROVE  IInv'
<1> USE ConstantsAssumption DEF IInv, Commit, Goto, CustomersStaged, tables
<1>1. TypeOK'
  BY DEF TypeOK, InFlightSound, InFlight, Answers, Kind, Stored
<1>2. InFlightSound'
  BY DEF TypeOK, InFlightSound, InFlight, Answers, Kind, Stored
<1>3. AcknowledgedIsStored'
  BY DEF TypeOK, InFlightSound, AcknowledgedIsStored, InFlight, Stored
<1>4. OneEventEach'
  BY DEF TypeOK, InFlightSound, OneEventEach, HasEvent, Stored
<1>5. CustomersBelong'
  BY DEF TypeOK, InFlightSound, CustomersBelong, Stored
<1> QED
  BY <1>1, <1>2, <1>3, <1>4, <1>5

\* Only a stored payment can be voided.
LEMMA LoadPaymentKeeps ==
    ASSUME IInv, NEW s \in Sends, LoadPayment(s)
    PROVE  IInv'
<1> USE ConstantsAssumption DEF IInv, LoadPayment, End, Goto, CustomersStaged, tables
<1>1. TypeOK'
  BY DEF TypeOK, InFlightSound, InFlight, Answers, Kind, Stored
<1>2. InFlightSound'
  BY DEF TypeOK, InFlightSound, InFlight, Answers, Kind, Stored
<1>3. AcknowledgedIsStored'
  BY DEF TypeOK, InFlightSound, AcknowledgedIsStored, InFlight, Stored
<1>4. OneEventEach'
  BY DEF TypeOK, InFlightSound, OneEventEach, HasEvent, Stored
<1>5. CustomersBelong'
  BY DEF TypeOK, InFlightSound, CustomersBelong, Stored
<1> QED
  BY <1>1, <1>2, <1>3, <1>4, <1>5

\* Voiding touches no row, event or customer.
LEMMA VoidPaymentKeeps ==
    ASSUME IInv, NEW s \in Sends, VoidPayment(s)
    PROVE  IInv'
<1> USE ConstantsAssumption DEF IInv, VoidPayment, Goto, tables
<1>1. TypeOK'
  BY DEF TypeOK, InFlightSound, InFlight, Answers, Kind, Stored
<1>2. InFlightSound'
  BY DEF TypeOK, InFlightSound, InFlight, Answers, Kind, Stored
<1>3. AcknowledgedIsStored'
  BY DEF TypeOK, InFlightSound, AcknowledgedIsStored, InFlight, Stored
<1>4. OneEventEach'
  BY DEF TypeOK, InFlightSound, OneEventEach, HasEvent, Stored
<1>5. CustomersBelong'
  BY DEF TypeOK, InFlightSound, CustomersBelong, Stored
<1> QED
  BY <1>1, <1>2, <1>3, <1>4, <1>5

\* A request that dies takes what it staged with it.
LEMMA AbortKeeps ==
    ASSUME IInv, NEW s \in Sends, Abort(s)
    PROVE  IInv'
<1> USE ConstantsAssumption DEF IInv, Abort, End, Goto, CustomersStaged, tables
<1>1. TypeOK'
  BY DEF TypeOK, InFlightSound, InFlight, Answers, Kind, Stored
<1>2. InFlightSound'
  BY DEF TypeOK, InFlightSound, InFlight, Answers, Kind, Stored
<1>3. AcknowledgedIsStored'
  BY DEF TypeOK, InFlightSound, AcknowledgedIsStored, InFlight, Stored
<1>4. OneEventEach'
  BY DEF TypeOK, InFlightSound, OneEventEach, HasEvent, Stored
<1>5. CustomersBelong'
  BY DEF TypeOK, InFlightSound, CustomersBelong, Stored
<1> QED
  BY <1>1, <1>2, <1>3, <1>4, <1>5

\* A restart takes every open transaction with it.
LEMMA RestartKeeps ==
    ASSUME IInv, Restart
    PROVE  IInv'
<1> USE ConstantsAssumption DEF IInv, Restart, tables, InFlight
<1>1. TypeOK'
  BY DEF TypeOK, Answers
<1>2. InFlightSound'
  BY DEF TypeOK, InFlightSound, Stored
<1>3. AcknowledgedIsStored'
  BY DEF TypeOK, AcknowledgedIsStored, Stored
<1>4. OneEventEach' /\ CustomersBelong'
  BY DEF OneEventEach, CustomersBelong, Stored
<1> QED
  BY <1>1, <1>2, <1>3, <1>4

\* A step that changes nothing keeps the invariant.
LEMMA StutterKeeps ==
    ASSUME IInv, UNCHANGED vars
    PROVE  IInv'
<1> USE DEF IInv, vars, tables
<1>1. TypeOK' /\ InFlightSound'
  BY DEF TypeOK, InFlightSound, Stored
<1>2. AcknowledgedIsStored' /\ OneEventEach' /\ CustomersBelong'
  BY DEF AcknowledgedIsStored, OneEventEach, CustomersBelong, Stored
<1> QED
  BY <1>1, <1>2

\* Every step keeps the invariant.
LEMMA Inductive == IInv /\ [Next]_vars => IInv'
<1> SUFFICES ASSUME IInv, [Next]_vars PROVE IInv'
  OBVIOUS
<1>1. CASE UNCHANGED vars
  BY <1>1, StutterKeeps
<1>2. CASE Restart
  BY <1>2, RestartKeeps
<1>3. ASSUME NEW s \in Sends, LookUp(s) PROVE IInv'
  BY <1>3, LookUpKeeps
<1>4. ASSUME NEW s \in Sends, NEW created \in {0, 1}, LinkCustomer(s, created)
      PROVE  IInv'
  BY <1>4, LinkCustomerKeeps
<1>5. ASSUME NEW s \in Sends, Insert(s) PROVE IInv'
  BY <1>5, InsertKeeps
<1>6. ASSUME NEW s \in Sends, LoseRace(s) PROVE IInv'
  BY <1>6, LoseRaceKeeps
<1>7. ASSUME NEW s \in Sends, RetryToken(s) PROVE IInv'
  BY <1>7, RetryTokenKeeps
<1>8. ASSUME NEW s \in Sends, Commit(s) PROVE IInv'
  BY <1>8, CommitKeeps
<1>9. ASSUME NEW s \in Sends, LoadPayment(s) PROVE IInv'
  BY <1>9, LoadPaymentKeeps
<1>10. ASSUME NEW s \in Sends, VoidPayment(s) PROVE IInv'
  BY <1>10, VoidPaymentKeeps
<1>11. ASSUME NEW s \in Sends, Abort(s) PROVE IInv'
  BY <1>11, AbortKeeps
<1> QED
  BY <1>1, <1>2, <1>3, <1>4, <1>5, <1>6, <1>7, <1>8, <1>9, <1>10, <1>11 DEF Next

LEMMA Always == Spec => []IInv
BY Initially, Inductive, PTL DEF Spec

-----------------------------------------------------------------------------
(* Theorems *)

\* The tables, the sequence and every send keep their types; in particular no
\* intake tries more often than create_job allows.
THEOREM TypeCorrect == Spec => []TypeOK
<1>1. IInv => TypeOK
  BY DEF IInv
<1> QED
  BY <1>1, Always, PTL

\* A write that was answered with success is stored.
THEOREM AcknowledgedWritesAreStored == Spec => []AcknowledgedIsStored
<1>1. IInv => AcknowledgedIsStored
  BY DEF IInv
<1> QED
  BY <1>1, Always, PTL

\* A stored write has one event, one that is not stored none, however often it
\* was sent.
THEOREM ReplaysAddNoEvent == Spec => []OneEventEach
<1>1. IInv => OneEventEach
  BY DEF IInv
<1> QED
  BY <1>1, Always, PTL

\* Lost races, retries and crashes of an intake leave no customer behind.
THEOREM NoStrayCustomers == Spec => []CustomersBelong
<1>1. IInv => CustomersBelong
  BY DEF IInv
<1> QED
  BY <1>1, Always, PTL

\* A duplicate of a stored write is not answered with a server error.
THEOREM DuplicatesSucceed == Spec => ReplaysSucceed
<1> DEFINE A == \A s \in Sends :
                  pc'[s] = "error" /\ pc[s] # "error" /\ Kind(s) # "location"
                  => ~Stored(key[s])
<1>1. ASSUME IInv, [Next]_vars PROVE [A]_vars
  <2> USE <1>1, ConstantsAssumption DEF IInv, TypeOK, InFlight, Answers
  <2>1. SUFFICES ASSUME Next, NEW t \in Sends, pc'[t] = "error", pc[t] # "error",
                        Kind(t) # "location"
                 PROVE  ~Stored(key[t])
    OBVIOUS
  <2>2. CASE Restart
    BY <2>1, <2>2 DEF Restart
  <2>3. CASE \E s \in Sends : LoseRace(s)
    <3>1. PICK s \in Sends : LoseRace(s)
      BY <2>3
    <3>2. s = t /\ Kind(s) \notin Recovers
      BY <2>1, <3>1 DEF LoseRace, Recover, End, Goto
    <3>3. Kind(t) \in Kinds
      BY DEF Kind
    <3> QED
      BY <2>1, <3>2, <3>3 DEF Recovers, Kinds
  <2>4. CASE \E s \in Sends : RetryToken(s)
    BY <2>1, <2>4 DEF RetryToken, Goto, Taken
  <2>5. CASE \E s \in Sends : LookUp(s) \/ LoadPayment(s) \/ Abort(s)
    BY <2>1, <2>5 DEF LookUp, LoadPayment, Abort, End, Goto
  <2>6. CASE \E s \in Sends : Insert(s) \/ Commit(s) \/ VoidPayment(s)
    BY <2>1, <2>6 DEF Insert, Commit, VoidPayment, Goto
  <2>7. CASE \E s \in Sends : \E created \in {0, 1} : LinkCustomer(s, created)
    BY <2>1, <2>7 DEF LinkCustomer, Goto
  <2> QED
    BY <2>1, <2>2, <2>3, <2>4, <2>5, <2>6, <2>7 DEF Next
<1> QED
  BY <1>1, Always, PTL DEF Spec, ReplaysSucceed

\* The tables of the server implement the write-once ledger: a commit is an
\* addition to it, voiding a payment a void, and every other step a stutter.
THEOREM TablesAreALedger == Spec => WriteOnceLedger
<1>1. Init => L!Init
  BY DEF Init, L!Init
<1>2. ASSUME IInv, [Next]_vars PROVE [L!Next]_(L!ledgerVars)
  <2> USE <1>2 DEF IInv, TypeOK
  <2>1. CASE UNCHANGED vars
    BY <2>1 DEF vars, tables, L!ledgerVars
  <2>2. CASE Restart
    BY <2>2 DEF Restart, tables, L!ledgerVars
  <2>3. CASE \E s \in Sends : Commit(s)
    <3>1. PICK s \in Sends : Commit(s)
      BY <2>3
    <3>2. L!Add(key[s], s)
      BY <3>1 DEF Commit, L!Add, InFlightSound, Stored
    <3> QED
      BY <3>2 DEF L!Next
  <2>4. CASE \E s \in Sends : VoidPayment(s)
    <3>1. PICK s \in Sends : VoidPayment(s)
      BY <2>4
    <3>2. L!Void(key[s])
      BY <3>1 DEF VoidPayment, L!Void, InFlightSound, Stored
    <3> QED
      BY <3>2 DEF L!Next
  <2>5. CASE \E s \in Sends : LookUp(s) \/ LoadPayment(s) \/ Abort(s)
    BY <2>5 DEF LookUp, LoadPayment, Abort, End, tables, L!ledgerVars
  <2>6. CASE \E s \in Sends : Insert(s) \/ LoseRace(s) \/ RetryToken(s)
    BY <2>6 DEF Insert, LoseRace, Recover, End, RetryToken, tables, L!ledgerVars
  <2>7. CASE \E s \in Sends : \E created \in {0, 1} : LinkCustomer(s, created)
    BY <2>7 DEF LinkCustomer, tables, L!ledgerVars
  <2> QED
    BY <2>1, <2>2, <2>3, <2>4, <2>5, <2>6, <2>7 DEF Next
<1> QED
  BY <1>1, <1>2, Always, PTL DEF Spec, WriteOnceLedger, L!Spec
-----------------------------------------------------------------------------
(* Completion                                                               *)

CompletionTypes ==
    /\ form \in FormRow \cup {NoForm}
    /\ labourRate \in Rates /\ routeFuel \in Routes
    /\ form = NoForm => lines = {}
    /\ DOMAIN submission = Submissions
    /\ \A s \in Submissions :
         /\ DOMAIN submission[s] = {"body", "form", "bill", "clear", "fuel", "alone", "pc"}
         /\ submission[s].pc \in {"new", "conflict", "loaded", "read", "cleared", "ok", "error"}
         /\ submission[s].alone \in BOOLEAN
         /\ Underway(s) => submission[s].body \in Body
         /\ submission[s].pc = "cleared" => submission[s].fuel \in Typed \cup Routes
         /\ submission[s].pc \in {"read", "cleared"} /\ submission[s].form # NoForm => form # NoForm

\* A submission that nobody's commit has overlapped still sees what is committed.
SeesWhatIs(s) ==
    Underway(s) /\ submission[s].alone =>
      /\ submission[s].bill = bill
      /\ submission[s].pc \in {"read", "cleared"} => submission[s].form = form
      /\ submission[s].pc = "cleared" => submission[s].clear = lines

CompletionInv == CompletionTypes /\ BillAddsUp /\ \A s \in Submissions : SeesWhatIs(s)

LEMMA CompletionInvInit == CompletionInit => CompletionInv
<1> SUFFICES ASSUME CompletionInit PROVE CompletionInv
    OBVIOUS
<1>1. /\ form = NoForm /\ lines = {} /\ DOMAIN submission = Submissions
      /\ \A s \in Submissions : submission[s] = NotSent
    BY DEF CompletionInit
<1>2. /\ DOMAIN NotSent = {"body", "form", "bill", "clear", "fuel", "alone", "pc"}
      /\ NotSent.pc = "new" /\ NotSent.alone = TRUE
    BY DEF NotSent
<1>3. CompletionTypes
    BY <1>1, <1>2 DEF CompletionInit, CompletionTypes, Underway
<1> QED
    BY <1>1, <1>2, <1>3 DEF CompletionInv, BillAddsUp, SeesWhatIs, Underway

\* One submission goes on, and nothing is committed.
LEMMA SubmissionGoesOn ==
    ASSUME CompletionInv, NEW s \in Submissions, NEW sub,
           submission' = [submission EXCEPT ![s] = sub],
           DOMAIN sub = {"body", "form", "bill", "clear", "fuel", "alone", "pc"},
           sub.pc \in {"conflict", "loaded", "read", "cleared", "error"}, sub.alone \in BOOLEAN,
           sub.pc \in {"loaded", "read", "cleared"} => sub.body \in Body,
           sub.pc = "cleared" => sub.fuel \in Typed \cup Routes,
           sub.pc \in {"read", "cleared"} /\ sub.form # NoForm => form # NoForm,
           sub.pc \in {"loaded", "read", "cleared"} /\ sub.alone =>
             /\ sub.bill = bill
             /\ sub.pc \in {"read", "cleared"} => sub.form = form
             /\ sub.pc = "cleared" => sub.clear = lines,
           UNCHANGED <<form, lines, bill, labourRate, routeFuel, torn>>
    PROVE  CompletionInv'
<1>1. /\ DOMAIN submission' = Submissions /\ submission'[s] = sub
      /\ \A t \in Submissions \ {s} : submission'[t] = submission[t]
    BY DEF CompletionInv, CompletionTypes
<1>2. CompletionTypes'
    BY <1>1 DEF CompletionInv, CompletionTypes, Underway
<1>3. \A t \in Submissions : SeesWhatIs(t)'
    BY <1>1 DEF CompletionInv, SeesWhatIs, Underway
<1> QED
    BY <1>2, <1>3 DEF CompletionInv, BillAddsUp

LEMMA LoadJobKeeps == ASSUME CompletionInv, NEW s \in Submissions, LoadJob(s) PROVE CompletionInv'
<1>1. PICK b \in Body :
        submission' = [submission EXCEPT ![s] =
          [NotSent EXCEPT !.body = b, !.bill = bill, !.pc = IF closed THEN "conflict" ELSE "loaded"]]
    BY DEF LoadJob
<1> DEFINE sub == [NotSent EXCEPT !.body = b, !.bill = bill, !.pc = IF closed THEN "conflict" ELSE "loaded"]
<1>2. /\ DOMAIN sub = {"body", "form", "bill", "clear", "fuel", "alone", "pc"}
      /\ sub.pc \in {"conflict", "loaded"} /\ sub.alone \in BOOLEAN /\ sub.body \in Body /\ sub.bill = bill
    BY DEF NotSent
<1>3. submission' = [submission EXCEPT ![s] = sub] /\ UNCHANGED <<form, lines, bill, labourRate, routeFuel, torn>>
    BY <1>1 DEF LoadJob
<1> HIDE DEF sub
<1> QED
    BY <1>2, <1>3, SubmissionGoesOn

LEMMA ReadFormKeeps == ASSUME CompletionInv, NEW s \in Submissions, ReadForm(s) PROVE CompletionInv'
<1> DEFINE old == submission[s]
           sub == [old EXCEPT !.form = form, !.pc = "read"]
<1>1. /\ DOMAIN old = {"body", "form", "bill", "clear", "fuel", "alone", "pc"} /\ old.pc = "loaded"
      /\ old.alone \in BOOLEAN /\ old.body \in Body /\ (old.alone => old.bill = bill)
    BY DEF ReadForm, CompletionInv, CompletionTypes, Underway, SeesWhatIs
<1>2. submission' = [submission EXCEPT ![s] = sub] /\ UNCHANGED <<form, lines, bill, labourRate, routeFuel, torn>>
    BY DEF ReadForm, CompletionInv, CompletionTypes
<1> HIDE DEF old
<1>3. /\ DOMAIN sub = DOMAIN old /\ sub.pc = "read" /\ sub.form = form
      /\ sub.alone = old.alone /\ sub.body = old.body /\ sub.bill = old.bill
    BY <1>1
<1> HIDE DEF sub
<1> QED
    BY <1>1, <1>2, <1>3, SubmissionGoesOn

LEMMA ClearMaterialsKeeps ==
    ASSUME CompletionInv, NEW s \in Submissions, ClearMaterials(s) PROVE CompletionInv'
<1> DEFINE old == submission[s]
           fuel == IF old.body.fuel = Derived THEN routeFuel ELSE old.body.fuel
           clear == ToClear(s)
           sub == [old EXCEPT !.clear = clear, !.pc = "cleared", !.fuel = fuel]
<1>1. /\ DOMAIN old = {"body", "form", "bill", "clear", "fuel", "alone", "pc"} /\ old.pc = "read"
      /\ old.alone \in BOOLEAN /\ old.body \in Body /\ (old.alone => old.bill = bill /\ old.form = form)
      /\ old.form # NoForm => form # NoForm
    BY DEF ClearMaterials, CompletionInv, CompletionTypes, Underway, SeesWhatIs
<1>2. fuel \in Typed \cup Routes
  <2>1. old.body.fuel \in Typed \cup {Derived} /\ routeFuel \in Routes
      BY <1>1 DEF Body, CompletionInv, CompletionTypes
  <2> QED
      BY <2>1
<1>3. old.alone => clear = lines
    BY <1>1 DEF ToClear, CompletionInv, CompletionTypes
<1>4. submission' = [submission EXCEPT ![s] = sub] /\ UNCHANGED <<form, lines, bill, labourRate, routeFuel, torn>>
    BY DEF ClearMaterials, CompletionInv, CompletionTypes
<1> HIDE DEF old, fuel, clear
<1>5. /\ DOMAIN sub = DOMAIN old /\ sub.pc = "cleared" /\ sub.form = old.form /\ sub.clear = clear /\ sub.fuel = fuel
      /\ sub.alone = old.alone /\ sub.body = old.body /\ sub.bill = old.bill
    BY <1>1
<1> HIDE DEF sub
<1> QED
    BY <1>1, <1>2, <1>3, <1>4, <1>5, SubmissionGoesOn

\* The lines of one submission.
LEMMA LinesCount ==
    ASSUME NEW s, NEW n \in Nat PROVE Cardinality({s} \X (1 .. n)) = n
<1>1. IsFiniteSet({s}) /\ Cardinality({s}) = 1
    BY FS_Singleton
<1>2. IsFiniteSet(1 .. n) /\ Cardinality(1 .. n) = n
    BY FS_Interval
<1>3. Cardinality({s} \X (1 .. n)) = 1 * n
    BY <1>1, <1>2, FS_Product
<1> QED
    BY <1>3

\* A form that was submitted undisturbed is billed as it was submitted.
LEMMA CommitFormKeeps == ASSUME CompletionInv, NEW s \in Submissions, CommitForm(s) PROVE CompletionInv'
<1> DEFINE sub == submission[s]
           rate == IF sub.form = NoForm THEN labourRate ELSE sub.form.rate
           count == sub.body.lines
           minutes == sub.body.minutes
           total == Total(count, minutes, rate, sub.fuel)
<1>1. /\ sub.pc = "cleared" /\ sub.body \in Body /\ sub.fuel \in Typed \cup Routes /\ sub.alone \in BOOLEAN
      /\ form \in FormRow \cup {NoForm} /\ labourRate \in Rates
      /\ sub.alone => sub.bill = bill /\ sub.form = form /\ sub.clear = lines
    BY DEF CommitForm, CompletionInv, CompletionTypes, SeesWhatIs, Underway
<1>2. /\ sub.form = NoForm => form = NoForm
      /\ form' = Upserted(s)
      /\ lines' = (lines \ sub.clear) \cup ({s} \X (1 .. count))
      /\ bill' = Written(total, sub.bill, bill)
      /\ torn' = ~sub.alone
      /\ UNCHANGED <<labourRate, routeFuel>>
    BY DEF CommitForm
<1>3. count \in Nat /\ minutes \in 0 .. MaxMinutes
    BY <1>1 DEF Body
<1>4. form' \in FormRow
  <2>1. CASE sub.form = NoForm
      BY <1>1, <1>2, <1>3, <2>1 DEF Upserted, FormRow
  <2>2. CASE sub.form # NoForm /\ form \in FormRow
    <3>1. form' = [form EXCEPT !.minutes = Written(minutes, sub.form.minutes, form.minutes),
                               !.fuel    = Written(sub.fuel, sub.form.fuel, form.fuel)]
        BY <1>2, <2>2 DEF Upserted, FormRow
    <3>2. /\ Written(minutes, sub.form.minutes, form.minutes) \in 0 .. MaxMinutes
          /\ Written(sub.fuel, sub.form.fuel, form.fuel) \in Typed \cup Routes
        BY <1>1, <1>3, <2>2 DEF Written, FormRow
    <3> QED
        BY <2>2, <3>1, <3>2 DEF FormRow
  <2>3. sub.form # NoForm => form # NoForm
      BY <1>1 DEF CompletionInv, CompletionTypes
  <2> QED
      BY <1>1, <2>1, <2>2, <2>3
<1>5. ASSUME sub.alone
      PROVE  /\ form'.minutes = minutes /\ form'.fuel = sub.fuel /\ form'.rate = rate
             /\ bill' = total /\ Cardinality(lines') = count
  <2>1. form'.minutes = minutes /\ form'.fuel = sub.fuel /\ form'.rate = rate
      BY <1>1, <1>2, <1>5 DEF Upserted, Written, FormRow
  <2>2. lines' = {s} \X (1 .. count)
      BY <1>1, <1>2, <1>5
  <2>3. Cardinality(lines') = count
      BY <1>3, <2>2, LinesCount
  <2>4. bill' = total
      BY <1>1, <1>2, <1>5 DEF Written
  <2> QED
      BY <2>1, <2>3, <2>4
<1>6. BillAddsUp'
    BY <1>1, <1>2, <1>5 DEF BillAddsUp
<1>7. /\ DOMAIN submission' = Submissions
      /\ \A t \in Submissions :
           /\ DOMAIN submission'[t] = DOMAIN submission[t]
           /\ submission'[t].pc = IF t = s THEN "ok" ELSE submission[t].pc
           /\ submission'[t].body = submission[t].body /\ submission'[t].fuel = submission[t].fuel
           /\ submission'[t].alone \in BOOLEAN
           /\ Underway(t)' => submission'[t].alone = FALSE
  <2>1. submission' = [t \in Submissions |->
                        IF t = s THEN [submission[t] EXCEPT !.pc = "ok"]
                        ELSE IF Underway(t) THEN [submission[t] EXCEPT !.alone = FALSE]
                        ELSE submission[t]]
      BY DEF CommitForm
  <2> SUFFICES ASSUME NEW t \in Submissions
               PROVE  /\ DOMAIN submission'[t] = DOMAIN submission[t]
                      /\ submission'[t].pc = IF t = s THEN "ok" ELSE submission[t].pc
                      /\ submission'[t].body = submission[t].body /\ submission'[t].fuel = submission[t].fuel
                      /\ submission'[t].alone \in BOOLEAN
                      /\ Underway(t)' => submission'[t].alone = FALSE
      BY <2>1
  <2>2. /\ DOMAIN submission[t] = {"body", "form", "bill", "clear", "fuel", "alone", "pc"}
        /\ submission[t].alone \in BOOLEAN
      BY DEF CompletionInv, CompletionTypes
  <2>3. CASE t = s
      BY <2>1, <2>2, <2>3 DEF Underway
  <2>4. CASE t # s /\ Underway(t)
      BY <2>1, <2>2, <2>4
  <2>5. CASE t # s /\ ~Underway(t)
      BY <2>1, <2>2, <2>5 DEF Underway
  <2> QED
      BY <2>3, <2>4, <2>5
<1>8. CompletionTypes'
    BY <1>2, <1>4, <1>7, NoFormIsApart DEF CompletionInv, CompletionTypes, Underway
<1>9. \A t \in Submissions : SeesWhatIs(t)'
    BY <1>7 DEF SeesWhatIs
<1> QED
    BY <1>6, <1>8, <1>9 DEF CompletionInv

LEMMA FailKeeps == ASSUME CompletionInv, NEW s \in Submissions, Fail(s) PROVE CompletionInv'
<1> DEFINE old == submission[s]
           sub == [old EXCEPT !.pc = "error"]
<1>1. DOMAIN old = {"body", "form", "bill", "clear", "fuel", "alone", "pc"} /\ old.alone \in BOOLEAN
    BY DEF CompletionInv, CompletionTypes
<1>2. submission' = [submission EXCEPT ![s] = sub] /\ UNCHANGED <<form, lines, bill, labourRate, routeFuel, torn>>
    BY DEF Fail, CompletionInv, CompletionTypes
<1> HIDE DEF old
<1>3. DOMAIN sub = DOMAIN old /\ sub.pc = "error" /\ sub.alone = old.alone
    BY <1>1
<1> HIDE DEF sub
<1> QED
    BY <1>1, <1>2, <1>3, SubmissionGoesOn

LEMMA CompletionInvNext == CompletionInv /\ [CompletionNext]_completionVars => CompletionInv'
<1> SUFFICES ASSUME CompletionInv, [CompletionNext]_completionVars PROVE CompletionInv'
    OBVIOUS
<1>1. ASSUME NEW s \in Submissions,
             LoadJob(s) \/ ReadForm(s) \/ ClearMaterials(s) \/ CommitForm(s) \/ Fail(s)
      PROVE  CompletionInv'
    BY <1>1, LoadJobKeeps, ReadFormKeeps, ClearMaterialsKeeps, CommitFormKeeps, FailKeeps
<1>2. CASE Close \/ RouteChanges \/ UNCHANGED completionVars
    BY <1>2 DEF Close, RouteChanges, completionVars, CompletionInv, CompletionTypes, BillAddsUp, SeesWhatIs, Underway
<1>3. CASE Redeploy
  <2>1. /\ labourRate' \in Rates /\ UNCHANGED <<form, lines, bill, routeFuel, torn>>
        /\ submission' = [s \in Submissions |->
             IF Underway(s) THEN [submission[s] EXCEPT !.pc = "error"] ELSE submission[s]]
      BY <1>3 DEF Redeploy
  <2>2. /\ DOMAIN submission' = Submissions
        /\ \A s \in Submissions :
             /\ DOMAIN submission'[s] = {"body", "form", "bill", "clear", "fuel", "alone", "pc"}
             /\ submission'[s].pc \in {"new", "conflict", "ok", "error"} /\ submission'[s].alone \in BOOLEAN
      BY <2>1 DEF CompletionInv, CompletionTypes, Underway
  <2>3. CompletionTypes' /\ \A s \in Submissions : SeesWhatIs(s)'
      BY <2>1, <2>2 DEF CompletionInv, CompletionTypes, SeesWhatIs, Underway
  <2> QED
      BY <2>1, <2>3 DEF CompletionInv, BillAddsUp
<1> QED
    BY <1>1, <1>2, <1>3 DEF CompletionNext

\* The bill is what its form adds up to, at the rate the first submission pinned.
THEOREM BillsAddUp == CompletionSpec => []BillAddsUp
<1>1. CompletionInv => BillAddsUp
    BY DEF CompletionInv
<1> QED
    BY <1>1, CompletionInvInit, CompletionInvNext, PTL DEF CompletionSpec
=============================================================================
