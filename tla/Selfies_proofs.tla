--------------------------- MODULE Selfies_proofs ---------------------------
(* Theorems about Selfies, for any number of punches, attempts, retries and   *)
(* deaths of the app.                                                         *)
EXTENDS Selfies, Induction

-----------------------------------------------------------------------------
(* The inductive invariant *)

SelfieTypes ==
    /\ punch \in [Punches -> QueuedPunch \cup {Absent}]
    /\ photo \in [Punches -> Photos \cup {"untaken", "none", "gone"}]
    /\ row \in [Punches -> AttendanceEvent \cup {Absent}]
    /\ bytes \in [Punches -> Photos \cup {Absent}]
    /\ DOMAIN drain = {"pc", "todo", "known"}
    /\ drain.pc \in {"asleep", "record", "put", "complete", "prune"}

\* A punch's photo is as old as the punch, and its row no older.
MadeTogether ==
    \A t \in Punches :
      /\ photo[t] = "untaken" => punch[t] = Absent /\ row[t] = Absent
      /\ row[t] # Absent /\ HasFile(t) => row[t].path

\* What is uploaded is there, and what is done is recorded and has nothing left
\* to upload.
DoneIsStored ==
    \A t \in Punches :
      /\ row[t] # Absent /\ row[t].status = "uploaded" => bytes[t] = "fits"
      /\ punch[t] # Absent /\ punch[t].done =>
           row[t] # Absent /\ (HasFile(t) => row[t].status = "uploaded")

Distinct(q) == \A i, j \in 1..Len(q) : q[i] = q[j] => i = j

\* The drain has pending punches to do, each once, and a selfie that it sends is
\* one that the server waits for.
DrainsPending ==
    drain.pc \in {"record", "put", "complete"} =>
      /\ drain.todo \in Seq(Pending) /\ drain.todo # <<>> /\ Distinct(drain.todo)
      /\ drain.pc # "record" =>
           row[Now] # Absent /\ ResumeSelfie(row[Now]) /\ HasFile(Now)

SelfiesInv == SelfieTypes /\ MadeTogether /\ DoneIsStored /\ DrainsPending /\ EvidenceKept

LEMMA SelfiesInvInit == SelfiesInit => SelfiesInv
<1> SUFFICES ASSUME SelfiesInit PROVE SelfiesInv
    OBVIOUS
<1> USE AbsentIsApart DEF SelfiesInit, Asleep
<1>1. SelfieTypes
    BY DEF SelfieTypes
<1>2. MadeTogether /\ DoneIsStored /\ DrainsPending
    BY DEF MadeTogether, DoneIsStored, DrainsPending, HasFile, Photos
<1>3. EvidenceKept
    BY DEF EvidenceKept
<1> QED
    BY <1>1, <1>2, <1>3 DEF SelfiesInv

-----------------------------------------------------------------------------
(* The queue and the drain *)

\* What the drain is at.
LEMMA NowIsPending ==
    ASSUME SelfiesInv, drain.pc \in {"record", "put", "complete"}
    PROVE  /\ Now \in Pending /\ Now \in Punches /\ punch[Now] \in QueuedPunch /\ punch[Now] # Absent
           /\ ~punch[Now].done /\ ~punch[Now].failed /\ photo[Now] # "untaken"
           /\ Tail(drain.todo) \in Seq(Pending \ {Now}) /\ Distinct(Tail(drain.todo))
           /\ \A i \in 1..Len(drain.todo) : drain.todo[i] \in Pending
<1> DEFINE q == drain.todo
           S == Pending
<1>1. q \in Seq(S) /\ q # <<>> /\ Distinct(q)
    BY DEF SelfiesInv, DrainsPending
<1>2. Pending \subseteq Punches
    BY DEF Pending
<1> HIDE DEF q, S
<1>3. /\ Len(q) \in Nat /\ 1 \in 1..Len(q) /\ Head(q) = q[1] /\ q[1] \in S
      /\ Len(Tail(q)) = Len(q) - 1
      /\ \A i \in 1..Len(Tail(q)) : i + 1 \in 1..Len(q) /\ Tail(q)[i] = q[i + 1] /\ q[i + 1] \in S
    BY <1>1
<1>4. \A i \in 1..Len(Tail(q)) : Tail(q)[i] \in S \ {Head(q)}
    BY <1>1, <1>3 DEF Distinct
<1>5. Tail(q) \in Seq(S)
    BY <1>1
<1> DEFINE rest == Tail(q)
           R == S \ {Head(q)}
<1>6. rest \in Seq(R)
  <2>1. \A i \in 1..Len(rest) : rest[i] \in R
      BY <1>4
  <2> HIDE DEF rest, R
  <2>2. rest \in Seq(S)
      BY <1>5 DEF rest
  <2>3. rest = [i \in 1..Len(rest) |-> rest[i]] /\ Len(rest) \in Nat
      BY <2>2
  <2> QED
      BY <2>1, <2>3
<1>7. Distinct(Tail(q))
    BY <1>1, <1>3 DEF Distinct
<1>8. \A i \in 1..Len(q) : q[i] \in S
    BY <1>1
<1>9. Now \in Pending
    BY <1>3 DEF q, S, Now
<1> QED
    BY <1>2, <1>6, <1>7, <1>8, <1>9 DEF q, S, Now, Pending, SelfiesInv, SelfieTypes, MadeTogether

\* A queue of pending punches that are all still pending.
LEMMA StillPending ==
    ASSUME NEW q, NEW S, NEW T, q \in Seq(S), S \subseteq T PROVE q \in Seq(T)
    OBVIOUS

\* The drain goes on with the others, or ends.
LEMMA DrainGoesOn ==
    ASSUME SelfiesInv, drain.pc \in {"record", "put", "complete"}, NextItem \/ StopDrain,
           Pending \ {Now} \subseteq Pending'
    PROVE  /\ DOMAIN drain' = {"pc", "todo", "known"} /\ drain'.pc \in {"record", "prune"}
           /\ DrainsPending'
<1>1. Tail(drain.todo) \in Seq(Pending') /\ Distinct(Tail(drain.todo))
    BY NowIsPending, StillPending
<1>2. \/ drain' = [drain EXCEPT !.pc = "prune"]
      \/ drain' = [drain EXCEPT !.pc = "record", !.todo = Tail(@)] /\ Tail(drain.todo) # <<>>
    BY DEF NextItem, StopDrain
<1>3. DOMAIN drain = {"pc", "todo", "known"}
    BY DEF SelfiesInv, SelfieTypes
<1>4. CASE drain' = [drain EXCEPT !.pc = "prune"]
    BY <1>3, <1>4 DEF DrainsPending
<1>5. CASE drain' = [drain EXCEPT !.pc = "record", !.todo = Tail(@)] /\ Tail(drain.todo) # <<>>
  <2>1. DOMAIN drain' = {"pc", "todo", "known"} /\ drain'.pc = "record" /\ drain'.todo = Tail(drain.todo)
      BY <1>3, <1>5
  <2> QED
      BY <1>1, <1>5, <2>1 DEF DrainsPending
<1> QED
    BY <1>2, <1>4, <1>5

\* One punch's entry changes, with its photo or without, and nothing else that the
\* invariant speaks of but the drain.
LEMMA EntryChanges ==
    ASSUME SelfiesInv, NEW t \in Punches, NEW k \in QueuedPunch,
           punch' = [punch EXCEPT ![t] = k], UNCHANGED <<photo, row, bytes, givenUp>>,
           photo[t] # "untaken",
           k.done => row[t] # Absent /\ (HasFile(t) => row[t].status = "uploaded"),
           DOMAIN drain' = {"pc", "todo", "known"},
           drain'.pc \in {"asleep", "record", "put", "complete", "prune"}, DrainsPending'
    PROVE  SelfiesInv'
<1>1. /\ punch' \in [Punches -> QueuedPunch \cup {Absent}] /\ punch'[t] = k /\ k # Absent
      /\ \A s \in Punches \ {t} : punch'[s] = punch[s]
    BY AbsentIsApart DEF SelfiesInv, SelfieTypes
<1>2. SelfieTypes' /\ MadeTogether' /\ DoneIsStored'
    BY <1>1 DEF SelfiesInv, SelfieTypes, MadeTogether, DoneIsStored, HasFile
<1>3. EvidenceKept'
    BY <1>1 DEF SelfiesInv, EvidenceKept, SelfieGap
<1> QED
    BY <1>2, <1>3 DEF SelfiesInv

LEMMA EnqueuePunchKeeps == ASSUME SelfiesInv, NEW t \in Punches, EnqueuePunch(t) PROVE SelfiesInv'
<1>1. /\ photo[t] = "untaken" /\ punch' = [punch EXCEPT ![t] = Fresh]
      /\ UNCHANGED <<row, bytes, drain, givenUp>>
      /\ \E p \in Photos \cup {"none"} : photo' = [photo EXCEPT ![t] = p]
    BY DEF EnqueuePunch, serverState
<1>2. Fresh \in QueuedPunch /\ ~Fresh.done /\ ~Fresh.failed
    BY DEF Fresh, QueuedPunch
<1>3. /\ punch'[t] = Fresh /\ Fresh # Absent /\ photo'[t] \in Photos \cup {"none"} /\ photo'[t] \notin {"untaken", "gone"}
      /\ \A s \in Punches \ {t} : punch'[s] = punch[s] /\ photo'[s] = photo[s]
      /\ row[t] = Absent
    BY <1>1, <1>2, AbsentIsApart DEF SelfiesInv, SelfieTypes, MadeTogether, Photos
<1>4. SelfieTypes'
    BY <1>1, <1>2 DEF SelfiesInv, SelfieTypes
<1>5. MadeTogether' /\ DoneIsStored'
    BY <1>1, <1>2, <1>3 DEF SelfiesInv, MadeTogether, DoneIsStored, HasFile
<1>6. EvidenceKept'
    BY <1>1, <1>3 DEF SelfiesInv, EvidenceKept, SelfieGap
<1>7. DrainsPending'
  <2>1. Pending \subseteq Pending'
      BY <1>2, <1>3 DEF Pending
  <2> SUFFICES ASSUME drain.pc \in {"record", "put", "complete"} PROVE DrainsPending'
      BY <1>1 DEF DrainsPending
  <2>2. drain.todo \in Seq(Pending')
      BY <2>1, StillPending DEF SelfiesInv, DrainsPending
  <2>3. Now \in Punches /\ Now # t
      BY <1>1, NowIsPending
  <2> QED
      BY <1>1, <1>3, <2>2, <2>3 DEF SelfiesInv, DrainsPending, HasFile, Now
<1> QED
    BY <1>4, <1>5, <1>6, <1>7 DEF SelfiesInv

\* A parked punch is not the drain's.
LEMMA ParkedIsNotDrained ==
    ASSUME SelfiesInv, NEW t \in Punches, punch[t] # Absent, punch[t].failed,
           drain.pc \in {"record", "put", "complete"}
    PROVE  Now # t /\ drain.todo \in Seq(Pending \ {t})
<1>1. t \notin Pending
    BY DEF Pending
<1> QED
    BY <1>1, NowIsPending DEF SelfiesInv, DrainsPending

LEMMA RetryPunchKeeps == ASSUME SelfiesInv, NEW t \in Punches, RetryPunch(t) PROVE SelfiesInv'
<1> DEFINE old == punch[t]
           k == [old EXCEPT !.failed = FALSE, !.attempts = 0]
<1>1. old \in QueuedPunch /\ old # Absent /\ old.failed
    BY DEF RetryPunch, SelfiesInv, SelfieTypes
<1>2. punch' = [punch EXCEPT ![t] = k] /\ UNCHANGED <<photo, row, bytes, drain, givenUp>>
    BY DEF RetryPunch, serverState, SelfiesInv, SelfieTypes
<1>3. photo[t] # "untaken" /\ (old.done => row[t] # Absent /\ (HasFile(t) => row[t].status = "uploaded"))
    BY <1>1 DEF SelfiesInv, MadeTogether, DoneIsStored
<1>4. Pending \ {t} \subseteq Pending'
    BY <1>2 DEF Pending, SelfiesInv, SelfieTypes
<1>5. DrainsPending'
  <2> SUFFICES ASSUME drain.pc \in {"record", "put", "complete"} PROVE DrainsPending'
      BY <1>2 DEF DrainsPending
  <2>1. drain.todo \in Seq(Pending')
      BY <1>1, <1>4, ParkedIsNotDrained, StillPending
  <2> QED
      BY <1>2, <2>1 DEF SelfiesInv, DrainsPending, HasFile, Now
<1> HIDE DEF old
<1>6. k \in QueuedPunch /\ k.done = old.done
    BY <1>1 DEF QueuedPunch
<1> HIDE DEF k
<1> QED
    BY <1>2, <1>3, <1>5, <1>6, EntryChanges DEF SelfiesInv, SelfieTypes

LEMMA DiscardPunchKeeps == ASSUME SelfiesInv, NEW t \in Punches, DiscardPunch(t) PROVE SelfiesInv'
<1>1. /\ punch[t] # Absent /\ punch[t].failed /\ punch' = [punch EXCEPT ![t] = Absent]
      /\ photo' = [photo EXCEPT ![t] = "gone"] /\ givenUp' = givenUp \cup {t}
      /\ UNCHANGED <<row, bytes, drain>>
    BY DEF DiscardPunch, serverState
<1>2. /\ punch'[t] = Absent /\ photo'[t] = "gone" /\ \A s \in Punches \ {t} : punch'[s] = punch[s] /\ photo'[s] = photo[s]
    BY <1>1 DEF SelfiesInv, SelfieTypes
<1>3. SelfieTypes' /\ MadeTogether' /\ DoneIsStored' /\ EvidenceKept'
  <2>1. SelfieTypes'
      BY <1>1 DEF SelfiesInv, SelfieTypes
  <2>2. MadeTogether' /\ DoneIsStored'
      BY <1>1, <1>2 DEF SelfiesInv, MadeTogether, DoneIsStored, HasFile, Photos
  <2>3. EvidenceKept'
      BY <1>1, <1>2 DEF SelfiesInv, EvidenceKept, SelfieGap
  <2> QED
      BY <2>1, <2>2, <2>3
<1>4. DrainsPending'
  <2> SUFFICES ASSUME drain.pc \in {"record", "put", "complete"} PROVE DrainsPending'
      BY <1>1 DEF DrainsPending
  <2>1. Pending \ {t} \subseteq Pending'
      BY <1>2 DEF Pending
  <2>2. drain.todo \in Seq(Pending') /\ Now # t /\ Now \in Punches
      BY <1>1, <2>1, ParkedIsNotDrained, NowIsPending, StillPending
  <2> QED
      BY <1>1, <1>2, <2>2 DEF SelfiesInv, DrainsPending, HasFile, Now
<1> QED
    BY <1>3, <1>4 DEF SelfiesInv

LEMMA WakeKeeps == ASSUME SelfiesInv, Wake PROVE SelfiesInv'
<1> DEFINE S == Pending
           q == Ordered(S)
<1>1. /\ S # {} /\ UNCHANGED <<punch, photo, row, bytes, givenUp>>
      /\ drain' = [pc |-> "record", todo |-> q, known |-> {t \in S : punch[t].recorded}]
    BY DEF Wake, serverState
<1>2. S \subseteq Nat /\ IsFiniteSet(S)
    BY SelfiesAssumption, FS_Subset DEF Pending
<1>3. Pending' = S
    BY <1>1 DEF Pending
<1> HIDE DEF S
<1>4. q \in [1..Cardinality(S) -> S] /\ \A i, j \in DOMAIN q : i < j => q[i] < q[j]
    BY <1>2, InOrder DEF Ordered
<1>5. Cardinality(S) \in Nat \ {0}
    BY <1>1, <1>2, FS_EmptySet, FS_CardinalityType
<1> DEFINE n == Cardinality(S)
<1> HIDE DEF n, q
<1>6. n \in Nat \ {0} /\ q \in [1..n -> S] /\ \A i, j \in 1..n : i < j => q[i] < q[j]
    BY <1>4, <1>5 DEF n
<1>7. q \in Seq(S) /\ q # <<>> /\ Len(q) = n
    BY <1>6
<1>8. Distinct(q)
  <2> SUFFICES ASSUME NEW i \in 1..n, NEW j \in 1..n, i < j PROVE q[i] # q[j]
      BY <1>6, <1>7 DEF Distinct
  <2>1. q[i] < q[j] /\ q[i] \in Nat /\ q[j] \in Nat
      BY <1>2, <1>6
  <2> QED
      BY <2>1
<1>9. DrainsPending'
    BY <1>1, <1>3, <1>7, <1>8 DEF DrainsPending
<1>10. SelfieTypes' /\ MadeTogether' /\ DoneIsStored' /\ EvidenceKept'
    BY <1>1 DEF SelfiesInv, SelfieTypes, MadeTogether, DoneIsStored, EvidenceKept, SelfieGap, HasFile
<1> QED
    BY <1>9, <1>10 DEF SelfiesInv

-----------------------------------------------------------------------------
(* The drain's calls *)

Active == drain.pc \in {"record", "put", "complete"}

\* What a call may do to the punch, the row and the bytes of the punch it is about.
LEMMA NowChanges ==
    ASSUME SelfiesInv, Active, NEW k \in QueuedPunch, NEW r \in AttendanceEvent \cup {Absent},
           NEW b \in Photos \cup {Absent},
           punch' = [punch EXCEPT ![Now] = k], row' = [row EXCEPT ![Now] = r],
           bytes' = [bytes EXCEPT ![Now] = b], UNCHANGED <<photo, givenUp>>,
           r # Absent /\ HasFile(Now) => r.path,
           r # Absent /\ r.status = "uploaded" => b = "fits",
           k.done => r # Absent /\ (HasFile(Now) => r.status = "uploaded"),
           photo[Now] = "gone" /\ Now \notin givenUp => r = row[Now] /\ b = bytes[Now],
           NextItem \/ StopDrain \/
             (/\ DOMAIN drain' = {"pc", "todo", "known"} /\ drain'.pc \in {"put", "complete"}
              /\ drain'.todo = drain.todo /\ r # Absent /\ ResumeSelfie(r) /\ HasFile(Now)
              /\ ~k.done /\ ~k.failed)
    PROVE  SelfiesInv'
<1>0. PICK t \in Punches : t = Now
    BY NowIsPending DEF Active
<1>1. /\ punch[t] \in QueuedPunch /\ punch[t] # Absent /\ photo[t] # "untaken" /\ k # Absent
    BY <1>0, NowIsPending, AbsentIsApart DEF Active
<1>2. /\ punch'[t] = k /\ row'[t] = r /\ bytes'[t] = b
      /\ \A s \in Punches \ {t} : punch'[s] = punch[s] /\ row'[s] = row[s] /\ bytes'[s] = bytes[s]
      /\ photo' = photo /\ givenUp' = givenUp
    BY <1>0 DEF SelfiesInv, SelfieTypes
<1>3. Pending \ {Now} \subseteq Pending'
    BY <1>0, <1>2 DEF Pending
<1>4. /\ DOMAIN drain' = {"pc", "todo", "known"} /\ drain'.pc \in {"record", "prune", "put", "complete"}
      /\ DrainsPending'
  <2>1. CASE NextItem \/ StopDrain
      BY <1>3, <2>1, DrainGoesOn DEF Active
  <2>2. CASE /\ DOMAIN drain' = {"pc", "todo", "known"} /\ drain'.pc \in {"put", "complete"}
             /\ drain'.todo = drain.todo /\ r # Absent /\ ResumeSelfie(r) /\ HasFile(Now)
             /\ ~k.done /\ ~k.failed
    <3>1. Pending \subseteq Pending'
        BY <1>0, <1>1, <1>2, <2>2 DEF Pending
    <3>2. drain.todo \in Seq(Pending')
        BY <3>1, StillPending DEF SelfiesInv, DrainsPending, Active
    <3>3. Now' = t /\ HasFile(t)'
        BY <1>0, <1>2, <2>2 DEF Now, HasFile
    <3> QED
        BY <1>2, <2>2, <3>2, <3>3 DEF SelfiesInv, DrainsPending, Active
  <2> QED
      BY <2>1, <2>2
<1>5. SelfieTypes'
    BY <1>0, <1>2, <1>4 DEF SelfiesInv, SelfieTypes
<1>6. MadeTogether'
    BY <1>0, <1>1, <1>2 DEF SelfiesInv, MadeTogether, HasFile
<1>7. DoneIsStored'
    BY <1>0, <1>1, <1>2 DEF SelfiesInv, DoneIsStored, HasFile
<1>8. EvidenceKept'
  <2> SUFFICES ASSUME NEW s \in Punches, photo[s] # "untaken", s \notin givenUp
               PROVE  /\ punch'[s] = Absent => row'[s] # Absent
                      /\ photo[s] = "gone" => row'[s] # Absent /\ row'[s].status = "uploaded" /\ bytes'[s] = "fits"
                      /\ row'[s] # Absent => row'[s].status # "uploaded" \/ bytes'[s] = "fits"
      BY <1>2 DEF EvidenceKept, SelfieGap
  <2>1. CASE s = t
      BY <1>0, <1>1, <1>2, <2>1 DEF SelfiesInv, EvidenceKept
  <2>2. CASE s # t
      BY <1>2, <2>2 DEF SelfiesInv, EvidenceKept, SelfieGap
  <2> QED
      BY <2>1, <2>2
<1> QED
    BY <1>4, <1>5, <1>6, <1>7, <1>8 DEF SelfiesInv

\* What is there, when it is left as it is.
LEMMA AsItWas ==
    ASSUME SelfiesInv, Active
    PROVE  /\ punch[Now] \in QueuedPunch /\ punch = [punch EXCEPT ![Now] = punch[Now]]
           /\ row[Now] \in AttendanceEvent \cup {Absent} /\ row = [row EXCEPT ![Now] = row[Now]]
           /\ bytes[Now] \in Photos \cup {Absent} /\ bytes = [bytes EXCEPT ![Now] = bytes[Now]]
           /\ ~punch[Now].done /\ ~punch[Now].failed
           /\ row[Now] # Absent /\ HasFile(Now) => row[Now].path
           /\ row[Now] # Absent /\ row[Now].status = "uploaded" => bytes[Now] = "fits"
           /\ drain.pc # "record" => row[Now] # Absent /\ ResumeSelfie(row[Now]) /\ HasFile(Now)
    BY NowIsPending DEF Active, SelfiesInv, SelfieTypes, MadeTogether, DoneIsStored, DrainsPending

\* An error that is counted.
LEMMA CountedChanges ==
    ASSUME SelfiesInv, Active, Counted(Now)
    PROVE  /\ \E k \in QueuedPunch : punch' = [punch EXCEPT ![Now] = k] /\ ~k.done
           /\ NextItem \/ StopDrain
<1> DEFINE old == punch[Now]
           n == old.attempts + 1
<1>1. old \in QueuedPunch /\ ~old.done
    BY AsItWas
<1>2. \/ punch' = [punch EXCEPT ![Now] = [old EXCEPT !.attempts = n, !.failed = TRUE]]
      \/ punch' = [punch EXCEPT ![Now] = [old EXCEPT !.attempts = n]]
    BY NowIsPending DEF Active, Counted, SelfiesInv, SelfieTypes
<1>3. NextItem \/ StopDrain
    BY DEF Counted
<1> HIDE DEF old
<1>0. n \in Nat
    BY <1>1 DEF QueuedPunch
<1> HIDE DEF n
<1>4. /\ [old EXCEPT !.attempts = n, !.failed = TRUE] \in QueuedPunch
      /\ ~[old EXCEPT !.attempts = n, !.failed = TRUE].done
      /\ [old EXCEPT !.attempts = n] \in QueuedPunch /\ ~[old EXCEPT !.attempts = n].done
    BY <1>0, <1>1 DEF QueuedPunch
<1> QED
    BY <1>2, <1>3, <1>4

LEMMA CutOffKeeps ==
    ASSUME SelfiesInv, Active, UNCHANGED <<punch, photo, row, bytes, givenUp>>, NextItem \/ StopDrain
    PROVE  SelfiesInv'
    BY AsItWas, NowChanges

LEMMA CountedKeeps ==
    ASSUME SelfiesInv, Active, Counted(Now), UNCHANGED <<photo, row, bytes, givenUp>>
    PROVE  SelfiesInv'
    BY AsItWas, CountedChanges, NowChanges

LEMMA RefusedKeeps == ASSUME SelfiesInv, Refused PROVE SelfiesInv'
<1>1. Active /\ UNCHANGED <<photo, row, bytes, givenUp>>
    BY DEF Refused, At, Active, serverState
<1>2. CASE Now \in drain.known
    BY <1>1, <1>2, CountedKeeps DEF Refused
<1>3. CASE Now \notin drain.known
  <2> DEFINE old == punch[Now]
             k == [old EXCEPT !.failed = TRUE]
  <2>1. old \in QueuedPunch /\ ~old.done
      BY <1>1, AsItWas
  <2>2. punch' = [punch EXCEPT ![Now] = k] /\ NextItem
      BY <1>1, <1>3, NowIsPending DEF Refused, Active, SelfiesInv, SelfieTypes
  <2> HIDE DEF old
  <2>3. k \in QueuedPunch /\ ~k.done
      BY <2>1 DEF QueuedPunch
  <2> HIDE DEF k
  <2> QED
      BY <1>1, <2>2, <2>3, AsItWas, NowChanges
<1> QED
    BY <1>2, <1>3

\* The punch is settled.
LEMMA SettleChanges ==
    ASSUME SelfiesInv, Active, Settle(Now)
    PROVE  \E k \in QueuedPunch : punch' = [punch EXCEPT ![Now] = k]
<1> DEFINE old == punch[Now]
           k == [old EXCEPT !.recorded = TRUE, !.done = TRUE]
<1>1. old \in QueuedPunch
    BY AsItWas
<1>2. punch' = [punch EXCEPT ![Now] = k]
    BY NowIsPending DEF Settle, Active, SelfiesInv, SelfieTypes
<1> HIDE DEF old
<1>3. k \in QueuedPunch
    BY <1>1 DEF QueuedPunch
<1> QED
    BY <1>2, <1>3

\* The row after record_punch.
LEMMA RecordChanges ==
    ASSUME SelfiesInv, Active, Record(Now)
    PROVE  \E r \in AttendanceEvent :
             /\ row' = [row EXCEPT ![Now] = r] /\ row'[Now] = r /\ r # Absent
             /\ HasFile(Now) => r.path
             /\ r.status = "uploaded" => bytes[Now] = "fits"
             /\ photo[Now] = "gone" /\ row[Now] # Absent => r = row[Now]
<1> DEFINE new == [path |-> HasFile(Now), status |-> "pending"]
           r == IF row[Now] # Absent THEN row[Now] ELSE new
<1>1. new \in AttendanceEvent /\ new.path = HasFile(Now) /\ new.status = "pending"
    BY DEF AttendanceEvent, HasFile
<1>2. row' = [row EXCEPT ![Now] = r]
    BY NowIsPending DEF Record, SelfiesInv, SelfieTypes, Active
<1> HIDE DEF new
<1>3. r \in AttendanceEvent /\ r # Absent
    BY <1>1, AsItWas, AbsentIsApart
<1>4. row'[Now] = r
    BY <1>2, NowIsPending DEF SelfiesInv, SelfieTypes, Active
<1>5. (HasFile(Now) => r.path) /\ (r.status = "uploaded" => bytes[Now] = "fits")
    BY <1>1, AsItWas
<1> QED
    BY <1>2, <1>3, <1>4, <1>5

\* What an answer of the attendance slice leaves of the punch, the row and the drain.
LEMMA RecordKeeps ==
    ASSUME SelfiesInv, Active, Record(Now), UNCHANGED <<photo, bytes, givenUp>>,
           NEW k \in QueuedPunch, punch' = [punch EXCEPT ![Now] = k],
           k.done => (HasFile(Now) => row'[Now].status = "uploaded"),
           NextItem \/ StopDrain \/
             (/\ drain' = [drain EXCEPT !.pc = "put"] /\ ResumeSelfie(row'[Now]) /\ HasFile(Now)
              /\ ~k.done /\ ~k.failed)
    PROVE  SelfiesInv'
<1>1. PICK r \in AttendanceEvent :
             /\ row' = [row EXCEPT ![Now] = r] /\ row'[Now] = r /\ r # Absent
             /\ HasFile(Now) => r.path
             /\ r.status = "uploaded" => bytes[Now] = "fits"
             /\ photo[Now] = "gone" /\ row[Now] # Absent => r = row[Now]
    BY RecordChanges
<1>2. photo[Now] = "gone" /\ Now \notin givenUp => row[Now] # Absent
    BY NowIsPending DEF SelfiesInv, EvidenceKept, Active
<1>3. bytes[Now] \in Photos \cup {Absent} /\ bytes' = [bytes EXCEPT ![Now] = bytes[Now]]
    BY AsItWas
<1>4. drain' = [drain EXCEPT !.pc = "put"] =>
        DOMAIN drain' = {"pc", "todo", "known"} /\ drain'.pc = "put" /\ drain'.todo = drain.todo
    BY DEF SelfiesInv, SelfieTypes
<1> QED
    BY <1>1, <1>2, <1>3, <1>4, NowChanges

LEMMA RecordedKeeps == ASSUME SelfiesInv, Recorded PROVE SelfiesInv'
<1> DEFINE old == punch[Now]
<1>1. Active /\ Record(Now) /\ UNCHANGED <<photo, bytes, givenUp>>
    BY DEF Recorded, At, Active
<1>2. old \in QueuedPunch /\ ~old.done /\ ~old.failed
    BY <1>1, AsItWas
<1>3. CASE HasFile(Now) /\ ResumeSelfie(row'[Now])
  <2> DEFINE k == [old EXCEPT !.recorded = TRUE]
  <2>1. punch' = [punch EXCEPT ![Now] = k] /\ drain' = [drain EXCEPT !.pc = "put"]
      BY <1>3, <1>1, NowIsPending DEF Recorded, Active, SelfiesInv, SelfieTypes
  <2> HIDE DEF old
  <2>2. k \in QueuedPunch /\ ~k.done /\ ~k.failed
      BY <1>2 DEF QueuedPunch
  <2> HIDE DEF k
  <2> QED
      BY <1>1, <1>3, <2>1, <2>2, RecordKeeps
<1>4. CASE ~(HasFile(Now) /\ ResumeSelfie(row'[Now]))
  <2>1. Settle(Now) /\ NextItem
      BY <1>4 DEF Recorded
  <2>2. PICK k \in QueuedPunch : punch' = [punch EXCEPT ![Now] = k]
      BY <1>1, <2>1, SettleChanges
  <2>3. HasFile(Now) => row'[Now].status = "uploaded"
      BY <1>1, <1>4, RecordChanges DEF ResumeSelfie, AttendanceEvent
  <2> QED
      BY <1>1, <2>1, <2>2, <2>3, RecordKeeps
<1> QED
    BY <1>3, <1>4

LEMMA RecordUnansweredKeeps == ASSUME SelfiesInv, RecordUnanswered PROVE SelfiesInv'
<1>1. Active /\ Record(Now) /\ StopDrain /\ UNCHANGED <<punch, photo, bytes, givenUp>>
    BY DEF RecordUnanswered, At, Active
<1>2. PICK k \in QueuedPunch : k = punch[Now] /\ punch = [punch EXCEPT ![Now] = k] /\ ~k.done
    BY <1>1, AsItWas
<1> QED
    BY <1>1, <1>2, RecordKeeps

LEMMA PutKeeps == ASSUME SelfiesInv, Put PROVE SelfiesInv'
<1>1. /\ Active /\ drain.pc = "put" /\ bytes' = [bytes EXCEPT ![Now] = photo[Now]]
      /\ UNCHANGED <<punch, photo, row, givenUp>>
      /\ drain' = [drain EXCEPT !.pc = "complete"] \/ StopDrain
    BY DEF Put, At, Active
<1>2. row[Now] # Absent /\ row[Now].status = "pending" /\ ResumeSelfie(row[Now]) /\ HasFile(Now)
    BY <1>1, AsItWas DEF ResumeSelfie
<1>3. photo[Now] \in Photos /\ photo[Now] # "gone"
    BY <1>2 DEF HasFile, Photos
<1>4. drain' = [drain EXCEPT !.pc = "complete"] =>
        DOMAIN drain' = {"pc", "todo", "known"} /\ drain'.pc = "complete" /\ drain'.todo = drain.todo
    BY DEF SelfiesInv, SelfieTypes
<1>5. PICK k \in QueuedPunch : k = punch[Now] /\ punch' = [punch EXCEPT ![Now] = k] /\ ~k.done /\ ~k.failed
    BY <1>1, AsItWas
<1>6. PICK r \in AttendanceEvent \cup {Absent} : r = row[Now] /\ row' = [row EXCEPT ![Now] = r]
    BY <1>1, AsItWas
<1>7. HasFile(Now) => r.path
    BY <1>2, <1>6 DEF ResumeSelfie
<1> QED
    BY <1>1, <1>2, <1>3, <1>4, <1>5, <1>6, <1>7, NowChanges

LEMMA CompleteKeeps == ASSUME SelfiesInv, Complete PROVE SelfiesInv'
<1> DEFINE old == row[Now]
           r == [old EXCEPT !.status = "uploaded"]
<1>1. /\ Active /\ drain.pc = "complete" /\ bytes[Now] = "fits"
      /\ UNCHANGED <<photo, bytes, givenUp>>
      /\ (Settle(Now) /\ NextItem) \/ (StopDrain /\ UNCHANGED punch)
    BY DEF Complete, At, Active
<1>2. old \in AttendanceEvent /\ old.path /\ HasFile(Now)
    BY <1>1, AsItWas DEF ResumeSelfie
<1>3. photo[Now] # "gone"
    BY <1>2 DEF HasFile, Photos
<1>4. row' = [row EXCEPT ![Now] = r]
    BY <1>1, NowIsPending DEF Complete, Active, SelfiesInv, SelfieTypes
<1> HIDE DEF old
<1>5. r \in AttendanceEvent /\ r.path /\ r.status = "uploaded"
    BY <1>2 DEF AttendanceEvent
<1> HIDE DEF r
<1>6. r # Absent
    BY <1>5, AbsentIsApart
<1>7. \E k \in QueuedPunch : punch' = [punch EXCEPT ![Now] = k]
    BY <1>1, AsItWas, SettleChanges
<1>8. PICK b \in Photos \cup {Absent} : b = "fits" /\ bytes' = [bytes EXCEPT ![Now] = b]
    BY <1>1, AsItWas
<1> QED
    BY <1>1, <1>3, <1>4, <1>5, <1>6, <1>7, <1>8, NowChanges

LEMMA TooLargeKeeps == ASSUME SelfiesInv, TooLarge PROVE SelfiesInv'
<1>1. /\ Active /\ drain.pc = "complete" /\ Counted(Now) /\ UNCHANGED <<photo, row, givenUp>>
    BY DEF TooLarge, At, Active
<1>2. \E b \in Photos \cup {Absent} : bytes' = [bytes EXCEPT ![Now] = b]
    BY <1>1, AsItWas DEF TooLarge
<1>3. PICK r \in AttendanceEvent \cup {Absent} :
        r = row[Now] /\ row' = [row EXCEPT ![Now] = r] /\ r # Absent /\ ResumeSelfie(r) /\ HasFile(Now)
    BY <1>1, AsItWas
<1>4. r.path /\ r.status # "uploaded" /\ photo[Now] # "gone"
    BY <1>3 DEF ResumeSelfie, HasFile, Photos
<1>5. \E k \in QueuedPunch : punch' = [punch EXCEPT ![Now] = k] /\ ~k.done
    BY <1>1, CountedChanges
<1>6. NextItem \/ StopDrain
    BY <1>1, CountedChanges
<1> QED
    BY <1>1, <1>2, <1>3, <1>4, <1>5, <1>6, NowChanges

LEMMA DrainKeeps == ASSUME SelfiesInv, Drain PROVE SelfiesInv'
<1>1. CASE PutFails
  <2>1. Active /\ NextItem /\ UNCHANGED <<punch, photo, row, bytes, givenUp>>
      BY <1>1 DEF PutFails, At, Active, serverState
  <2> QED
      BY <2>1, CutOffKeeps
<1>2. CASE CutOff
  <2>1. Active /\ StopDrain /\ UNCHANGED <<punch, photo, row, bytes, givenUp>>
      BY <1>2 DEF CutOff, Active, serverState
  <2> QED
      BY <2>1, CutOffKeeps
<1>3. CASE ServerError
  <2>1. Active /\ Counted(Now) /\ UNCHANGED <<photo, row, bytes, givenUp>>
      BY <1>3 DEF ServerError, Active, serverState
  <2> QED
      BY <2>1, CountedKeeps
<1> QED
    BY <1>1, <1>2, <1>3, RecordedKeeps, RecordUnansweredKeeps, PutKeeps, CompleteKeeps, TooLargeKeeps,
       RefusedKeeps DEF Drain

-----------------------------------------------------------------------------
(* Pruning and the theorem *)

LEMMA PruneKeeps == ASSUME SelfiesInv, Prune PROVE SelfiesInv'
<1>1. PICK s \in SUBSET {t \in Punches : punch[t] # Absent /\ punch[t].done} :
         /\ photo' = [t \in Punches |-> IF t \in s /\ HasFile(t) THEN "gone" ELSE photo[t]]
         /\ punch' = [t \in Punches |-> IF t \in s THEN Absent ELSE punch[t]]
    BY DEF Prune
<1>2. drain' = Asleep /\ UNCHANGED <<row, bytes, givenUp>>
    BY DEF Prune, serverState
<1>3. \A t \in s : /\ t \in Punches /\ row[t] # Absent /\ (HasFile(t) => row[t].status = "uploaded")
                   /\ (HasFile(t) => bytes[t] = "fits") /\ photo[t] # "untaken"
    BY DEF SelfiesInv, DoneIsStored, MadeTogether
<1>4. SelfieTypes' /\ DrainsPending'
  <2>1. /\ punch' \in [Punches -> QueuedPunch \cup {Absent}]
        /\ photo' \in [Punches -> Photos \cup {"untaken", "none", "gone"}]
      BY <1>1 DEF SelfiesInv, SelfieTypes
  <2>2. DOMAIN drain' = {"pc", "todo", "known"} /\ drain'.pc = "asleep"
      BY <1>2 DEF Asleep
  <2> QED
      BY <1>2, <2>1, <2>2 DEF SelfiesInv, SelfieTypes, DrainsPending
<1>5. \A t \in Punches : /\ photo'[t] = IF t \in s /\ HasFile(t) THEN "gone" ELSE photo[t]
                         /\ punch'[t] = IF t \in s THEN Absent ELSE punch[t]
    BY <1>1
<1>6. \A t \in Punches : HasFile(t)' => HasFile(t)
    BY <1>5 DEF HasFile, Photos
<1>7. MadeTogether' /\ DoneIsStored'
    BY <1>2, <1>3, <1>5, <1>6 DEF SelfiesInv, MadeTogether, DoneIsStored
<1>8. EvidenceKept'
  <2> SUFFICES ASSUME NEW t \in Punches, photo'[t] # "untaken", t \notin givenUp
               PROVE  /\ punch'[t] = Absent => row[t] # Absent
                      /\ photo'[t] = "gone" => row[t] # Absent /\ row[t].status = "uploaded" /\ bytes[t] = "fits"
                      /\ row[t] # Absent => row[t].status # "uploaded" \/ bytes[t] = "fits"
      BY <1>2 DEF EvidenceKept, SelfieGap
  <2>1. photo[t] # "untaken"
      BY <1>3, <1>5
  <2> QED
      BY <1>3, <1>5, <2>1 DEF SelfiesInv, EvidenceKept, SelfieGap
<1> QED
    BY <1>4, <1>7, <1>8 DEF SelfiesInv

LEMMA AppDiesKeeps == ASSUME SelfiesInv, AppDies PROVE SelfiesInv'
<1>1. drain' = Asleep /\ UNCHANGED <<punch, photo, row, bytes, givenUp>>
    BY DEF AppDies, serverState
<1>2. DOMAIN drain' = {"pc", "todo", "known"} /\ drain'.pc = "asleep"
    BY <1>1 DEF Asleep
<1> QED
    BY <1>1, <1>2 DEF SelfiesInv, SelfieTypes, MadeTogether, DoneIsStored, DrainsPending,
                      EvidenceKept, SelfieGap, HasFile

LEMMA SelfiesInvNext == SelfiesInv /\ [SelfiesNext]_selfieVars => SelfiesInv'
<1> SUFFICES ASSUME SelfiesInv, [SelfiesNext]_selfieVars PROVE SelfiesInv'
    OBVIOUS
<1>1. CASE UNCHANGED selfieVars
    BY <1>1 DEF selfieVars, SelfiesInv, SelfieTypes, MadeTogether, DoneIsStored, DrainsPending,
                EvidenceKept, SelfieGap, HasFile, Pending, Now
<1>2. CASE SelfiesNext
    BY <1>2, EnqueuePunchKeeps, RetryPunchKeeps, DiscardPunchKeeps, WakeKeeps, DrainKeeps, PruneKeeps,
       AppDiesKeeps DEF SelfiesNext
<1> QED
    BY <1>1, <1>2

\* No selfie leaves the phone before its bytes are stored and recorded, and no
\* punch leaves it that the server has not, for any number of punches and failures.
THEOREM EvidenceIsKept == SelfiesSpec => []EvidenceKept
<1>1. SelfiesInv => EvidenceKept
    BY DEF SelfiesInv
<1> QED
    BY <1>1, SelfiesInvInit, SelfiesInvNext, PTL DEF SelfiesSpec
=============================================================================
