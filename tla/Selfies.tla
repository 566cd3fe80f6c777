------------------------------- MODULE Selfies -------------------------------
(* Punches with selfies on their way from one technician's phone (attendance/ *)
(* queue.ts, sync.ts) to the attendance slice and to object storage.  One     *)
(* drain runs at a time; each of its calls may succeed, fail or be cut off,   *)
(* and the app may die at any moment.                                         *)
EXTENDS Naturals, Sequences, FiniteSets

CONSTANTS
    Punches,         \* in the order in which they are made: 1..n
    SelfieAttempts,  \* MAX_ATTEMPTS
    MaxTrouble,      \* bound on the technician's retries and the app's deaths
    Absent           \* null

ASSUME SelfiesAssumption ==
    /\ Punches \in SUBSET Nat /\ IsFiniteSet(Punches)
    /\ SelfieAttempts \in Nat \ {0} /\ MaxTrouble \in Nat

VARIABLES
    punch,     \* the QueuedPunch of each one
    photo,     \* its local selfie file
    row,       \* its attendance_event: [path, status]
    bytes,     \* what storage holds under its path
    drain,     \* syncNow: where it is, and the punches it has still to do
    trouble,   \* what MaxTrouble bounds, so far
    givenUp,   \* history: the punches the technician gave up on
    oversized  \* history: the punches whose selfie was rejected

selfieVars == <<punch, photo, row, bytes, drain, trouble, givenUp, oversized>>
serverState == <<row, bytes, oversized>>

Photos == {"fits", "toobig"}
QueuedPunch == [recorded : BOOLEAN, done : BOOLEAN, failed : BOOLEAN, attempts : Nat]
AttendanceEvent == [path : BOOLEAN, status : {"pending", "uploaded"}]

ASSUME AbsentIsApart == Absent \notin QueuedPunch \cup AttendanceEvent /\ Absent \notin Photos

Fresh  == [recorded |-> FALSE, done |-> FALSE, failed |-> FALSE, attempts |-> 0]
Asleep == [pc |-> "asleep", todo |-> <<>>, known |-> {}]

SelfiesInit ==
    /\ punch = [t \in Punches |-> Absent]
    /\ photo = [t \in Punches |-> "untaken"]
    /\ row = [t \in Punches |-> Absent] /\ bytes = [t \in Punches |-> Absent]
    /\ drain = Asleep
    /\ trouble = 0 /\ givenUp = {} /\ oversized = {}

-----------------------------------------------------------------------------
(* The queue                                                                 *)

\* enqueue: punches are made one after the other, with a selfie or without.
EnqueuePunch(t) ==
    /\ photo[t] = "untaken" /\ \A s \in Punches : s < t => photo[s] # "untaken"
    /\ punch' = [punch EXCEPT ![t] = Fresh]
    /\ photo' = [photo EXCEPT ![t] = "none"] \/ \E p \in Photos : photo' = [photo EXCEPT ![t] = p]
    /\ UNCHANGED <<serverState, drain, trouble, givenUp>>

\* pendingPunches
Pending == {t \in Punches : punch[t] # Absent /\ ~punch[t].done /\ ~punch[t].failed}

HasFile(t) == photo[t] \in Photos

\* retryPunch
RetryPunch(t) ==
    /\ trouble < MaxTrouble /\ trouble' = trouble + 1
    /\ punch[t] # Absent /\ punch[t].failed
    /\ punch' = [punch EXCEPT ![t].failed = FALSE, ![t].attempts = 0]
    /\ UNCHANGED <<photo, serverState, drain, givenUp>>

\* discardPunch
DiscardPunch(t) ==
    /\ punch[t] # Absent /\ punch[t].failed
    /\ punch' = [punch EXCEPT ![t] = Absent]
    /\ photo' = [photo EXCEPT ![t] = "gone"]
    /\ givenUp' = givenUp \cup {t}
    /\ UNCHANGED <<serverState, drain, trouble>>

-----------------------------------------------------------------------------
(* The drain                                                                 *)

\* In the order in which they were made.
Ordered(S) ==
    CHOOSE q \in [1..Cardinality(S) -> S] : \A i, j \in DOMAIN q : i < j => q[i] < q[j]

\* syncNow goes by the queue as it was when it started: the order, and which
\* punches had a server_event_id.
Wake ==
    /\ drain.pc = "asleep" /\ Pending # {}
    /\ drain' = [pc |-> "record", todo |-> Ordered(Pending),
                 known |-> {t \in Pending : punch[t].recorded}]
    /\ UNCHANGED <<punch, photo, serverState, trouble, givenUp>>

Now == Head(drain.todo)
At(pc) == drain.pc = pc

\* The next punch, or the pruning that ends every drain.
NextItem == drain' = IF Tail(drain.todo) = <<>> THEN [drain EXCEPT !.pc = "prune"]
                     ELSE [drain EXCEPT !.pc = "record", !.todo = Tail(@)]
StopDrain == drain' = [drain EXCEPT !.pc = "prune"]

Settle(t) == punch' = [punch EXCEPT ![t].recorded = TRUE, ![t].done = TRUE]

\* Mutant: a server error stops the drain and is never counted.
NeverCounted(t) == UNCHANGED punch /\ StopDrain

\* A server error, counted: the punch is parked at the cap and else stops the drain.
Counted(t) ==
    LET n == punch[t].attempts + 1 IN
    IF n >= SelfieAttempts
    THEN punch' = [punch EXCEPT ![t].attempts = n, ![t].failed = TRUE] /\ NextItem
    ELSE punch' = [punch EXCEPT ![t].attempts = n] /\ StopDrain

\* No connection, a timeout or a dead token: nothing is counted.
CutOff ==
    /\ drain.pc \in {"record", "put", "complete"}
    /\ StopDrain
    /\ UNCHANGED <<punch, photo, serverState, trouble, givenUp>>

ServerError ==
    /\ drain.pc \in {"record", "complete"}
    /\ Counted(Now)
    /\ UNCHANGED <<photo, serverState, trouble, givenUp>>

\* A definitive 4xx of a punch that was not recorded when the drain started.
Refused ==
    /\ At("record") /\ row[Now] = Absent
    /\ IF Now \in drain.known THEN Counted(Now)
       ELSE punch' = [punch EXCEPT ![Now].failed = TRUE] /\ NextItem
    /\ UNCHANGED <<photo, serverState, trouble, givenUp>>

\* record_punch: inserted, or found by its client id.
Record(t) == row' = [row EXCEPT ![t] = IF @ # Absent THEN @
                                       ELSE [path |-> HasFile(t), status |-> "pending"]]

\* _resume_selfie: the answer has an upload URL while the photo is pending.
ResumeSelfie(r) == r.path /\ r.status = "pending"

\* The POST is answered, and the selfie is still to be sent or settled.
Recorded ==
    /\ At("record")
    /\ Record(Now)
    /\ IF HasFile(Now) /\ ResumeSelfie(row'[Now])
       THEN /\ punch' = [punch EXCEPT ![Now].recorded = TRUE]
            /\ drain' = [drain EXCEPT !.pc = "put"]
       ELSE Settle(Now) /\ NextItem
    /\ UNCHANGED <<photo, bytes, oversized, trouble, givenUp>>

\* It is recorded, but the answer is lost.
RecordUnanswered ==
    /\ At("record")
    /\ Record(Now) /\ StopDrain
    /\ UNCHANGED <<punch, photo, bytes, oversized, trouble, givenUp>>

Put ==
    /\ At("put")
    /\ bytes' = [bytes EXCEPT ![Now] = photo[Now]]
    /\ \/ drain' = [drain EXCEPT !.pc = "complete"]
       \/ StopDrain  \* the answer is lost
    /\ UNCHANGED <<punch, photo, row, oversized, trouble, givenUp>>

\* Storage answers with an error: the punch waits for the next drain, uncounted.
PutFails ==
    /\ At("put") /\ NextItem
    /\ UNCHANGED <<punch, photo, serverState, trouble, givenUp>>

\* Mutant: the phone is answered before the size is measured.
CompleteUnmeasured ==
    /\ At("complete")
    /\ row' = [row EXCEPT ![Now].status = "uploaded"]
    /\ bytes' = [bytes EXCEPT ![Now] = IF @ = "toobig" THEN Absent ELSE @]
    /\ Settle(Now) /\ NextItem
    /\ UNCHANGED <<photo, oversized, trouble, givenUp>>

\* complete_selfie within the limit; the answer may be lost.
Complete ==
    /\ At("complete") /\ bytes[Now] = "fits"
    /\ row' = [row EXCEPT ![Now].status = "uploaded"]
    /\ \/ Settle(Now) /\ NextItem
       \/ StopDrain /\ UNCHANGED punch
    /\ UNCHANGED <<photo, bytes, oversized, trouble, givenUp>>

\* Beyond it: the object is purged, if storage lets it be; reject_selfie is
\* rolled back, for the endpoint answers 413 without a commit.
TooLarge ==
    /\ At("complete") /\ bytes[Now] = "toobig"
    /\ \/ bytes' = [bytes EXCEPT ![Now] = Absent]
       \/ UNCHANGED bytes
    /\ oversized' = oversized \cup {Now}
    /\ Counted(Now)
    /\ UNCHANGED <<photo, row, trouble, givenUp>>

\* pruneSettled: the files of settled punches, then their entries; a file that
\* cannot be deleted keeps its entry.
Prune ==
    /\ At("prune")
    /\ \E s \in SUBSET {t \in Punches : punch[t] # Absent /\ punch[t].done} :
         /\ photo' = [t \in Punches |-> IF t \in s /\ HasFile(t) THEN "gone" ELSE photo[t]]
         /\ punch' = [t \in Punches |-> IF t \in s THEN Absent ELSE punch[t]]
    /\ drain' = Asleep
    /\ UNCHANGED <<serverState, trouble, givenUp>>

AppDies ==
    /\ trouble < MaxTrouble /\ trouble' = trouble + 1
    /\ drain.pc # "asleep" /\ drain' = Asleep
    /\ UNCHANGED <<punch, photo, serverState, givenUp>>

Drain == \/ Recorded \/ RecordUnanswered \/ Put \/ PutFails \/ Complete \/ TooLarge
         \/ CutOff \/ ServerError \/ Refused

SelfiesNext ==
    \/ \E t \in Punches : EnqueuePunch(t) \/ RetryPunch(t) \/ DiscardPunch(t)
    \/ Wake \/ Drain \/ Prune \/ AppDies

\* The drain runs while there is something to do (a trigger per minute, app
\* start and reconnection).  The network does not stay down for ever, nor fail
\* one punch in particular: a call made time and again is answered time and
\* again, if only by an error; storage, whose errors are not counted, takes it.
Heard(t)  == At("record") /\ Now = t /\ (Recorded \/ ServerError \/ Refused)
Stored(t) == At("put") /\ Now = t /\ Put /\ drain'.pc = "complete"
Told(t)   == At("complete") /\ Now = t /\ (TooLarge \/ Complete \/ ServerError) /\ punch' # punch

SelfiesFair ==
    /\ WF_selfieVars(Wake) /\ WF_selfieVars(Drain) /\ WF_selfieVars(Prune)
    /\ \A t \in Punches : SF_selfieVars(Heard(t)) /\ SF_selfieVars(Stored(t)) /\ SF_selfieVars(Told(t))

SelfiesSpec == SelfiesInit /\ [][SelfiesNext]_selfieVars /\ SelfiesFair

-----------------------------------------------------------------------------
(* Properties                                                                *)

\* selfie_gaps, once the grace hours are over.
SelfieGap(t) == row[t] # Absent /\ row[t].status # "uploaded"

\* The phone deletes a selfie only when its bytes are in storage and the row
\* says so, or when the technician gave up on the punch; every punch that left the
\* queue otherwise is on the server; and whatever punch has no bytes there
\* stands in selfie_gaps.
EvidenceKept ==
    \A t \in Punches : (photo[t] # "untaken" /\ t \notin givenUp) =>
      /\ punch[t] = Absent => row[t] # Absent
      /\ photo[t] = "gone" => row[t] # Absent /\ row[t].status = "uploaded" /\ bytes[t] = "fits"
      /\ row[t] # Absent => SelfieGap(t) \/ bytes[t] = "fits"

\* No punch stays pending for ever, behind whatever it may wait: it is settled,
\* or parked where the technician sees it.
PunchesSettle == \A t \in Punches : (t \in Pending) ~> (t \notin Pending)

\* "Oversized selfie: drop the pointer but keep the punch" (reject_selfie), which
\* is what lets the phone settle it ("rejected, e.g. oversized: nothing left to
\* send", sync.ts).  Not so: the row keeps its pointer, and the phone keeps
\* sending the same photo.
RejectedSelfieDropped == \A t \in oversized : ~row[t].path
=============================================================================
