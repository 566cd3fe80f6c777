-------------------------- MODULE Services_proofs ---------------------------
(* Theorems about the services that share the pool of requests: Evidence,   *)
(* Accounts, Customers and DeliveryStatus, for any number of requests and rows. *)
EXTENDS Evidence, Accounts, Customers, DeliveryStatus, FiniteSetTheorems, TLAPS

-----------------------------------------------------------------------------
(* Evidence                                                                 *)

Asked(c, kind, m) == call[c].kind = kind /\ call[c].on = m

\* A medium is reserved once and completed once, by calls about a medium.
OneCallEach ==
    /\ \A c, d \in Calls, m \in Media : Asked(c, "upload", m) /\ Asked(d, "upload", m) => c = d
    /\ \A c, d \in Calls, m \in Media : Asked(c, "complete", m) /\ Asked(d, "complete", m) => c = d
    /\ \A c \in Calls : call[c].kind \in {"upload", "complete", "delete"} => call[c].on \in Media

\* A row needs its reservation, its bytes need the answer, their completion both.
InThatOrder ==
    /\ \A m \in Media : media[m] # None => sent[m] # None \/ Answered(m)
    /\ \A c \in Calls, m \in Media :
         Asked(c, "upload", m) /\ call[c].pc = "judged" => sent[m] = None /\ media[m] = None
    /\ \A c \in Calls, m \in Media : Asked(c, "complete", m) => sent[m] # None /\ Answered(m)

\* Bytes that were sent are gone only by a deletion or as oversized.
Purged(m) == \E c \in Calls : Asked(c, "complete", m) /\ call[c].size = "toobig" /\ call[c].pc = "rejected"
BytesKept ==
    \A m \in Media : (sent[m] # None /\ media[m] # None /\ object[m] = None)
                      => Erased(m, {"erased", "torn"}) # {} \/ Purged(m)

\* Rows are uploaded by a completion, or since before rows had an owner.
UploadedByCompletion ==
    \A m \in Media : (media[m] # None /\ media[m].status = "uploaded") =>
      /\ sent[m] # None
      /\ \/ \E c \in Calls : Asked(c, "complete", m) /\ call[c].pc = "ok"
         \/ \A c \in Calls : ~Asked(c, "upload", m)

\* A technician's call that gets past the freeze read the job as open.
JudgedOpen ==
    \A c \in Calls :
      \/ call[c].kind = "upload" /\ call[c].pc = "judged"
      \/ call[c].kind = "delete" /\ call[c].pc = "erased"
      => call[c].open \/ call[c].by = Manager

EvidenceInv == /\ EvidenceTypeOK /\ OneCallEach /\ InThatOrder
             /\ BytesKept /\ UploadedByCompletion /\ JudgedOpen

-----------------------------------------------------------------------------
\* Nothing has been asked yet, and old rows have their objects.
LEMMA EvidenceInvInit == EvidenceInit => EvidenceInv
<1> SUFFICES ASSUME EvidenceInit PROVE EvidenceInv
    OBVIOUS
<1> USE EvidenceAssumption, NoneIsApart
<1>1. EvidenceTypeOK
    BY DEF EvidenceInit, EvidenceTypeOK, JobState, MediaRow, Phases, Bytes, Call, CallPC, NotMade
<1>2. OneCallEach /\ JudgedOpen
    BY DEF EvidenceInit, OneCallEach, JudgedOpen, Asked, NotMade
<1>3. /\ \A c \in Calls, m \in Media : call[c].kind = "none"
      /\ \A m \in Media : media[m] # None => sent[m] # None /\ object[m] # None
    BY DEF EvidenceInit, NotMade, Bytes
<1>4. InThatOrder /\ BytesKept /\ UploadedByCompletion
    BY <1>3 DEF InThatOrder, BytesKept, UploadedByCompletion, Asked
<1> QED
    BY <1>1, <1>2, <1>4 DEF EvidenceInv

\* One lemma per step of a call, each conjunct on its own.
LEMMA JudgeUploadKeeps == ASSUME EvidenceInv, NEW c \in Calls, JudgeUpload(c) PROVE EvidenceInv'
<1> USE DEF EvidenceInv, JudgeUpload, Begin, Makes, NotMade, Frozen
<1>1. EvidenceTypeOK'
  <2>1. PICK who \in People, p \in Phases, m \in Media :
          call' = [call EXCEPT ![c] = [NotMade EXCEPT !.kind = "upload", !.by = who, !.on = m,
                     !.phase = p, !.open = JobOpen, !.pc = IF Frozen(who) THEN "rejected" ELSE "judged"]]
    OBVIOUS
  <2>2. [NotMade EXCEPT !.kind = "upload", !.by = who, !.on = m, !.phase = p, !.open = JobOpen,
           !.pc = IF Frozen(who) THEN "rejected" ELSE "judged"] \in Call
    BY DEF Call, CallPC, Over, People, Phases, Bytes, JobOpen
  <2> QED
    BY <2>1, <2>2 DEF EvidenceTypeOK
<1>2. OneCallEach'
    BY DEF OneCallEach, Asked
<1>3. InThatOrder'
    BY DEF InThatOrder, Asked, Answered
<1>4. BytesKept'
    BY DEF BytesKept, Purged, Erased, Asked
<1>5. UploadedByCompletion'
    BY DEF UploadedByCompletion, Asked
<1>6. JudgedOpen'
    BY DEF JudgedOpen
<1> QED
    BY <1>1, <1>2, <1>3, <1>4, <1>5, <1>6

LEMMA ReserveKeeps == ASSUME EvidenceInv, NEW c \in Calls, Reserve(c) PROVE EvidenceInv'
<1> USE DEF EvidenceInv, Reserve, Goes
<1>1. EvidenceTypeOK'
  <2>1. call[c] \in Call /\ call[c].on \in Media
    BY DEF EvidenceTypeOK, OneCallEach
  <2>2. [phase |-> call[c].phase, createdBy |-> call[c].by, status |-> "pending"] \in MediaRow
    BY <2>1 DEF Call, MediaRow, People
  <2>3. [call[c] EXCEPT !.pc = "ok"] \in Call
    BY <2>1 DEF Call, CallPC, Over
  <2> QED
    BY <2>1, <2>2, <2>3 DEF EvidenceTypeOK
<1>2. OneCallEach'
    BY DEF OneCallEach, Asked
<1>3. InThatOrder'
    BY DEF InThatOrder, OneCallEach, Asked, Answered, EvidenceTypeOK
<1>4. BytesKept'
    BY DEF BytesKept, InThatOrder, Purged, Erased, Asked
<1>5. UploadedByCompletion'
    BY DEF UploadedByCompletion, Asked
<1>6. JudgedOpen'
    BY DEF JudgedOpen
<1> QED
    BY <1>1, <1>2, <1>3, <1>4, <1>5, <1>6

LEMMA MeasureKeeps == ASSUME EvidenceInv, NEW c \in Calls, Measure(c) PROVE EvidenceInv'
<1>1. EvidenceTypeOK'
  <2>1. PICK m \in Media :
          /\ sent[m] # None
          /\ \E b \in EffectiveSize(m) :
               Begin(c, [Makes("complete", None, m) EXCEPT
                           !.size = b,
                           !.pc   = IF media[m] = None THEN "rejected" ELSE "measured"])
    BY DEF Measure
  <2>5. PICK b \in EffectiveSize(m) :
          Begin(c, [Makes("complete", None, m) EXCEPT
                      !.size = b,
                      !.pc   = IF media[m] = None THEN "rejected" ELSE "measured"])
    BY <2>1
  <2>2. b \in Bytes
    BY <2>1 DEF EvidenceInv, EvidenceTypeOK, EffectiveSize
  <2>3. [Makes("complete", None, m) EXCEPT
           !.size = b, !.pc = IF media[m] = None THEN "rejected" ELSE "measured"] \in Call
    BY <2>2 DEF Makes, NotMade, Call, CallPC, Over, Phases
  <2>4. UNCHANGED <<evidenceJob, media, object, sent, settled>>
    BY DEF Measure
  <2> QED
    BY <2>5, <2>3, <2>4 DEF EvidenceInv, EvidenceTypeOK, Begin
<1> USE DEF EvidenceInv, Measure, Begin, Makes, NotMade, EffectiveSize
<1>2. OneCallEach'
    BY DEF OneCallEach, Asked
<1>3. InThatOrder'
    BY DEF InThatOrder, Asked, Answered
<1>4. BytesKept'
    BY DEF BytesKept, Purged, Erased, Asked
<1>5. UploadedByCompletion'
    BY DEF UploadedByCompletion, Asked
<1>6. JudgedOpen'
    BY DEF JudgedOpen
<1> QED
    BY <1>1, <1>2, <1>3, <1>4, <1>5, <1>6

LEMMA RejectTooLargeKeeps == ASSUME EvidenceInv, NEW c \in Calls, RejectTooLarge(c) PROVE EvidenceInv'
<1> USE DEF EvidenceInv, RejectTooLarge, Goes
<1>1. EvidenceTypeOK'
    BY DEF EvidenceTypeOK, Call, CallPC, Over
<1>2. OneCallEach'
    BY DEF OneCallEach, Asked
<1>3. InThatOrder'
    BY DEF InThatOrder, Asked, Answered
<1>4. BytesKept'
    BY DEF BytesKept, Purged, Erased, Asked, EvidenceTypeOK
<1>5. UploadedByCompletion'
    BY DEF UploadedByCompletion, Asked
<1>6. JudgedOpen'
    BY DEF JudgedOpen
<1> QED
    BY <1>1, <1>2, <1>3, <1>4, <1>5, <1>6

LEMMA CompleteKeeps == ASSUME EvidenceInv, NEW c \in Calls, Complete(c) PROVE EvidenceInv'
<1> USE DEF EvidenceInv, Complete, Goes
<1>1. EvidenceTypeOK'
    BY DEF EvidenceTypeOK, MediaRow, Phases, Call, CallPC, Over
<1>2. OneCallEach'
    BY EvidenceAssumption DEF OneCallEach, Asked, EvidenceTypeOK, Call
<1>3. InThatOrder'
    BY EvidenceAssumption, NoneIsApart DEF InThatOrder, OneCallEach, Asked, Answered,
       EvidenceTypeOK, Bytes, Call
<1>4. BytesKept'
    BY EvidenceAssumption, NoneIsApart DEF BytesKept, Purged, Erased, Asked, EvidenceTypeOK
<1>5. UploadedByCompletion'
    BY DEF UploadedByCompletion, InThatOrder, Asked, EvidenceTypeOK, Call
<1>6. JudgedOpen'
    BY DEF JudgedOpen, EvidenceTypeOK, Call
<1> QED
    BY <1>1, <1>2, <1>3, <1>4, <1>5, <1>6

LEMMA JudgeDeleteKeeps == ASSUME EvidenceInv, NEW c \in Calls, JudgeDelete(c) PROVE EvidenceInv'
<1> USE DEF EvidenceInv, JudgeDelete, Begin, Makes, NotMade
<1>1. EvidenceTypeOK'
  <2>1. PICK who \in People, m \in Media :
          call' = [call EXCEPT ![c] = [NotMade EXCEPT !.kind = "delete", !.by = who, !.on = m,
                     !.open = JobOpen, !.pc = "judged"]]
    OBVIOUS
  <2>2. [NotMade EXCEPT !.kind = "delete", !.by = who, !.on = m, !.open = JobOpen, !.pc = "judged"] \in Call
    BY DEF Call, CallPC, Over, People, Phases, Bytes, JobOpen
  <2> QED
    BY <2>1, <2>2 DEF EvidenceTypeOK
<1>2. OneCallEach'
    BY DEF OneCallEach, Asked
<1>3. InThatOrder'
    BY DEF InThatOrder, Asked, Answered
<1>4. BytesKept'
    BY DEF BytesKept, Purged, Erased, Asked
<1>5. UploadedByCompletion'
    BY DEF UploadedByCompletion, Asked
<1>6. JudgedOpen'
    BY DEF JudgedOpen
<1> QED
    BY <1>1, <1>2, <1>3, <1>4, <1>5, <1>6

LEMMA EraseObjectKeeps == ASSUME EvidenceInv, NEW c \in Calls, EraseObject(c) PROVE EvidenceInv'
<1> USE DEF EvidenceInv, EraseObject, Goes, MayDelete
<1>1. EvidenceTypeOK'
    BY NoneIsApart DEF EvidenceTypeOK, Bytes, Call, CallPC, Over
<1>2. OneCallEach'
    BY DEF OneCallEach, Asked, EvidenceTypeOK, Phases, Call
<1>3. InThatOrder'
    BY NoneIsApart DEF InThatOrder, Asked, Answered, EvidenceTypeOK, Call
<1>4. BytesKept'
    BY EvidenceAssumption DEF BytesKept, Purged, Erased, Asked, EvidenceTypeOK, Call
<1>5. UploadedByCompletion'
    BY NoneIsApart DEF UploadedByCompletion, InThatOrder, Asked, EvidenceTypeOK, Call
<1>6. JudgedOpen'
    BY DEF JudgedOpen, EvidenceTypeOK, Call
<1> QED
    BY <1>1, <1>2, <1>3, <1>4, <1>5, <1>6

LEMMA CommitDeleteKeeps == ASSUME EvidenceInv, NEW c \in Calls, CommitDelete(c) PROVE EvidenceInv'
<1> USE DEF EvidenceInv, CommitDelete, Goes
<1>1. EvidenceTypeOK'
  <2>1. [call[c] EXCEPT !.pc = "ok"] \in Call
    BY DEF EvidenceTypeOK, Call, CallPC, Over
  <2> QED
    BY <2>1 DEF EvidenceTypeOK, OneCallEach
<1>2. OneCallEach'
    BY DEF OneCallEach, Asked
<1>3. InThatOrder'
    BY DEF InThatOrder, Asked, Answered
<1>4. BytesKept'
    BY DEF BytesKept, Purged, Erased, Asked, EvidenceTypeOK
<1>5. UploadedByCompletion'
    BY DEF UploadedByCompletion, Asked
<1>6. JudgedOpen'
    BY DEF JudgedOpen
<1> QED
    BY <1>1, <1>2, <1>3, <1>4, <1>5, <1>6

LEMMA CountForCloseKeeps == ASSUME EvidenceInv, NEW c \in Calls, CountForClose(c) PROVE EvidenceInv'
<1> USE DEF EvidenceInv, CountForClose, Begin, Makes, NotMade
<1>1. EvidenceTypeOK'
    BY EvidenceAssumption, NoneIsApart DEF EvidenceTypeOK, JobState, MediaRow, Phases, Bytes,
       Call, CallPC, Over, People
<1>2. OneCallEach'
    BY DEF OneCallEach, Asked
<1>3. InThatOrder'
    BY DEF InThatOrder, Asked, Answered
<1>4. BytesKept'
    BY DEF BytesKept, Purged, Erased, Asked
<1>5. UploadedByCompletion'
    BY DEF UploadedByCompletion, Asked
<1>6. JudgedOpen'
    BY DEF JudgedOpen
<1> QED
    BY <1>1, <1>2, <1>3, <1>4, <1>5, <1>6

LEMMA CommitCloseKeeps == ASSUME EvidenceInv, NEW c \in Calls, CommitClose(c) PROVE EvidenceInv'
<1> USE DEF EvidenceInv, CommitClose, Goes
<1>1. EvidenceTypeOK'
    BY DEF EvidenceTypeOK, JobState, Call, CallPC, Over
<1>2. OneCallEach'
    BY DEF OneCallEach, Asked
<1>3. InThatOrder'
    BY DEF InThatOrder, Asked, Answered
<1>4. BytesKept'
    BY DEF BytesKept, Purged, Erased, Asked
<1>5. UploadedByCompletion'
    BY DEF UploadedByCompletion, Asked
<1>6. JudgedOpen'
    BY DEF JudgedOpen
<1> QED
    BY <1>1, <1>2, <1>3, <1>4, <1>5, <1>6

LEMMA ReopenKeeps == ASSUME EvidenceInv, NEW c \in Calls, Reopen(c) PROVE EvidenceInv'
<1> USE DEF EvidenceInv, Reopen, Begin, Makes, NotMade
<1>1. EvidenceTypeOK'
    BY EvidenceAssumption, NoneIsApart DEF EvidenceTypeOK, JobState, MediaRow, Phases, Bytes,
       Call, CallPC, Over, People
<1>2. OneCallEach'
    BY DEF OneCallEach, Asked
<1>3. InThatOrder'
    BY DEF InThatOrder, Asked, Answered
<1>4. BytesKept'
    BY DEF BytesKept, Purged, Erased, Asked
<1>5. UploadedByCompletion'
    BY DEF UploadedByCompletion, Asked
<1>6. JudgedOpen'
    BY DEF JudgedOpen
<1> QED
    BY <1>1, <1>2, <1>3, <1>4, <1>5, <1>6

LEMMA AbandonKeeps == ASSUME EvidenceInv, NEW c \in Calls, Abandon(c) PROVE EvidenceInv'
<1> USE DEF EvidenceInv, Abandon, Begin, Makes, NotMade
<1>1. EvidenceTypeOK'
    BY EvidenceAssumption, NoneIsApart DEF EvidenceTypeOK, JobState, MediaRow, Phases, Bytes,
       Call, CallPC, Over, People
<1>2. OneCallEach'
    BY DEF OneCallEach, Asked
<1>3. InThatOrder'
    BY DEF InThatOrder, Asked, Answered
<1>4. BytesKept'
    BY DEF BytesKept, Purged, Erased, Asked
<1>5. UploadedByCompletion'
    BY DEF UploadedByCompletion, Asked
<1>6. JudgedOpen'
    BY DEF JudgedOpen
<1> QED
    BY <1>1, <1>2, <1>3, <1>4, <1>5, <1>6

LEMMA LoseCallKeeps == ASSUME EvidenceInv, NEW c \in Calls, LoseCall(c) PROVE EvidenceInv'
<1> USE DEF EvidenceInv, LoseCall, Goes
<1>1. EvidenceTypeOK'
    BY DEF EvidenceTypeOK, Call, CallPC, Over
<1>2. OneCallEach'
    BY DEF OneCallEach, Asked
<1>3. InThatOrder'
    BY DEF InThatOrder, Asked, Answered, Over
<1>4. BytesKept'
    BY DEF BytesKept, Purged, Erased, Asked, Over
<1>5. UploadedByCompletion'
    BY DEF UploadedByCompletion, Asked, Over
<1>6. JudgedOpen'
    BY DEF JudgedOpen
<1> QED
    BY <1>1, <1>2, <1>3, <1>4, <1>5, <1>6

LEMMA PutKeeps == ASSUME EvidenceInv, NEW m \in Media, Put(m) PROVE EvidenceInv'
<1> USE DEF EvidenceInv, Put
<1>1. EvidenceTypeOK' /\ OneCallEach' /\ JudgedOpen'
    BY DEF EvidenceTypeOK, OneCallEach, JudgedOpen, Asked
<1>2. sent'[m] # None /\ object'[m] # None /\ \A n \in Media \ {m} : sent'[n] = sent[n] /\ object'[n] = object[n]
    BY NoneIsApart DEF EvidenceTypeOK
<1>3. \A c \in Calls : ~(Asked(c, "upload", m) /\ call[c].pc = "judged")
    BY DEF OneCallEach, Answered, Asked
<1>4. InThatOrder'
    BY <1>2, <1>3 DEF InThatOrder, Asked, Answered
<1>5. BytesKept' /\ UploadedByCompletion'
    BY <1>2 DEF BytesKept, UploadedByCompletion, Purged, Erased, Asked
<1> QED
    BY <1>1, <1>4, <1>5

LEMMA EvidenceInvNext == EvidenceInv /\ [EvidenceNext]_evidenceVars => EvidenceInv'
<1> SUFFICES ASSUME EvidenceInv, [EvidenceNext]_evidenceVars PROVE EvidenceInv'
    OBVIOUS
<1>1. ASSUME NEW c \in Calls,
             \/ JudgeUpload(c) \/ Reserve(c)
             \/ Measure(c) \/ RejectTooLarge(c) \/ Complete(c)
             \/ JudgeDelete(c) \/ EraseObject(c) \/ CommitDelete(c)
             \/ CountForClose(c) \/ CommitClose(c)
             \/ Reopen(c) \/ Abandon(c) \/ LoseCall(c)
      PROVE  EvidenceInv'
    BY <1>1, JudgeUploadKeeps, ReserveKeeps, MeasureKeeps, RejectTooLargeKeeps, CompleteKeeps,
       JudgeDeleteKeeps, EraseObjectKeeps, CommitDeleteKeeps, CountForCloseKeeps, CommitCloseKeeps,
       ReopenKeeps, AbandonKeeps, LoseCallKeeps
<1>2. ASSUME NEW m \in Media, Put(m) PROVE EvidenceInv'
    BY <1>2, PutKeeps
<1>3. CASE UNCHANGED evidenceVars
    BY <1>3 DEF evidenceVars, EvidenceInv, EvidenceTypeOK, OneCallEach, InThatOrder, BytesKept,
       UploadedByCompletion, JudgedOpen, Asked, Answered, Purged, Erased
<1> QED
    BY <1>1, <1>2, <1>3 DEF EvidenceNext

\* A medium goes through its life in order, and calls past the freeze read the
\* job as open.
THEOREM EvidenceInvHolds == EvidenceSpec => []EvidenceInv
<1> QED
    BY EvidenceInvInit, EvidenceInvNext, PTL DEF EvidenceSpec

-----------------------------------------------------------------------------
\* Rows, objects and calls keep their types.
THEOREM EvidenceTypeCorrect == EvidenceSpec => []EvidenceTypeOK
<1>1. EvidenceInv => EvidenceTypeOK
    BY DEF EvidenceInv
<1> QED
    BY <1>1, EvidenceInvHolds, PTL

\* The bytes of an uploaded clip last until a deletion.
LEMMA UploadsLast ==
    ASSUME EvidenceInv, NEW m \in Media, media[m] # None, media[m].status = "uploaded", object[m] = None
    PROVE  Erased(m, {"erased", "torn"}) # {}
<1>1. ~Purged(m)
    BY DEF EvidenceInv, UploadedByCompletion, OneCallEach, InThatOrder, Answered, Purged, Asked
<1> QED
    BY <1>1 DEF EvidenceInv, BytesKept, UploadedByCompletion

\* An uploaded row points at nothing only while a deletion is between storage
\* and database, or because one died there.
THEOREM NoTombstoneWithoutACrash == EvidenceSpec => []TombstonesNeedACrash
<1>1. EvidenceInv => TombstonesNeedACrash
    BY UploadsLast DEF TombstonesNeedACrash, Playable
<1> QED
    BY <1>1, EvidenceInvHolds, PTL

\* Once the calls of technicians that had read the job as open are answered,
\* only the manager adds to or takes from the evidence of a closed job.
THEOREM EvidenceFreezes == EvidenceSpec => FrozenUnlessInFlight
<1> DEFINE Freezes ==
      (/\ evidenceJob.status = "closed" /\ evidenceJob'.status = "closed"
       /\ \A c \in Calls : call[c].pc \in {"judged", "erased"}
                             => call[c].by = Manager \/ ~call[c].open)
      => \A m \in Media : (media[m] = None) # (media'[m] = None)
            => \E c \in Calls : call[c].by = Manager /\ call'[c] # call[c]
<1>1. EvidenceInv /\ [EvidenceNext]_evidenceVars => [Freezes]_evidenceVars
  <2> SUFFICES ASSUME EvidenceInv, EvidenceNext,
                      \A c \in Calls : call[c].pc \in {"judged", "erased"}
                        => call[c].by = Manager \/ ~call[c].open,
                      NEW m \in Media, (media[m] = None) # (media'[m] = None)
               PROVE  \E c \in Calls : call[c].by = Manager /\ call'[c] # call[c]
    OBVIOUS
  <2>1. ASSUME NEW c \in Calls, Reserve(c)
        PROVE  call[c].by = Manager /\ call'[c] # call[c]
    BY <2>1 DEF Reserve, Goes, EvidenceInv, JudgedOpen, EvidenceTypeOK, Call
  <2>2. ASSUME NEW c \in Calls, CommitDelete(c)
        PROVE  call[c].by = Manager /\ call'[c] # call[c]
    BY <2>2 DEF CommitDelete, Goes, EvidenceInv, JudgedOpen, EvidenceTypeOK, Call
  <2>3. ASSUME NEW c \in Calls, Complete(c) PROVE FALSE
    BY <2>3, NoneIsApart DEF Complete, EvidenceInv, EvidenceTypeOK, MediaRow
  <2>4. ASSUME NEW c \in Calls, ~Reserve(c), ~CommitDelete(c), ~Complete(c),
               \/ JudgeUpload(c) \/ Measure(c) \/ RejectTooLarge(c)
               \/ JudgeDelete(c) \/ EraseObject(c)
               \/ CountForClose(c) \/ CommitClose(c)
               \/ Reopen(c) \/ Abandon(c) \/ LoseCall(c)
        PROVE  UNCHANGED media
    BY <2>4 DEF JudgeUpload, Measure, RejectTooLarge, JudgeDelete, EraseObject, CountForClose,
       CommitClose, Reopen, Abandon, LoseCall
  <2>5. ASSUME NEW n \in Media, Put(n) PROVE UNCHANGED media
    BY <2>5 DEF Put
  <2> QED
    BY <2>1, <2>2, <2>3, <2>4, <2>5 DEF EvidenceNext
<1> QED
    BY <1>1, EvidenceInvHolds, PTL DEF EvidenceSpec, FrozenUnlessInFlight

-----------------------------------------------------------------------------
(* The gate's promise                                                       *)

ClosingRow(m) == media[m] # None /\ media[m].phase = "closing"

\* There is a closing clip, or a deletion of one has ended that had not when
\* those in over had.
Held(over) ==
    \/ \E m \in Media : ClosingRow(m)
    \/ \E d \in Calls \ over : call[d].kind = "delete" /\ call[d].phase = "closing" /\ call[d].pc = "ok"

Ended(over) == \A d \in over : d \in Calls /\ call[d].kind = "delete" /\ call[d].pc = "ok"

\* A close that took effect, or is about to, had counted a closing clip.
GateHeld ==
    /\ evidenceJob.status = "closed" /\ ~evidenceJob.abandoned => Held(settled)
    /\ \A c \in Calls : call[c].kind = "close" /\ call[c].pc = "counted" => Held(call[c].over)

CountedEnded == Ended(settled) /\ \A c \in Calls : call[c].kind = "close" => Ended(call[c].over)

\* A deletion is of a medium that was reserved or sent, and of the row it loaded.
DeletesWhatItLoaded ==
    \A d \in Calls : call[d].kind = "delete" =>
      /\ sent[call[d].on] # None \/ Answered(call[d].on)
      /\ call[d].pc \in {"erased", "torn"} /\ media[call[d].on] # None
           => media[call[d].on].phase = call[d].phase

GapInv == EvidenceInv /\ GateHeld /\ CountedEnded /\ DeletesWhatItLoaded

LEMMA GapInvInit == EvidenceInit => GapInv
<1> SUFFICES ASSUME EvidenceInit PROVE GapInv
    OBVIOUS
<1>1. \A c \in Calls : call[c].kind = "none"
    BY DEF EvidenceInit, NotMade
<1> QED
    BY <1>1, EvidenceInvInit DEF EvidenceInit, GapInv, GateHeld, CountedEnded, Ended, DeletesWhatItLoaded

\* A call that is answered stays as it is.
LEMMA AnswersStay ==
    ASSUME EvidenceInv, [EvidenceNext]_evidenceVars, NEW d \in Calls, call[d].pc \in Over
    PROVE  call'[d] = call[d]
<1>1. ASSUME NEW c \in Calls,
             \/ JudgeUpload(c) \/ Measure(c) \/ JudgeDelete(c)
             \/ CountForClose(c) \/ Reopen(c) \/ Abandon(c)
      PROVE  call'[d] = call[d]
  <2>1. PICK rec : Begin(c, rec)
      BY <1>1 DEF JudgeUpload, Measure, JudgeDelete, CountForClose, Reopen, Abandon
  <2> QED
      BY <2>1 DEF Begin, Over, EvidenceInv, EvidenceTypeOK
<1>2. ASSUME NEW c \in Calls,
             \/ Reserve(c) \/ RejectTooLarge(c) \/ Complete(c) \/ EraseObject(c) \/ CommitDelete(c)
             \/ CommitClose(c) \/ LoseCall(c)
      PROVE  call'[d] = call[d]
  <2>1. call[c].pc \notin Over
      BY <1>2 DEF Reserve, RejectTooLarge, Complete, EraseObject, CommitDelete, CommitClose, LoseCall, Over
  <2>2. CASE EraseObject(c)
      BY <2>1, <2>2 DEF EraseObject, Goes, EvidenceInv, EvidenceTypeOK
  <2>3. CASE ~EraseObject(c)
    <3>1. \E next : Goes(c, next)
        BY <1>2, <2>3 DEF Reserve, RejectTooLarge, Complete, CommitDelete, CommitClose, LoseCall
    <3> QED
        BY <2>1, <3>1 DEF Goes, EvidenceInv, EvidenceTypeOK
  <2> QED
      BY <2>2, <2>3
<1>3. ASSUME NEW m \in Media, Put(m) PROVE call'[d] = call[d]
    BY <1>3 DEF Put
<1>4. CASE UNCHANGED evidenceVars
    BY <1>4 DEF evidenceVars
<1> QED
    BY <1>1, <1>2, <1>3, <1>4 DEF EvidenceNext

\* A row goes with the deletion that loaded it only, and never changes its phase.
LEMMA RowsStay ==
    ASSUME EvidenceInv, [EvidenceNext]_evidenceVars, NEW m \in Media, media[m] # None
    PROVE  \/ media'[m] # None /\ media'[m].phase = media[m].phase
           \/ \E d \in Calls : CommitDelete(d) /\ call[d].on = m
<1>1. ASSUME NEW c \in Calls, Reserve(c) PROVE media'[m] = media[m]
    BY <1>1 DEF Reserve, EvidenceInv, InThatOrder, OneCallEach, Asked, EvidenceTypeOK
<1>2. ASSUME NEW c \in Calls, Complete(c) PROVE media'[m] # None /\ media'[m].phase = media[m].phase
    BY <1>2, NoneIsApart DEF Complete, EvidenceInv, EvidenceTypeOK, MediaRow
<1>3. ASSUME NEW c \in Calls, CommitDelete(c) PROVE media'[m] = media[m] \/ call[c].on = m
    BY <1>3 DEF CommitDelete, EvidenceInv, EvidenceTypeOK
<1>4. ASSUME NEW c \in Calls,
             \/ JudgeUpload(c) \/ Measure(c) \/ RejectTooLarge(c) \/ JudgeDelete(c) \/ EraseObject(c)
             \/ CountForClose(c) \/ CommitClose(c) \/ Reopen(c) \/ Abandon(c) \/ LoseCall(c)
      PROVE  UNCHANGED media
    BY <1>4 DEF JudgeUpload, Measure, RejectTooLarge, JudgeDelete, EraseObject, CountForClose,
       CommitClose, Reopen, Abandon, LoseCall
<1>5. ASSUME NEW n \in Media, Put(n) PROVE UNCHANGED media
    BY <1>5 DEF Put
<1>6. CASE UNCHANGED evidenceVars
    BY <1>6 DEF evidenceVars
<1> QED
    BY <1>1, <1>2, <1>3, <1>4, <1>5, <1>6 DEF EvidenceNext

\* What held goes on holding: the deletion of the last closing clip takes its
\* place.
LEMMA HeldStays ==
    ASSUME GapInv, [EvidenceNext]_evidenceVars, NEW over, Ended(over), Held(over)
    PROVE  Held(over)' /\ Ended(over)'
<1>1. Ended(over)'
    BY AnswersStay DEF Ended, GapInv, Over
<1>2. ASSUME NEW m \in Media, ClosingRow(m) PROVE Held(over)'
  <2>1. CASE \E d \in Calls : CommitDelete(d) /\ call[d].on = m
    <3>1. PICK d \in Calls : CommitDelete(d) /\ call[d].on = m
        BY <2>1
    <3>2. call[d].kind = "delete" /\ call[d].pc = "erased" /\ call[d].phase = "closing"
        BY <1>2, <3>1 DEF CommitDelete, GapInv, DeletesWhatItLoaded, ClosingRow
    <3>3. call'[d] = [call[d] EXCEPT !.pc = "ok"] /\ call[d] \in Call
        BY <3>1 DEF CommitDelete, Goes, GapInv, EvidenceInv, EvidenceTypeOK
    <3>4. d \notin over
        BY <3>2 DEF Ended
    <3> QED
        BY <3>2, <3>3, <3>4 DEF Held, Call
  <2> QED
    BY <1>2, <2>1, RowsStay DEF Held, ClosingRow, GapInv
<1>3. ASSUME NEW d \in Calls \ over, call[d].kind = "delete", call[d].phase = "closing", call[d].pc = "ok"
      PROVE  Held(over)'
    BY <1>3, AnswersStay DEF Held, GapInv, Over
<1> QED
    BY <1>1, <1>2, <1>3 DEF Held

LEMMA EndedStays ==
    ASSUME GapInv, [EvidenceNext]_evidenceVars, NEW over, Ended(over) PROVE Ended(over)'
    BY AnswersStay DEF Ended, GapInv, Over

\* A row appears with its reservation only.
LEMMA RowsAppear ==
    ASSUME EvidenceInv, [EvidenceNext]_evidenceVars, NEW m \in Media, media[m] = None,
           \A c \in Calls : Reserve(c) => call[c].on # m
    PROVE  media'[m] = None
<1>1. ASSUME NEW c \in Calls, Reserve(c) \/ Complete(c) \/ CommitDelete(c) PROVE media'[m] = None
    BY <1>1 DEF Reserve, Complete, CommitDelete, EvidenceInv, EvidenceTypeOK
<1>2. ASSUME NEW c \in Calls,
             \/ JudgeUpload(c) \/ Measure(c) \/ RejectTooLarge(c) \/ JudgeDelete(c) \/ EraseObject(c)
             \/ CountForClose(c) \/ CommitClose(c) \/ Reopen(c) \/ Abandon(c) \/ LoseCall(c)
      PROVE  UNCHANGED media
    BY <1>2 DEF JudgeUpload, Measure, RejectTooLarge, JudgeDelete, EraseObject, CountForClose,
       CommitClose, Reopen, Abandon, LoseCall
<1>3. ASSUME NEW n \in Media, Put(n) PROVE UNCHANGED media
    BY <1>3 DEF Put
<1>4. CASE UNCHANGED evidenceVars
    BY <1>4 DEF evidenceVars
<1> QED
    BY <1>1, <1>2, <1>3, <1>4 DEF EvidenceNext

\* A call that goes on is the call it was, but for an erasing one's phase.
SameCall(c) == /\ call'[c].kind = call[c].kind /\ call'[c].on = call[c].on
               /\ call'[c].over = call[c].over

LEMMA GoingOn ==
    ASSUME EvidenceInv, NEW c \in Calls, NEW next, Goes(c, next)
    PROVE  /\ call'[c].pc = next /\ call'[c].phase = call[c].phase
           /\ SameCall(c) /\ \A d \in Calls \ {c} : call'[d] = call[d]
    BY DEF Goes, SameCall, EvidenceInv, EvidenceTypeOK, Call

\* No call goes on to a deletion's erasure or a gate's count, no row appears or
\* goes, and nobody closes the job: then the gate's promise stays.
LEMMA QuietStep ==
    ASSUME GapInv, EvidenceInv', [EvidenceNext]_evidenceVars,
           \/ UNCHANGED <<evidenceJob, settled>>
           \/ evidenceJob'.status # "closed" /\ UNCHANGED settled
           \/ evidenceJob'.abandoned /\ UNCHANGED settled,
           \A c \in Calls : call'[c].kind = "close" =>
             /\ call[c].kind = "close" /\ call'[c].over = call[c].over
             /\ call'[c].pc = "counted" => call[c].pc = "counted"
    PROVE  GateHeld' /\ CountedEnded'
<1>1. CountedEnded'
    BY EndedStays DEF GapInv, CountedEnded
<1>2. ASSUME evidenceJob'.status = "closed" /\ ~evidenceJob'.abandoned PROVE Held(settled)'
    BY <1>2, HeldStays DEF GapInv, GateHeld, CountedEnded
<1>3. ASSUME NEW c \in Calls, call'[c].kind = "close" /\ call'[c].pc = "counted"
      PROVE  Held(call[c].over)'
    BY <1>3, HeldStays DEF GapInv, GateHeld, CountedEnded
<1> QED
    BY <1>1, <1>2, <1>3 DEF GateHeld

\* What begins, other than a close, or other than a deletion.
LEMMA BegunKinds ==
    ASSUME NEW c \in Calls
    PROVE  /\ JudgeUpload(c) \/ Measure(c) \/ JudgeDelete(c) \/ Reopen(c) \/ Abandon(c)
                => \E rec : Begin(c, rec) /\ rec.kind # "close"
           /\ JudgeUpload(c) \/ Measure(c) \/ CountForClose(c) \/ Reopen(c) \/ Abandon(c)
                => \E rec : Begin(c, rec) /\ rec.kind # "delete"
<1> DEFINE Begins(k) == \E rec : Begin(c, rec) /\ rec.kind = k
<1>1. ASSUME JudgeUpload(c) PROVE Begins("upload")
  <2>1. PICK who \in People, p \in Phases, m \in Media :
          Begin(c, [Makes("upload", who, m) EXCEPT !.phase = p, !.open = JobOpen,
                      !.pc = IF Frozen(who) THEN "rejected" ELSE "judged"])
      BY <1>1 DEF JudgeUpload
  <2> DEFINE rec == [Makes("upload", who, m) EXCEPT !.phase = p, !.open = JobOpen,
                      !.pc = IF Frozen(who) THEN "rejected" ELSE "judged"]
  <2>2. rec.kind = "upload"
      BY DEF Makes, NotMade
  <2> HIDE DEF rec
  <2> QED
      BY <2>1, <2>2 DEF rec
<1>2. ASSUME Measure(c) PROVE Begins("complete")
  <2>0. PICK m \in Media : \E b \in EffectiveSize(m) :
          Begin(c, [Makes("complete", None, m) EXCEPT !.size = b,
                      !.pc = IF media[m] = None THEN "rejected" ELSE "measured"])
      BY <1>2 DEF Measure
  <2>1. PICK b \in EffectiveSize(m) :
          Begin(c, [Makes("complete", None, m) EXCEPT !.size = b,
                      !.pc = IF media[m] = None THEN "rejected" ELSE "measured"])
      BY <2>0
  <2> DEFINE rec == [Makes("complete", None, m) EXCEPT !.size = b,
                      !.pc = IF media[m] = None THEN "rejected" ELSE "measured"]
  <2>2. rec.kind = "complete"
      BY DEF Makes, NotMade
  <2> HIDE DEF rec
  <2> QED
      BY <2>1, <2>2 DEF rec
<1>3. ASSUME JudgeDelete(c) PROVE Begins("delete")
  <2>1. PICK who \in People, m \in Media :
          Begin(c, [Makes("delete", who, m) EXCEPT !.open = JobOpen, !.pc = "judged"])
      BY <1>3 DEF JudgeDelete
  <2> DEFINE rec == [Makes("delete", who, m) EXCEPT !.open = JobOpen, !.pc = "judged"]
  <2>2. rec.kind = "delete"
      BY DEF Makes, NotMade
  <2> HIDE DEF rec
  <2> QED
      BY <2>1, <2>2 DEF rec
<1>4. CountForClose(c) => Begins("close")
  <2>1. \A over, next : [Makes("close", None, None) EXCEPT !.over = over, !.pc = next].kind = "close"
      BY DEF Makes, NotMade
  <2> QED
      BY <2>1 DEF CountForClose
<1>5. \A k, next : [Makes(k, None, None) EXCEPT !.pc = next].kind = k
    BY DEF Makes, NotMade
<1>6. Reopen(c) => Begins("reopen")
    BY <1>5 DEF Reopen
<1>7. Abandon(c) => Begins("abandon")
    BY <1>5 DEF Abandon
<1>8. \A k, kind : Begins(k) /\ k # kind => \E rec : Begin(c, rec) /\ rec.kind # kind
    OBVIOUS
<1> HIDE DEF Begins
<1> QED
    BY <1>1, <1>2, <1>3, <1>4, <1>6, <1>7, <1>8

LEMMA GateHolds ==
    ASSUME GapInv, EvidenceInv', [EvidenceNext]_evidenceVars PROVE GateHeld' /\ CountedEnded'
<1>1. ASSUME NEW c \in Calls,
             \/ Reserve(c) \/ RejectTooLarge(c) \/ Complete(c) \/ CommitDelete(c) \/ LoseCall(c)
      PROVE  GateHeld' /\ CountedEnded'
  <2>1. PICK next : Goes(c, next) /\ next # "counted" /\ UNCHANGED <<evidenceJob, settled>>
      BY <1>1 DEF Reserve, RejectTooLarge, Complete, CommitDelete, LoseCall
  <2> QED
      BY <2>1, GoingOn, QuietStep DEF SameCall, GapInv
<1>2. ASSUME NEW c \in Calls, EraseObject(c) PROVE GateHeld' /\ CountedEnded'
  <2>1. call[c].kind = "delete" /\ UNCHANGED <<evidenceJob, settled>>
      BY <1>2 DEF EraseObject
  <2>2. call'[c].kind = "delete" /\ \A d \in Calls \ {c} : call'[d] = call[d]
      BY <1>2, <2>1 DEF EraseObject, Goes, GapInv, EvidenceInv, EvidenceTypeOK, Call
  <2> QED
      BY <2>1, <2>2, QuietStep
<1>3. ASSUME NEW c \in Calls, JudgeUpload(c) \/ Measure(c) \/ JudgeDelete(c) \/ Reopen(c) \/ Abandon(c)
      PROVE  GateHeld' /\ CountedEnded'
  <2>1. PICK rec : Begin(c, rec) /\ rec.kind # "close"
      BY <1>3, BegunKinds
  <2>2. call'[c].kind # "close" /\ \A d \in Calls \ {c} : call'[d] = call[d]
      BY <2>1 DEF Begin, GapInv, EvidenceInv, EvidenceTypeOK
  <2>3. /\ UNCHANGED settled
        /\ UNCHANGED evidenceJob \/ evidenceJob'.status # "closed" \/ evidenceJob'.abandoned
    <3>1. CASE Reopen(c) \/ Abandon(c)
        BY <3>1 DEF Reopen, Abandon, GapInv, EvidenceInv, EvidenceTypeOK, JobState
    <3>2. CASE JudgeUpload(c) \/ Measure(c) \/ JudgeDelete(c)
        BY <3>2 DEF JudgeUpload, Measure, JudgeDelete
    <3> QED
        BY <1>3, <3>1, <3>2
  <2> QED
      BY <2>2, <2>3, QuietStep
<1>4. ASSUME NEW m \in Media, Put(m) PROVE GateHeld' /\ CountedEnded'
    BY <1>4, QuietStep DEF Put
<1>5. CASE UNCHANGED evidenceVars
    BY <1>5, QuietStep DEF evidenceVars
<1>6. ASSUME NEW c \in Calls, CountForClose(c) PROVE GateHeld' /\ CountedEnded'
  <2>1. PICK over, next :
          /\ over = {d \in Calls : call[d].kind = "delete" /\ call[d].pc = "ok"}
          /\ next = IF ClosingMedia = 0 THEN "rejected" ELSE "counted"
          /\ Begin(c, [Makes("close", None, None) EXCEPT !.over = over, !.pc = next])
          /\ UNCHANGED <<evidenceJob, media, settled>>
      BY <1>6 DEF CountForClose
  <2>2. Ended(over)
      BY <2>1 DEF Ended
  <2>3. next = "counted" => Held(over)
    <3>1. Cardinality({}) = 0
        BY FS_EmptySet
    <3> QED
        BY <2>1, <3>1 DEF ClosingMedia, CountPhase, Held, ClosingRow
  <2>4. call'[c].over = over /\ call'[c].pc = next /\ \A d \in Calls \ {c} : call'[d] = call[d]
      BY <2>1 DEF Begin, Makes, NotMade, GapInv, EvidenceInv, EvidenceTypeOK
  <2>5. Ended(over)' /\ (next = "counted" => Held(over)')
      BY <2>2, <2>3, HeldStays, EndedStays
  <2>6. CountedEnded'
    <3>1. Ended(settled)'
        BY <2>1, EndedStays DEF GapInv, CountedEnded
    <3>2. ASSUME NEW d \in Calls \ {c}, call'[d].kind = "close" PROVE Ended(call[d].over)'
        BY <2>4, <3>2, EndedStays DEF GapInv, CountedEnded, Ended
    <3>3. Ended(call[c].over)'
        BY <2>4, <2>5 DEF Ended
    <3> QED
        BY <3>1, <3>2, <3>3 DEF CountedEnded
  <2>7. GateHeld'
    <3>1. ASSUME evidenceJob'.status = "closed" /\ ~evidenceJob'.abandoned PROVE Held(settled)'
        BY <2>1, <3>1, HeldStays DEF GapInv, GateHeld, CountedEnded
    <3>2. ASSUME NEW d \in Calls \ {c}, call'[d].kind = "close" /\ call'[d].pc = "counted"
          PROVE  Held(call[d].over)'
      <4>1. PICK other : other = call[d].over
          OBVIOUS
      <4>2. Held(other)'
          BY <2>4, <3>2, <4>1, HeldStays DEF GapInv, GateHeld, CountedEnded
      <4> QED
          BY <2>4, <4>1, <4>2 DEF Held
    <3>3. call'[c].pc = "counted" => Held(call[c].over)'
        BY <2>4, <2>5 DEF Held
    <3> QED
        BY <3>1, <3>2, <3>3 DEF GateHeld
  <2> QED
      BY <2>6, <2>7
<1>7. ASSUME NEW c \in Calls, CommitClose(c) PROVE GateHeld' /\ CountedEnded'
  <2>1. /\ settled' = call[c].over /\ Goes(c, "ok")
        /\ Held(call[c].over) /\ Ended(call[c].over)
      BY <1>7 DEF CommitClose, GapInv, GateHeld, CountedEnded
  <2>2. Held(settled)' /\ Ended(settled)'
    <3>1. PICK over : over = call[c].over
        OBVIOUS
    <3>2. Held(over)' /\ Ended(over)'
        BY <2>1, <3>1, HeldStays
    <3> QED
        BY <2>1, <3>1, <3>2 DEF Held, Ended
  <2>3. ASSUME NEW d \in Calls, call'[d].kind = "close"
        PROVE  Ended(call[d].over)' /\ (call'[d].pc = "counted" => Held(call[d].over)')
    <3>1. call[d].kind = "close" /\ call'[d].over = call[d].over /\ (call'[d].pc = "counted" => call[d].pc = "counted")
        BY <2>1, <2>3, GoingOn DEF SameCall, GapInv
    <3>2. PICK over : over = call[d].over
        OBVIOUS
    <3>3. Ended(over)' /\ (call'[d].pc = "counted" => Held(over)')
        BY <3>1, <3>2, HeldStays, EndedStays DEF GapInv, GateHeld, CountedEnded
    <3> QED
        BY <3>1, <3>2, <3>3 DEF Ended, Held
  <2> QED
      BY <2>2, <2>3 DEF GateHeld, CountedEnded
<1> QED
    BY <1>1, <1>2, <1>3, <1>4, <1>5, <1>6, <1>7 DEF EvidenceNext

\* A medium that was sent, or its reservation answered, stays so.
LEMMA ReservedStays ==
    ASSUME EvidenceInv, [EvidenceNext]_evidenceVars, NEW m \in Media, sent[m] # None \/ Answered(m)
    PROVE  (sent[m] # None \/ Answered(m))'
<1>1. sent[m] # None => sent'[m] # None
  <2>1. \A n \in Media : Put(n) => sent'[m] = sent[m] \/ sent'[m] # None
      BY NoneIsApart DEF Put, EvidenceInv, EvidenceTypeOK
  <2>2. ASSUME NEW c \in Calls,
             \/ JudgeUpload(c) \/ Reserve(c) \/ Measure(c) \/ RejectTooLarge(c) \/ Complete(c)
             \/ JudgeDelete(c) \/ EraseObject(c) \/ CommitDelete(c)
             \/ CountForClose(c) \/ CommitClose(c) \/ Reopen(c) \/ Abandon(c) \/ LoseCall(c)
        PROVE  UNCHANGED sent
      BY <2>2 DEF JudgeUpload, Reserve, Measure, RejectTooLarge, Complete, JudgeDelete, EraseObject,
         CommitDelete, CountForClose, CommitClose, Reopen, Abandon, LoseCall
  <2> QED
      BY <2>1, <2>2 DEF EvidenceNext, evidenceVars
<1>2. Answered(m) => Answered(m)'
    BY AnswersStay DEF Answered, Over
<1> QED
    BY <1>1, <1>2

LEMMA DeletesHold ==
    ASSUME GapInv, EvidenceInv', [EvidenceNext]_evidenceVars PROVE DeletesWhatItLoaded'
<1> SUFFICES ASSUME NEW d \in Calls, call'[d].kind = "delete"
             PROVE  /\ (sent[call[d].on] # None \/ Answered(call[d].on))'
                    /\ call'[d].pc \in {"erased", "torn"} /\ media'[call'[d].on] # None
                         => media'[call'[d].on].phase = call'[d].phase
    BY DEF DeletesWhatItLoaded
<1>0. PICK m \in Media : m = call'[d].on
    BY DEF EvidenceInv, OneCallEach
<1>1. CASE JudgeDelete(d)
  <2>1. PICK n \in Media : (sent[n] # None \/ Answered(n)) /\
              \E who \in People : Begin(d, [Makes("delete", who, n) EXCEPT !.open = JobOpen, !.pc = "judged"])
      BY <1>1 DEF JudgeDelete
  <2>3. PICK who \in People : Begin(d, [Makes("delete", who, n) EXCEPT !.open = JobOpen, !.pc = "judged"])
      BY <2>1
  <2>2. m = n /\ call'[d].pc = "judged"
      BY <1>0, <2>3 DEF Begin, Makes, NotMade, GapInv, EvidenceInv, EvidenceTypeOK
  <2> QED
      BY <1>0, <2>1, <2>2, ReservedStays DEF GapInv
<1>2. CASE ~JudgeDelete(d)
  <2>1. /\ call[d].kind = "delete" /\ m = call[d].on
        /\ \/ call'[d].phase = call[d].phase /\ (call'[d].pc \in {"erased", "torn"} => call[d].pc \in {"erased", "torn"})
           \/ EraseObject(d) /\ UNCHANGED media
    <3>1. ASSUME NEW c \in Calls, JudgeUpload(c) \/ Measure(c) \/ CountForClose(c) \/ Reopen(c) \/ Abandon(c)
          PROVE  call'[d] = call[d]
      <4>1. PICK rec : Begin(c, rec) /\ rec.kind # "delete"
          BY <3>1, BegunKinds
      <4> QED
          BY <4>1 DEF Begin, GapInv, EvidenceInv, EvidenceTypeOK
    <3>2. ASSUME NEW c \in Calls, JudgeDelete(c) PROVE call'[d] = call[d]
      <4>1. PICK rec : Begin(c, rec)
          BY <3>2, BegunKinds DEF JudgeDelete
      <4> QED
          BY <1>2, <3>2, <4>1 DEF Begin, GapInv, EvidenceInv, EvidenceTypeOK
    <3>3. ASSUME NEW c \in Calls,
                 \/ Reserve(c) \/ RejectTooLarge(c) \/ Complete(c) \/ CommitDelete(c) \/ CommitClose(c) \/ LoseCall(c)
          PROVE  /\ SameCall(d) /\ call'[d].phase = call[d].phase
                 /\ call'[d].pc \in {"erased", "torn"} => call[d].pc \in {"erased", "torn"}
      <4>1. PICK next : Goes(c, next) /\ (next \in {"erased", "torn"} => call[c].pc \in {"erased", "torn"})
          BY <3>3 DEF Reserve, RejectTooLarge, Complete, CommitDelete, CommitClose, LoseCall
      <4> QED
          BY <4>1, GoingOn DEF GapInv, SameCall
    <3>4. ASSUME NEW c \in Calls, EraseObject(c)
          PROVE  SameCall(d) /\ (c # d => call'[d] = call[d]) /\ UNCHANGED media
        BY <3>4 DEF EraseObject, Goes, SameCall, GapInv, EvidenceInv, EvidenceTypeOK, Call
    <3>5. ASSUME NEW n \in Media, Put(n) PROVE call'[d] = call[d]
        BY <3>5 DEF Put
    <3>6. UNCHANGED evidenceVars => call'[d] = call[d]
        BY DEF evidenceVars
    <3>7. /\ SameCall(d)
          /\ \/ call'[d].phase = call[d].phase /\ (call'[d].pc \in {"erased", "torn"} => call[d].pc \in {"erased", "torn"})
             \/ EraseObject(d) /\ UNCHANGED media
        BY <1>2, <3>1, <3>2, <3>3, <3>4, <3>5, <3>6 DEF EvidenceNext, SameCall
    <3> QED
        BY <1>0, <3>7 DEF SameCall
  <2>2. (sent[m] # None \/ Answered(m))'
    <3>1. sent[m] # None \/ Answered(m)
        BY <1>0, <2>1 DEF GapInv, DeletesWhatItLoaded
    <3> QED
        BY <3>1, ReservedStays DEF GapInv
  <2>3. CASE EraseObject(d) /\ UNCHANGED media
      BY <2>1, <2>2, <2>3 DEF EraseObject, Goes, GapInv, EvidenceInv, EvidenceTypeOK, Call
  <2>4. ASSUME call'[d].phase = call[d].phase, call[d].pc \in {"erased", "torn"}, media'[m] # None
        PROVE  media'[m].phase = call[d].phase
    <3>1. CASE media[m] # None
      <4>1. media'[m].phase = media[m].phase
          BY <1>0, <2>4, <3>1, RowsStay DEF GapInv, CommitDelete, EvidenceInv, EvidenceTypeOK
      <4> QED
          BY <2>1, <2>4, <3>1, <4>1 DEF GapInv, DeletesWhatItLoaded
    <3>2. CASE media[m] = None
      <4>1. sent[m] # None \/ Answered(m)
          BY <2>1 DEF GapInv, DeletesWhatItLoaded
      <4>2. \A c \in Calls : Reserve(c) => call[c].on # m
          BY <1>0, <4>1 DEF Reserve, GapInv, EvidenceInv, InThatOrder, OneCallEach, Answered, Asked
      <4>3. media'[m] = None
          BY <1>0, <3>2, <4>2, RowsAppear DEF GapInv
      <4> QED
          BY <2>4, <4>3
    <3> QED
        BY <3>1, <3>2
  <2> QED
      BY <1>0, <2>1, <2>2, <2>3, <2>4
<1> QED
    BY <1>1, <1>2

LEMMA GapInvNext == GapInv /\ [EvidenceNext]_evidenceVars => GapInv'
    BY EvidenceInvNext, GateHolds, DeletesHold DEF GapInv

\* What the close gate lets through on trust is made good or reported.
THEOREM GapsHold == EvidenceSpec => []GapsAreHonest
<1>1. GapInv => GapsAreHonest
  <2> SUFFICES ASSUME GapInv, evidenceJob.status = "closed", ~evidenceJob.abandoned, Overlapped = {},
                      \A n \in Media : ClosingRow(n) => object[n] = None
               PROVE  GapReported
      BY DEF GapsAreHonest, ClosingRow
  <2>1. PICK m \in Media : ClosingRow(m)
      BY DEF GapInv, GateHeld, Held, Overlapped
  <2>2. ASSUME NEW n \in Media, ClosingRow(n), media[n].status = "uploaded" PROVE FALSE
    <3>1. PICK d \in Calls : call[d].kind = "delete" /\ call[d].on = n /\ call[d].pc \in {"erased", "torn"}
        BY <2>2, UploadsLast DEF GapInv, ClosingRow, Erased
    <3>2. d \in Overlapped
        BY <2>2, <3>1 DEF GapInv, DeletesWhatItLoaded, CountedEnded, Ended, ClosingRow, Overlapped
    <3> QED
        BY <3>2
  <2> DEFINE rows == {n \in Media : media[n] # None /\ media[n].phase = "closing"}
  <2>3. IsFiniteSet(rows) /\ rows # {}
      BY <2>1, EvidenceAssumption, FS_Subset DEF ClosingRow
  <2>4. Cardinality(rows) > 0
      BY <2>3, FS_EmptySet, FS_CardinalityType
  <2>5. {n \in Media : media[n] # None /\ media[n].phase = "closing" /\ media[n].status = "uploaded"} = {}
      BY <2>2 DEF ClosingRow
  <2> QED
      BY <2>4, <2>5, FS_EmptySet DEF GapReported, Promised, ClosingCounts, CountPhase
<1> QED
    BY <1>1, GapInvInit, GapInvNext, PTL DEF EvidenceSpec

-----------------------------------------------------------------------------
(* Accounts                                                                 *)

Columns == {"role", "pin", "failed", "lockedUntil", "version"}

\* What the proofs need to know of a technician row, and of a request.
IsRow(row) == DOMAIN row = Columns /\ row.failed \in Nat /\ row.version \in Nat

IsRequest(q) == /\ DOMAIN q = {"kind", "pin", "at", "row", "pc"}
                /\ q.pc = "loaded" => IsRow(q.row)

AccountsSane ==
    /\ streak \in Nat /\ IsRow(account)
    /\ DOMAIN request = Requests /\ \A r \in Requests : IsRequest(request[r])

\* What a revocation under way will write is above every version that has ended.
VersionsEnded ==
    \A v \in dead : /\ v \in Nat /\ v < account.version
                    /\ \A r \in Requests : Loaded(r, "revoke") => v < request[r].row.version

AccountsInv == AccountsSane /\ CountIsExact /\ VersionsEnded

-----------------------------------------------------------------------------
\* An UPDATE writes the columns that differ from the loaded row, and no others.
LEMMA UpdateIsColumnwise ==
    ASSUME NEW old, NEW new, DOMAIN new = Columns
    PROVE  /\ DOMAIN Changed(old, new) = Columns
           /\ \A c \in Columns : Changed(old, new)[c] = IF new[c] # old[c] THEN new[c] ELSE account[c]
    BY DEF Changed

\* No failure, no lock.
LEMMA NoFailureNoLock == \A now : NextLockUntil(0, now) = Never
    BY AccountsAssumption DEF NextLockUntil, LockDuration

\* What a request asks with holds the row it loaded.
LEMMA AskedWithTheRow ==
    ASSUME AccountsInv, NEW r \in Requests, NEW kind, NEW pin, NEW next,
           Make(r, Asks(kind, pin, next)), UNCHANGED <<account, streak, lastWrong, blurred, dead>>
    PROVE  AccountsInv'
<1>1. AccountsSane'
    BY DEF AccountsInv, AccountsSane, Make, Asks, IsRequest
<1>2. CountIsExact'
    BY DEF AccountsInv, CountIsExact
<1>3. VersionsEnded'
    BY DEF AccountsInv, VersionsEnded, Make, Asks, Loaded
<1> QED
    BY <1>1, <1>2, <1>3 DEF AccountsInv

\* An answer takes the request out of the way of everyone else.
LEMMA AnswerEnds ==
    ASSUME AccountsSane, NEW r \in Requests, NEW next, next # "loaded", Answers(r, next)
    PROVE  /\ DOMAIN request' = Requests
           /\ \A s \in Requests : IsRequest(request[s])'
           /\ \A s \in Requests : \A kind : Loaded(s, kind)' =>
                s # r /\ Loaded(s, kind) /\ request'[s] = request[s]
    BY DEF AccountsSane, Answers, IsRequest, Loaded

\* A throttle that starts afresh from a row that is committed.
LEMMA Unlocking ==
    ASSUME AccountsInv, NEW r \in Requests, NEW old, IsRow(old), NEW new, new = Unthrottled(old)
    PROVE  /\ DOMAIN Changed(old, new) = Columns
           /\ Changed(old, new).failed \in Nat
           /\ Changed(old, new).version = account.version
<1>1. DOMAIN new = Columns /\ new.failed = 0 /\ new.version = old.version
    BY DEF Unthrottled, IsRow
<1> QED
    BY <1>1, UpdateIsColumnwise DEF Columns, AccountsInv, AccountsSane, IsRow

-----------------------------------------------------------------------------
LEMMA AccountsInvInit == AccountsInit => AccountsInv
<1> SUFFICES ASSUME AccountsInit PROVE AccountsInv
    OBVIOUS
<1>1. AccountsSane
    BY DEF AccountsInit, AccountsSane, IsRow, IsRequest, Unmade, Columns
<1>2. CountIsExact
    BY NoFailureNoLock DEF AccountsInit, CountIsExact
<1>3. VersionsEnded
    BY DEF AccountsInit, VersionsEnded
<1> QED
    BY <1>1, <1>2, <1>3 DEF AccountsInv

LEMMA LoginKeeps == ASSUME AccountsInv, NEW r \in Requests, Login(r) PROVE AccountsInv'
<1>1. PICK p \in Pins :
        Make(r, IF ~Allow THEN [Asks("login", p, "throttled") EXCEPT !.row = Never]
                ELSE Asks("login", p, IF IsLocked(account.lockedUntil) THEN "locked" ELSE "loaded"))
    BY DEF Login
<1>2. UNCHANGED <<account, streak, lastWrong, blurred, dead>>
    BY DEF Login
<1>3. CASE Allow
    BY <1>1, <1>2, <1>3, AskedWithTheRow
<1>4. CASE ~Allow
  <2>1. AccountsSane'
    BY <1>1, <1>2, <1>4 DEF AccountsInv, AccountsSane, Make, Asks, IsRequest
  <2>2. CountIsExact'
    BY <1>2 DEF AccountsInv, CountIsExact
  <2>3. VersionsEnded'
    BY <1>1, <1>2, <1>4 DEF AccountsInv, VersionsEnded, Make, Asks, Loaded
  <2> QED
    BY <2>1, <2>2, <2>3 DEF AccountsInv
<1> QED
    BY <1>3, <1>4

LEMMA WrongPinKeeps == ASSUME AccountsInv, NEW r \in Requests, WrongPin(r) PROVE AccountsInv'
<1> DEFINE old == request[r].row
           new == [old EXCEPT !.failed = old.failed + 1,
                              !.lockedUntil = NextLockUntil(old.failed + 1, request[r].at)]
<1>1. IsRow(old)
    BY DEF WrongPin, Loaded, AccountsInv, AccountsSane, IsRequest
<1>2. /\ DOMAIN new = Columns /\ new.failed = old.failed + 1 /\ new.version = old.version
      /\ new.lockedUntil = NextLockUntil(old.failed + 1, request[r].at)
    BY <1>1 DEF IsRow
<1>3. /\ account' = Changed(old, new) /\ Answers(r, "wrong")
      /\ streak' = streak + 1 /\ lastWrong' = request[r].at
      /\ blurred' = (blurred \/ ~Current(old)) /\ dead' = dead
    BY DEF WrongPin
<1> HIDE DEF old, new
<1>4. /\ DOMAIN account' = Columns
      /\ account'.failed = old.failed + 1 /\ account'.version = account.version
      /\ account'.lockedUntil = IF new.lockedUntil # old.lockedUntil THEN new.lockedUntil
                                ELSE account.lockedUntil
  <2>1. /\ DOMAIN account' = Columns
        /\ \A c \in Columns : account'[c] = IF new[c] # old[c] THEN new[c] ELSE account[c]
    BY <1>2, <1>3, UpdateIsColumnwise
  <2> QED
    BY <2>1, <1>1, <1>2 DEF Columns, IsRow
<1>5. AccountsSane'
    BY <1>1, <1>3, <1>4, AnswerEnds DEF AccountsInv, AccountsSane, IsRow
<1>6. CountIsExact'
  <2> SUFFICES ASSUME ~blurred'
               PROVE  /\ account'.failed = streak'
                      /\ account'.lockedUntil = NextLockUntil(streak', lastWrong')
    BY DEF CountIsExact
  <2>1. ~blurred /\ old.failed = account.failed /\ old.lockedUntil = account.lockedUntil
    BY <1>3 DEF Current
  <2>2. old.failed = streak
    BY <2>1 DEF AccountsInv, CountIsExact
  <2> QED
    BY <2>1, <2>2, <1>2, <1>3, <1>4
<1>7. VersionsEnded'
    BY <1>3, <1>4, AnswerEnds DEF AccountsInv, VersionsEnded
<1> QED
    BY <1>5, <1>6, <1>7 DEF AccountsInv

LEMMA RightPinKeeps == ASSUME AccountsInv, NEW r \in Requests, RightPin(r) PROVE AccountsInv'
<1> DEFINE old == request[r].row
<1>1. IsRow(old)
    BY DEF RightPin, Loaded, AccountsInv, AccountsSane, IsRequest
<1>2. /\ account' = Changed(old, Unthrottled(old)) /\ Answers(r, "ok")
      /\ Fresh /\ lastWrong' = lastWrong /\ dead' = dead
    BY DEF RightPin
<1> HIDE DEF old
<1>3. /\ DOMAIN account' = Columns /\ account'.failed \in Nat /\ account'.version = account.version
    BY <1>1, <1>2, Unlocking
<1>4. AccountsSane'
    BY <1>2, <1>3, AnswerEnds DEF AccountsInv, AccountsSane, IsRow, Fresh
<1>5. CountIsExact'
    BY <1>2, NoFailureNoLock DEF CountIsExact, Fresh, NextLockUntil, LockDuration
<1>6. VersionsEnded'
    BY <1>2, <1>3, AnswerEnds DEF AccountsInv, VersionsEnded
<1> QED
    BY <1>4, <1>5, <1>6 DEF AccountsInv

LEMMA AskPinKeeps == ASSUME AccountsInv, NEW r \in Requests, AskPin(r) PROVE AccountsInv'
    BY AskedWithTheRow DEF AskPin

LEMMA SetPinKeeps == ASSUME AccountsInv, NEW r \in Requests, SetPin(r) PROVE AccountsInv'
<1> DEFINE old == request[r].row
           written == Changed(old, Unthrottled(old))
<1>1. IsRow(old)
    BY DEF SetPin, Loaded, AccountsInv, AccountsSane, IsRequest
<1>2. /\ account' = [written EXCEPT !.pin = request[r].pin] /\ Answers(r, "ok")
      /\ Fresh /\ lastWrong' = lastWrong /\ dead' = dead
    BY DEF SetPin
<1> HIDE DEF old
<1>3. DOMAIN written = Columns /\ written.failed \in Nat /\ written.version = account.version
    BY <1>1, Unlocking
<1> HIDE DEF written
<1>4. /\ DOMAIN account' = Columns /\ account'.failed \in Nat /\ account'.version = account.version
    BY <1>2, <1>3
<1>5. AccountsSane'
    BY <1>2, <1>4, AnswerEnds DEF AccountsInv, AccountsSane, IsRow, Fresh
<1>6. CountIsExact'
    BY <1>2, NoFailureNoLock DEF CountIsExact, Fresh, NextLockUntil, LockDuration
<1>7. VersionsEnded'
    BY <1>2, <1>4, AnswerEnds DEF AccountsInv, VersionsEnded
<1> QED
    BY <1>5, <1>6, <1>7 DEF AccountsInv

LEMMA AskRevocationKeeps == ASSUME AccountsInv, NEW r \in Requests, AskRevocation(r) PROVE AccountsInv'
    BY AskedWithTheRow DEF AskRevocation

LEMMA RevokeSessionsKeeps == ASSUME AccountsInv, NEW r \in Requests, RevokeSessions(r) PROVE AccountsInv'
<1> DEFINE old == request[r].row
           new == [old EXCEPT !.version = @ + 1]
<1>1. IsRow(old)
    BY DEF RevokeSessions, Loaded, AccountsInv, AccountsSane, IsRequest
<1>2. DOMAIN new = Columns /\ new.version = old.version + 1 /\ \A c \in Columns \ {"version"} : new[c] = old[c]
    BY <1>1 DEF IsRow
<1>3. /\ account' = Changed(old, new) /\ Answers(r, "ok")
      /\ dead' = IF \E s \in Requests \ {r} : Loaded(s, "revoke") THEN dead
                  ELSE dead \cup 0..(account'.version - 1)
      /\ UNCHANGED <<streak, lastWrong, blurred>>
    BY DEF RevokeSessions
<1>4. \A v \in dead : v < old.version
    BY DEF AccountsInv, VersionsEnded, RevokeSessions
<1> HIDE DEF old, new
<1>5. /\ DOMAIN account' = Columns /\ account'.version = old.version + 1
      /\ account'.failed = account.failed /\ account'.lockedUntil = account.lockedUntil
  <2>1. /\ DOMAIN account' = Columns
        /\ \A c \in Columns : account'[c] = IF new[c] # old[c] THEN new[c] ELSE account[c]
    BY <1>2, <1>3, UpdateIsColumnwise
  <2>2. \A c \in Columns \ {"version"} : account'[c] = account[c]
    BY <2>1, <1>2
  <2>3. account'.version = old.version + 1
    BY <2>1, <1>1, <1>2 DEF Columns, IsRow
  <2> QED
    BY <2>1, <2>2, <2>3 DEF Columns
<1>6. AccountsSane'
    BY <1>1, <1>3, <1>5, AnswerEnds DEF AccountsInv, AccountsSane, IsRow
<1>7. CountIsExact'
    BY <1>3, <1>5 DEF AccountsInv, CountIsExact
<1>8. VersionsEnded'
  <2>1. CASE \E s \in Requests \ {r} : Loaded(s, "revoke")
    BY <2>1, <1>1, <1>3, <1>4, <1>5, AnswerEnds DEF AccountsInv, VersionsEnded, IsRow
  <2>2. CASE ~\E s \in Requests \ {r} : Loaded(s, "revoke")
    <3>1. \A s \in Requests : ~Loaded(s, "revoke")'
      BY <2>2, <1>3, AnswerEnds DEF AccountsInv
    <3>2. \A v \in dead' : v \in Nat /\ v < account'.version
      BY <2>2, <1>1, <1>3, <1>4, <1>5 DEF AccountsInv, VersionsEnded, IsRow
    <3> QED
      BY <3>1, <3>2 DEF VersionsEnded
  <2> QED
    BY <2>1, <2>2
<1> QED
    BY <1>6, <1>7, <1>8 DEF AccountsInv

LEMMA LoseRequestKeeps == ASSUME AccountsInv, NEW r \in Requests, LoseRequest(r) PROVE AccountsInv'
<1>1. Answers(r, "lost") /\ UNCHANGED <<account, streak, lastWrong, blurred, dead>>
    BY DEF LoseRequest
<1>2. AccountsSane'
    BY <1>1, AnswerEnds DEF AccountsInv, AccountsSane
<1>3. CountIsExact'
    BY <1>1 DEF AccountsInv, CountIsExact
<1>4. VersionsEnded'
    BY <1>1, AnswerEnds DEF AccountsInv, VersionsEnded
<1> QED
    BY <1>2, <1>3, <1>4 DEF AccountsInv

LEMMA UnchangedKeeps ==
    ASSUME AccountsInv, UNCHANGED <<account, request, streak, lastWrong, blurred, dead>>
    PROVE  AccountsInv'
<1>1. AccountsSane'
    BY DEF AccountsInv, AccountsSane
<1>2. CountIsExact'
    BY DEF AccountsInv, CountIsExact
<1>3. VersionsEnded'
    BY DEF AccountsInv, VersionsEnded, Loaded
<1> QED
    BY <1>1, <1>2, <1>3 DEF AccountsInv

LEMMA AccountsInvNext == AccountsInv /\ [AccountsNext]_accountVars => AccountsInv'
<1> SUFFICES ASSUME AccountsInv, [AccountsNext]_accountVars PROVE AccountsInv'
    OBVIOUS
<1>1. ASSUME NEW r \in Requests, Login(r) \/ WrongPin(r) \/ RightPin(r) \/ AskPin(r)
                \/ SetPin(r) \/ AskRevocation(r) \/ RevokeSessions(r) \/ LoseRequest(r)
      PROVE  AccountsInv'
    BY <1>1, LoginKeeps, WrongPinKeeps, RightPinKeeps, AskPinKeeps, SetPinKeeps,
       AskRevocationKeeps, RevokeSessionsKeeps, LoseRequestKeeps
<1>2. CASE AccountsTick
    BY <1>2, UnchangedKeeps DEF AccountsTick
<1>3. CASE UNCHANGED accountVars
    BY <1>3, UnchangedKeeps DEF accountVars
<1> QED
    BY <1>1, <1>2, <1>3 DEF AccountsNext

\* A row's count is what its wrong PINs earn, and its version is above every one
\* that a revocation has ended or is about to end.
THEOREM AccountsInvHolds == AccountsSpec => []AccountsInv
<1> QED
    BY AccountsInvInit, AccountsInvNext, PTL DEF AccountsSpec

-----------------------------------------------------------------------------
\* failed_attempts and locked_until are what the wrong PINs since the last reset
\* earn, unless one was judged against an outdated row.
THEOREM FailuresEarnTheLock == AccountsSpec => []CountIsExact
<1>1. AccountsInv => CountIsExact
    BY DEF AccountsInv
<1> QED
    BY <1>1, AccountsInvHolds, PTL

\* A token that a settled revocation has ended is never accepted again.
THEOREM RevocationIsForGood == AccountsSpec => []RevocationHolds
<1>1. AccountsInv => RevocationHolds
    BY DEF AccountsInv, VersionsEnded, RevocationHolds, Accepted
<1> QED
    BY <1>1, AccountsInvHolds, PTL

-----------------------------------------------------------------------------
(* A lock decays                                                            *)

\* A power of two counts the subsets of a set.
LEMMA PowersOfTwo == ASSUME NEW k \in Nat PROVE 2 ^ k \in Nat
<1>1. IsFiniteSet(1..k) /\ Cardinality(1..k) = k
    BY FS_Interval
<1>2. IsFiniteSet(SUBSET (1..k)) /\ Cardinality(SUBSET (1..k)) = 2 ^ k
    BY <1>1, FS_SUBSET
<1> QED
    BY <1>2, FS_CardinalityType

\* Whatever the failures, they earn MAX_LOCK at most.
LEMMA LocksAreShort == ASSUME NEW n \in Nat PROVE LockDuration(n) \in Nat /\ LockDuration(n) <= MaxLock
<1> DEFINE power == 2 ^ (n - LockThreshold)
<1>1. CASE n < LockThreshold
    BY <1>1, AccountsAssumption DEF LockDuration
<1>2. CASE ~(n < LockThreshold)
  <2>1. n - LockThreshold \in Nat
      BY <1>2, AccountsAssumption
  <2>2. power \in Nat
      BY <2>1, PowersOfTwo
  <2>3. LockDuration(n) = IF BaseLock * power < MaxLock THEN BaseLock * power ELSE MaxLock
      BY <1>2 DEF LockDuration
  <2> HIDE DEF power
  <2>4. BaseLock * power \in Nat
      BY <2>2, AccountsAssumption
  <2> QED
      BY <2>3, <2>4, AccountsAssumption
<1> QED
    BY <1>1, <1>2

\* A lock that is within MAX_LOCK of the time.
Decaying(until, now) == until = Never \/ (until \in Nat /\ until <= now + MaxLock)

LocksDecay ==
    /\ tick \in Nat
    /\ \A r \in Requests : request[r].pc = "loaded" => request[r].at \in Nat /\ request[r].at <= tick
    /\ Decaying(account.lockedUntil, tick)

LEMMA LocksDecayInit == AccountsInit => LocksDecay
    BY DEF AccountsInit, LocksDecay, Decaying, Unmade

\* An UPDATE leaves the lock as it is, or as it was decided.
LEMMA LockWritten ==
    ASSUME AccountsInv, LocksDecay, NEW old, NEW new, DOMAIN new = Columns, Decaying(new.lockedUntil, tick)
    PROVE  Decaying(Changed(old, new).lockedUntil, tick)
    BY UpdateIsColumnwise DEF LocksDecay, Columns

\* A request that answers, and what it writes of the lock.
LEMMA AnswersDecay ==
    ASSUME AccountsInv, LocksDecay, NEW r \in Requests, NEW next, next # "loaded", Answers(r, next),
           UNCHANGED tick, Decaying(account'.lockedUntil, tick)
    PROVE  LocksDecay'
    BY AnswerEnds DEF AccountsInv, AccountsSane, LocksDecay, Answers, IsRequest, Decaying

\* A request that is made is made now.
LEMMA AsksDecay ==
    ASSUME AccountsInv, LocksDecay, NEW r \in Requests, NEW q, Make(r, q), q.at = tick, UNCHANGED <<tick, account>>
    PROVE  LocksDecay'
    BY DEF AccountsInv, AccountsSane, LocksDecay, Make, Decaying

LEMMA LocksDecayNext == AccountsInv /\ LocksDecay /\ [AccountsNext]_accountVars => LocksDecay'
<1> SUFFICES ASSUME AccountsInv, LocksDecay, [AccountsNext]_accountVars PROVE LocksDecay'
    OBVIOUS
<1>0. tick \in Nat
    BY DEF LocksDecay
<1>1. ASSUME NEW r \in Requests, Login(r) PROVE LocksDecay'
  <2>1. PICK p \in Pins :
          Make(r, IF ~Allow THEN [Asks("login", p, "throttled") EXCEPT !.row = Never]
                  ELSE Asks("login", p, IF IsLocked(account.lockedUntil) THEN "locked" ELSE "loaded"))
      BY <1>1 DEF Login
  <2> DEFINE q == IF ~Allow THEN [Asks("login", p, "throttled") EXCEPT !.row = Never]
                  ELSE Asks("login", p, IF IsLocked(account.lockedUntil) THEN "locked" ELSE "loaded")
  <2>2. q.at = tick
      BY DEF Asks
  <2> HIDE DEF q
  <2> QED
      BY <1>1, <2>1, <2>2, AsksDecay DEF Login, q
<1>2. ASSUME NEW r \in Requests, AskPin(r) \/ AskRevocation(r) PROVE LocksDecay'
  <2>1. \A kind, pin, next : Asks(kind, pin, next).at = tick
      BY DEF Asks
  <2>2. CASE AskPin(r)
    <3>1. PICK p \in Pins, who \in {"manager", "self", "another"} :
            Make(r, Asks("pin", p, IF MaySetPin(who) /\ PinPolicy(p) THEN "loaded" ELSE "refused"))
        BY <2>2 DEF AskPin
    <3> QED
        BY <2>1, <2>2, <3>1, AsksDecay DEF AskPin
  <2>3. CASE AskRevocation(r)
      BY <2>1, <2>3, AsksDecay DEF AskRevocation
  <2> QED
      BY <1>2, <2>2, <2>3
<1>3. ASSUME NEW r \in Requests, WrongPin(r) PROVE LocksDecay'
  <2> DEFINE old == request[r].row
             until == NextLockUntil(old.failed + 1, request[r].at)
             new == [old EXCEPT !.failed = old.failed + 1, !.lockedUntil = until]
  <2>1. IsRow(old) /\ request[r].at \in Nat /\ request[r].at <= tick
      BY <1>3 DEF WrongPin, Loaded, AccountsInv, AccountsSane, IsRequest, LocksDecay
  <2>2. account' = Changed(old, new) /\ Answers(r, "wrong") /\ UNCHANGED tick
      BY <1>3 DEF WrongPin
  <2>3. Decaying(until, tick)
    <3>1. LockDuration(old.failed + 1) \in Nat /\ LockDuration(old.failed + 1) <= MaxLock
        BY <2>1, LocksAreShort DEF IsRow
    <3> QED
        BY <1>0, <2>1, <3>1, AccountsAssumption DEF NextLockUntil, Decaying
  <2> HIDE DEF old, until
  <2>4. DOMAIN new = Columns /\ new.lockedUntil = until
      BY <2>1 DEF IsRow, Columns
  <2> HIDE DEF new
  <2> QED
      BY <2>2, <2>3, <2>4, LockWritten, AnswersDecay
<1>4. ASSUME NEW r \in Requests, RightPin(r) \/ SetPin(r) PROVE LocksDecay'
  <2> DEFINE old == request[r].row
             new == Unthrottled(old)
             written == Changed(old, new)
  <2>1. IsRow(old)
      BY <1>4 DEF RightPin, SetPin, Loaded, AccountsInv, AccountsSane, IsRequest
  <2>2. /\ account' = written \/ account' = [written EXCEPT !.pin = request[r].pin]
        /\ Answers(r, "ok") /\ UNCHANGED tick
      BY <1>4 DEF RightPin, SetPin
  <2>3. DOMAIN new = Columns /\ new.lockedUntil = Never
      BY <2>1 DEF IsRow, Columns, Unthrottled
  <2> HIDE DEF old, new
  <2>4. Decaying(written.lockedUntil, tick) /\ DOMAIN written = Columns
      BY <2>3, LockWritten, UpdateIsColumnwise DEF Decaying
  <2> HIDE DEF written
  <2>5. account'.lockedUntil = written.lockedUntil
      BY <2>2, <2>4 DEF Columns
  <2> QED
      BY <2>2, <2>4, <2>5, AnswersDecay
<1>5. ASSUME NEW r \in Requests, RevokeSessions(r) PROVE LocksDecay'
  <2> DEFINE old == request[r].row
             new == [old EXCEPT !.version = @ + 1]
  <2>1. IsRow(old)
      BY <1>5 DEF RevokeSessions, Loaded, AccountsInv, AccountsSane, IsRequest
  <2>2. account' = Changed(old, new) /\ Answers(r, "ok") /\ UNCHANGED tick
      BY <1>5 DEF RevokeSessions
  <2> HIDE DEF old
  <2>3. DOMAIN new = Columns /\ new.lockedUntil = old.lockedUntil
      BY <2>1 DEF IsRow, Columns
  <2> HIDE DEF new
  <2>4. account'.lockedUntil = account.lockedUntil
      BY <2>2, <2>3, UpdateIsColumnwise DEF Columns
  <2> QED
      BY <2>2, <2>4, AnswersDecay DEF LocksDecay
<1>6. ASSUME NEW r \in Requests, LoseRequest(r) PROVE LocksDecay'
    BY <1>6, AnswersDecay DEF LoseRequest, LocksDecay
<1>7. CASE AccountsTick
    BY <1>0, <1>7, AccountsAssumption DEF AccountsTick, LocksDecay, Decaying
<1>8. CASE UNCHANGED accountVars
    BY <1>8 DEF accountVars, LocksDecay, Decaying
<1> QED
    BY <1>1, <1>2, <1>3, <1>4, <1>5, <1>6, <1>7, <1>8 DEF AccountsNext

\* The count is the one of the wrong PINs since the last reset, the lock the one
\* that it earns unless blurred, and no lock outlasts MAX_LOCK (login, set_pin).
THEOREM ThrottleHolds == AccountsSpec => []ThrottleIsExact
<1>1. AccountsInv /\ LocksDecay => ThrottleIsExact
    BY DEF AccountsInv, LocksDecay, Decaying, ThrottleIsExact
<1>2. AccountsSpec => []LocksDecay
    BY LocksDecayInit, LocksDecayNext, AccountsInvHolds, PTL DEF AccountsSpec
<1> QED
    BY <1>1, <1>2, AccountsInvHolds, PTL
-----------------------------------------------------------------------------
(* DeliveryStatus                                                           *)

DeliveryTypes ==
    /\ message \in CustomerMessage \cup {NoRow}
    /\ reached \subseteq Statuses /\ overwritten \in BOOLEAN
    /\ hook \in [Hooks -> [news : Seq(Statuses), row : CustomerMessage \cup {NoRow},
                           loaded : CustomerMessage \cup {NoRow}, seen : SUBSET Statuses,
                           pc : {"new", "folding", "answered"}]]

\* Nothing is told before it is reached.
ToldWhenReached ==
    /\ reached # {} => "sent" \in reached
    /\ posting = "answered" \/ (message # NoRow /\ message.wamid) => "sent" \in reached
    /\ posting = "committed" <=> message # NoRow
    /\ folded \subseteq reached
    /\ \A h \in Hooks : hook[h].news \in Seq(reached)

\* The row that a webhook found, and all it was told since folded into it.
FoldedWell(k) ==
    /\ k.row.wamid /\ k.loaded # NoRow /\ k.loaded.wamid
    /\ k.seen \subseteq reached /\ k.row.status \in reached
    /\ k.row.status \in k.seen \cup {k.loaded.status}
    /\ \A s \in k.seen \cup {k.loaded.status} : Rank[s] <= Rank[k.row.status]

\* What is found was committed; nothing has moved below it unless overwritten.
RowsFound ==
    /\ \A h \in Hooks :
         /\ hook[h].row = NoRow => hook[h].loaded = NoRow /\ hook[h].seen = {}
         /\ hook[h].row # NoRow =>
              /\ message # NoRow /\ message.wamid
              /\ FoldedWell(hook[h])
              /\ ~overwritten => Rank[hook[h].loaded.status] <= Rank[message.status]
    /\ message = NoRow => folded = {}
    /\ message # NoRow /\ ~message.wamid => folded = {}

DeliveryInv == DeliveryTypes /\ ToldWhenReached /\ RowsFound /\ DeliveryStatusHonest

LEMMA RankIs == \A s \in Statuses : Rank[s] \in Nat
    BY DEF Rank, Statuses

LEMMA SilentIs ==
    /\ Silent \in [news : Seq(Statuses), row : CustomerMessage \cup {NoRow},
                   loaded : CustomerMessage \cup {NoRow}, seen : SUBSET Statuses,
                   pc : {"new", "folding", "answered"}]
    /\ \A S : Silent.news \in Seq(S)
    /\ Silent.row = NoRow /\ Silent.loaded = NoRow /\ Silent.seen = {}
    BY DEF Silent

LEMMA DeliveryInvInit == DeliveryInit => DeliveryInv
    BY SilentIs DEF DeliveryInit, DeliveryInv, DeliveryTypes, ToldWhenReached, RowsFound, DeliveryStatusHonest

\* A step that only the provider or the sender takes.
LEMMA SendingKeeps ==
    ASSUME DeliveryInv, UNCHANGED <<hook, folded, overwritten>>,
           reached \subseteq reached', reached' \subseteq Statuses, reached' # {} => "sent" \in reached',
           message' = message \/ (message = NoRow /\ message' \in CustomerMessage),
           posting' = "committed" <=> message' # NoRow,
           message' # message /\ message'.wamid => message'.status = "sent" /\ "sent" \in reached',
           posting' = "answered" => "sent" \in reached'
    PROVE  DeliveryInv'
<1> USE DEF DeliveryInv
<1>1. DeliveryTypes'
    BY DEF DeliveryTypes
<1>2. ToldWhenReached'
  <2>1. ASSUME NEW h \in Hooks PROVE hook'[h].news \in Seq(reached')
    <3>1. hook[h].news \in Seq(reached)
        BY DEF ToldWhenReached
    <3> QED
        BY <3>1
  <2> QED
      BY <2>1 DEF ToldWhenReached
<1>3. RowsFound'
    BY DEF RowsFound, FoldedWell
<1>4. DeliveryStatusHonest'
  <2>1. CASE message' = message
      BY <2>1 DEF DeliveryStatusHonest
  <2>2. CASE message' # message
    <3>1. message = NoRow /\ folded = {}
        BY <2>2 DEF RowsFound
    <3> QED
        BY <2>2, <3>1, RankIs DEF DeliveryStatusHonest, CustomerMessage, Statuses
  <2> QED
      BY <2>1, <2>2
<1> QED
    BY <1>1, <1>2, <1>3, <1>4

LEMMA SendStepsKeep ==
    ASSUME DeliveryInv, Post \/ PostRefused \/ CommitMessage \/ LoseMessage \/ Progress
    PROVE  DeliveryInv'
<1> USE DEF DeliveryInv, DeliveryTypes, ToldWhenReached
<1>1. CASE Post
    BY <1>1, SendingKeeps DEF Post, Statuses
<1>2. CASE PostRefused \/ LoseMessage
    BY <1>2, SendingKeeps DEF PostRefused, LoseMessage
<1>3. CASE CommitMessage
  <2>1. message' \in CustomerMessage /\ message' # NoRow /\ message = NoRow
    <3>1. /\ [status |-> "sent", wamid |-> TRUE] \in CustomerMessage
          /\ [status |-> "failed", wamid |-> FALSE] \in CustomerMessage
        BY DEF CustomerMessage, Statuses
    <3>2. message' \in CustomerMessage
        BY <1>3, <3>1 DEF CommitMessage
    <3>3. message = NoRow
        BY <1>3 DEF CommitMessage
    <3> QED
        BY <3>2, <3>3, NoRowIsApart
  <2>2. message'.wamid => message'.status = "sent" /\ posting = "answered"
      BY <1>3 DEF CommitMessage
  <2> QED
      BY <1>3, <2>1, <2>2, SendingKeeps DEF CommitMessage
<1>4. CASE Progress
    BY <1>4, SendingKeeps DEF Progress, Statuses
<1> QED
    BY <1>1, <1>2, <1>3, <1>4

\* A webhook that begins, is lost, or goes on with the row it has.
LEMMA HookKeeps ==
    ASSUME DeliveryInv, NEW h \in Hooks, NEW k, hook' = [hook EXCEPT ![h] = k],
           k \in [news : Seq(Statuses), row : CustomerMessage \cup {NoRow},
                  loaded : CustomerMessage \cup {NoRow}, seen : SUBSET Statuses,
                  pc : {"new", "folding", "answered"}],
           k.news \in Seq(reached),
           k.row = NoRow => k.loaded = NoRow /\ k.seen = {},
           k.row # NoRow => /\ message # NoRow /\ message.wamid /\ FoldedWell(k)
                            /\ ~overwritten => Rank[k.loaded.status] <= Rank[message.status],
           UNCHANGED <<message, posting, reached, folded, overwritten>>
    PROVE  DeliveryInv'
<1> USE DEF DeliveryInv
<1>1. DeliveryTypes'
    BY DEF DeliveryTypes
<1>2. hook'[h] = k /\ \A g \in Hooks \ {h} : hook'[g] = hook[g]
    BY DEF DeliveryTypes
<1>3. ToldWhenReached'
    BY <1>2 DEF ToldWhenReached
<1>4. RowsFound'
  <2>1. \A g \in Hooks :
          /\ hook'[g].row = NoRow => hook'[g].loaded = NoRow /\ hook'[g].seen = {}
          /\ hook'[g].row # NoRow =>
               /\ message # NoRow /\ message.wamid /\ FoldedWell(hook'[g])
               /\ ~overwritten => Rank[hook'[g].loaded.status] <= Rank[message.status]
      BY <1>2 DEF RowsFound
  <2> QED
      BY <2>1 DEF RowsFound, FoldedWell
<1>5. DeliveryStatusHonest'
    BY DEF DeliveryStatusHonest
<1> QED
    BY <1>1, <1>3, <1>4, <1>5

LEMMA ReceiveWebhookKeeps == ASSUME DeliveryInv, NEW h \in Hooks, ReceiveWebhook(h) PROVE DeliveryInv'
<1>0. PICK n \in 1..MaxNews : \E news \in [1..n -> reached] :
        hook' = [hook EXCEPT ![h] = [Silent EXCEPT !.news = news, !.pc = "folding"]]
    BY DEF ReceiveWebhook
<1>1. PICK news \in [1..n -> reached] :
        hook' = [hook EXCEPT ![h] = [Silent EXCEPT !.news = news, !.pc = "folding"]]
    BY <1>0
<1> DEFINE k == [Silent EXCEPT !.news = news, !.pc = "folding"]
<1>2. n \in Nat /\ news \in Seq(reached)
    BY <1>1, DeliveryAssumption
<1>3. reached \subseteq Statuses
    BY DEF DeliveryInv, DeliveryTypes
<1>4. news \in Seq(Statuses)
    BY <1>2, <1>3
<1>5. /\ k.news = news /\ k.row = NoRow /\ k.loaded = NoRow /\ k.seen = {}
      /\ k \in [news : Seq(Statuses), row : CustomerMessage \cup {NoRow},
                loaded : CustomerMessage \cup {NoRow}, seen : SUBSET Statuses,
                pc : {"new", "folding", "answered"}]
    BY <1>4 DEF Silent
<1>6. hook' = [hook EXCEPT ![h] = k]
    BY <1>1
<1> HIDE DEF k
<1> QED
    BY <1>2, <1>5, <1>6, HookKeeps DEF ReceiveWebhook

LEMMA LoseWebhookKeeps == ASSUME DeliveryInv, NEW h \in Hooks, LoseWebhook(h) PROVE DeliveryInv'
    BY HookKeeps, SilentIs DEF LoseWebhook

\* Only a higher rank moves the row.
LEMMA FoldedIs ==
    ASSUME NEW s \in Statuses, NEW t \in Statuses
    PROVE  /\ Folded(s, t) \in {s, t}
           /\ Rank[s] <= Rank[Folded(s, t)] /\ Rank[t] <= Rank[Folded(s, t)]
    BY RankIs DEF Folded

LEMMA ApplyKeeps == ASSUME DeliveryInv, NEW h \in Hooks, ApplyStatusUpdate(h) PROVE DeliveryInv'
<1> DEFINE old == hook[h]
           next == Head(old.news)
           new == old.row = NoRow /\ message # NoRow /\ message.wamid
           row == IF new THEN message ELSE old.row
           k == [old EXCEPT !.news = Tail(@),
                            !.loaded = IF new THEN message ELSE @,
                            !.row = IF row = NoRow THEN NoRow ELSE [row EXCEPT !.status = Folded(@, next)],
                            !.seen = IF row = NoRow THEN @ ELSE @ \cup {next}]
<1>1. /\ hook' = [hook EXCEPT ![h] = k] /\ old.news # <<>>
      /\ UNCHANGED <<message, posting, reached, folded, overwritten>>
  <2>1. hook \in [Hooks -> [news : Seq(Statuses), row : CustomerMessage \cup {NoRow},
                            loaded : CustomerMessage \cup {NoRow}, seen : SUBSET Statuses,
                            pc : {"new", "folding", "answered"}]]
      BY DEF DeliveryInv, DeliveryTypes
  <2> QED
      BY <2>1 DEF ApplyStatusUpdate
<1>2. /\ old.news \in Seq(reached) /\ old.row \in CustomerMessage \cup {NoRow}
      /\ old.loaded \in CustomerMessage \cup {NoRow} /\ old.seen \subseteq Statuses
      /\ old.pc \in {"new", "folding", "answered"} /\ DOMAIN old = {"news", "row", "loaded", "seen", "pc"}
      /\ old = [n \in DOMAIN old |-> old[n]]
      /\ message \in CustomerMessage \cup {NoRow} /\ reached \subseteq Statuses
    BY DEF DeliveryInv, DeliveryTypes, ToldWhenReached
<1>3. /\ old.row = NoRow => old.loaded = NoRow /\ old.seen = {}
      /\ old.row # NoRow => /\ message # NoRow /\ message.wamid /\ FoldedWell(old)
                            /\ ~overwritten => Rank[old.loaded.status] <= Rank[message.status]
    BY DEF DeliveryInv, RowsFound
<1>4. message # NoRow /\ message.wamid => message.status \in reached
    BY DEF DeliveryInv, DeliveryStatusHonest
<1> HIDE DEF old
<1>5. next \in reached /\ Tail(old.news) \in Seq(reached) /\ Tail(old.news) \in Seq(Statuses)
    BY <1>1, <1>2
<1> HIDE DEF next
<1>6. /\ row \in CustomerMessage \cup {NoRow}
      /\ row # NoRow => /\ message # NoRow /\ message.wamid /\ row.wamid /\ row.status \in reached
    BY <1>2, <1>3, <1>4 DEF FoldedWell
<1>7. /\ k.news = Tail(old.news) /\ k.pc = old.pc
      /\ k.loaded = IF new THEN message ELSE old.loaded
      /\ k.row = IF row = NoRow THEN NoRow ELSE [row EXCEPT !.status = Folded(row.status, next)]
      /\ k.seen = IF row = NoRow THEN old.seen ELSE old.seen \cup {next}
      /\ DOMAIN k = {"news", "row", "loaded", "seen", "pc"} /\ k = [n \in DOMAIN k |-> k[n]]
    BY <1>2
<1>8. CASE row = NoRow
  <2>1. k.row = NoRow /\ k.loaded = NoRow /\ k.seen = {} /\ old.row = NoRow
      BY <1>3, <1>7, <1>8
  <2> HIDE DEF k, row, new
  <2>2. k \in [news : Seq(Statuses), row : CustomerMessage \cup {NoRow},
               loaded : CustomerMessage \cup {NoRow}, seen : SUBSET Statuses,
               pc : {"new", "folding", "answered"}]
      BY <1>2, <1>5, <1>7, <2>1
  <2> QED
      BY <1>1, <1>5, <1>7, <2>1, <2>2, HookKeeps
<1>9. CASE row # NoRow
  <2> DEFINE f == Folded(row.status, next)
  <2>1. row \in CustomerMessage /\ row.status \in Statuses
      BY <1>6, <1>9 DEF CustomerMessage
  <2>2. /\ f \in {row.status, next} /\ f \in reached
        /\ Rank[row.status] <= Rank[f] /\ Rank[next] <= Rank[f]
      BY <1>2, <1>5, <1>6, <1>9, <2>1, FoldedIs
  <2> HIDE DEF f
  <2>3. /\ k.row \in CustomerMessage /\ k.row.wamid = row.wamid /\ k.row.status = f /\ k.row # NoRow
    <3>1. k.row = [row EXCEPT !.status = f]
        BY <1>7, <1>9 DEF f
    <3> HIDE DEF k, row
    <3>2. f \in Statuses
        BY <1>2, <2>2
    <3> QED
        BY <2>1, <3>1, <3>2, NoRowIsApart DEF CustomerMessage
  <2>4. /\ k.loaded \in CustomerMessage /\ k.loaded.wamid
        /\ k.loaded.status \in Statuses
        /\ ~overwritten => Rank[k.loaded.status] <= Rank[message.status]
        /\ row.status \in old.seen \cup {k.loaded.status} /\ old.seen \subseteq reached
        /\ \A s \in old.seen \cup {k.loaded.status} : Rank[s] <= Rank[row.status]
    <3>1. CASE new
      <4>1. k.loaded = message /\ row = message /\ old.seen = {}
          BY <1>3, <1>7, <3>1
      <4>2. Rank[message.status] \in Nat
          BY <2>1, <4>1, RankIs
      <4> HIDE DEF k, row, new
      <4> QED
          BY <1>2, <1>6, <1>9, <2>1, <4>1, <4>2
    <3>2. CASE ~new
      <4>1. k.loaded = old.loaded /\ row = old.row /\ old.row # NoRow
          BY <1>7, <1>9, <3>2
      <4> HIDE DEF k, row, new
      <4> QED
          BY <1>2, <1>3, <4>1 DEF FoldedWell, CustomerMessage
    <3> QED
        BY <3>1, <3>2
  <2>5. k.seen = old.seen \cup {next}
      BY <1>7, <1>9
  <2> HIDE DEF k, row, new
  <2>6. FoldedWell(k)
    <3>1. \A s \in k.seen \cup {k.loaded.status} : Rank[s] <= Rank[f]
      <4>1. \A s \in old.seen \cup {k.loaded.status} : s \in Statuses
          BY <1>2, <2>4
      <4>2. f \in Statuses
          BY <1>2, <2>2
      <4>3. \A s \in old.seen \cup {k.loaded.status} : Rank[s] <= Rank[f]
          BY <2>1, <2>2, <2>4, <4>1, <4>2, RankIs
      <4> QED
          BY <2>2, <2>5, <4>3
    <3>2. k.loaded # NoRow
        BY <2>4, NoRowIsApart
    <3> QED
        BY <1>5, <1>6, <1>9, <2>2, <2>3, <2>4, <2>5, <3>1, <3>2 DEF FoldedWell
  <2>7. k \in [news : Seq(Statuses), row : CustomerMessage \cup {NoRow},
               loaded : CustomerMessage \cup {NoRow}, seen : SUBSET Statuses,
               pc : {"new", "folding", "answered"}]
      BY <1>2, <1>5, <1>7, <2>3, <2>4, <2>5
  <2> QED
      BY <1>1, <1>5, <1>6, <1>7, <1>9, <2>3, <2>4, <2>6, <2>7, HookKeeps
<1> QED
    BY <1>8, <1>9

LEMMA AnsweredIs ==
    ASSUME NEW done, done = [Silent EXCEPT !.pc = "answered"]
    PROVE  /\ done \in [news : Seq(Statuses), row : CustomerMessage \cup {NoRow},
                        loaded : CustomerMessage \cup {NoRow}, seen : SUBSET Statuses,
                        pc : {"new", "folding", "answered"}]
           /\ done.news = <<>> /\ done.row = NoRow /\ done.loaded = NoRow /\ done.seen = {}
<1>1. Silent \in [news : Seq(Statuses), row : CustomerMessage \cup {NoRow},
                 loaded : CustomerMessage \cup {NoRow}, seen : SUBSET Statuses,
                 pc : {"new", "folding", "answered"}]
    BY SilentIs
<1>2. Silent.news = <<>> /\ Silent.row = NoRow /\ Silent.loaded = NoRow /\ Silent.seen = {}
    BY DEF Silent
<1> QED
    BY <1>1, <1>2

LEMMA CommitWebhookKeeps == ASSUME DeliveryInv, NEW h \in Hooks, CommitWebhook(h) PROVE DeliveryInv'
<1> DEFINE k == hook[h]
           moved == k.row # k.loaded
           done == [Silent EXCEPT !.pc = "answered"]
<1>1. /\ message' = IF moved THEN [message EXCEPT !.status = k.row.status] ELSE message
      /\ overwritten' = (\/ overwritten
                         \/ moved /\ message # k.loaded /\ Rank[message'.status] < Rank[message.status])
      /\ folded' = folded \cup k.seen
      /\ hook' = [hook EXCEPT ![h] = done]
      /\ UNCHANGED <<posting, reached>>
    BY DEF CommitWebhook
<1>2. /\ k.row = NoRow => k.loaded = NoRow /\ k.seen = {}
      /\ k.row # NoRow => /\ message # NoRow /\ message.wamid /\ FoldedWell(k)
                          /\ ~overwritten => Rank[k.loaded.status] <= Rank[message.status]
      /\ k.row \in CustomerMessage \cup {NoRow} /\ k.loaded \in CustomerMessage \cup {NoRow}
      /\ k.seen \subseteq Statuses
      /\ message \in CustomerMessage \cup {NoRow} /\ reached \subseteq Statuses
    BY DEF DeliveryInv, RowsFound, DeliveryTypes
<1>3. /\ done \in [news : Seq(Statuses), row : CustomerMessage \cup {NoRow},
                   loaded : CustomerMessage \cup {NoRow}, seen : SUBSET Statuses,
                   pc : {"new", "folding", "answered"}]
      /\ done.news \in Seq(reached) /\ done.row = NoRow /\ done.loaded = NoRow /\ done.seen = {}
  <2>1. /\ done \in [news : Seq(Statuses), row : CustomerMessage \cup {NoRow},
                     loaded : CustomerMessage \cup {NoRow}, seen : SUBSET Statuses,
                     pc : {"new", "folding", "answered"}]
        /\ done.news = <<>> /\ done.row = NoRow /\ done.loaded = NoRow /\ done.seen = {}
      BY AnsweredIs
  <2> HIDE DEF done
  <2> QED
      BY <2>1
<1>4. hook'[h] = done /\ \A g \in Hooks \ {h} : hook'[g] = hook[g]
    BY <1>1 DEF DeliveryInv, DeliveryTypes
<1> HIDE DEF k, done
<1>5. CASE k.row = NoRow
  <2>1. message' = message /\ folded' = folded /\ overwritten' = overwritten
    <3>1. ~moved /\ k.seen = {}
        BY <1>2, <1>5
    <3>2. overwritten \in BOOLEAN
        BY DEF DeliveryInv, DeliveryTypes
    <3> HIDE DEF moved
    <3> QED
        BY <1>1, <3>1, <3>2
  <2> QED
      BY <1>1, <1>3, <2>1, HookKeeps
<1>6. CASE k.row # NoRow
  <2> DEFINE m == message.status
             n == message'.status
             l == k.loaded.status
             r == k.row.status
  <2>1. /\ message \in CustomerMessage /\ message.wamid /\ m \in Statuses /\ m \in reached
        /\ k.loaded \in CustomerMessage /\ k.row \in CustomerMessage
        /\ l \in Statuses /\ r \in Statuses
      BY <1>2, <1>6, NoRowIsApart DEF CustomerMessage, DeliveryInv, DeliveryStatusHonest, FoldedWell
  <2>2. k.seen \subseteq reached /\ r \in reached /\ r \in k.seen \cup {l}
        /\ k.row.wamid /\ k.loaded.wamid
        /\ (~overwritten => Rank[l] <= Rank[m])
        /\ \A s \in k.seen \cup {l} : Rank[s] <= Rank[r]
      BY <1>2, <1>6 DEF FoldedWell
  <2>3. /\ message' \in CustomerMessage /\ message'.wamid /\ message' # NoRow
        /\ n = IF moved THEN r ELSE m
      BY <1>1, <2>1, NoRowIsApart DEF CustomerMessage
  <2>4. ~moved => r = l
      OBVIOUS
  <2>5. moved => r # l
      BY <2>1, <2>2 DEF CustomerMessage
  <2>6. Rank[m] \in Nat /\ Rank[n] \in Nat /\ Rank[l] \in Nat /\ Rank[r] \in Nat
        /\ \A s \in Statuses : Rank[s] \in Nat
      BY <2>1, <2>3, RankIs
  <2>7. /\ ~overwritten => \A s \in folded \cup {"sent"} : Rank[s] <= Rank[m]
        /\ ~overwritten => m \in folded \cup {"sent"}
        /\ folded \subseteq reached /\ "sent" \in reached
      BY <1>2, <1>6, <2>1 DEF DeliveryInv, DeliveryStatusHonest, ToldWhenReached
  <2>8. overwritten => overwritten'
      BY <1>1
  <2>9. ~overwritten' => Rank[m] <= Rank[n] /\ Rank[l] <= Rank[m]
    <3> SUFFICES ASSUME ~overwritten' PROVE Rank[m] <= Rank[n] /\ Rank[l] <= Rank[m]
        OBVIOUS
    <3>1. Rank[l] <= Rank[m] /\ Rank[l] <= Rank[r]
        BY <2>2, <2>8
    <3>2. CASE ~moved
        BY <2>3, <2>6, <3>1, <3>2
    <3>3. CASE moved /\ message = k.loaded
        BY <2>3, <3>1, <3>3
    <3>4. CASE moved /\ message # k.loaded
        BY <1>1, <2>6, <3>1, <3>4
    <3> QED
        BY <3>2, <3>3, <3>4
  <2> HIDE DEF m, n, l, r
  <2>10. ~overwritten' => Rank[r] <= Rank[n]
    <3>1. CASE moved
        BY <2>3, <2>6, <3>1
    <3>2. CASE ~moved
        BY <2>4, <2>6, <2>9, <3>2
    <3> QED
        BY <3>1, <3>2
  <2> HIDE DEF moved
  <2>11. DeliveryStatusHonest'
    <3>1. n \in reached
        BY <2>1, <2>2, <2>3
    <3>2. ASSUME ~overwritten', NEW s \in folded' \cup {"sent"} PROVE Rank[s] <= Rank[n]
      <4>1. CASE s \in folded \cup {"sent"}
        <5>1. Rank[s] <= Rank[m] /\ Rank[s] \in Nat
            BY <1>2, <2>6, <2>7, <2>8, <3>2, <4>1
        <5> QED
            BY <2>6, <2>9, <3>2, <5>1
      <4>2. CASE s \in k.seen
        <5>1. Rank[s] <= Rank[r] /\ Rank[s] \in Nat
            BY <1>2, <2>2, <2>6, <4>2
        <5> QED
            BY <2>6, <2>10, <3>2, <5>1
      <4> QED
          BY <1>1, <3>2, <4>1, <4>2
    <3>3. ~overwritten' => n \in folded' \cup {"sent"}
        BY <1>1, <2>2, <2>3, <2>5, <2>7, <2>8
    <3> QED
        BY <1>1, <3>1, <3>2, <3>3 DEF DeliveryStatusHonest, n
  <2>12. ToldWhenReached'
    <3>1. \A g \in Hooks : hook'[g].news \in Seq(reached')
        BY <1>1, <1>3, <1>4 DEF DeliveryInv, ToldWhenReached
    <3>2. message # NoRow
        BY <2>1, NoRowIsApart
    <3> QED
        BY <1>1, <2>2, <2>3, <2>7, <3>1, <3>2 DEF DeliveryInv, ToldWhenReached
  <2>13. RowsFound'
    <3>1. ASSUME NEW g \in Hooks, hook'[g].row # NoRow
          PROVE  /\ FoldedWell(hook'[g])
                 /\ ~overwritten' => Rank[hook'[g].loaded.status] <= Rank[n]
      <4>1. g # h /\ hook'[g] = hook[g]
          BY <1>3, <1>4, <3>1
      <4>2. /\ FoldedWell(hook[g]) /\ hook[g].row # NoRow
            /\ ~overwritten => Rank[hook[g].loaded.status] <= Rank[m]
          BY <3>1, <4>1 DEF DeliveryInv, RowsFound, m
      <4>3. hook[g].loaded.status \in Statuses
          BY <4>2 DEF DeliveryInv, DeliveryTypes, CustomerMessage, FoldedWell
      <4>4. ~overwritten' => Rank[hook[g].loaded.status] <= Rank[n]
          BY <2>6, <2>8, <2>9, <4>2, <4>3
      <4> QED
          BY <1>1, <4>1, <4>2, <4>4 DEF FoldedWell
    <3>2. \A g \in Hooks : hook'[g].row = NoRow => hook'[g].loaded = NoRow /\ hook'[g].seen = {}
        BY <1>3, <1>4 DEF DeliveryInv, RowsFound
    <3>3. ASSUME NEW g \in Hooks, hook'[g].row # NoRow
          PROVE  FoldedWell(hook[g])'
        BY <1>1, <3>1, <3>3 DEF FoldedWell
    <3> QED
        BY <2>3, <3>1, <3>2, <3>3 DEF RowsFound, n
  <2>14. DeliveryTypes'
      BY <1>1, <1>3, <2>3 DEF DeliveryInv, DeliveryTypes
  <2> QED
      BY <2>11, <2>12, <2>13, <2>14 DEF DeliveryInv
<1> QED
    BY <1>5, <1>6

LEMMA DeliveryInvNext == DeliveryInv /\ [DeliveryNext]_deliveryVars => DeliveryInv'
<1> SUFFICES ASSUME DeliveryInv, [DeliveryNext]_deliveryVars PROVE DeliveryInv'
    OBVIOUS
<1>1. CASE Post \/ PostRefused \/ CommitMessage \/ LoseMessage \/ Progress
    BY <1>1, SendStepsKeep
<1>2. CASE \E h \in Hooks : ReceiveWebhook(h) \/ ApplyStatusUpdate(h) \/ CommitWebhook(h) \/ LoseWebhook(h)
    BY <1>2, ReceiveWebhookKeeps, ApplyKeeps, CommitWebhookKeeps, LoseWebhookKeeps
<1>3. CASE UNCHANGED deliveryVars
    BY <1>3 DEF deliveryVars, DeliveryInv, DeliveryTypes, ToldWhenReached, RowsFound, FoldedWell,
                DeliveryStatusHonest
<1> QED
    BY <1>1, <1>2, <1>3 DEF DeliveryNext

\* The status of a sent message is one that the provider reached, and the
\* highest of those its webhooks told, in whatever order and however often
\* receive_webhook is called, unless two of them folded into the same loaded row.
THEOREM HonestStatus == DeliverySpec => []DeliveryStatusHonest
<1>1. DeliveryInv => DeliveryStatusHonest
    BY DEF DeliveryInv
<1> QED
    BY <1>1, DeliveryInvInit, DeliveryInvNext, PTL DEF DeliverySpec

-----------------------------------------------------------------------------
(* Customers                                                                *)

VisitRecord == [kind : {"none", "intake", "given", "withdrawn"}, phone : Numbers \cup {NoNumber},
                name : Names \cup {NoOne}, subject : Nat \cup {NoOne}, consent : BOOLEAN, at : Nat,
                logs : Seq(Nat), owners : Nat, optIn : BOOLEAN,
                pc : {"new", "begun", "matched", "loaded", "done", "lost"}]
JobRecord == [phone : Numbers \cup {NoNumber}, name : Names \cup {NoOne}, owner : Nat \cup {NoOne}]

OwnersIn(cust, p) == {c \in DOMAIN cust : cust[c].phone = p}

\* How many consents of c the visit k saw when it began.
SeenOf(k, c) == IF c \in DOMAIN k.logs THEN k.logs[c] ELSE 0

\* Every consent is dated before what has begun since.
LogsBefore(cust, now) == \A c \in DOMAIN cust : \A i \in DOMAIN cust[c].log : cust[c].log[i].at < now

\* A visit saw what was recorded when it began, and loaded what was there then.
VisitIsWell(k, cust, now) ==
    /\ k.pc # "new" => k.at < now
    /\ \A c \in DOMAIN k.logs :
         /\ c \in DOMAIN cust /\ k.logs[c] <= Len(cust[c].log)
         /\ \A i \in 1..k.logs[c] : cust[c].log[i].at < k.at
    /\ k.pc = "loaded" \/ (k.pc = "begun" /\ k.kind # "intake") =>
         k.kind \in {"given", "withdrawn"} /\ k.subject \in DOMAIN cust
    /\ k.pc = "loaded" /\ Len(cust[k.subject].log) <= SeenOf(k, k.subject) =>
         k.optIn = cust[k.subject].optIn
    /\ k.kind = "intake" /\ k.pc = "matched" =>
         /\ k.subject # NoOne => k.subject \in OwnersIn(cust, k.phone)
         /\ k.subject = NoOne /\ k.consent => k.owners # 1
         /\ k.owners <= Cardinality(OwnersIn(cust, k.phone))

CustomersWell == customer \in Seq(CustomerRow) /\ begun \in Nat /\ LogsBefore(customer, begun)
VisitsWell == visit \in [Visits -> VisitRecord] /\ \A v \in Visits : VisitIsWell(visit[v], customer, begun)

\* The last consent of a customer is also the latest, unless it was outrun.
LastDecidesIn(row) ==
    /\ \A i \in 1..(Len(row.log) - 1) : row.log[i].at < row.log[Len(row.log)].at
    /\ row.optIn = (row.log # <<>> /\ row.log[Len(row.log)].kind = "given")
LastDecides == \A c \in DOMAIN customer \ outrun : LastDecidesIn(customer[c])

BackfillWell ==
    /\ DOMAIN backfill = {"jobs", "owner"} /\ backfill.jobs \subseteq Visits
    /\ \A v \in backfill.jobs : intake[v] \in JobRecord
    /\ \A p \in DOMAIN backfill.owner : backfill.owner[p] \in Owners(p)

CustomersInv ==
    /\ CustomersWell
    /\ VisitsWell
    /\ LastDecides
    /\ BackfillWell
    /\ intake \in [Visits -> JobRecord \cup {NoOne}]
    /\ OneCustomerPerPhone

\* Customers stay, keep their number, and their consents are only added to.
Grows(old, new) ==
    /\ old \in Seq(CustomerRow) /\ new \in Seq(CustomerRow)
    /\ DOMAIN old \subseteq DOMAIN new
    /\ \A c \in DOMAIN old :
         /\ new[c].phone = old[c].phone
         /\ Len(old[c].log) <= Len(new[c].log)
         /\ \A i \in 1..Len(old[c].log) : new[c].log[i] = old[c].log[i]
         /\ Len(old[c].log) = Len(new[c].log) => new[c].optIn = old[c].optIn

LEMMA RowIs ==
    ASSUME NEW cust \in Seq(CustomerRow), NEW c \in DOMAIN cust
    PROVE  /\ c \in Nat /\ cust[c] \in CustomerRow /\ cust[c].phone \in Numbers /\ cust[c].optIn \in BOOLEAN
           /\ cust[c].log \in Seq([kind : {"given", "withdrawn"}, at : Nat])
           /\ Len(cust[c].log) \in Nat /\ DOMAIN cust[c].log = 1..Len(cust[c].log)
           /\ \A i \in DOMAIN cust[c].log : cust[c].log[i].at \in Nat
<1>1. c \in Nat /\ cust[c] \in CustomerRow
    OBVIOUS
<1> DEFINE log == cust[c].log
           E == [kind : {"given", "withdrawn"}, at : Nat]
<1>2. cust[c].phone \in Numbers /\ cust[c].optIn \in BOOLEAN /\ log \in Seq(E)
    BY <1>1 DEF CustomerRow
<1>3. \A e \in E : e.at \in Nat
    OBVIOUS
<1> HIDE DEF log, E
<1>4. Len(log) \in Nat /\ DOMAIN log = 1..Len(log) /\ \A i \in DOMAIN log : log[i] \in E
    BY <1>2
<1> QED
    BY <1>1, <1>2, <1>3, <1>4 DEF log, E

LEMMA OwnersAreFinite ==
    ASSUME NEW cust \in Seq(CustomerRow), NEW p
    PROVE  /\ OwnersIn(cust, p) \subseteq DOMAIN cust /\ IsFiniteSet(OwnersIn(cust, p))
           /\ Cardinality(OwnersIn(cust, p)) \in Nat
<1>1. DOMAIN cust = 1..Len(cust) /\ Len(cust) \in Nat
    OBVIOUS
<1>2. IsFiniteSet(DOMAIN cust)
    BY <1>1, FS_Interval
<1>3. OwnersIn(cust, p) \subseteq DOMAIN cust
    BY DEF OwnersIn
<1> QED
    BY <1>2, <1>3, FS_Subset, FS_CardinalityType

LEMMA OwnersGrow ==
    ASSUME NEW old, NEW new, Grows(old, new), NEW p
    PROVE  /\ OwnersIn(old, p) \subseteq OwnersIn(new, p)
           /\ Cardinality(OwnersIn(old, p)) \in Nat /\ Cardinality(OwnersIn(new, p)) \in Nat
           /\ Cardinality(OwnersIn(old, p)) <= Cardinality(OwnersIn(new, p))
<1>1. OwnersIn(old, p) \subseteq OwnersIn(new, p)
    BY DEF Grows, OwnersIn
<1>2. old \in Seq(CustomerRow) /\ new \in Seq(CustomerRow)
    BY DEF Grows
<1>3. /\ IsFiniteSet(OwnersIn(new, p))
      /\ Cardinality(OwnersIn(old, p)) \in Nat /\ Cardinality(OwnersIn(new, p)) \in Nat
    BY <1>2, OwnersAreFinite
<1> QED
    BY <1>1, <1>3, FS_Subset

\* What others do leaves a visit as well as it was.
LEMMA VisitStays ==
    ASSUME NEW old, NEW new, Grows(old, new), NEW k \in VisitRecord, NEW t \in Nat, NEW u \in Nat, t <= u,
           VisitIsWell(k, old, t)
    PROVE  VisitIsWell(k, new, u)
<1>1. k.at \in Nat /\ k.owners \in Nat /\ k.logs \in Seq(Nat)
    BY DEF VisitRecord
<1>2. k.pc # "new" => k.at < u
    BY <1>1 DEF VisitIsWell
<1>3. \A c \in DOMAIN old : Len(old[c].log) \in Nat /\ c \in DOMAIN new /\ Len(new[c].log) \in Nat
    BY RowIs DEF Grows
<1>4. \A c \in DOMAIN k.logs : k.logs[c] \in Nat
    BY <1>1
<1>5. ASSUME NEW c \in DOMAIN k.logs
      PROVE  /\ c \in DOMAIN new /\ k.logs[c] <= Len(new[c].log)
             /\ \A i \in 1..k.logs[c] : new[c].log[i].at < k.at
  <2>1. /\ c \in DOMAIN old /\ k.logs[c] <= Len(old[c].log)
        /\ \A i \in 1..k.logs[c] : old[c].log[i].at < k.at
      BY DEF VisitIsWell
  <2>2. \A i \in 1..k.logs[c] : i \in 1..Len(old[c].log)
      BY <1>3, <1>4, <2>1
  <2>3. \A i \in 1..k.logs[c] : new[c].log[i].at < k.at
      BY <2>1, <2>2 DEF Grows
  <2>4. Len(old[c].log) <= Len(new[c].log)
      BY <2>1 DEF Grows
  <2> QED
      BY <1>3, <1>4, <2>1, <2>3, <2>4
<1>6. k.pc = "loaded" \/ (k.pc = "begun" /\ k.kind # "intake") =>
        k.kind \in {"given", "withdrawn"} /\ k.subject \in DOMAIN new
    BY DEF VisitIsWell, Grows
<1>7. ASSUME k.pc = "loaded", Len(new[k.subject].log) <= SeenOf(k, k.subject)
      PROVE  k.optIn = new[k.subject].optIn
  <2>1. k.subject \in DOMAIN old
      BY <1>7 DEF VisitIsWell
  <2>2. SeenOf(k, k.subject) \in Nat /\ SeenOf(k, k.subject) <= Len(old[k.subject].log)
      BY <1>3, <1>4, <2>1 DEF SeenOf, VisitIsWell
  <2>3. Len(old[k.subject].log) <= Len(new[k.subject].log)
      BY <2>1 DEF Grows
  <2>4. Len(old[k.subject].log) = Len(new[k.subject].log) /\ Len(old[k.subject].log) <= SeenOf(k, k.subject)
      BY <1>3, <1>7, <2>1, <2>2, <2>3
  <2> QED
      BY <1>7, <2>1, <2>4 DEF VisitIsWell, Grows
<1>8. k.kind = "intake" /\ k.pc = "matched" =>
        /\ k.subject # NoOne => k.subject \in OwnersIn(new, k.phone)
        /\ k.subject = NoOne /\ k.consent => k.owners # 1
        /\ k.owners <= Cardinality(OwnersIn(new, k.phone))
    BY <1>1, OwnersGrow DEF VisitIsWell
<1> QED
    BY <1>2, <1>5, <1>6, <1>7, <1>8 DEF VisitIsWell

LEMMA OwnersIs == \A p : Owners(p) = OwnersIn(customer, p)
    BY DEF Owners, OwnersIn

LEMMA GrowsNot == ASSUME CustomersInv, customer' = customer PROVE Grows(customer, customer')
<1>1. customer \in Seq(CustomerRow)
    BY DEF CustomersInv, CustomersWell
<1>2. \A c \in DOMAIN customer : Len(customer[c].log) <= Len(customer[c].log)
    BY <1>1, RowIs
<1> QED
    BY <1>1, <1>2 DEF Grows

\* The visits, whoever takes a step.
LEMMA VisitsKeep ==
    ASSUME CustomersInv, Grows(customer, customer'), begun' \in Nat, begun <= begun', LogsBefore(customer', begun'),
           \/ visit' = visit
           \/ \E v \in Visits, k \in VisitRecord :
                visit' = [visit EXCEPT ![v] = k] /\ VisitIsWell(k, customer', begun')
    PROVE  CustomersWell' /\ VisitsWell'
<1>1. \A v \in Visits : visit[v] \in VisitRecord /\ VisitIsWell(visit[v], customer, begun)
    BY DEF CustomersInv, VisitsWell
<1>2. \A v \in Visits : VisitIsWell(visit[v], customer', begun')
    BY <1>1, VisitStays DEF CustomersInv, CustomersWell
<1>3. CustomersWell'
    BY DEF CustomersWell, Grows
<1>4. visit' \in [Visits -> VisitRecord] /\ \A v \in Visits : VisitIsWell(visit'[v], customer', begun')
    BY <1>2 DEF CustomersInv, VisitsWell
<1> QED
    BY <1>3, <1>4 DEF VisitsWell

\* A step that records no consent and makes no customer.
LEMMA NothingRecorded ==
    ASSUME CustomersInv, UNCHANGED <<customer, outrun, raced>>, VisitsWell', CustomersWell',
           BackfillWell', intake' \in [Visits -> JobRecord \cup {NoOne}],
           \A v \in Visits : intake'[v] # NoOne /\ intake'[v].owner # NoOne
                               => intake'[v].owner \in Owners(intake'[v].phone)
    PROVE  CustomersInv'
<1>1. LastDecides'
    BY DEF CustomersInv, LastDecides
<1>2. OneCustomerPerPhone'
    BY DEF CustomersInv, OneCustomerPerPhone, Owners
<1> QED
    BY <1>1, <1>2 DEF CustomersInv

\* A step of one visit only.
LEMMA VisitingKeeps ==
    ASSUME CustomersInv, UNCHANGED <<customer, intake, backfill, raced, outrun>>, begun' \in Nat, begun <= begun',
           NEW v \in Visits, NEW k \in VisitRecord, visit' = [visit EXCEPT ![v] = k],
           VisitIsWell(k, customer, begun')
    PROVE  CustomersInv'
<1>1. Grows(customer, customer') /\ LogsBefore(customer', begun')
  <2>1. LogsBefore(customer, begun')
      BY RowIs DEF CustomersInv, CustomersWell, LogsBefore
  <2> QED
      BY <2>1, GrowsNot
<1>2. CustomersWell' /\ VisitsWell'
    BY <1>1, VisitsKeep
<1>3. BackfillWell'
    BY DEF CustomersInv, BackfillWell, Owners
<1> QED
    BY <1>2, <1>3, NothingRecorded DEF CustomersInv, OneCustomerPerPhone

-----------------------------------------------------------------------------
LEMMA MatchIs ==
    ASSUME CustomersInv, NEW p
    PROVE  /\ Owners(p) \subseteq DOMAIN customer /\ Owners(p) \subseteq Nat /\ Cardinality(Owners(p)) \in Nat
           /\ Match(p) \in Owners(p) \cup {NoOne}
           /\ Cardinality(Owners(p)) = 1 => Match(p) # NoOne
<1>1. customer \in Seq(CustomerRow)
    BY DEF CustomersInv, CustomersWell
<1>2. /\ Owners(p) \subseteq DOMAIN customer /\ IsFiniteSet(Owners(p))
      /\ Cardinality(Owners(p)) \in Nat
    BY <1>1, OwnersAreFinite, OwnersIs
<1>3. Owners(p) \subseteq Nat
    BY <1>1, <1>2, RowIs
<1>4. CASE Cardinality(Owners(p)) = 1
  <2>1. Owners(p) # {}
      BY <1>2, <1>4, FS_EmptySet
  <2>2. Match(p) \in Owners(p)
      BY <1>4, <2>1 DEF Match
  <2> QED
      BY <1>2, <1>3, <2>2, CustomersAssumption
<1>5. CASE Cardinality(Owners(p)) # 1
    BY <1>2, <1>3, <1>5 DEF Match
<1> QED
    BY <1>4, <1>5

LEMMA VisitIs ==
    ASSUME CustomersInv, NEW v \in Visits
    PROVE  /\ visit[v] \in VisitRecord /\ VisitIsWell(visit[v], customer, begun)
           /\ begun \in Nat /\ begun <= begun
    BY DEF CustomersInv, VisitsWell, CustomersWell

LEMMA MeetsKeeps ==
    ASSUME CustomersInv, NEW v \in Visits, NEW a \in VisitRecord, Meets(v, a),
           a.kind = "intake" \/ (a.kind \in {"given", "withdrawn"} /\ a.subject \in DOMAIN customer)
    PROVE  CustomersInv'
<1> DEFINE L == [c \in DOMAIN customer |-> Len(customer[c].log)]
           k == [a EXCEPT !.at = begun, !.pc = "begun", !.logs = L]
<1>1. begun \in Nat /\ customer \in Seq(CustomerRow) /\ LogsBefore(customer, begun)
    BY DEF CustomersInv, CustomersWell
<1>2. L \in Seq(Nat) /\ DOMAIN L = DOMAIN customer /\ \A c \in DOMAIN L : L[c] = Len(customer[c].log)
    BY <1>1, RowIs
<1> HIDE DEF L
<1>3. k \in VisitRecord /\ k.at = begun /\ k.pc = "begun" /\ k.logs = L /\ k.kind = a.kind /\ k.subject = a.subject
    BY <1>1, <1>2 DEF VisitRecord
<1>4. visit' = [visit EXCEPT ![v] = k] /\ begun' = begun + 1 /\ UNCHANGED <<customer, intake, backfill, raced, outrun>>
    BY DEF Meets, L
<1> HIDE DEF k
<1>5. ASSUME NEW c \in DOMAIN k.logs
      PROVE  /\ c \in DOMAIN customer /\ k.logs[c] <= Len(customer[c].log)
             /\ \A i \in 1..k.logs[c] : customer[c].log[i].at < k.at
    BY <1>1, <1>2, <1>3, RowIs DEF LogsBefore
<1>6. VisitIsWell(k, customer, begun')
    BY <1>1, <1>3, <1>4, <1>5 DEF VisitIsWell
<1>7. begun' \in Nat /\ begun <= begun'
    BY <1>1, <1>4
<1> QED
    BY <1>3, <1>4, <1>6, <1>7, VisitingKeeps

LEMMA AskingKeeps == ASSUME CustomersInv, NEW v \in Visits, CreateJob(v) \/ AskConsent(v) PROVE CustomersInv'
<1>0. NotVisited \in VisitRecord
    BY DEF NotVisited, VisitRecord
<1>1. CASE CreateJob(v)
  <2>1. PICK p \in Numbers \cup {NoNumber}, n \in Names, chip \in BOOLEAN :
          Meets(v, [NotVisited EXCEPT !.kind = "intake", !.phone = p, !.name = n, !.consent = chip])
      BY <1>1 DEF CreateJob
  <2> DEFINE a == [NotVisited EXCEPT !.kind = "intake", !.phone = p, !.name = n, !.consent = chip]
  <2>2. a \in VisitRecord /\ a.kind = "intake"
      BY <1>0 DEF VisitRecord
  <2> HIDE DEF a
  <2> QED
      BY <2>1, <2>2, MeetsKeeps DEF a
<1>2. CASE AskConsent(v)
  <2>1. PICK c \in DOMAIN customer, kd \in {"given", "withdrawn"} :
          Meets(v, [NotVisited EXCEPT !.kind = kd, !.subject = c])
      BY <1>2 DEF AskConsent
  <2> DEFINE a == [NotVisited EXCEPT !.kind = kd, !.subject = c]
  <2>2. c \in Nat
      BY RowIs DEF CustomersInv, CustomersWell
  <2>3. a \in VisitRecord /\ a.kind = kd /\ a.subject = c
      BY <1>0, <2>2 DEF VisitRecord
  <2> HIDE DEF a
  <2> QED
      BY <2>1, <2>3, MeetsKeeps DEF a
<1> QED
    BY <1>1, <1>2

LEMMA MatchIntakeKeeps == ASSUME CustomersInv, NEW v \in Visits, MatchIntake(v) PROVE CustomersInv'
<1> DEFINE old == visit[v]
           m == Match(old.phone)
           loaded == m # NoOne /\ customer[m].optIn
           n == Cardinality(Owners(old.phone))
           k == [old EXCEPT !.subject = m, !.pc = "matched", !.optIn = loaded, !.owners = n]
<1>1. old \in VisitRecord /\ VisitIsWell(old, customer, begun) /\ begun \in Nat /\ begun <= begun
    BY VisitIs
<1>2. /\ Owners(old.phone) \subseteq Nat /\ Owners(old.phone) \subseteq DOMAIN customer /\ n \in Nat
      /\ m \in Owners(old.phone) \cup {NoOne} /\ (n = 1 => m # NoOne)
    BY MatchIs
<1>3. /\ visit' = [visit EXCEPT ![v] = k] /\ old.kind = "intake" /\ old.pc = "begun"
      /\ UNCHANGED <<customer, intake, backfill, raced, outrun, begun>>
  <2>1. visit[v] = old
      OBVIOUS
  <2> QED
      BY <2>1 DEF MatchIntake, CustomersInv, VisitsWell
<1>4. loaded \in BOOLEAN /\ n = Cardinality(OwnersIn(customer, old.phone))
      /\ Owners(old.phone) = OwnersIn(customer, old.phone)
    BY OwnersIs
<1> HIDE DEF old, m, loaded, n
<1>5. /\ k \in VisitRecord /\ k.kind = old.kind /\ k.at = old.at /\ k.logs = old.logs /\ k.subject = m
      /\ k.phone = old.phone /\ k.owners = n /\ k.pc = "matched"
    BY <1>1, <1>2, <1>4 DEF VisitRecord
<1> HIDE DEF k
<1>6. VisitIsWell(k, customer, begun)
    BY <1>1, <1>2, <1>3, <1>4, <1>5 DEF VisitIsWell
<1> QED
    BY <1>1, <1>3, <1>5, <1>6, VisitingKeeps

LEMMA ConsentFailsKeeps == ASSUME CustomersInv, NEW v \in Visits, ConsentFails(v) PROVE CustomersInv'
<1> DEFINE old == visit[v]
           m == Match(old.phone)
           k == [old EXCEPT !.consent = FALSE, !.subject = m]
<1>1. old \in VisitRecord /\ VisitIsWell(old, customer, begun) /\ begun \in Nat /\ begun <= begun
    BY VisitIs
<1>2. Owners(old.phone) \subseteq Nat /\ m \in Owners(old.phone) \cup {NoOne}
      /\ Owners(old.phone) = OwnersIn(customer, old.phone)
    BY MatchIs, OwnersIs
<1>3. /\ visit' = [visit EXCEPT ![v] = k] /\ old.kind = "intake" /\ old.pc = "matched"
      /\ UNCHANGED <<customer, intake, backfill, raced, outrun, begun>>
  <2>1. visit[v] = old
      OBVIOUS
  <2> QED
      BY <2>1 DEF ConsentFails, Matched, CustomersInv, VisitsWell
<1> HIDE DEF old, m
<1>4. /\ k \in VisitRecord /\ k.kind = old.kind /\ k.at = old.at /\ k.logs = old.logs /\ k.subject = m
      /\ k.phone = old.phone /\ k.owners = old.owners /\ k.pc = "matched" /\ k.consent = FALSE
    BY <1>1, <1>2, <1>3 DEF VisitRecord
<1> HIDE DEF k
<1>5. VisitIsWell(k, customer, begun)
    BY <1>1, <1>2, <1>3, <1>4 DEF VisitIsWell
<1> QED
    BY <1>1, <1>3, <1>4, <1>5, VisitingKeeps

LEMMA LoadCustomerKeeps == ASSUME CustomersInv, NEW v \in Visits, LoadCustomer(v) PROVE CustomersInv'
<1> DEFINE old == visit[v]
           k == [old EXCEPT !.optIn = customer[old.subject].optIn, !.pc = "loaded"]
<1>1. old \in VisitRecord /\ VisitIsWell(old, customer, begun) /\ begun \in Nat /\ begun <= begun
    BY VisitIs
<1>2. /\ visit' = [visit EXCEPT ![v] = k] /\ old.kind \in {"given", "withdrawn"} /\ old.pc = "begun"
      /\ UNCHANGED <<customer, intake, backfill, raced, outrun, begun>>
    BY DEF LoadCustomer, CustomersInv, VisitsWell
<1> HIDE DEF old
<1>3. old.subject \in DOMAIN customer /\ customer[old.subject].optIn \in BOOLEAN
    BY <1>1, <1>2, RowIs DEF VisitIsWell, CustomersInv, CustomersWell
<1>4. /\ k \in VisitRecord /\ k.kind = old.kind /\ k.at = old.at /\ k.logs = old.logs
      /\ k.subject = old.subject /\ k.pc = "loaded" /\ k.optIn = customer[old.subject].optIn
    BY <1>1, <1>3 DEF VisitRecord
<1> HIDE DEF k
<1>5. VisitIsWell(k, customer, begun)
    BY <1>1, <1>2, <1>3, <1>4 DEF VisitIsWell
<1> QED
    BY <1>1, <1>2, <1>4, <1>5, VisitingKeeps

\* A visit that is over asks for nothing more.
LEMMA EndsWell ==
    ASSUME NEW cust, NEW now, NEW k \in VisitRecord, VisitIsWell(k, cust, now), k.pc # "new",
           NEW next \in {"done", "lost"}
    PROVE  /\ [k EXCEPT !.pc = next] \in VisitRecord
           /\ VisitIsWell([k EXCEPT !.pc = next], cust, now)
<1> DEFINE e == [k EXCEPT !.pc = next]
<1>1. e \in VisitRecord /\ e.kind = k.kind /\ e.at = k.at /\ e.logs = k.logs /\ e.pc = next
    BY DEF VisitRecord
<1> HIDE DEF e
<1>2. VisitIsWell(e, cust, now)
    BY <1>1 DEF VisitIsWell
<1> QED
    BY <1>1, <1>2 DEF e

LEMMA LoseVisitKeeps == ASSUME CustomersInv, NEW v \in Visits, LoseVisit(v) PROVE CustomersInv'
<1>1. /\ visit[v] \in VisitRecord /\ VisitIsWell(visit[v], customer, begun) /\ visit[v].pc # "new"
      /\ begun \in Nat /\ begun <= begun
    BY VisitIs DEF LoseVisit
<1> DEFINE k == [visit[v] EXCEPT !.pc = "lost"]
<1>2. k \in VisitRecord /\ VisitIsWell(k, customer, begun)
    BY <1>1, EndsWell
<1>3. visit' = [visit EXCEPT ![v] = k] /\ UNCHANGED <<customer, intake, backfill, raced, outrun, begun>>
    BY DEF LoseVisit, VisitGoes, CustomersInv, VisitsWell
<1> HIDE DEF k
<1> QED
    BY <1>1, <1>2, <1>3, VisitingKeeps

-----------------------------------------------------------------------------
\* A visit's commit: what customers become, and the visit itself.
LEMMA CommitsWell ==
    ASSUME CustomersInv, NEW v \in Visits, visit[v].pc # "new", VisitGoes(v, "done"), begun' = begun,
           Grows(customer, customer'), LogsBefore(customer', begun)
    PROVE  CustomersWell' /\ VisitsWell'
<1> DEFINE k == [visit[v] EXCEPT !.pc = "done"]
<1>1. /\ visit[v] \in VisitRecord /\ VisitIsWell(visit[v], customer, begun)
      /\ begun \in Nat /\ begun <= begun
    BY VisitIs
<1>2. VisitIsWell(visit[v], customer', begun)
    BY <1>1, VisitStays
<1>3. k \in VisitRecord /\ VisitIsWell(k, customer', begun)
    BY <1>1, <1>2, EndsWell
<1>4. visit' = [visit EXCEPT ![v] = k]
    BY DEF VisitGoes, CustomersInv, VisitsWell
<1> HIDE DEF k
<1> QED
    BY <1>1, <1>3, <1>4, VisitsKeep

\* The job is created with an owner of its number, or none.
LEMMA JobBelongs ==
    ASSUME CustomersInv, NEW v \in Visits, NEW o \in Nat \cup {NoOne}, intake' = [intake EXCEPT ![v] = Job(v, o)],
           o # NoOne => o \in OwnersIn(customer', visit[v].phone), Grows(customer, customer'), UNCHANGED backfill
    PROVE  /\ BackfillWell' /\ intake' \in [Visits -> JobRecord \cup {NoOne}]
           /\ \A w \in Visits : intake'[w] # NoOne /\ intake'[w].owner # NoOne
                               => intake'[w].owner \in OwnersIn(customer', intake'[w].phone)
<1>1. \A p : OwnersIn(customer, p) \subseteq OwnersIn(customer', p)
    BY OwnersGrow
<1> DEFINE j == Job(v, o)
<1>2. j \in JobRecord /\ j.owner = o /\ j.phone = visit[v].phone
    BY VisitIs DEF Job, JobRecord, VisitRecord
<1> HIDE DEF j
<1>3. /\ intake' \in [Visits -> JobRecord \cup {NoOne}]
      /\ intake'[v] = j /\ \A w \in Visits \ {v} : intake'[w] = intake[w]
    BY <1>2 DEF CustomersInv, j
<1>4. \A p \in DOMAIN backfill.owner : backfill.owner[p] \in OwnersIn(customer', p)
    BY <1>1, OwnersIs DEF CustomersInv, BackfillWell
<1>5. BackfillWell'
  <2>1. \A w \in backfill.jobs : intake'[w] \in JobRecord
      BY <1>2, <1>3 DEF CustomersInv, BackfillWell
  <2>2. \A p : Owners(p)' = OwnersIn(customer', p)
      BY DEF Owners, OwnersIn
  <2> QED
      BY <1>4, <2>1, <2>2 DEF CustomersInv, BackfillWell
<1>6. ASSUME NEW w \in Visits, intake'[w] # NoOne, intake'[w].owner # NoOne
      PROVE  intake'[w].owner \in OwnersIn(customer', intake'[w].phone)
  <2>1. CASE w = v
      BY <1>2, <1>3, <1>6, <2>1
  <2>2. CASE w # v
      BY <1>1, <1>3, <1>6, <2>2, OwnersIs DEF CustomersInv, OneCustomerPerPhone
  <2> QED
      BY <2>1, <2>2
<1> QED
    BY <1>3, <1>5, <1>6

LEMMA CommitPlainKeeps == ASSUME CustomersInv, NEW v \in Visits, CommitPlain(v) PROVE CustomersInv'
<1> DEFINE o == visit[v].subject
<1>1. /\ visit[v].kind = "intake" /\ visit[v].pc = "matched" /\ VisitGoes(v, "done")
      /\ intake' = [intake EXCEPT ![v] = Job(v, o)]
      /\ UNCHANGED <<customer, begun, backfill, raced, outrun>>
    BY DEF CommitPlain, Matched
<1>2. Grows(customer, customer') /\ LogsBefore(customer', begun)
    BY <1>1, GrowsNot DEF CustomersInv, CustomersWell
<1>3. CustomersWell' /\ VisitsWell'
    BY <1>1, <1>2, CommitsWell
<1>4. o \in Nat \cup {NoOne} /\ (o # NoOne => o \in OwnersIn(customer', visit[v].phone))
    BY <1>1, VisitIs DEF VisitIsWell, VisitRecord
<1>5. /\ BackfillWell' /\ intake' \in [Visits -> JobRecord \cup {NoOne}]
      /\ \A w \in Visits : intake'[w] # NoOne /\ intake'[w].owner # NoOne
                          => intake'[w].owner \in OwnersIn(customer', intake'[w].phone)
    BY <1>1, <1>2, <1>4, JobBelongs
<1>6. \A p : OwnersIn(customer', p) = Owners(p)
    BY <1>1, OwnersIs
<1> QED
    BY <1>1, <1>3, <1>5, <1>6, NothingRecorded

\* record_consent: the column follows the log, unless the visit was overtaken.
LEMMA Consenting ==
    ASSUME CustomersInv, NEW v \in Visits, visit[v].pc # "new", NEW c \in DOMAIN customer,
           NEW kd \in {"given", "withdrawn"}, NEW loaded \in BOOLEAN,
           customer' = [customer EXCEPT ![c] = Consented(@, kd, visit[v].at, loaded)],
           Recorded(v, c),
           kd = "withdrawn" /\ Len(customer[c].log) <= SeenOf(visit[v], c) => loaded = customer[c].optIn
    PROVE  /\ Grows(customer, customer') /\ LogsBefore(customer', begun) /\ LastDecides'
           /\ \A p : OwnersIn(customer', p) = OwnersIn(customer, p)
<1> DEFINE row == customer[c]
           e == [kind |-> kd, at |-> visit[v].at]
           new == Consented(row, kd, visit[v].at, loaded)
           at == visit[v].at
           E == [kind : {"given", "withdrawn"}, at : Nat]
<1>1. /\ customer \in Seq(CustomerRow) /\ begun \in Nat /\ LogsBefore(customer, begun)
      /\ visit[v] \in VisitRecord /\ VisitIsWell(visit[v], customer, begun)
    BY VisitIs DEF CustomersInv, CustomersWell
<1>2. /\ row \in CustomerRow /\ row.log \in Seq(E) /\ row.phone \in Numbers /\ row.optIn \in BOOLEAN
      /\ Len(row.log) \in Nat /\ DOMAIN row.log = 1..Len(row.log)
      /\ \A i \in DOMAIN row.log : row.log[i].at \in Nat
    BY <1>1, RowIs
<1>3. at \in Nat /\ at < begun
    BY <1>1 DEF VisitIsWell, VisitRecord
<1>4. e \in E /\ e.at = at /\ e.kind = kd
    BY <1>3
<1>5. customer' = [customer EXCEPT ![c] = new]
    OBVIOUS
<1> DEFINE optIn == Stamp(kd, loaded, row.optIn)
<1>6. optIn = IF kd = "given" THEN TRUE ELSE IF loaded THEN FALSE ELSE row.optIn
    BY DEF Stamp
<1>7. new = [row EXCEPT !.optIn = optIn, !.log = Append(row.log, e)]
    BY DEF Consented
<1> HIDE DEF row, e, new, at, E, optIn
<1>8. /\ Append(row.log, e) \in Seq(E) /\ Len(Append(row.log, e)) = Len(row.log) + 1
      /\ \A i \in 1..Len(row.log) : Append(row.log, e)[i] = row.log[i]
      /\ Append(row.log, e)[Len(row.log) + 1] = e
      /\ DOMAIN Append(row.log, e) = 1..(Len(row.log) + 1)
    BY <1>2, <1>4
<1>9. optIn \in BOOLEAN
    BY <1>2, <1>6
<1>10. /\ new \in CustomerRow /\ new.phone = row.phone /\ new.optIn = optIn /\ new.log = Append(row.log, e)
    BY <1>2, <1>7, <1>8, <1>9 DEF CustomerRow, E
<1>11. /\ customer' \in Seq(CustomerRow) /\ DOMAIN customer' = DOMAIN customer
       /\ customer'[c] = new /\ \A d \in DOMAIN customer \ {c} : customer'[d] = customer[d]
    BY <1>1, <1>5, <1>10
<1>12. Grows(customer, customer')
  <2>1. ASSUME NEW d \in DOMAIN customer
        PROVE  /\ customer'[d].phone = customer[d].phone
               /\ Len(customer[d].log) <= Len(customer'[d].log)
               /\ \A i \in 1..Len(customer[d].log) : customer'[d].log[i] = customer[d].log[i]
               /\ Len(customer[d].log) = Len(customer'[d].log) => customer'[d].optIn = customer[d].optIn
    <3>1. CASE d = c
        BY <1>2, <1>8, <1>10, <1>11, <3>1 DEF row
    <3>2. CASE d # c
        BY <1>1, <1>11, <3>2, RowIs
    <3> QED
        BY <3>1, <3>2
  <2> QED
      BY <1>1, <1>11, <2>1 DEF Grows
<1>13. LogsBefore(customer', begun)
  <2>1. ASSUME NEW i \in DOMAIN new.log PROVE new.log[i].at < begun
    <3>1. \A n \in DOMAIN row.log : row.log[n].at < begun
        BY <1>1 DEF LogsBefore, row
    <3> QED
        BY <1>2, <1>3, <1>4, <1>8, <1>10, <2>1, <3>1
  <2> QED
      BY <1>1, <1>11, <2>1 DEF LogsBefore
<1>14. \A p : OwnersIn(customer', p) = OwnersIn(customer, p)
    BY <1>10, <1>11 DEF OwnersIn, row
<1>15. ASSUME NEW d \in DOMAIN customer' \ outrun' PROVE LastDecidesIn(customer'[d])
  <2>1. CASE d # c
    <3>1. d \in DOMAIN customer \ outrun
        BY <1>11, <1>15, <2>1 DEF Recorded
    <3> QED
        BY <1>11, <2>1, <3>1 DEF CustomersInv, LastDecides
  <2>2. CASE d = c
    <3>1. ~Overtaken(v, c)
        BY <1>15, <2>2 DEF Recorded
    <3>2. SeenOf(visit[v], c) \in Nat
        BY <1>1 DEF SeenOf, VisitRecord
    <3>3. Len(row.log) <= SeenOf(visit[v], c)
        BY <1>2, <3>1, <3>2 DEF Overtaken, SeenOf, row
    <3>4. \A i \in 1..Len(row.log) : row.log[i].at < at
      <4>1. CASE c \in DOMAIN visit[v].logs
        <5>1. visit[v].logs[c] = Len(row.log)
            BY <1>1, <1>2, <3>2, <3>3, <4>1 DEF SeenOf, VisitIsWell, row
        <5> QED
            BY <1>1, <4>1, <5>1 DEF VisitIsWell, row, at
      <4>2. CASE c \notin DOMAIN visit[v].logs
          BY <1>2, <3>3, <4>2 DEF SeenOf
      <4> QED
          BY <4>1, <4>2
    <3>5. optIn = (kd = "given")
      <4>1. CASE kd = "given"
          BY <1>6, <4>1
      <4>2. CASE kd = "withdrawn"
        <5>1. loaded = row.optIn
            BY <3>3, <4>2 DEF row
        <5> QED
            BY <1>6, <4>2, <5>1
      <4> QED
          BY <4>1, <4>2
    <3>6. \A i \in 1..(Len(new.log) - 1) : new.log[i].at < new.log[Len(new.log)].at
        BY <1>2, <1>4, <1>8, <1>10, <3>4
    <3>7. new.log # <<>> /\ new.log[Len(new.log)].kind = kd
        BY <1>2, <1>4, <1>8, <1>10
    <3> QED
        BY <1>10, <1>11, <2>2, <3>5, <3>6, <3>7 DEF LastDecidesIn
  <2> QED
      BY <2>1, <2>2
<1> QED
    BY <1>12, <1>13, <1>14, <1>15 DEF LastDecides

LEMMA OneStays ==
    ASSUME CustomersInv, UNCHANGED raced, \A p : OwnersIn(customer', p) = OwnersIn(customer, p),
           \A w \in Visits : intake'[w] # NoOne /\ intake'[w].owner # NoOne
                            => intake'[w].owner \in OwnersIn(customer', intake'[w].phone)
    PROVE  OneCustomerPerPhone'
<1>1. \A p : Owners(p)' = OwnersIn(customer', p) /\ Owners(p) = Owners(p)'
    BY DEF Owners, OwnersIn
<1> QED
    BY <1>1 DEF CustomersInv, OneCustomerPerPhone

LEMMA CommitConsentedKeeps == ASSUME CustomersInv, NEW v \in Visits, CommitConsented(v) PROVE CustomersInv'
<1> DEFINE c == visit[v].subject
           loaded == visit[v].optIn
<1>1. /\ visit[v].kind = "intake" /\ visit[v].pc = "matched" /\ VisitGoes(v, "done") /\ c # NoOne
      /\ customer' = [customer EXCEPT ![c] = Consented(@, "given", visit[v].at, loaded)]
      /\ intake' = [intake EXCEPT ![v] = Job(v, c)] /\ Recorded(v, c)
      /\ UNCHANGED <<begun, backfill, raced>>
    BY DEF CommitConsented, Matched
<1>2. /\ c \in OwnersIn(customer, visit[v].phone) /\ c \in DOMAIN customer /\ c \in Nat
      /\ loaded \in BOOLEAN
    BY <1>1, VisitIs DEF VisitIsWell, VisitRecord, OwnersIn
<1> HIDE DEF c, loaded
<1>3. /\ Grows(customer, customer') /\ LogsBefore(customer', begun) /\ LastDecides'
      /\ \A p : OwnersIn(customer', p) = OwnersIn(customer, p)
    BY <1>1, <1>2, Consenting
<1>4. CustomersWell' /\ VisitsWell'
    BY <1>1, <1>3, CommitsWell
<1>5. /\ BackfillWell' /\ intake' \in [Visits -> JobRecord \cup {NoOne}]
      /\ \A w \in Visits : intake'[w] # NoOne /\ intake'[w].owner # NoOne
                          => intake'[w].owner \in OwnersIn(customer', intake'[w].phone)
    BY <1>1, <1>2, <1>3, JobBelongs
<1>6. OneCustomerPerPhone'
    BY <1>1, <1>3, <1>5, OneStays
<1> QED
    BY <1>3, <1>4, <1>5, <1>6 DEF CustomersInv

LEMMA RecordConsentKeeps == ASSUME CustomersInv, NEW v \in Visits, RecordConsent(v) PROVE CustomersInv'
<1> DEFINE c == visit[v].subject
           loaded == visit[v].optIn
           kd == visit[v].kind
<1>1. /\ visit[v].pc = "loaded" /\ VisitGoes(v, "done")
      /\ customer' = [customer EXCEPT ![c] = Consented(@, kd, visit[v].at, loaded)]
      /\ Recorded(v, c)
      /\ UNCHANGED <<intake, begun, backfill, raced>>
    BY DEF RecordConsent
<1>2. /\ c \in DOMAIN customer /\ loaded \in BOOLEAN /\ kd \in {"given", "withdrawn"}
      /\ Len(customer[c].log) <= SeenOf(visit[v], c) => loaded = customer[c].optIn
    BY <1>1, VisitIs DEF VisitIsWell, VisitRecord
<1> HIDE DEF c, loaded, kd
<1>3. /\ Grows(customer, customer') /\ LogsBefore(customer', begun) /\ LastDecides'
      /\ \A p : OwnersIn(customer', p) = OwnersIn(customer, p)
    BY <1>1, <1>2, Consenting
<1>4. CustomersWell' /\ VisitsWell'
    BY <1>1, <1>3, CommitsWell
<1>5. \A w \in Visits : intake'[w] # NoOne /\ intake'[w].owner # NoOne
                          => intake'[w].owner \in OwnersIn(customer', intake'[w].phone)
    BY <1>1, <1>3, OwnersIs DEF CustomersInv, OneCustomerPerPhone
<1>6. OneCustomerPerPhone'
    BY <1>1, <1>3, <1>5, OneStays
<1>7. BackfillWell'
  <2>1. \A p : Owners(p)' = Owners(p)
      BY <1>3, OwnersIs DEF Owners, OwnersIn
  <2> QED
      BY <1>1, <2>1 DEF CustomersInv, BackfillWell
<1> QED
    BY <1>1, <1>3, <1>4, <1>6, <1>7 DEF CustomersInv

-----------------------------------------------------------------------------
\* A new customer is the first owner of its number, or somebody raced.
LEMMA Creating ==
    ASSUME CustomersInv, NEW p \in Numbers, NEW t \in Nat, NEW seen \in Nat, NEW log,
           log = <<>> \/ (log = <<[kind |-> "given", at |-> t]>> /\ t < begun),
           customer' = Append(customer, NewCustomer(p, log)), outrun' = outrun,
           seen # 1, seen <= Cardinality(Owners(p)), raced' = Races(p, seen)
    PROVE  /\ Grows(customer, customer') /\ LogsBefore(customer', begun) /\ LastDecides'
           /\ Len(customer) + 1 \in OwnersIn(customer', p)
           /\ \A q \in Numbers : Cardinality(OwnersIn(customer', q)) > 1 => q \in raced'
<1> DEFINE n == Len(customer) + 1
           new == NewCustomer(p, log)
<1>1. customer \in Seq(CustomerRow) /\ begun \in Nat /\ LogsBefore(customer, begun)
    BY DEF CustomersInv, CustomersWell
<1>2. /\ new.phone = p /\ new.log = log /\ new.optIn = (log # <<>>) /\ new \in CustomerRow
      /\ \A i \in DOMAIN log : log[i].at < begun
      /\ LastDecidesIn(new)
  <2>1. CASE log = <<>>
    <3>1. new.phone = p /\ new.log = <<>> /\ new.optIn = FALSE /\ new = [phone |-> p, optIn |-> FALSE, log |-> <<>>]
        BY <2>1 DEF NewCustomer
    <3>2. DOMAIN log = {} /\ Len(log) = 0
        BY <2>1
    <3>3. new \in CustomerRow
        BY <3>1 DEF CustomerRow
    <3> HIDE DEF new
    <3>4. LastDecidesIn(new)
      <4>1. \A i \in 1..(Len(new.log) - 1) : FALSE
        <5>1. Len(new.log) = 0
            BY <2>1, <3>1, <3>2
        <5> QED
            BY <5>1
      <4>2. new.log = <<>>
          BY <3>1
      <4> QED
          BY <3>1, <4>1, <4>2 DEF LastDecidesIn
    <3> QED
        BY <2>1, <3>1, <3>2, <3>3, <3>4
  <2>2. CASE log = <<[kind |-> "given", at |-> t]>> /\ t < begun
    <3> DEFINE e == [kind |-> "given", at |-> t]
               E == [kind : {"given", "withdrawn"}, at : Nat]
    <3>1. e \in E /\ e.at = t /\ e.kind = "given"
        OBVIOUS
    <3>2. log = <<e>>
        BY <2>2
    <3> HIDE DEF e, E
    <3>3. log \in Seq(E) /\ Len(log) = 1 /\ DOMAIN log = {1} /\ log[1] = e /\ log # <<>>
        BY <3>1, <3>2
    <3>4. new = [phone |-> p, optIn |-> TRUE, log |-> log]
        BY <3>3 DEF NewCustomer
    <3>5. new \in CustomerRow
        BY <3>3, <3>4 DEF CustomerRow, E
    <3>6. /\ new.phone = p /\ new.log = log /\ new.optIn = TRUE
          /\ \A i \in DOMAIN log : log[i].at < begun
        BY <3>1, <3>3, <3>4
    <3> HIDE DEF new
    <3>7. LastDecidesIn(new)
      <4>1. \A i \in 1..(Len(new.log) - 1) : FALSE
        <5>1. Len(new.log) = 1
            BY <3>3, <3>6
        <5> QED
            BY <5>1
      <4>2. new.log # <<>> /\ new.log[Len(new.log)].kind = "given"
          BY <3>1, <3>3, <3>6
      <4> QED
          BY <3>6, <4>1, <4>2 DEF LastDecidesIn
    <3> QED
        BY <3>3, <3>5, <3>6, <3>7
  <2> QED
      BY <2>1, <2>2
<1>3. customer' = Append(customer, new)
    OBVIOUS
<1> HIDE DEF new
<1>4. /\ customer' \in Seq(CustomerRow) /\ DOMAIN customer = 1..Len(customer)
      /\ DOMAIN customer' = DOMAIN customer \cup {n} /\ n \notin DOMAIN customer
      /\ customer'[n] = new /\ \A d \in DOMAIN customer : customer'[d] = customer[d]
      /\ Len(customer) \in Nat
    BY <1>1, <1>2, <1>3
<1> HIDE DEF n
<1>5. Grows(customer, customer')
  <2>1. \A d \in DOMAIN customer : Len(customer[d].log) <= Len(customer[d].log)
      BY <1>1, RowIs
  <2> QED
      BY <1>1, <1>4, <2>1 DEF Grows
<1>6. LogsBefore(customer', begun)
    BY <1>1, <1>2, <1>4 DEF LogsBefore
<1>7. LastDecides'
  <2>1. ASSUME NEW d \in DOMAIN customer' \ outrun PROVE LastDecidesIn(customer'[d])
      BY <1>2, <1>4 DEF CustomersInv, LastDecides
  <2> QED
      BY <2>1 DEF LastDecides
<1>8. /\ OwnersIn(customer', p) = OwnersIn(customer, p) \cup {n}
      /\ \A q : q # p => OwnersIn(customer', q) = OwnersIn(customer, q)
    BY <1>2, <1>4 DEF OwnersIn
<1>9. \A q : OwnersIn(customer, q) = Owners(q)
    BY OwnersIs
<1>10. ASSUME NEW q \in Numbers, Cardinality(OwnersIn(customer', q)) > 1 PROVE q \in raced'
  <2>1. raced \subseteq raced'
      BY DEF Races
  <2>2. \A r \in Numbers : Cardinality(Owners(r)) > 1 => r \in raced
      BY DEF CustomersInv, OneCustomerPerPhone
  <2>3. CASE q # p
      BY <1>8, <1>9, <1>10, <2>1, <2>2, <2>3
  <2>4. CASE q = p
    <3> DEFINE m == Cardinality(Owners(p))
    <3>1. m \in Nat /\ IsFiniteSet(Owners(p))
        BY <1>1, <1>9, OwnersAreFinite
    <3>2. CASE m > seen
        BY <2>4, <3>2 DEF Races
    <3>3. CASE m > 1
        BY <2>1, <2>2, <2>4, <3>3
    <3>4. CASE ~(m > seen) /\ ~(m > 1)
      <4>1. m = 0
          BY <3>1, <3>4
      <4>2. Owners(p) = {}
          BY <3>1, <4>1, FS_EmptySet
      <4>3. Cardinality(OwnersIn(customer', p)) = 1
        <5>1. OwnersIn(customer', p) = {n}
            BY <1>8, <1>9, <4>2
        <5> QED
            BY <5>1, FS_Singleton
      <4> QED
          BY <1>10, <2>4, <4>3
    <3> QED
        BY <3>2, <3>3, <3>4
  <2> QED
      BY <2>3, <2>4
<1>11. n \in OwnersIn(customer', p)
    BY <1>8
<1> QED
    BY <1>5, <1>6, <1>7, <1>10, <1>11 DEF n

LEMMA CommitCreatedKeeps == ASSUME CustomersInv, NEW v \in Visits, CommitCreated(v) PROVE CustomersInv'
<1> DEFINE p == visit[v].phone
           seen == visit[v].owners
           t == visit[v].at
           o == Len(customer) + 1
<1>1. /\ visit[v].kind = "intake" /\ visit[v].pc = "matched" /\ VisitGoes(v, "done")
      /\ visit[v].consent /\ visit[v].subject = NoOne /\ p # NoNumber
      /\ customer' = Append(customer, NewCustomer(p, <<[kind |-> "given", at |-> t]>>))
      /\ intake' = [intake EXCEPT ![v] = Job(v, o)] /\ raced' = Races(p, seen)
      /\ UNCHANGED <<begun, backfill, outrun>>
    BY DEF CommitCreated, Matched
<1>2. /\ p \in Numbers /\ seen \in Nat /\ t \in Nat /\ t < begun /\ seen # 1
      /\ seen <= Cardinality(OwnersIn(customer, p))
    BY <1>1, VisitIs DEF VisitIsWell, VisitRecord
<1>3. o \in Nat
    BY DEF CustomersInv, CustomersWell
<1>4. seen <= Cardinality(Owners(p))
    BY <1>2, OwnersIs
<1> DEFINE log == <<[kind |-> "given", at |-> t]>>
<1>5. log = <<[kind |-> "given", at |-> t]>> /\ customer' = Append(customer, NewCustomer(p, log))
    BY <1>1
<1> HIDE DEF p, seen, t, log
<1>6. /\ Grows(customer, customer') /\ LogsBefore(customer', begun) /\ LastDecides'
      /\ o \in OwnersIn(customer', p)
      /\ \A q \in Numbers : Cardinality(OwnersIn(customer', q)) > 1 => q \in raced'
    BY <1>1, <1>2, <1>4, <1>5, Creating
<1>7. CustomersWell' /\ VisitsWell'
    BY <1>1, <1>6, CommitsWell
<1> HIDE DEF o
<1>8. /\ BackfillWell' /\ intake' \in [Visits -> JobRecord \cup {NoOne}]
      /\ \A w \in Visits : intake'[w] # NoOne /\ intake'[w].owner # NoOne
                          => intake'[w].owner \in OwnersIn(customer', intake'[w].phone)
    BY <1>1, <1>3, <1>6, JobBelongs DEF p
<1>9. OneCustomerPerPhone'
  <2>1. \A q : Owners(q)' = OwnersIn(customer', q)
      BY DEF Owners, OwnersIn
  <2> QED
      BY <1>6, <1>8, <2>1 DEF OneCustomerPerPhone
<1> QED
    BY <1>6, <1>7, <1>8, <1>9 DEF CustomersInv

-----------------------------------------------------------------------------
\* A cluster of jobs gets an owner of its number; the rest waits.
LEMMA Linking ==
    ASSUME CustomersInv, NEW p, NEW o \in Nat, intake' = Linked(JobsOf(backfill.jobs, p), o),
           o \in OwnersIn(customer', p), Grows(customer, customer'), backfill' = Left(p)
    PROVE  /\ BackfillWell' /\ intake' \in [Visits -> JobRecord \cup {NoOne}]
           /\ \A w \in Visits : intake'[w] # NoOne /\ intake'[w].owner # NoOne
                               => intake'[w].owner \in OwnersIn(customer', intake'[w].phone)
<1> DEFINE cluster == JobsOf(backfill.jobs, p)
<1>1. \A q : OwnersIn(customer, q) \subseteq OwnersIn(customer', q)
    BY OwnersGrow
<1>2. \A w \in cluster : w \in Visits /\ intake[w] \in JobRecord /\ intake[w].phone = p
    BY DEF JobsOf, CustomersInv, BackfillWell
<1>3. intake' = [w \in Visits |-> IF w \in cluster THEN [intake[w] EXCEPT !.owner = o] ELSE intake[w]]
    BY DEF Linked
<1> HIDE DEF cluster
<1>4. \A w \in cluster : /\ intake'[w] \in JobRecord /\ intake'[w].owner = o /\ intake'[w].phone = p
  <2>1. ASSUME NEW j \in JobRecord
        PROVE  LET k == [j EXCEPT !.owner = o] IN k \in JobRecord /\ k.owner = o /\ k.phone = j.phone
      BY DEF JobRecord
  <2> QED
      BY <1>2, <1>3, <2>1
<1>5. \A w \in Visits \ cluster : intake'[w] = intake[w]
    BY <1>3
<1>6. DOMAIN intake' = Visits /\ intake' = [w \in Visits |-> intake'[w]]
    BY <1>3
<1>7. intake' \in [Visits -> JobRecord \cup {NoOne}]
  <2>1. \A w \in Visits : intake'[w] \in JobRecord \cup {NoOne}
      BY <1>4, <1>5 DEF CustomersInv
  <2> QED
      BY <1>6, <2>1
<1>8. \A w \in Visits : intake'[w] # NoOne /\ intake'[w].owner # NoOne
                     => intake'[w].owner \in OwnersIn(customer', intake'[w].phone)
    BY <1>1, <1>4, <1>5, OwnersIs DEF CustomersInv, OneCustomerPerPhone
<1>9. BackfillWell'
  <2>1. /\ DOMAIN backfill' = {"jobs", "owner"} /\ backfill'.owner = backfill.owner
        /\ backfill'.jobs \subseteq backfill.jobs
      BY DEF Left, CustomersInv, BackfillWell
  <2>2. \A w \in backfill'.jobs : w \in Visits /\ intake'[w] \in JobRecord
      BY <1>4, <1>5, <2>1 DEF CustomersInv, BackfillWell
  <2>3. \A q \in DOMAIN backfill'.owner : backfill'.owner[q] \in OwnersIn(customer', q)
      BY <1>1, <2>1, OwnersIs DEF CustomersInv, BackfillWell
  <2>4. \A q : Owners(q)' = OwnersIn(customer', q)
      BY DEF Owners, OwnersIn
  <2> QED
      BY <2>1, <2>2, <2>3, <2>4 DEF BackfillWell
<1> QED
    BY <1>7, <1>8, <1>9

LEMMA ClusterKeeps == ASSUME CustomersInv, NEW p \in Numbers, BackfillCluster(p) PROVE CustomersInv'
<1> DEFINE cluster == JobsOf(backfill.jobs, p)
           n == Len(customer) + 1
<1>0. /\ cluster # {} /\ backfill' = Left(p) /\ UNCHANGED <<visit, begun, outrun>>
      /\ begun \in Nat /\ begun <= begun /\ n \in Nat
    BY DEF BackfillCluster, CustomersInv, CustomersWell
<1>1. CASE /\ p \in DOMAIN backfill.owner /\ intake' = Linked(cluster, backfill.owner[p])
           /\ UNCHANGED <<customer, raced>>
  <2>1. Grows(customer, customer') /\ LogsBefore(customer', begun)
      BY <1>1, GrowsNot DEF CustomersInv, CustomersWell
  <2>2. backfill.owner[p] \in OwnersIn(customer', p) /\ backfill.owner[p] \in Nat
    <3>1. backfill.owner[p] \in Owners(p)
        BY <1>1 DEF CustomersInv, BackfillWell
    <3> QED
        BY <1>1, <3>1, OwnersIs, MatchIs
  <2>3. CustomersWell' /\ VisitsWell'
      BY <1>0, <2>1, VisitsKeep
  <2>4. /\ BackfillWell' /\ intake' \in [Visits -> JobRecord \cup {NoOne}]
        /\ \A w \in Visits : intake'[w] # NoOne /\ intake'[w].owner # NoOne
                            => intake'[w].owner \in OwnersIn(customer', intake'[w].phone)
      BY <1>0, <1>1, <2>1, <2>2, Linking
  <2>5. \A q : OwnersIn(customer', q) = Owners(q)
      BY <1>1, OwnersIs
  <2> QED
      BY <1>0, <1>1, <2>3, <2>4, <2>5, NothingRecorded
<1>2. CASE /\ customer' = Append(customer, NewCustomer(p, <<>>)) /\ intake' = Linked(cluster, n)
           /\ raced' = Races(p, 0)
  <2>1. 0 <= Cardinality(Owners(p))
      BY MatchIs
  <2>3. /\ Grows(customer, customer') /\ LogsBefore(customer', begun) /\ LastDecides'
        /\ n \in OwnersIn(customer', p)
        /\ \A q \in Numbers : Cardinality(OwnersIn(customer', q)) > 1 => q \in raced'
      BY <1>0, <1>2, <2>1, Creating
  <2>4. CustomersWell' /\ VisitsWell'
      BY <1>0, <2>3, VisitsKeep
  <2> HIDE DEF n
  <2>5. /\ BackfillWell' /\ intake' \in [Visits -> JobRecord \cup {NoOne}]
        /\ \A w \in Visits : intake'[w] # NoOne /\ intake'[w].owner # NoOne
                            => intake'[w].owner \in OwnersIn(customer', intake'[w].phone)
      BY <1>0, <1>2, <2>3, Linking
  <2>6. OneCustomerPerPhone'
    <3>1. \A q : Owners(q)' = OwnersIn(customer', q)
        BY DEF Owners, OwnersIn
    <3> QED
        BY <2>3, <2>5, <3>1 DEF OneCustomerPerPhone
  <2> QED
      BY <2>3, <2>4, <2>5, <2>6 DEF CustomersInv
<1>3. CASE UNCHANGED <<customer, intake, raced>>
  <2>1. Grows(customer, customer') /\ LogsBefore(customer', begun)
      BY <1>3, GrowsNot DEF CustomersInv, CustomersWell
  <2>2. CustomersWell' /\ VisitsWell'
      BY <1>0, <2>1, VisitsKeep
  <2>3. BackfillWell'
    <3>1. /\ DOMAIN backfill' = {"jobs", "owner"} /\ backfill'.owner = backfill.owner
          /\ backfill'.jobs \subseteq backfill.jobs
        BY <1>0 DEF Left, CustomersInv, BackfillWell
    <3> QED
        BY <1>3, <3>1 DEF CustomersInv, BackfillWell, Owners
  <2> QED
      BY <1>0, <1>3, <2>2, <2>3, NothingRecorded DEF CustomersInv, OneCustomerPerPhone
<1> QED
    BY <1>1, <1>2, <1>3 DEF BackfillCluster

LEMMA BackfillStepsKeep == ASSUME CustomersInv, BackfillLoad \/ BackfillStops PROVE CustomersInv'
<1>1. /\ UNCHANGED <<customer, intake, visit, begun, raced, outrun>>
      /\ begun \in Nat /\ begun <= begun
    BY DEF BackfillLoad, BackfillStops, CustomersInv, CustomersWell
<1>2. Grows(customer, customer') /\ LogsBefore(customer', begun)
    BY <1>1, GrowsNot DEF CustomersInv, CustomersWell
<1>3. CustomersWell' /\ VisitsWell'
    BY <1>1, <1>2, VisitsKeep
<1>4. BackfillWell'
  <2>1. CASE BackfillLoad
    <3> DEFINE jobs == {v \in Visits : /\ intake[v] # NoOne
                                      /\ intake[v].owner = NoOne
                                      /\ intake[v].phone \in Numbers}
               phones == {p \in Numbers : Owners(p) # {}}
    <3>1. PICK owner \in [phones -> DOMAIN customer] :
            /\ \A p \in phones : owner[p] \in Owners(p)
            /\ backfill' = [jobs |-> jobs, owner |-> owner]
        BY <2>1 DEF BackfillLoad
    <3>2. jobs \subseteq Visits /\ \A v \in jobs : intake[v] \in JobRecord
        BY DEF CustomersInv
    <3> HIDE DEF jobs, phones
    <3> QED
        BY <1>1, <3>1, <3>2 DEF BackfillWell, Owners
  <2>2. CASE BackfillStops
    <3>1. DOMAIN backfill' = {"jobs", "owner"} /\ backfill'.jobs = {} /\ DOMAIN backfill'.owner = {}
        BY <2>2 DEF BackfillStops, NoBackfill
    <3> QED
        BY <3>1 DEF BackfillWell
  <2> QED
      BY <2>1, <2>2
<1> QED
    BY <1>1, <1>3, <1>4, NothingRecorded DEF CustomersInv, OneCustomerPerPhone

LEMMA CustomersInvInit == CustomersInit => CustomersInv
<1> SUFFICES ASSUME CustomersInit PROVE CustomersInv
    OBVIOUS
<1>1. /\ customer = <<>> /\ intake = [v \in Visits |-> NoOne] /\ visit = [v \in Visits |-> NotVisited]
      /\ begun = 0 /\ backfill = NoBackfill /\ DOMAIN customer = {}
    BY DEF CustomersInit
<1>2. CustomersWell /\ LastDecides
    BY <1>1 DEF CustomersWell, LogsBefore, LastDecides
<1>3. NotVisited \in VisitRecord /\ NotVisited.pc = "new" /\ DOMAIN NotVisited.logs = {}
    BY DEF NotVisited, VisitRecord
<1>4. VisitIsWell(NotVisited, customer, begun)
    BY <1>3 DEF VisitIsWell
<1>5. VisitsWell
    BY <1>1, <1>3, <1>4 DEF VisitsWell
<1>6. BackfillWell
  <2>1. DOMAIN backfill = {"jobs", "owner"} /\ backfill.jobs = {} /\ DOMAIN backfill.owner = {}
      BY <1>1 DEF NoBackfill
  <2> QED
      BY <2>1 DEF BackfillWell
<1>7. OneCustomerPerPhone
  <2>1. \A p : Owners(p) = {}
      BY <1>1 DEF Owners
  <2>2. Cardinality({}) = 0
      BY FS_EmptySet
  <2>3. \A p : ~(Cardinality(Owners(p)) > 1)
      BY <2>1, <2>2
  <2> QED
      BY <1>1, <2>3 DEF OneCustomerPerPhone
<1> QED
    BY <1>1, <1>2, <1>5, <1>6, <1>7 DEF CustomersInv

LEMMA CustomersInvNext == CustomersInv /\ [CustomersNext]_customersVars => CustomersInv'
<1> SUFFICES ASSUME CustomersInv, [CustomersNext]_customersVars PROVE CustomersInv'
    OBVIOUS
<1>1. ASSUME NEW v \in Visits,
             \/ CreateJob(v) \/ MatchIntake(v)
             \/ CommitPlain(v) \/ CommitConsented(v) \/ CommitCreated(v) \/ ConsentFails(v)
             \/ AskConsent(v) \/ LoadCustomer(v) \/ RecordConsent(v)
             \/ LoseVisit(v)
      PROVE  CustomersInv'
    BY <1>1, AskingKeeps, MatchIntakeKeeps, CommitPlainKeeps, CommitConsentedKeeps, CommitCreatedKeeps,
       ConsentFailsKeeps, LoadCustomerKeeps, RecordConsentKeeps, LoseVisitKeeps
<1>2. CASE BackfillLoad \/ BackfillStops
    BY <1>2, BackfillStepsKeep
<1>3. CASE \E p \in Numbers : BackfillCluster(p)
    BY <1>3, ClusterKeeps
<1>4. CASE UNCHANGED customersVars
  <2>1. /\ UNCHANGED <<customer, intake, visit, begun, raced, outrun, backfill>>
        /\ begun \in Nat /\ begun <= begun
      BY <1>4 DEF customersVars, CustomersInv, CustomersWell
  <2>2. Grows(customer, customer') /\ LogsBefore(customer', begun)
      BY <2>1, GrowsNot DEF CustomersInv, CustomersWell
  <2>3. CustomersWell' /\ VisitsWell'
      BY <2>1, <2>2, VisitsKeep
  <2>4. BackfillWell'
      BY <2>1 DEF CustomersInv, BackfillWell, Owners
  <2> QED
      BY <2>1, <2>3, <2>4, NothingRecorded DEF CustomersInv, OneCustomerPerPhone
<1> QED
    BY <1>1, <1>2, <1>3, <1>4 DEF CustomersNext

\* Customers, intakes and visits, whatever commits between a visit's look at the
\* customers and its own commit.
THEOREM CustomersInvHolds == CustomersSpec => []CustomersInv
<1> QED
    BY CustomersInvInit, CustomersInvNext, PTL DEF CustomersSpec

\* The opt-in column says what the latest consent event says (record_consent),
\* unless another consent of that customer was recorded in the meantime.
THEOREM ConsentHolds == CustomersSpec => []ConsentFollowsLog
<1>1. CustomersInv => ConsentFollowsLog
  <2> SUFFICES ASSUME CustomersInv, NEW c \in DOMAIN customer \ outrun
               PROVE  customer[c].optIn =
                        \E i \in DOMAIN customer[c].log : /\ customer[c].log[i].kind = "given"
                          /\ \A j \in DOMAIN customer[c].log : customer[c].log[j].at <= customer[c].log[i].at
      BY DEF ConsentFollowsLog
  <2> DEFINE log == customer[c].log
  <2>1. /\ Len(log) \in Nat /\ DOMAIN log = 1..Len(log) /\ \A i \in DOMAIN log : log[i].at \in Nat
        /\ log = <<>> \/ Len(log) # 0
    <3>1. log \in Seq([kind : {"given", "withdrawn"}, at : Nat])
        BY RowIs DEF CustomersInv, CustomersWell
    <3>2. \A S : \A q \in Seq(S) : q = <<>> \/ Len(q) # 0
        OBVIOUS
    <3>3. log = <<>> \/ Len(log) # 0
        BY <3>1, <3>2
    <3> QED
        BY <3>3, RowIs DEF CustomersInv, CustomersWell
  <2>2. /\ \A i \in 1..(Len(log) - 1) : log[i].at < log[Len(log)].at
        /\ customer[c].optIn = (log # <<>> /\ log[Len(log)].kind = "given")
      BY DEF CustomersInv, LastDecides, LastDecidesIn
  <2> HIDE DEF log
  <2>3. CASE log = <<>>
    <3>1. DOMAIN log = {}
        BY <2>3
    <3> QED
        BY <2>2, <2>3, <3>1 DEF log
  <2>4. CASE Len(log) # 0 /\ log # <<>>
    <3>1. Len(log) \in DOMAIN log /\ \A j \in DOMAIN log : log[j].at <= log[Len(log)].at
      <4>1. \A j \in DOMAIN log : j = Len(log) \/ j \in 1..(Len(log) - 1)
          BY <2>1
      <4>2. Len(log) \in DOMAIN log
          BY <2>1, <2>4
      <4> QED
          BY <2>1, <2>2, <4>1, <4>2
    <3>2. ASSUME NEW i \in DOMAIN log, \A j \in DOMAIN log : log[j].at <= log[i].at PROVE i = Len(log)
      <4>1. CASE i \in 1..(Len(log) - 1)
        <5>1. log[i].at < log[Len(log)].at /\ log[Len(log)].at <= log[i].at
            BY <2>2, <3>1, <3>2, <4>1
        <5> QED
            BY <2>1, <3>1, <5>1
      <4>2. i \in 1..(Len(log) - 1) \/ i = Len(log)
          BY <2>1
      <4> QED
          BY <4>1, <4>2
    <3>3. (log[Len(log)].kind = "given") = \E i \in DOMAIN log : log[i].kind = "given"
                          /\ \A j \in DOMAIN log : log[j].at <= log[i].at
        BY <3>1, <3>2
    <3> QED
        BY <2>2, <2>4, <3>3 DEF log
  <2> QED
      BY <2>1, <2>3, <2>4
<1> QED
    BY <1>1, CustomersInvHolds, PTL

\* A number has one owner unless two were created at once, and a job belongs to
\* an owner of its number (_link_customer, backfill_customers.py).
THEOREM OneCustomerHolds == CustomersSpec => []OneCustomerPerPhone
<1>1. CustomersInv => OneCustomerPerPhone
    BY DEF CustomersInv
<1> QED
    BY <1>1, CustomersInvHolds, PTL
=============================================================================
