------------------------------ MODULE Evidence ------------------------------
(* The evidence of one job (backend/app/features/media with the gates and    *)
(* reports of jobs/service.py): rows in job_media, the objects they point at *)
(* in storage, and the job they must support.  Row and object are never in   *)
(* one transaction.  A call runs in a session of its own: its first step     *)
(* reads, its last one commits, and others act in between; some calls touch  *)
(* the storage on the way.                                                   *)
EXTENDS Naturals, FiniteSets

CONSTANTS
    Media,     \* media ids
    Legacy,    \* the ones that may have been stored before rows had an owner
    Calls,     \* HTTP calls; each is made once
    Techs,     \* technicians
    Manager,   \* the manager
    None       \* SQL NULL, or nothing there

ASSUME EvidenceAssumption ==
    /\ IsFiniteSet(Media) /\ Legacy \subseteq Media
    /\ Manager \notin Techs
    /\ None \notin Techs \cup {Manager} \cup Media

VARIABLES
    evidenceJob, \* the committed status of the job
    media,       \* the committed job_media rows
    object,      \* what storage holds under each row's path
    sent,        \* what the phone has PUT with the signed URL of each row
    call,        \* the calls made so far
    settled      \* history: the deletions that were over when the close that
                 \* took effect last had counted

evidenceVars == <<evidenceJob, media, object, sent, call, settled>>

-----------------------------------------------------------------------------
\* Phases that matter to a job: its closing clip, and everything else.
Phases == {"closing", "remark"}
Bytes  == {"fits", "toobig"}

MediaRow == [phase     : Phases,
             createdBy : Techs \cup {Manager, None},
             status    : {"pending", "uploaded"}]

ASSUME NoneIsApart == None \notin Bytes /\ None \notin MediaRow

JobState == [status : {"open", "closed"}, abandoned : BOOLEAN]

People == Techs \cup {Manager}
Over   == {"ok", "rejected", "error", "lost", "torn"}
CallPC == {"new", "judged", "measured", "erased", "counted"} \cup Over
Call   == [kind  : {"none", "upload", "complete", "delete", "close", "reopen", "abandon"},
           by    : People \cup {None},  \* where the handler asks
           on    : Media \cup {None},
           phase : Phases,
           open  : BOOLEAN,       \* the status the call read was not "closed"
           size  : Bytes,         \* the size complete_upload goes by
           over  : SUBSET Calls,  \* history: deletions over when a close counted
           pc    : CallPC]

NotMade == [kind |-> "none", by |-> None, on |-> None, phase |-> "remark",
            open |-> TRUE, size |-> "fits", over |-> {}, pc |-> "new"]

EvidenceInit ==
    /\ evidenceJob = [status |-> "open", abandoned |-> FALSE]
    /\ \E old \in SUBSET Legacy :
         /\ media = [m \in Media |->
                       IF m \in old
                       THEN [phase |-> "closing", createdBy |-> None, status |-> "uploaded"]
                       ELSE None]
         /\ object = [m \in Media |-> IF m \in old THEN "fits" ELSE None]
    /\ sent = object
    /\ call = [c \in Calls |-> NotMade]
    /\ settled = {}

JobOpen == evidenceJob.status # "closed"

\* count_phase: pending rows count, the gate has to let offline phones close.
CountPhase(p) == Cardinality({m \in Media : media[m] # None /\ media[m].phase = p})

\* phase_counts: (total, uploaded) of the closing clips.
ClosingCounts ==
    <<CountPhase("closing"),
      Cardinality({m \in Media : /\ media[m] # None
                                 /\ media[m].phase = "closing"
                                 /\ media[m].status = "uploaded"})>>

-----------------------------------------------------------------------------
(* Calls                                                                     *)

\* A call's next step: its pc, and what else it remembers.
Goes(c, next) == call' = [call EXCEPT ![c].pc = next]
Begin(c, rec) == call[c].pc = "new" /\ call' = [call EXCEPT ![c] = rec]
Makes(k, who, m) == [NotMade EXCEPT !.kind = k, !.by = who, !.on = m]

\* Mutant: the freeze is not asked for.
NeverFrozen(who) == FALSE

\* Evidence freezes at close for everyone but the manager.
Frozen(who) == ~JobOpen /\ who # Manager

\* request_upload up to the insertion: the job's status is read on its own.
JudgeUpload(c) ==
    /\ \E who \in People, p \in Phases, m \in Media :
         /\ sent[m] = None
         /\ \A d \in Calls : ~(call[d].kind = "upload" /\ call[d].on = m)
         /\ Begin(c, [Makes("upload", who, m) EXCEPT
                        !.phase = p,
                        !.open  = JobOpen,
                        !.pc    = IF Frozen(who) THEN "rejected" ELSE "judged"])
    /\ UNCHANGED <<evidenceJob, media, object, sent, settled>>

\* The pending row is committed, and the signed URL goes to the phone.
Reserve(c) ==
    /\ call[c].kind = "upload" /\ call[c].pc = "judged"
    /\ media' = [media EXCEPT ![call[c].on] =
                   [phase |-> call[c].phase, createdBy |-> call[c].by, status |-> "pending"]]
    /\ Goes(c, "ok")
    /\ UNCHANGED <<evidenceJob, object, sent, settled>>

\* Somebody was told that m has been reserved.
Answered(m) == \E c \in Calls : call[c].kind = "upload" /\ call[c].on = m /\ call[c].pc = "ok"

\* The phone PUTs the bytes, once, if its reservation was answered; the URL
\* outlives the row.
Put(m) ==
    /\ Answered(m)
    /\ sent[m] = None
    /\ \E b \in Bytes : /\ object' = [object EXCEPT ![m] = b]
                        /\ sent' = [sent EXCEPT ![m] = b]
    /\ UNCHANGED <<evidenceJob, media, call, settled>>

\* The size complete_upload goes by: the object's own, or what the phone says
\* it has sent if the HEAD finds nothing or fails.
EffectiveSize(m) == {IF object[m] # None THEN object[m] ELSE sent[m], sent[m]}

\* complete_upload loads the row and measures the object.  The phone calls it
\* once, after its PUT has succeeded.
Measure(c) ==
    /\ \E m \in Media :
         /\ sent[m] # None /\ Answered(m)
         /\ \A d \in Calls : ~(call[d].kind = "complete" /\ call[d].on = m)
         /\ \E b \in EffectiveSize(m) :
              Begin(c, [Makes("complete", None, m) EXCEPT
                          !.size = b,
                          !.pc   = IF media[m] = None THEN "rejected" ELSE "measured"])
    /\ UNCHANGED <<evidenceJob, media, object, sent, settled>>

\* Mutant: the oversized clip is purged and its row finished all the same.
FinishPurged(c) ==
    /\ call[c].kind = "complete" /\ call[c].pc = "measured" /\ call[c].size = "toobig"
    /\ object' = [object EXCEPT ![call[c].on] = None]
    /\ media' = [media EXCEPT ![call[c].on] =
                   IF @ = None THEN None ELSE [@ EXCEPT !.status = "uploaded"]]
    /\ Goes(c, "rejected")
    /\ UNCHANGED <<evidenceJob, sent, settled>>

\* Too large: the object is purged, if storage lets it be; the deletion of the
\* row is rolled back with the rejected request, so the row stays pending.
RejectTooLarge(c) ==
    /\ call[c].kind = "complete" /\ call[c].pc = "measured" /\ call[c].size = "toobig"
    /\ \/ object' = [object EXCEPT ![call[c].on] = None]
       \/ UNCHANGED object
    /\ Goes(c, "rejected")
    /\ UNCHANGED <<evidenceJob, media, sent, settled>>

\* mark_uploaded and commit; the UPDATE of a row deleted meanwhile fails.
Complete(c) ==
    /\ call[c].kind = "complete" /\ call[c].pc = "measured" /\ call[c].size = "fits"
    /\ IF media[call[c].on] = None
       THEN Goes(c, "error") /\ UNCHANGED media
       ELSE /\ Goes(c, "ok")
            /\ media' = [media EXCEPT ![call[c].on].status = "uploaded"]
    /\ UNCHANGED <<evidenceJob, object, sent, settled>>

\* delete_media reads the job's status first.
JudgeDelete(c) ==
    /\ \E who \in People, m \in Media :
         /\ sent[m] # None \/ Answered(m)
         /\ Begin(c, [Makes("delete", who, m) EXCEPT !.open = JobOpen, !.pc = "judged"])
    /\ UNCHANGED <<evidenceJob, media, object, sent, settled>>

\* A technician may delete own clips, and ownerless ones, of an open job.
MayDelete(who, open, m) ==
    \/ who = Manager
    \/ open /\ media[m].createdBy \in {who, None}

\* The row is loaded, the policy applied, and the object deleted, if storage
\* lets it be.
EraseObject(c) ==
    LET m == call[c].on IN
    /\ call[c].kind = "delete" /\ call[c].pc = "judged"
    /\ IF media[m] # None /\ MayDelete(call[c].by, call[c].open, m)
       THEN /\ call' = [call EXCEPT ![c].pc = "erased", ![c].phase = media[m].phase]
            /\ \/ object' = [object EXCEPT ![m] = None]
               \/ UNCHANGED object
       ELSE Goes(c, "rejected") /\ UNCHANGED object
    /\ UNCHANGED <<evidenceJob, media, sent, settled>>

\* The row goes with the commit; deleting a row that has gone is no error.
CommitDelete(c) ==
    /\ call[c].kind = "delete" /\ call[c].pc = "erased"
    /\ media' = [media EXCEPT ![call[c].on] = None]
    /\ Goes(c, "ok")
    /\ UNCHANGED <<evidenceJob, object, sent, settled>>

\* Mutant: the gate asks for any medium of the job.
AnyMedium == CountPhase("closing") + CountPhase("remark")

ClosingMedia == CountPhase("closing")

\* The close gate of transition.
CountForClose(c) ==
    /\ Begin(c, [Makes("close", None, None) EXCEPT
                   !.over = {d \in Calls : call[d].kind = "delete" /\ call[d].pc = "ok"},
                   !.pc   = IF ClosingMedia = 0 THEN "rejected" ELSE "counted"])
    /\ UNCHANGED <<evidenceJob, media, object, sent, settled>>

CommitClose(c) ==
    /\ call[c].kind = "close" /\ call[c].pc = "counted"
    /\ evidenceJob' = [evidenceJob EXCEPT !.status = "closed"]
    /\ settled' = call[c].over
    /\ Goes(c, "ok")
    /\ UNCHANGED <<media, object, sent>>

\* The transitions that ask for no evidence: ready and wait reopen, abandon closes.
Reopen(c) ==
    /\ Begin(c, [Makes("reopen", None, None) EXCEPT !.pc = "ok"])
    /\ evidenceJob' = [evidenceJob EXCEPT !.status = "open"]
    /\ UNCHANGED <<media, object, sent, settled>>

Abandon(c) ==
    /\ Begin(c, [Makes("abandon", None, None) EXCEPT !.pc = "ok"])
    /\ evidenceJob' = [status |-> "closed", abandoned |-> TRUE]
    /\ UNCHANGED <<media, object, sent, settled>>

\* A connection, process or commit fails under the call; a deletion torn after
\* its storage step leaves the row behind.
LoseCall(c) ==
    /\ call[c].pc \in CallPC \ ({"new"} \cup Over)
    /\ Goes(c, IF call[c].pc = "erased" THEN "torn" ELSE "lost")
    /\ UNCHANGED <<evidenceJob, media, object, sent, settled>>

EvidenceNext ==
    \/ \E c \in Calls :
         \/ JudgeUpload(c) \/ Reserve(c)
         \/ Measure(c) \/ RejectTooLarge(c) \/ Complete(c)
         \/ JudgeDelete(c) \/ EraseObject(c) \/ CommitDelete(c)
         \/ CountForClose(c) \/ CommitClose(c)
         \/ Reopen(c) \/ Abandon(c)
         \/ LoseCall(c)
    \/ \E m \in Media : Put(m)

EvidenceSpec == EvidenceInit /\ [][EvidenceNext]_evidenceVars

-----------------------------------------------------------------------------
(* Reports                                                                   *)

Promised(counts) == counts[1] > 0 /\ counts[2] = 0

\* evidence_gaps, once the grace days are over: clips promised at the gate
\* whose bytes never arrived.
GapReported ==
    /\ evidenceJob.status = "closed"
    /\ ~evidenceJob.abandoned
    /\ Promised(ClosingCounts)

\* list_for_job and playback: a row is playable if its object is there.
Playable(m) == media[m] # None /\ media[m].status = "uploaded" /\ object[m] # None

-----------------------------------------------------------------------------
(* Properties                                                                *)

EvidenceTypeOK ==
    /\ evidenceJob \in JobState
    /\ media \in [Media -> MediaRow \cup {None}]
    /\ object \in [Media -> Bytes \cup {None}]
    /\ sent \in [Media -> Bytes \cup {None}]
    /\ call \in [Calls -> Call]
    /\ settled \subseteq Calls

\* A deletion of m that has touched the storage.
Erased(m, pcs) == {c \in Calls : call[c].kind = "delete" /\ call[c].on = m /\ call[c].pc \in pcs}

\* Deletions of closing clips that were not over when the gate counted: a
\* manager's afterwards, or a technician's that overlapped the close or was torn.
Overlapped == {c \in Calls : /\ call[c].kind = "delete" /\ call[c].phase = "closing"
                             /\ call[c].pc \in {"erased", "ok", "torn"}
                             /\ c \notin settled}

\* What the close gate lets through on trust is made good or reported: a job
\* closed with pending, rejected, oversized or half-deleted clips has a closing
\* clip's bytes or stands in evidence_gaps, unless a deletion was not over when
\* the gate counted (closed jobs without closing rows are never reported).
GapsAreHonest ==
    (evidenceJob.status = "closed" /\ ~evidenceJob.abandoned /\ Overlapped = {})
        => \/ GapReported
           \/ \E m \in Media : media[m] # None /\ media[m].phase = "closing" /\ object[m] # None

\* An uploaded row points at nothing only while a deletion is between storage
\* and database, or since one died there: "a tombstone pointing at nothing"
\* (delete's docstring) needs a crash.
TombstonesNeedACrash ==
    \A m \in Media :
        (media[m] # None /\ media[m].status = "uploaded" /\ ~Playable(m))
            => Erased(m, {"erased", "torn"}) # {}

\* Evidence is frozen at close, once the calls of technicians that had read the
\* job as open are answered: from then on rows come and go by the manager only.
FrozenUnlessInFlight ==
    [][ (/\ evidenceJob.status = "closed" /\ evidenceJob'.status = "closed"
         /\ \A c \in Calls : call[c].pc \in {"judged", "erased"}
                               => call[c].by = Manager \/ ~call[c].open)
        => \A m \in Media : (media[m] = None) # (media'[m] = None)
              => \E c \in Calls : call[c].by = Manager /\ call'[c] # call[c] ]_evidenceVars
=============================================================================
