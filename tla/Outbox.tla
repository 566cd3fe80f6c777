------------------------------- MODULE Outbox -------------------------------
(* The job-write outbox of the technician app (technician-app/src/lib):      *)
(* sendOrQueue, the queue it falls back to, flushOutbox that drains it, and   *)
(* the server's answers.  The queue is persisted and every load-modify-save   *)
(* of it runs under one mutex, so each is one step; a flush works on the      *)
(* snapshot it loaded, and everything between its awaits interleaves with     *)
(* taps, sign-ins and the death of the app.                                   *)
(*                                                                            *)
(* A tap is one write a technician makes; taps with the same stable id are    *)
(* versions of the same write, made in the order of their numbers.            *)
EXTENDS Naturals, Sequences, SequencesExt, Lists

CONSTANTS
    Taps,        \* the writes, numbered
    Ids,         \* stable outbox ids
    IdOf,        \* the id of each tap
    Techs,       \* technicians sharing the device
    Owner,       \* who makes each tap
    MaxAttempts, \* server errors after which an item is given up (5 in the app)
    MaxRestarts, \* bound: how often the app dies
    MaxLogins,   \* bound: sign-ins
    None         \* nobody, nothing

ASSUME ConstantsAssumption ==
    /\ Taps \subseteq Nat
    /\ IdOf \in [Taps -> Ids]
    /\ Owner \in [Taps -> Techs]
    /\ MaxAttempts \in Nat \ {0}
    /\ MaxRestarts \in Nat /\ MaxLogins \in Nat
    /\ None \notin Techs \cup Taps

VARIABLES
    queue,      \* the persisted items, oldest first
    session,    \* the signed-in technician: the token and the outbox principal
    paused,     \* pausedForAuth
    flush,      \* where the running flush is, and the rest of its snapshot
    tap,        \* what has become of each tap
    server,     \* the version of each write the server holds
    restarts, logins,
    applied,    \* history: taps the server has applied
    discarded,  \* history: taps the technician discarded
    overtaken   \* history: taps queued while a flush held an earlier version

historyVars == <<applied, discarded, overtaken>>
vars == <<queue, session, paused, flush, tap, server, restarts, logins, applied,
          discarded, overtaken>>

-----------------------------------------------------------------------------
Item == [tap      : Taps,
         tech     : Techs,
         status   : {"queued", "failed"},
         attempts : 0..(MaxAttempts + MaxRestarts)]

\* A tap is settled once the technician has an answer, or never will; live
\* while its own call is out or its answer is being dealt with.
Settled == {"done", "queued", "rejected", "lost"}
Live == {"ok", "unauthorized", "error", "unreachable"}

SameWrite(v, w) == IdOf[v] = IdOf[w]
Later(v, w) == SameWrite(v, w) /\ w > v

InQueue == {queue[i].tap : i \in DOMAIN queue}
Idle == [pc |-> "idle", todo |-> <<>>]
Calling == Head(flush.todo)

\* What the server makes of one call, and what the app hears of it.  A call may
\* be carried out and its answer lost.
Outcomes ==
    {[done |-> TRUE, heard |-> "ok"]}
    \cup [done : {FALSE}, heard : {"rejected", "unauthorized", "error"}]
    \cup [done : BOOLEAN, heard : {"unreachable"}]
Served(o) == session # None \/ (~o.done /\ o.heard \in {"unauthorized", "unreachable"})

Serve(v, o) ==
    /\ Served(o)
    /\ server' = IF o.done THEN [server EXCEPT ![IdOf[v]] = v] ELSE server
    /\ applied' = IF o.done THEN applied \cup {v} ELSE applied

Init ==
    /\ queue = <<>>
    /\ session = None
    /\ paused = FALSE
    /\ flush = Idle
    /\ tap = [v \in Taps |-> "new"]
    /\ server = [i \in Ids |-> None]
    /\ restarts = 0 /\ logins = 0
    /\ applied = {} /\ discarded = {} /\ overtaken = {}

-----------------------------------------------------------------------------
(* The queue: operations under the mutex *)

NewItem(v) == [tap |-> v, tech |-> Owner[v], status |-> "queued", attempts |-> 0]

\* enqueue: replace the item with this id where it stands, or append.
Enqueued(q, v) ==
    IF \E i \in DOMAIN q : SameWrite(q[i].tap, v)
    THEN [i \in DOMAIN q |-> IF SameWrite(q[i].tap, v) THEN NewItem(v) ELSE q[i]]
    ELSE Append(q, NewItem(v))

\* Mutants: a success removes nothing, or everything queued before it as well.
NotRemoved(q, v) == q
RemovedThrough(q, v) == Filtered(q, {x \in Range(q) : ~SameWrite(x.tap, v) /\ x.tap > v})

\* removeItem, by id.
Removed(q, v) == Filtered(q, {x \in Range(q) : ~SameWrite(x.tap, v)})

\* Every item with v's id, as f makes it.
Changed(q, v, f(_)) == [i \in DOMAIN q |-> IF SameWrite(q[i].tap, v) THEN f(q[i]) ELSE q[i]]

MarkedFailed(q, v) == Changed(q, v, LAMBDA x : [x EXCEPT !.status = "failed"])
Bumped(q, v) == Changed(q, v, LAMBDA x : [x EXCEPT !.attempts = @ + 1])
Retried(q, v) == Changed(q, v, LAMBDA x : [x EXCEPT !.status = "queued", !.attempts = 0])

\* The attempts bumpAttempts reports: 0 when the item has left the queue.
AttemptsOf(q, v) ==
    LET mine == {i \in DOMAIN q : SameWrite(q[i].tap, v)}
    IN IF mine = {} THEN 0 ELSE q[CHOOSE i \in mine : TRUE].attempts

\* The flush still holds an earlier version of v, being sent or to be sent.
HeldByFlush(v) == \E i \in DOMAIN flush.todo : Later(flush.todo[i], v)
Enqueue(v) ==
    /\ queue' = Enqueued(queue, v)
    /\ overtaken' = IF HeldByFlush(v) THEN overtaken \cup {v} ELSE overtaken

-----------------------------------------------------------------------------
(* sendOrQueue *)

\* Versions are made in order, and a screen that waits for one disables its
\* button.
CanTap(v) ==
    /\ tap[v] = "new" /\ session = Owner[v]
    /\ \A w \in Taps : Later(w, v) => tap[w] \in Settled

TapOffline(v) ==
    /\ CanTap(v)
    /\ Enqueue(v)
    /\ tap' = [tap EXCEPT ![v] = "queued"]
    /\ UNCHANGED <<session, paused, flush, server, restarts, logins, applied, discarded>>

TapOnline(v, o) ==
    /\ CanTap(v)
    /\ Serve(v, o)
    /\ tap' = [tap EXCEPT ![v] = o.heard]
    /\ UNCHANGED <<queue, session, paused, flush, restarts, logins, discarded, overtaken>>

\* The live call returns: drop older queued versions, surface the error, or queue.
LiveOk(v) ==
    /\ tap[v] = "ok"
    /\ queue' = Removed(queue, v)
    /\ tap' = [tap EXCEPT ![v] = "done"]
    /\ UNCHANGED <<session, overtaken>>

LiveUnauthorized(v) ==
    /\ tap[v] = "unauthorized"
    /\ session' = None
    /\ tap' = [tap EXCEPT ![v] = "rejected"]
    /\ UNCHANGED <<queue, overtaken>>

LiveTransient(v) ==
    /\ tap[v] \in {"error", "unreachable"}
    /\ Enqueue(v)
    /\ tap' = [tap EXCEPT ![v] = "queued"]
    /\ UNCHANGED session

SettleLive(v) ==
    /\ LiveOk(v) \/ LiveUnauthorized(v) \/ LiveTransient(v)
    /\ UNCHANGED <<paused, flush, server, restarts, logins, applied, discarded>>
-----------------------------------------------------------------------------
(* flushOutbox *)

\* The snapshot a flush works on: the queued items of the technician signed in.
Mine(q) == Filtered(q, {x \in Range(q) : x.status = "queued" /\ x.tech = session})
Snapshot == [i \in DOMAIN Mine(queue) |-> Mine(queue)[i].tap]

StartFlush ==
    /\ flush = Idle
    /\ ~paused /\ session # None
    /\ Snapshot # <<>>
    /\ flush' = [pc |-> "next", todo |-> Snapshot]
    /\ UNCHANGED <<queue, session, paused, tap, server, restarts, logins, historyVars>>

FlushCall(o) ==
    /\ flush.pc = "next"
    /\ Serve(Calling, o)
    /\ flush' = [flush EXCEPT !.pc = o.heard]
    /\ UNCHANGED <<queue, session, paused, tap, restarts, logins, discarded, overtaken>>

\* The loop goes on with the rest of the snapshot, if any.
Continue ==
    flush' = IF Len(flush.todo) = 1 THEN Idle ELSE [pc |-> "next", todo |-> Tail(flush.todo)]

\* Mutant: no finally, so `syncing` stays set after a break.
BreakSyncing == flush' = [flush EXCEPT !.pc = "broken"]

\* The loop ends early; the next trigger starts over.
Break == flush' = Idle

FlushOk == flush.pc = "ok" /\ queue' = Removed(queue, Calling) /\ Continue

FlushRejected ==
    flush.pc \in {"rejected", "exhausted"} /\ queue' = MarkedFailed(queue, Calling) /\ Continue

\* A 5xx or 429 counts against the item; enough of them and it is given up.
FlushError ==
    /\ flush.pc = "error"
    /\ queue' = Bumped(queue, Calling)
    /\ IF AttemptsOf(queue', Calling) >= MaxAttempts
       THEN flush' = [flush EXCEPT !.pc = "exhausted"]
       ELSE Break

FlushUnreachable == flush.pc = "unreachable" /\ Break /\ UNCHANGED queue

SettleFlush ==
    /\ FlushOk \/ FlushRejected \/ FlushError \/ FlushUnreachable
    /\ UNCHANGED <<session, paused, tap, server, restarts, logins, historyVars>>

\* A 401: the session ends, then the queue is parked.
EndSession ==
    /\ flush.pc = "unauthorized"
    /\ session' = None
    /\ flush' = [flush EXCEPT !.pc = "parking"]
    /\ UNCHANGED <<queue, paused, tap, server, restarts, logins, historyVars>>

Park ==
    /\ flush.pc = "parking"
    /\ paused' = TRUE
    /\ Break
    /\ UNCHANGED <<queue, session, tap, server, restarts, logins, historyVars>>

-----------------------------------------------------------------------------
(* The technician and the app *)

Retry(v) ==
    /\ \E i \in DOMAIN queue : queue[i].tap = v /\ queue[i].status = "failed"
    /\ session # None
    /\ queue' = Retried(queue, v)
    /\ UNCHANGED <<session, paused, flush, tap, server, restarts, logins, historyVars>>

Discard(v) ==
    /\ \E i \in DOMAIN queue : queue[i].tap = v /\ queue[i].status = "failed"
    /\ session # None
    /\ queue' = Removed(queue, v)
    /\ discarded' = discarded \cup {v}
    /\ UNCHANGED <<session, paused, flush, tap, server, restarts, logins, applied,
                   overtaken>>

\* Signing in re-arms the queue; signing out leaves it alone.
Login(t) ==
    /\ session = None /\ logins < MaxLogins
    /\ session' = t /\ paused' = FALSE
    /\ logins' = logins + 1
    /\ UNCHANGED <<queue, flush, tap, server, restarts, historyVars>>

Logout ==
    /\ session # None
    /\ session' = None
    /\ UNCHANGED <<queue, paused, flush, tap, server, restarts, logins, historyVars>>

\* The app dies and is opened again: the queue and the session are stored,
\* the flush and the calls that were out are not.
Restart ==
    /\ restarts < MaxRestarts
    /\ restarts' = restarts + 1
    /\ flush' = Idle /\ paused' = FALSE
    /\ tap' = [v \in Taps |-> IF tap[v] \in Live THEN "lost" ELSE tap[v]]
    /\ UNCHANGED <<queue, session, server, logins, historyVars>>

Next ==
    \/ \E v \in Taps :
          \/ TapOffline(v)
          \/ \E o \in Outcomes : TapOnline(v, o)
          \/ SettleLive(v)
          \/ Retry(v)
          \/ Discard(v)
    \/ StartFlush
    \/ \E o \in Outcomes : FlushCall(o)
    \/ SettleFlush
    \/ EndSession
    \/ Park
    \/ \E t \in Techs : Login(t)
    \/ Logout
    \/ Restart

Spec == Init /\ [][Next]_vars

\* The backoff timer starts a flush while anything is queued, the code behind
\* an answer runs, and the network does not stay down for ever, nor fail one
\* write in particular: a call made time and again is answered time and again,
\* if only by an error.
FlushAnswered(v) ==
    /\ flush.pc = "next" /\ Calling = v
    /\ \E o \in Outcomes : o.heard # "unreachable" /\ FlushCall(o)

Fairness ==
    /\ WF_vars(StartFlush) /\ WF_vars(SettleFlush) /\ WF_vars(EndSession) /\ WF_vars(Park)
    /\ WF_vars(\E o \in Outcomes : FlushCall(o))
    /\ \A v \in Taps : SF_vars(FlushAnswered(v))

FairSpec == Spec /\ Fairness

-----------------------------------------------------------------------------
(* Invariants *)

\* What the technician was told is saved: sent, or put into the queue.
Saved(v) == tap[v] \in {"done", "queued"}
Superseded(v) == \E w \in Taps : Later(v, w) /\ Saved(w)

\* A write that was queued reaches the server, or is still there, or gave way to
\* a later version, or was discarded by hand - unless a flush held an earlier
\* version of it when it was queued (removeItem by id after the await of send).
KeptUnlessOvertaken ==
    \A v \in Taps : tap[v] = "queued" =>
        v \in InQueue \cup applied \cup discarded \cup overtaken \/ Superseded(v)

\* Last write wins: the queue never holds a version older than one the
\* technician has since been told is saved, nor two versions of one write
\* (enqueue, removeItem in sendOrQueue).
QueueIsCurrent ==
    /\ \A v \in InQueue : ~Superseded(v)
    /\ \A i, j \in DOMAIN queue : SameWrite(queue[i].tap, queue[j].tap) => i = j

\* Nothing is ever silently deleted: what was queued is on the server, in the
\* queue, replaced by a later version or discarded (the comment in outbox.ts).
NeverSilentlyDeleted ==
    \A v \in Taps : tap[v] = "queued" => v \in InQueue \cup applied \cup discarded \/ Superseded(v)

-----------------------------------------------------------------------------
(* Liveness *)

\* While its owner stays signed in and the queue is not parked, every queued
\* item leaves the queue or becomes visibly failed: no poisoned item, error or
\* outage ahead of it blocks it for ever (flushOutbox, MAX_ATTEMPTS).
Waiting(v) == \E i \in DOMAIN queue : queue[i].tap = v /\ queue[i].status = "queued"

Drains ==
    \A v \in Taps :
        <>[](session = Owner[v] /\ ~paused) => (Waiting(v) ~> ~Waiting(v))
=============================================================================
