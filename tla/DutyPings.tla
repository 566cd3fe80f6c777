------------------------------ MODULE DutyPings ------------------------------
(* On-duty pings of one technician over one clocked window: sampled by the   *)
(* phone, queued up to a cap (pingQueue.ts), sent in batches (pingSync.ts),   *)
(* judged and stored by record_pings, and folded into away intervals by       *)
(* tech_days and variance.                                                    *)
EXTENDS AttendanceDay

CONSTANTS
    ShiftEnd,      \* the window is 0..ShiftEnd
    Cadence,       \* ping_interval_minutes
    MaxUnsent,     \* MAX_UNSENT_PINGS
    MaxBatch,      \* MAX_BATCH
    PingBackdate   \* ping_backdate_ceiling_hours

ASSUME DutyPingsAssumption ==
    /\ ShiftEnd \in Nat /\ PingBackdate \in Nat
    /\ Cadence \in Nat \ {0} /\ MaxUnsent \in Nat \ {0} /\ MaxBatch \in Nat \ {0}

VARIABLES
    clock,       \* the time, on phone and server
    taken,       \* the pings sampled so far: [at, inside], inside as measured
    queue,       \* the ones on the phone that are not marked done
    stored,      \* attendance_ping, with the verdicts of the fence at receipt
    fenceActive  \* an active geofence is configured

dutyVars == <<clock, taken, queue, stored, fenceActive>>

Samples == [at : 0..ShiftEnd, inside : Verdicts]

DutyInit ==
    /\ clock = 0
    /\ taken = {} /\ queue = {} /\ stored = {}
    /\ fenceActive \in BOOLEAN

-----------------------------------------------------------------------------
\* The n oldest pings of a set.
Oldest(pings, n) == {p \in pings : Cardinality({q \in pings : q.at < p.at}) < n}

\* enqueuePing: the unsent pings beyond the cap are dropped, oldest first.
Capped(pings) == pings \ Oldest(pings, Cardinality(pings) - MaxUnsent)

\* One sample, if the phone's system lets the background task run.
Sample ==
    /\ \A p \in taken : p.at # clock
    /\ \E v \in Verdicts :
         LET p == [at |-> clock, inside |-> v]
         IN  taken' = taken \cup {p} /\ queue' = Capped(queue \cup {p})
    /\ UNCHANGED <<clock, stored, fenceActive>>

\* _ping_in_window
PingInWindow(at) == clock - PingBackdate <= at

\* record_pings: the ones within the window, judged by the fence there is now,
\* unless their client id is there.
RecordPings(batch) ==
    LET fresh == {p \in batch : PingInWindow(p.at) /\ \A s \in stored : s.at # p.at}
    IN  stored' = stored \cup {[p EXCEPT !.inside = IF fenceActive THEN @ ELSE Unknown] : p \in fresh}

\* syncPings, one batch: answered, its pings leave the queue, rejected or not.
SyncPings ==
    LET batch == Oldest(queue, MaxBatch) IN
    /\ queue # {}
    /\ RecordPings(batch)
    /\ queue' = queue \ batch
    /\ UNCHANGED <<clock, taken, fenceActive>>

\* The answer is lost, and the batch stays queued.
AnswerLost ==
    /\ queue # {}
    /\ RecordPings(Oldest(queue, MaxBatch))
    /\ stored' # stored
    /\ UNCHANGED <<clock, taken, queue, fenceActive>>

\* A definitive 4xx: the batch is dropped.
BatchRefused ==
    /\ queue # {}
    /\ queue' = queue \ Oldest(queue, MaxBatch)
    /\ UNCHANGED <<clock, taken, stored, fenceActive>>

SetFence == fenceActive' = ~fenceActive /\ UNCHANGED <<clock, taken, queue, stored>>

ClockTick == clock < ShiftEnd /\ clock' = clock + 1 /\ UNCHANGED <<taken, queue, stored, fenceActive>>

DutyNext == Sample \/ SyncPings \/ AnswerLost \/ BatchRefused \/ SetFence \/ ClockTick

DutySpec == DutyInit /\ [][DutyNext]_dutyVars

-----------------------------------------------------------------------------
(* Properties                                                                *)

\* What the day's pings say of the time from x to x + 1, sample by sample.
KindAt(samples, from, to, x) ==
    LET pts    == {s \in samples : from <= s.at /\ s.at <= to}
        before == {s \in pts : s.at <= x}
        after  == {s \in pts : s.at > x}
        start  == IF before = {} THEN from ELSE Latest(before).at
        end    == IF after = {} THEN to ELSE Earliest(after).at
        known  == {s \in pts : s.inside # Unknown}
        last   == {s \in before : s.inside # Unknown}
    IN  CASE pts = {} \/ end - start > 2 * Cadence -> "no_data"
          [] pts # {} /\ end - start <= 2 * Cadence /\ last # {} -> KindOf(Latest(last).inside)
          [] pts # {} /\ end - start <= 2 * Cadence /\ last = {} ->
               IF known = {} THEN "inside" ELSE KindOf(Earliest(known).inside)

\* duty_intervals partitions the clocked window: the runs follow on each other
\* from its start to its end, neighbours differ in kind, every moment is in a run
\* of the kind its pings say, and duty_summary accounts for all of it.
DutyPartition ==
    \A from \in 0..clock : stored # {} /\ from < clock =>
      LET runs == DutyBreakdown(stored, from, clock, Cadence)
      IN  /\ runs # <<>> /\ runs[1].from = from /\ Last(runs).to = clock
          /\ \A i \in 1..(Len(runs) - 1) : /\ runs[i].to = runs[i + 1].from
                                           /\ runs[i].kind # runs[i + 1].kind
          /\ \A i \in DOMAIN runs : \A x \in runs[i].from..(runs[i].to - 1) :
               runs[i].kind = KindAt(stored, from, clock, x)
          /\ LET sum == DutySummary(runs)
             IN  sum["inside"] + sum["outside"] + sum["no_data"] = clock - from
=============================================================================
