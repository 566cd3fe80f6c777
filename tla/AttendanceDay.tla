---------------------------- MODULE AttendanceDay ----------------------------
(* The pure part of the attendance slice (attendance/derive.py): what one     *)
(* technician's punches and pings of one local day amount to.  Times are      *)
(* ticks of shop-local wall clock.                                            *)
EXTENDS Integers, FiniteSets, Sequences, SequencesExt, Lists

CONSTANTS
    DayTicks,  \* ticks in a day
    WeekDays,  \* days in a week, the last one a Sunday
    Unknown    \* None in a nullable column: no verdict, no time

ASSUME DayAssumption ==
    /\ DayTicks \in Nat \ {0} /\ WeekDays \in Nat \ {0}
    /\ Unknown \notin Int \cup BOOLEAN

Verdicts == {TRUE, FALSE, Unknown}

-----------------------------------------------------------------------------
(* The geofence: positions on a line stand for the plane.                     *)

Distance(x, y) == IF x < y THEN y - x ELSE x - y

\* geofence_flags: inside if the confidence circle overlaps the fence.
Overlaps(distance, accuracy, radius) == distance - accuracy <= radius

\* _evaluate_geofence and _evaluate_ping: no verdict without an active fence,
\* without coordinates, or from a fix coarser than the ceiling.
FenceVerdict(fence, fix, ceiling) ==
    IF fence = Unknown \/ fix.at = Unknown \/ fix.accuracy = Unknown
    THEN Unknown
    ELSE IF fix.accuracy > ceiling
         THEN Unknown
         ELSE Overlaps(Distance(fix.at, fence.center), fix.accuracy, fence.radius)

-----------------------------------------------------------------------------
(* One day's punches                                                          *)

IsWorkingDay(day, shift) == day % WeekDays \in shift.workingDays

\* Overnight shifts wrap around midnight.
ShiftLength(shift) ==
    IF shift.end > shift.start THEN shift.end - shift.start
    ELSE shift.end - shift.start + DayTicks

Ins(punches)  == {p \in punches : p.kind = "clock_in"}
Outs(punches) == {p \in punches : p.kind = "clock_out"}
Earliest(punches) == CHOOSE p \in punches : \A q \in punches : p.at <= q.at
Latest(punches)   == CHOOSE p \in punches : \A q \in punches : q.at <= p.at

NoTimes(status, order) ==
    [status |-> status, firstIn |-> Unknown, lastOut |-> Unknown,
     worked |-> Unknown, late |-> FALSE, order |-> order]

Worked(firstIn, lastOut) == IF lastOut < firstIn THEN 0 ELSE lastOut - firstIn

\* The status of a worked day: offsite, too short, or present.
StatusOf(first, worked, shift) ==
    CASE first.inside = FALSE -> "field"
      [] first.inside # FALSE /\ worked # Unknown /\ 2 * worked < ShiftLength(shift) -> "half"
      [] OTHER -> "present"

\* classify_day; punches are the day's, with their times in shop-local ticks.
ClassifyDay(day, punches, shift) ==
    IF ~IsWorkingDay(day, shift) THEN NoTimes("holiday", FALSE)
    ELSE IF Ins(punches) = {} THEN NoTimes("absent", Outs(punches) # {})
    ELSE LET first  == Earliest(Ins(punches))
             out    == IF Outs(punches) = {} THEN Unknown ELSE Latest(Outs(punches)).at
             worked == IF out = Unknown THEN Unknown ELSE Worked(first.at, out)
         IN  [status  |-> StatusOf(first, worked, shift),
              firstIn |-> first.at,
              lastOut |-> out,
              worked  |-> worked,
              late    |-> first.at > day * DayTicks + shift.start + shift.grace,
              order   |-> out # Unknown /\ out < first.at]

-----------------------------------------------------------------------------
(* On-duty pings to intervals                                                 *)

Kinds == {"inside", "outside", "no_data"}
ASSUME UnknownIsNoKind == Unknown \notin Kinds
KindOf(verdict) == IF verdict = TRUE THEN "inside" ELSE "outside"

\* The samples of the window, oldest first.
InWindow(samples, from, to) == ByTime({s \in samples : from <= s.at /\ s.at <= to})

\* Each sample's verdict: the last known one is carried forward, and leading
\* unknown ones take the first known one (inside, if there is none).
Resolved(pts) ==
    LET carried[i \in 0..Len(pts)] ==
          IF i = 0 THEN Unknown
          ELSE IF pts[i].inside = Unknown THEN carried[i - 1] ELSE KindOf(pts[i].inside)
        known == {i \in DOMAIN pts : carried[i] # Unknown}
        leading == IF known = {} THEN "inside"
                   ELSE carried[CHOOSE i \in known : \A j \in known : i <= j]
    IN  [i \in DOMAIN pts |-> IF carried[i] = Unknown THEN leading ELSE carried[i]]

\* Mutant: a run goes on whatever its kind.
ExtendAnyKind(runs, run) ==
    IF runs # <<>> /\ Last(runs).to = run.from
    THEN [runs EXCEPT ![Len(runs)].to = run.to]
    ELSE Append(runs, run)

\* A run goes on where the last one ended with the same kind.
Extend(runs, run) ==
    IF runs # <<>> /\ Last(runs).kind = run.kind /\ Last(runs).to = run.from
    THEN [runs EXCEPT ![Len(runs)].to = run.to]
    ELSE Append(runs, run)

\* The samples cut the window: the i-th segment leads to the i-th of them, the
\* last one to the end.
Cut(pts, from, to, i) == IF i = 0 THEN from ELSE IF i = Len(pts) + 1 THEN to ELSE pts[i].at

\* A sample governs up to the next one, the first one also up to itself; more than
\* two cadences without one are no data.
Segment(pts, from, to, cadence, i) ==
    LET a == Cut(pts, from, to, i - 1)
        b == Cut(pts, from, to, i)
    IN  [from |-> a, to |-> b,
         kind |-> IF b - a > 2 * cadence THEN "no_data"
                  ELSE Resolved(pts)[IF i = 1 THEN 1 ELSE i - 1]]

\* The runs that the segments make, empty ones apart.
Merged(pts, from, to, cadence) ==
    LET runs[i \in 0..(Len(pts) + 1)] ==
          IF i = 0 THEN <<>>
          ELSE IF Cut(pts, from, to, i - 1) < Cut(pts, from, to, i)
               THEN Extend(runs[i - 1], Segment(pts, from, to, cadence, i)) ELSE runs[i - 1]
    IN  runs[Len(pts) + 1]

\* duty_intervals: the runs of one kind that make up the clocked window.
DutyIntervals(samples, from, to, cadence) ==
    LET pts == InWindow(samples, from, to) IN
    CASE to <= from -> <<>>
      [] from < to /\ pts = <<>> -> <<[from |-> from, to |-> to, kind |-> "no_data"]>>
      [] from < to /\ pts # <<>> -> Merged(pts, from, to, cadence)

\* duty_summary: ticks of each kind; coverage is what is not "no_data".
Minutes(runs, kind) ==
    Total([i \in DOMAIN runs |-> IF runs[i].kind = kind THEN runs[i].to - runs[i].from ELSE 0])

DutySummary(runs) == [k \in Kinds |-> Minutes(runs, k)]

\* _duty_breakdown: nothing to report without a closed window and a ping.
DutyBreakdown(samples, firstIn, lastOut, cadence) ==
    IF firstIn = Unknown \/ lastOut = Unknown \/ samples = {} THEN <<>>
    ELSE IF lastOut <= firstIn THEN <<>>
         ELSE DutyIntervals(samples, firstIn, lastOut, cadence)
=============================================================================
