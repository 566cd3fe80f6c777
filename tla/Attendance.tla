----------------------------- MODULE Attendance -----------------------------
(* The attendance of one shop: punches and geofence crossings that phones    *)
(* capture offline and sync later, by clocks that may be wrong; the manager's *)
(* corrections, shifts and fence; the reports; and the payroll export of the  *)
(* Sunday job.  Server time and true time are the same count of ticks.        *)
EXTENDS AttendanceDay

CONSTANTS
    Technicians,       \* tech ids
    Punches,           \* client ids of punches
    Crossings,         \* client ids of geofence crossings
    PhoneOf,           \* whose phone they are captured on
    Corrections,       \* ids of the manager's corrections
    Fixes,             \* what a phone may report of its place: a GPS fix, an access point
    Photos,            \* whether a punch is sent with a selfie to come
    Fences,            \* the rows upsert_geofence may write
    ShiftUpdates,      \* the rows upsert_shift may write
    Skews,             \* how far a phone's clock may be ahead
    Backdate,          \* device_time_backdate_ceiling_hours
    Tolerance,         \* device_time_future_tolerance_seconds
    DriftFlag,         \* drift_flag_seconds
    AccuracyCeiling,   \* location_accuracy_ceiling_m
    DefaultShift,      \* DEFAULT_SHIFT with DEFAULT_TIMEZONE, the scheduler's too
    ExportTick,        \* the tick of a Sunday, in that zone, at which the export job is due
    Horizon,           \* bound on the clock
    MaxExtras          \* bound on crossings, completed selfies, restarts and the manager's writes

ASSUME AttendanceAssumption ==
    /\ Backdate \in Nat /\ Tolerance \in Nat /\ DriftFlag \in Nat
    /\ 0 \in Skews /\ Skews \subseteq Int
    /\ ExportTick \in 0..(DayTicks - 1)
    /\ Punches \cap Corrections = {}
    /\ PhoneOf \in [Punches \cup Crossings -> Technicians]
    /\ Horizon \in Nat /\ MaxExtras \in Nat

VARIABLES
    now,       \* the time
    up,        \* the server process is running
    nextRun,   \* when its scheduler runs the export next
    export,    \* the export that is running
    ahead,     \* how far the clock of each phone is ahead, by technician
    captured,  \* what the phones have captured
    events,    \* attendance_event, by client id
    presence,  \* attendance_presence_event, by client id
    shifts,    \* attendance_shift, by technician
    fence,     \* attendance_geofence
    exports,   \* payroll_export, by week
    csv,       \* the CSV files in storage, by week
    extras,    \* what MaxExtras bounds, so far
    amended    \* history: whose week has changed since its file was computed

attendanceVars == <<now, up, nextRun, export, ahead, captured, events, presence, shifts,
                    fence, exports, csv, extras, amended>>

tables == <<events, presence, shifts, fence>>
job    == <<up, nextRun, export, exports, csv>>

-----------------------------------------------------------------------------
PunchKinds    == {"clock_in", "clock_out"}
PresenceKinds == {"arrive", "depart"}
PunchSources  == {"mobile", "manual"}
Captures == Punches \cup Crossings
Ids   == Punches \cup Corrections
Weeks == 0..(Horizon \div (DayTicks * WeekDays))
Sunday(w) == w * WeekDays + WeekDays - 1
DueOf(w)  == Sunday(w) * DayTicks + ExportTick - DefaultShift.zone
Dues == {DueOf(w) : w \in 0..(Horizon + 2)}

\* The tables' rows, as far as a report or a later request looks at them.  A
\* selfie is pending once the punch came with its name, uploaded once completed.
SelfieStates == {"none", "pending", "uploaded"}
AttendanceEvent ==
    [tech : Technicians, kind : PunchKinds, source : PunchSources, server : 0..Horizon,
     device : Int \cup {Unknown}, effective : Int, inside : Verdicts, located : BOOLEAN,
     mock : BOOLEAN, wifi : Verdicts, selfie : SelfieStates]
AttendancePresenceEvent ==
    [tech : Technicians, kind : PresenceKinds, source : {"mobile"}, server : 0..Horizon,
     device : Int, effective : Int, inside : Verdicts, located : BOOLEAN,
     mock : BOOLEAN, wifi : Verdicts, selfie : {"none"}]
AttendanceShift ==
    [start : 0..(DayTicks - 1), end : 0..(DayTicks - 1), grace : Nat,
     workingDays : SUBSET (0..(WeekDays - 1)), zone : Int]
AttendanceGeofence == [center : Int, radius : Nat, wifi : SUBSET Int]

\* The fixes, fences and shifts the instance draws on are what the schemas admit.
ASSUME InputAssumption ==
    /\ Punches \cap Crossings = {}
    /\ Fixes \subseteq [at : Int \cup {Unknown}, accuracy : Int \cup {Unknown},
                      mock : BOOLEAN, bssid : Int \cup {Unknown}]
    /\ Photos \subseteq BOOLEAN
    /\ Fences \subseteq AttendanceGeofence
    /\ ShiftUpdates \cup {DefaultShift} \subseteq AttendanceShift
    /\ AccuracyCeiling \in Nat

\* The default zone is within a day of UTC, and the export's hour is late enough
\* for it to be Sunday in every zone a shop may have.
ASSUME ZoneAssumption ==
    /\ DefaultShift.zone \in (-DayTicks)..DayTicks
    /\ \A s \in ShiftUpdates : s.zone >= DefaultShift.zone - ExportTick

ASSUME UnknownIsNoRow == Unknown \notin AttendanceEvent \cup AttendanceShift

\* The Sunday trigger's first firing from a time on.
NextDue(time) == CHOOSE d \in Dues : d >= time /\ \A e \in Dues : e >= time => d <= e

Idle == [pc |-> "idle", week |-> 0, rows |-> Unknown]

AttendanceInit ==
    /\ now = 0 /\ up = TRUE /\ nextRun = NextDue(0) /\ export = Idle
    /\ ahead \in [{PhoneOf[c] : c \in Captures} -> Skews]
    /\ captured = [c \in Captures |-> Unknown]
    /\ events = [i \in Ids |-> Unknown]
    /\ presence = [c \in Crossings |-> Unknown]
    /\ shifts = [t \in Technicians |-> Unknown]
    /\ fence = Unknown
    /\ exports = [w \in Weeks |-> Unknown]
    /\ csv = [w \in Weeks |-> Unknown]
    /\ extras = 0
    /\ amended = [w \in Weeks |-> {}]

-----------------------------------------------------------------------------
(* When it happened, and who may be blamed for the clock                     *)

Drift(row) == row.server - row.device

\* Mutant: only a clock that is behind is flagged when its time is taken.
FlaggedBehindReceipt(row) == row.device # Unknown /\ Drift(row) > DriftFlag + Backdate

DriftFlagged(row) == row.device # Unknown /\ (Drift(row) > DriftFlag \/ -Drift(row) > DriftFlag)

\* Mutant: the time of receipt, always.
ReceiptTime(device) == now

\* The device's time if it is close enough to the time of receipt, else that.
EffectiveTime(device) ==
    IF now - Backdate <= device /\ device <= now + Tolerance THEN device ELSE now

Located(fix) == fix.at # Unknown /\ fix.accuracy # Unknown /\ fix.accuracy <= AccuracyCeiling

\* _wifi_match: no verdict without a fence that lists the shop's access points.
WifiVerdict(fix) ==
    IF fence = Unknown \/ fix.bssid = Unknown THEN Unknown
    ELSE IF fence.wifi = {} THEN Unknown ELSE fix.bssid \in fence.wifi

\* A mobile row, as record_punch and record_presence write it at receipt; a
\* crossing has no photo.
Received(capture) ==
    [tech      |-> capture.tech,
     kind      |-> capture.kind,
     source    |-> "mobile",
     server    |-> now,
     device    |-> capture.device,
     effective |-> EffectiveTime(capture.device),
     inside    |-> FenceVerdict(fence, capture.fix, AccuracyCeiling),
     located   |-> Located(capture.fix),
     mock      |-> capture.fix.mock,
     wifi      |-> WifiVerdict(capture.fix),
     selfie    |-> IF capture.photo THEN "pending" ELSE "none"]

\* A manual row: the time the manager asserts is all there is.
Asserted(tech, kind, time) ==
    [tech |-> tech, kind |-> kind, source |-> "manual", server |-> time, device |-> Unknown,
     effective |-> time, inside |-> Unknown, located |-> FALSE,
     mock |-> FALSE, wifi |-> Unknown, selfie |-> "none"]

-----------------------------------------------------------------------------
(* Reports, each over the tables as they are; zone is the shop's             *)

\* _tz_from_shifts: the zone of the first row, and the query has no order.
ShopZones ==
    LET rows == {t \in Technicians : shifts[t] # Unknown}
    IN  IF rows = {} THEN {DefaultShift.zone} ELSE {shifts[t].zone : t \in rows}

ShiftFor(t) == IF shifts[t] = Unknown THEN DefaultShift ELSE shifts[t]

LocalDay(time, zone) == (time + zone) \div DayTicks
Today(zone) == LocalDay(now, zone)

\* Mutant: the reports end on the day before.
ClampedBefore(day, zone) == IF day >= Today(zone) THEN Today(zone) - 1 ELSE day

Clamped(day, zone) == IF day > Today(zone) THEN Today(zone) ELSE day

\* Mutant: the window is cut by the time of receipt.
ReceivedIn(table, from, to, zone) ==
    {row \in {table[i] : i \in DOMAIN table} \ {Unknown} :
        row.server >= from * DayTicks - zone /\ row.server < (to + 1) * DayTicks - zone}

\* The rows whose time is in the local days from..to.
RowsIn(table, from, to, zone) ==
    {row \in {table[i] : i \in DOMAIN table} \ {Unknown} :
        /\ row.effective >= from * DayTicks - zone
        /\ row.effective < (to + 1) * DayTicks - zone}

EventsIn(from, to, zone)   == RowsIn(events, from, to, zone)
PresenceIn(from, to, zone) == RowsIn(presence, from, to, zone)

\* The rows of one technician's local day.
Bucket(rows, t, day, zone) == {row \in rows : row.tech = t /\ LocalDay(row.effective, zone) = day}

\* Everyone with a punch in the window or a shift.
Roster(rows) == {row.tech : row \in rows} \cup {t \in Technicians : shifts[t] # Unknown}

\* _local_punches
LocalPunches(rows, zone) ==
    {[kind |-> r.kind, at |-> r.effective + zone, inside |-> r.inside] : r \in rows}

\* _day_flags: corrections owe no location and no selfie.  A match with one of the
\* shop's access points outweighs the misses.
DayFlags(rows) ==
    LET mobile   == {r \in rows : r.source = "mobile"}
        verdicts == {r.wifi : r \in rows} \ {Unknown}
    IN  [mock       |-> \E r \in rows : r.mock,
         outside    |-> \E r \in rows : r.inside = FALSE,
         drift      |-> \E r \in rows : DriftFlagged(r),
         noLocation |-> \E r \in mobile : ~r.located,
         noSelfie   |-> \E r \in mobile : r.selfie # "uploaded",
         wifiMatch  |-> IF verdicts = {} THEN Unknown ELSE TRUE \in verdicts]

DayRow(rows, t, day, zone) ==
    LET mine == Bucket(rows, t, day, zone)
    IN  [roll  |-> ClassifyDay(day, LocalPunches(mine, zone), ShiftFor(t)),
         flags |-> DayFlags(mine)]

\* _latest
Newest(rows) == IF rows = {} THEN Unknown
                ELSE CHOOSE x \in {r.effective : r \in rows} : \A r \in rows : r.effective <= x

\* today_status: the newest punch of either kind decides.
TodayStatus(t, zone) ==
    LET mine == Bucket(EventsIn(Today(zone), Today(zone), zone), t, Today(zone), zone)
        lastIn  == Newest(Ins(mine))
        lastOut == Newest(Outs(mine))
    IN  [clockedIn |-> lastIn # Unknown /\ (lastOut = Unknown \/ lastIn > lastOut),
         lastIn |-> lastIn, lastOut |-> lastOut]

\* board: one day, whatever day it is.
Board(day, zone) ==
    LET rows == EventsIn(day, day, zone)
        seen == PresenceIn(day, day, zone)
    IN  [t \in Roster(rows) |->
          [row |-> DayRow(rows, t, day, zone),
           arrivedNotIn |-> /\ \E p \in Bucket(seen, t, day, zone) : p.kind = "arrive"
                            /\ ~\E e \in Bucket(rows, t, day, zone) : e.kind = "clock_in"]]

\* grid, over a month or what there is of it.
Grid(from, until, zone) ==
    LET to   == Clamped(until, zone)
        rows == EventsIn(from, to, zone)
        cell(t, day) == DayRow(rows, t, day, zone)
    IN  [t \in Roster(rows) |->
          [cells   |-> [day \in from..to |-> cell(t, day)],
           working |-> Cardinality({day \in from..to : cell(t, day).roll.status # "holiday"}),
           present |-> Cardinality({day \in from..to :
                         cell(t, day).roll.status \in {"present", "field", "half"}})]]

\* payroll
Payroll(from, until, zone) ==
    LET to   == Clamped(until, zone)
        rows == EventsIn(from, to, zone)
    IN  [at \in Roster(rows) \X (from..to) |-> DayRow(rows, at[1], at[2], zone)]

\* tech_days, one technician.
TechDays(t, from, until, zone) ==
    LET to   == Clamped(until, zone)
        rows == {row \in EventsIn(from, to, zone) : row.tech = t}
    IN  [day \in from..to |-> DayRow(rows, t, day, zone)]

ExtremeOf(rows, kind, zone, earliest) ==
    LET times == {r.effective + zone : r \in {s \in rows : s.kind = kind}}
    IN  IF times = {} THEN Unknown
        ELSE CHOOSE x \in times : \A y \in times : IF earliest THEN x <= y ELSE y <= x

DeltaOf(later, earlier) == IF Unknown \in {later, earlier} THEN Unknown ELSE later - earlier

\* variance: the crossings against the punches, holidays left out.
Variance(from, until, zone) ==
    LET to   == Clamped(until, zone)
        rows == EventsIn(from, to, zone)
        seen == PresenceIn(from, to, zone)
        row(at)     == DayRow(rows, at[1], at[2], zone)
        crossings(at) == Bucket(seen, at[1], at[2], zone)
        days == {at \in Roster(rows) \X (from..to) : row(at).roll.status # "holiday"}
    IN  [at \in days |->
          [row      |-> row(at),
           deltaIn  |-> DeltaOf(row(at).roll.firstIn, ExtremeOf(crossings(at), "arrive", zone, TRUE)),
           deltaOut |-> DeltaOf(ExtremeOf(crossings(at), "depart", zone, FALSE), row(at).roll.lastOut)]]

-----------------------------------------------------------------------------
(* The phones                                                                *)

\* What a phone sends, with the true time, which it does not know.
Body(c, kind, fix, photo) ==
    [tech |-> PhoneOf[c], kind |-> kind, at |-> now, device |-> now + ahead[PhoneOf[c]],
     fix |-> fix, photo |-> photo]
PunchRequest(c)    == {Body(c, k, f, p) : k \in PunchKinds, f \in Fixes, p \in Photos}
PresenceRequest(c) == {Body(c, k, f, FALSE) : k \in PresenceKinds, f \in Fixes}

Capture(c, bodies) ==
    /\ captured[c] = Unknown
    /\ \E body \in bodies : captured' = [captured EXCEPT ![c] = body]
    /\ UNCHANGED <<now, job, ahead, tables, amended>>

Extra == extras < MaxExtras /\ extras' = extras + 1

Punch(c) == Capture(c, PunchRequest(c)) /\ UNCHANGED extras
Cross(c) == Capture(c, PresenceRequest(c)) /\ Extra

\* History: t's rows, or everyone's, are not what the files were computed from.
Amend(who) ==
    amended' = [w \in Weeks |-> IF csv[w] # Unknown \/ (export.pc = "computed" /\ export.week = w)
                                THEN amended[w] \cup who ELSE {}]

CreateEvent(i, row)    == events' = [events EXCEPT ![i] = row]
CreatePresence(c, row) == presence' = [presence EXCEPT ![c] = row]

\* record_punch: a client id that is there already changes nothing.
RecordPunch(c) ==
    /\ up /\ captured[c] # Unknown
    /\ events[c] = Unknown
    /\ CreateEvent(c, Received(captured[c]))
    /\ Amend({captured[c].tech})
    /\ UNCHANGED <<now, job, ahead, captured, presence, shifts, fence, extras>>

\* complete_selfie: the photo has reached storage, perhaps days after the punch; the
\* one change a row sees.  (An oversized photo is rejected and rolled back.)
CompleteSelfie(c) ==
    /\ up /\ Extra
    /\ events[c] # Unknown /\ events[c].selfie = "pending"
    /\ events' = [events EXCEPT ![c] = [@ EXCEPT !.selfie = "uploaded"]]
    /\ Amend({events[c].tech})
    /\ UNCHANGED <<now, job, ahead, captured, presence, shifts, fence>>

\* record_presence
RecordPresence(c) ==
    /\ up /\ captured[c] # Unknown
    /\ presence[c] = Unknown
    /\ CreatePresence(c, Received(captured[c]))
    /\ UNCHANGED <<now, job, ahead, captured, events, shifts, fence, extras, amended>>

-----------------------------------------------------------------------------
(* The manager                                                               *)

Edit == up /\ Extra

\* Mutant: a correction takes the place of the event it corrects.
EditOriginal(m) ==
    /\ Edit
    /\ \E t \in Technicians, k \in PunchKinds, time \in 0..now, original \in Ids :
         /\ events[original] # Unknown
         /\ CreateEvent(original, Asserted(t, k, time))
    /\ Amend(Technicians)
    /\ UNCHANGED <<now, job, ahead, captured, presence, shifts, fence>>

\* create_adjustment: one more event, and the audit row in the same transaction;
\* neither the original it names nor that one's technician matters further.
CreateAdjustment(m) ==
    /\ Edit /\ events[m] = Unknown
    /\ \E t \in Technicians, k \in PunchKinds, time \in 0..now :
         /\ CreateEvent(m, Asserted(t, k, time))
         /\ Amend({t})
    /\ UNCHANGED <<now, job, ahead, captured, presence, shifts, fence>>

\* upsert_shift: a new zone may become everyone's.
UpsertShift(t) ==
    /\ Edit
    /\ \E s \in ShiftUpdates :
         /\ shifts' = [shifts EXCEPT ![t] = s]
         /\ Amend(IF ShopZones = {s.zone} THEN {t} ELSE Technicians)
    /\ UNCHANGED <<now, job, ahead, captured, events, presence, fence>>

\* upsert_geofence: judges what is received from now on.
UpsertGeofence ==
    /\ Edit
    /\ \E f \in Fences \cup {Unknown} : f # fence /\ fence' = f
    /\ UNCHANGED <<now, job, ahead, captured, events, presence, shifts, amended>>

-----------------------------------------------------------------------------
(* The Sunday job; days of the scheduler's zone are the default zone's       *)

FirstDay(w) == w * WeekDays

\* payroll_week_window: the week that ends on the last Sunday, today included.
WeekEnding(day) == (day + 1) \div WeekDays - 1

\* get_export_for_window
Exported(w) == exports[w] # Unknown

\* run_weekly_export to the point where it has read its rows.
ComputeExport ==
    LET w == WeekEnding(LocalDay(now, DefaultShift.zone)) IN
    /\ up /\ export.pc = "idle" /\ now = nextRun
    /\ nextRun' = NextDue(now + 1)
    /\ IF Exported(w)
       THEN export' = [Idle EXCEPT !.pc = "done"] /\ UNCHANGED amended
       ELSE /\ \E zone \in ShopZones :
                 export' = [pc |-> "computed", week |-> w,
                            rows |-> Payroll(FirstDay(w), Sunday(w), zone)]
            /\ amended' = [amended EXCEPT ![w] = {}]
    /\ UNCHANGED <<now, up, ahead, captured, tables, exports, csv, extras>>

\* put_bytes; storage may fail.
PutFile ==
    /\ export.pc = "computed"
    /\ \/ /\ csv' = [csv EXCEPT ![export.week] = export.rows]
          /\ export' = [export EXCEPT !.pc = "put"]
       \/ /\ export' = [Idle EXCEPT !.pc = "failed"]
          /\ UNCHANGED csv
    /\ UNCHANGED <<now, up, nextRun, ahead, captured, tables, exports, extras, amended>>

\* add_export and commit.
CommitExport ==
    /\ export.pc = "put"
    /\ exports' = [exports EXCEPT ![export.week] = [rows |-> Cardinality(DOMAIN export.rows)]]
    /\ export' = [Idle EXCEPT !.pc = "done"]
    /\ UNCHANGED <<now, up, nextRun, ahead, captured, tables, csv, extras, amended>>

\* The process dies and comes back; its scheduler, which keeps its jobs in
\* memory, then knows the next firing only.
Stop ==
    /\ Edit /\ up' = FALSE /\ export' = Idle
    /\ UNCHANGED <<now, nextRun, ahead, captured, tables, exports, csv, amended>>

Start ==
    /\ ~up /\ up' = TRUE /\ nextRun' = NextDue(now + 1)
    /\ UNCHANGED <<now, export, ahead, captured, tables, exports, csv, extras, amended>>

\* Time passes; the job runs within its tick.
Tick ==
    /\ now < Horizon /\ now' = now + 1
    /\ export.pc \in {"idle", "done", "failed"} /\ ~(up /\ nextRun = now)
    /\ export' = Idle
    /\ UNCHANGED <<up, nextRun, ahead, captured, tables, exports, csv, extras, amended>>

AttendanceNext ==
    \/ \E c \in Punches : Punch(c) \/ RecordPunch(c) \/ CompleteSelfie(c)
    \/ \E c \in Crossings : Cross(c) \/ RecordPresence(c)
    \/ \E m \in Corrections : CreateAdjustment(m)
    \/ \E t \in Technicians : UpsertShift(t)
    \/ UpsertGeofence
    \/ ComputeExport \/ PutFile \/ CommitExport
    \/ Stop \/ Start \/ Tick

AttendanceSpec == AttendanceInit /\ [][AttendanceNext]_attendanceVars

-----------------------------------------------------------------------------
(* Properties                                                                *)

AttendanceTypeOK ==
    /\ now \in 0..Horizon /\ up \in BOOLEAN /\ extras \in Nat
    /\ \A i \in Ids : events[i] # Unknown => events[i] \in AttendanceEvent
    /\ \A c \in Crossings : presence[c] # Unknown => presence[c] \in AttendancePresenceEvent
    /\ \A t \in Technicians : shifts[t] # Unknown => shifts[t] \in AttendanceShift
    /\ fence # Unknown => fence \in AttendanceGeofence
    /\ export.pc \in {"idle", "computed", "put", "done", "failed"}

Punched(t) == {c \in Punches : events[c] # Unknown /\ events[c].tech = t}

\* The clock was right, and the punch did not wait beyond the ceiling.
Timely(c) == captured[c].device = captured[c].at /\ events[c].server - captured[c].at <= Backdate

\* effective_time, "the analytical when it happened axis" (models.py): a
\* technician whose synced punches were all timely, and were not corrected, is
\* classified on every day by when the punches were made, however late and in
\* whatever order they came in.
CountsWhenItHappened ==
    \A z \in ShopZones, t \in Technicians :
      ((\A c \in Punched(t) : Timely(c)) /\ \A m \in Corrections : events[m] = Unknown) =>
        \A d \in 0..Today(z) :
          TechDays(t, 0, Today(z), z)[d].roll =
            ClassifyDay(d,
              {[kind |-> captured[c].kind, at |-> captured[c].at + z, inside |-> events[c].inside] :
                 c \in {b \in Punched(t) : LocalDay(captured[b].at, z) = d}},
              ShiftFor(t))

\* A punch cannot be made to count before it was made without the drift flag,
\* and never counts in the future, whatever the clock and however late the sync.
BackdatingIsFlagged ==
    \A c \in Punches : events[c] # Unknown =>
      /\ events[c].effective <= events[c].server + Tolerance
      /\ events[c].effective < captured[c].at - DriftFlag => DriftFlagged(events[c])

\* One rollup behind every report: board, grid, payroll, technician detail and
\* variance say the same of the same technician and day (_day_flags: "computed
\* in ONE place"), although each cuts its own window out of the tables; and what
\* the phone shows of today is on the board.
ReportsAgree ==
    \A z \in ShopZones :
      LET first   == LocalDay(0, z)
          payroll == Payroll(first, Today(z), z)
          differs == Variance(first, Today(z), z)
          grid    == Grid(first, Today(z) + 1, z)
          today(t) == payroll[<<t, Today(z)>>].roll
      IN  /\ \A at \in DOMAIN payroll : grid[at[1]].cells[at[2]] = payroll[at]
          /\ \A t \in DOMAIN grid : grid[t].present <= grid[t].working
          /\ \A t \in DOMAIN grid : today(t).firstIn # Unknown =>
               LET status == TodayStatus(t, z)
               IN  /\ status.lastIn # Unknown /\ status.lastIn + z >= today(t).firstIn
                   /\ status.lastOut = IF today(t).lastOut = Unknown THEN Unknown
                                       ELSE today(t).lastOut - z
          /\ \A at \in DOMAIN payroll : TechDays(at[1], first, Today(z), z)[at[2]] = payroll[at]
          /\ \A at \in DOMAIN differs : differs[at].row = payroll[at]
          /\ \A d \in first..Today(z) : \A t \in DOMAIN Board(d, z) :
               <<t, d>> \in DOMAIN payroll /\ Board(d, z)[t].row = payroll[<<t, d>>]

\* What a payroll of the week would say now, of the technicians not amended.
Explained(file, w, z) ==
    \A t \in Technicians \ amended[w], d \in FirstDay(w)..Sunday(w) :
      LET fresh == Payroll(FirstDay(w), Sunday(w), z)
      IN  /\ (<<t, d>> \in DOMAIN file) = (<<t, d>> \in DOMAIN fresh)
          /\ <<t, d>> \in DOMAIN fresh => file[<<t, d>>] = fresh[<<t, d>>]

\* A week's file says what a payroll of that week would say now, flags and all, of
\* every technician whose punches, their selfies and shift have not changed since
\* it was computed.
ExportExplained ==
    \A w \in Weeks : csv[w] # Unknown => \E z \in ShopZones : Explained(csv[w], w, z)

\* The log's times are never edited: whatever is synced, completed or corrected
\* later, a day's first clock-in can only become earlier and its last clock-out
\* later.  In particular no correction takes time away.
WindowsOnlyWiden ==
    [][ \A z \in ShopZones : \A t \in Technicians, d \in 0..Today(z) :
          LET mine == Bucket(EventsIn(d, d, z), t, d, z)
              next == Bucket(RowsIn(events', d, d, z), t, d, z)
          IN  /\ \A e \in mine : e.kind = "clock_in" => \E n \in next : n.kind = "clock_in"
                                   /\ n.effective <= e.effective
              /\ \A e \in mine : e.kind = "clock_out" => \E n \in next : n.kind = "clock_out"
                                   /\ n.effective >= e.effective ]_attendanceVars

\* "a restart within the hour still runs it" (core/scheduler.py): when the
\* export's tick is over and the process runs, the week's file is recorded,
\* unless the run failed.  Not so: a restarted scheduler waits for next Sunday.
RestartStillRunsIt ==
    [][ (now \in Dues /\ now' # now /\ up /\ export.pc # "failed")
          => Exported(WeekEnding(LocalDay(now, DefaultShift.zone))) ]_attendanceVars
=============================================================================
