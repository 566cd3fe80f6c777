-------------------------- MODULE Attendance_proofs --------------------------
(* For any shop, any clocks and limits, any late punches and corrections: the *)
(* log only grows, a punch counts when it happened, early only under the      *)
(* drift flag, the reports agree, and so does the payroll file; the duty      *)
(* report accounts for every moment of the clocked window.                    *)
EXTENDS Attendance, DutyPings, Induction, SequenceTheorems

Fix == [at : Int \cup {Unknown}, accuracy : Int \cup {Unknown},
        mock : BOOLEAN, bssid : Int \cup {Unknown}]

\* What a phone has captured was captured by now, on a clock that may be wrong.
IsCapture(body, kinds) ==
    /\ body.tech \in Technicians /\ body.kind \in kinds /\ body.fix \in Fix /\ body.photo \in BOOLEAN
    /\ body.at \in Nat /\ body.at <= now /\ body.device \in Int

Sane ==
    /\ AttendanceTypeOK
    /\ DOMAIN events = Ids /\ DOMAIN presence = Crossings /\ DOMAIN shifts = Technicians
    /\ DOMAIN export = {"pc", "week", "rows"}
    /\ DOMAIN captured = Captures
    /\ \A c \in Captures : ahead[PhoneOf[c]] \in Int
    /\ \A c \in Punches : captured[c] # Unknown => IsCapture(captured[c], PunchKinds)
    /\ \A c \in Crossings : captured[c] # Unknown =>
         IsCapture(captured[c], PresenceKinds) /\ captured[c].photo = FALSE
    /\ \A c \in Punches : events[c] # Unknown => captured[c] # Unknown

\* The time a row counts at follows from what the phone sent and from the receipt.
KeepsItsCapture(row, body) ==
    /\ row.kind = body.kind /\ row.device = body.device /\ body.at <= row.server
    /\ row.effective = IF row.server - Backdate <= body.device /\ body.device <= row.server + Tolerance
                       THEN body.device ELSE row.server

AsCaptured == \A c \in Punches : events[c] # Unknown => KeepsItsCapture(events[c], captured[c])

Inductive == Sane /\ BackdatingIsFlagged /\ AsCaptured

-----------------------------------------------------------------------------
\* The time of receipt, or the phone's if it is near enough.
LEMMA EffectiveTimeIsNear ==
    ASSUME now \in Nat, NEW device \in Int
    PROVE  /\ EffectiveTime(device) \in Int
           /\ EffectiveTime(device) \in {now, device}
           /\ EffectiveTime(device) <= now + Tolerance
    BY AttendanceAssumption DEF EffectiveTime

LEMMA VerdictOfAFix ==
    ASSUME NEW fix \in Fix, fence # Unknown => fence \in AttendanceGeofence
    PROVE  /\ FenceVerdict(fence, fix, AccuracyCeiling) \in Verdicts /\ Located(fix) \in BOOLEAN
           /\ WifiVerdict(fix) \in Verdicts /\ fix.mock \in BOOLEAN
<1>1. Located(fix) \in BOOLEAN
    BY DEF Located
<1>2. \A x, y, z : Overlaps(x, y, z) \in BOOLEAN
    BY DEF Overlaps
<1>3. FenceVerdict(fence, fix, AccuracyCeiling) \in Verdicts
    BY <1>2 DEF FenceVerdict, Verdicts
<1>4. WifiVerdict(fix) \in Verdicts
  <2>1. \A w : (fix.bssid \in w) \in BOOLEAN
      OBVIOUS
  <2> QED
      BY <2>1 DEF WifiVerdict, Verdicts
<1>5. fix.mock \in BOOLEAN
    BY DEF Fix
<1> QED
    BY <1>1, <1>3, <1>4, <1>5

\* A row as it is received has the type of its table.
RowTyped(row, kinds, selfies) ==
    row \in [tech : Technicians, kind : kinds, source : {"mobile"}, server : 0..Horizon,
            device : Int, effective : Int, inside : Verdicts, located : BOOLEAN,
            mock : BOOLEAN, wifi : Verdicts, selfie : selfies]

LEMMA ReceivedRow ==
    ASSUME Sane, NEW kinds, NEW body, IsCapture(body, kinds)
    PROVE  /\ RowTyped(Received(body), kinds, SelfieStates)
           /\ body.photo = FALSE => RowTyped(Received(body), kinds, {"none"})
<1>1. /\ EffectiveTime(body.device) \in Int
      /\ FenceVerdict(fence, body.fix, AccuracyCeiling) \in Verdicts /\ Located(body.fix) \in BOOLEAN
      /\ WifiVerdict(body.fix) \in Verdicts /\ body.fix.mock \in BOOLEAN
    BY EffectiveTimeIsNear, VerdictOfAFix DEF IsCapture, Sane, AttendanceTypeOK
<1>2. now \in 0..Horizon /\ body.device \in Int /\ body.tech \in Technicians /\ body.kind \in kinds
    BY DEF IsCapture, Sane, AttendanceTypeOK
<1> QED
    BY <1>1, <1>2 DEF Received, RowTyped, SelfieStates

\* The heart of it: a capture is no later than its receipt, so a row that counts
\* before it was made has its device's time, from a clock that is flagged.
LEMMA ReceivedIsFlagged ==
    ASSUME Sane, NEW body, IsCapture(body, PunchKinds)
    PROVE  /\ Received(body).effective <= Received(body).server + Tolerance
           /\ Received(body).effective < body.at - DriftFlag => DriftFlagged(Received(body))
           /\ KeepsItsCapture(Received(body), body)
<1>0. KeepsItsCapture(Received(body), body)
    BY DEF Received, KeepsItsCapture, EffectiveTime, IsCapture
<1>1. /\ Received(body).server = now /\ Received(body).device = body.device
      /\ Received(body).effective = EffectiveTime(body.device)
    BY DEF Received
<1>2. body.at <= now /\ now \in Nat /\ body.at \in Nat /\ body.device \in Int
    BY DEF IsCapture, Sane, AttendanceTypeOK
<1>3. Received(body).effective < body.at - DriftFlag => DriftFlagged(Received(body))
    BY <1>1, <1>2, EffectiveTimeIsNear, AttendanceAssumption, DayAssumption DEF DriftFlagged, Drift
<1> QED
    BY <1>0, <1>1, <1>2, <1>3, EffectiveTimeIsNear

LEMMA InductiveInit == AttendanceInit => Inductive
<1> SUFFICES ASSUME AttendanceInit PROVE Inductive
    OBVIOUS
<1>1. AttendanceTypeOK
    BY AttendanceAssumption DEF AttendanceInit, AttendanceTypeOK, Idle
<1>2. \A c \in Captures : ahead[PhoneOf[c]] \in Int
    BY AttendanceAssumption DEF AttendanceInit
<1>3. \A c \in Punches : c \in Captures /\ c \in Ids
    BY DEF Captures, Ids
<1>4. \A c \in Crossings : c \in Captures
    BY DEF Captures
<1>5. Sane
    BY <1>1, <1>2, <1>3, <1>4 DEF AttendanceInit, Sane, Idle
<1> QED
    BY <1>3, <1>5 DEF AttendanceInit, Inductive, BackdatingIsFlagged, AsCaptured

\* What leaves captures, punches and crossings alone, and does not turn back
\* the clock, cannot disturb anything but the types of the rest.
LEMMA OtherStepsKeep ==
    ASSUME Inductive, UNCHANGED <<captured, ahead, events, presence>>,
           now' \in Nat, now <= now', AttendanceTypeOK', DOMAIN shifts' = Technicians,
           DOMAIN export' = {"pc", "week", "rows"}
    PROVE  Inductive'
<1>1. now \in Nat
    BY DEF Inductive, Sane, AttendanceTypeOK
<1>2. \A body, kinds : IsCapture(body, kinds) => IsCapture(body, kinds)'
    BY <1>1 DEF IsCapture
<1>3. Sane'
    BY <1>2 DEF Inductive, Sane
<1>4. BackdatingIsFlagged'
    BY DEF Inductive, BackdatingIsFlagged
<1>5. AsCaptured'
    BY DEF Inductive, AsCaptured, KeepsItsCapture
<1> QED
    BY <1>3, <1>4, <1>5 DEF Inductive

\* Punch and Cross: a phone captures something, by its own clock.
LEMMA CaptureKeeps ==
    ASSUME Inductive, NEW c \in Captures, NEW kinds, NEW bodies,
           Capture(c, bodies), extras' \in Nat,
           \A body \in bodies : IsCapture(body, kinds) /\ (c \in Crossings => body.photo = FALSE),
           c \in Punches => kinds = PunchKinds, c \in Crossings => kinds = PresenceKinds
    PROVE  Inductive'
<1>1. PICK body \in bodies : captured' = [captured EXCEPT ![c] = body]
    BY DEF Capture
<1>2. UNCHANGED <<now, up, export, ahead, events, presence, shifts, fence>> /\ captured[c] = Unknown
    BY DEF Capture, job, tables
<1>3. \A b, k : IsCapture(b, k) => IsCapture(b, k)'
    BY <1>2 DEF IsCapture
<1>4. AttendanceTypeOK'
    BY <1>2 DEF Inductive, Sane, AttendanceTypeOK
<1>5. events[c] = Unknown \/ c \notin Punches
    BY <1>2 DEF Inductive, Sane
<1>6. Sane'
    BY <1>1, <1>2, <1>3, <1>4, <1>5 DEF Inductive, Sane
<1>7. BackdatingIsFlagged'
    BY <1>1, <1>2, <1>5 DEF Inductive, BackdatingIsFlagged
<1>8. AsCaptured'
    BY <1>1, <1>2, <1>5 DEF Inductive, AsCaptured, KeepsItsCapture
<1> QED
    BY <1>6, <1>7, <1>8 DEF Inductive

LEMMA PunchKeeps == ASSUME Inductive, NEW c \in Punches, Punch(c) PROVE Inductive'
<1>1. Capture(c, PunchRequest(c)) /\ extras' \in Nat /\ c \in Captures /\ c \notin Crossings
    BY InputAssumption DEF Punch, Captures, Inductive, Sane, AttendanceTypeOK
<1>2. \A body \in PunchRequest(c) : IsCapture(body, PunchKinds) /\ (c \in Crossings => body.photo = FALSE)
    BY <1>1, AttendanceAssumption, InputAssumption
    DEF PunchRequest, Body, IsCapture, Fix, Inductive, Sane, AttendanceTypeOK, Captures
<1> QED
    BY <1>1, <1>2, CaptureKeeps

LEMMA CrossKeeps == ASSUME Inductive, NEW c \in Crossings, Cross(c) PROVE Inductive'
<1>1. Capture(c, PresenceRequest(c)) /\ extras' \in Nat /\ c \in Captures /\ c \notin Punches
    BY InputAssumption DEF Cross, Extra, Captures, Inductive, Sane, AttendanceTypeOK
<1>2. now \in Nat /\ ahead[PhoneOf[c]] \in Int /\ PhoneOf[c] \in Technicians /\ Fixes \subseteq Fix
    BY <1>1, AttendanceAssumption, InputAssumption DEF Fix, Inductive, Sane, AttendanceTypeOK
<1>3. ASSUME NEW body \in PresenceRequest(c) PROVE IsCapture(body, PresenceKinds) /\ body.photo = FALSE
  <2>1. PICK k \in PresenceKinds, f \in Fixes : body = Body(c, k, f, FALSE)
      BY <1>3 DEF PresenceRequest, Body
  <2> QED
      BY <1>2, <2>1 DEF Body, IsCapture
<1> QED
    BY <1>1, <1>3, CaptureKeeps

\* A new row of attendance_event.
LEMMA CreateEventKeeps ==
    ASSUME Inductive, NEW i \in Ids, NEW row \in AttendanceEvent, CreateEvent(i, row),
           events[i] = Unknown, extras' \in Nat,
           UNCHANGED <<now, up, export, ahead, captured, presence, shifts, fence>>,
           i \in Punches => /\ captured[i] # Unknown
                            /\ row.effective <= row.server + Tolerance
                            /\ row.effective < captured[i].at - DriftFlag => DriftFlagged(row)
                            /\ KeepsItsCapture(row, captured[i])
    PROVE  Inductive'
<1>1. events' = [events EXCEPT ![i] = row]
    BY DEF CreateEvent
<1>2. AttendanceTypeOK'
    BY <1>1 DEF Inductive, Sane, AttendanceTypeOK
<1>3. Sane'
    BY <1>1, <1>2 DEF Inductive, Sane, IsCapture
<1>4. BackdatingIsFlagged'
    BY <1>1 DEF Inductive, BackdatingIsFlagged
<1>5. AsCaptured'
    BY <1>1 DEF Inductive, AsCaptured, KeepsItsCapture, Sane
<1> QED
    BY <1>3, <1>4, <1>5 DEF Inductive

LEMMA RecordPunchKeeps == ASSUME Inductive, NEW c \in Punches, RecordPunch(c) PROVE Inductive'
<1>1. IsCapture(captured[c], PunchKinds) /\ captured[c] # Unknown /\ events[c] = Unknown
    BY DEF RecordPunch, Inductive, Sane
<1>2. Received(captured[c]) \in AttendanceEvent
    BY <1>1, ReceivedRow DEF Inductive, AttendanceEvent, PunchSources, RowTyped
<1>3. /\ CreateEvent(c, Received(captured[c])) /\ extras' \in Nat
      /\ UNCHANGED <<now, up, export, ahead, captured, presence, shifts, fence>>
    BY DEF RecordPunch, job, Inductive, Sane, AttendanceTypeOK
<1> QED
    BY <1>1, <1>2, <1>3, ReceivedIsFlagged, CreateEventKeeps DEF Inductive, Ids

LEMMA CreateAdjustmentKeeps == ASSUME Inductive, NEW m \in Corrections, CreateAdjustment(m) PROVE Inductive'
<1>1. PICK t \in Technicians, k \in PunchKinds, time \in 0..now : CreateEvent(m, Asserted(t, k, time))
    BY DEF CreateAdjustment
<1>5. time \in 0..Horizon /\ time \in Int
    BY AttendanceAssumption DEF Inductive, Sane, AttendanceTypeOK
<1>2. Asserted(t, k, time) \in AttendanceEvent
    BY <1>5 DEF Asserted, AttendanceEvent, PunchSources, Verdicts, SelfieStates
<1>3. /\ events[m] = Unknown /\ extras' \in Nat
      /\ UNCHANGED <<now, up, export, ahead, captured, presence, shifts, fence>>
    BY DEF CreateAdjustment, Edit, Extra, job, Inductive, Sane, AttendanceTypeOK
<1>4. m \in Ids /\ m \notin Punches
    BY AttendanceAssumption DEF Ids
<1> QED
    BY <1>1, <1>2, <1>3, <1>4, CreateEventKeeps

\* A completed selfie is a new value in one column, which nothing here looks at.
Completed(row) == [row EXCEPT !.selfie = "uploaded"]

LEMMA CompletedRow ==
    ASSUME NEW row \in AttendanceEvent
    PROVE  /\ Completed(row) \in AttendanceEvent /\ Completed(row) # Unknown
           /\ Completed(row).tech = row.tech /\ Completed(row).kind = row.kind
           /\ Completed(row).server = row.server /\ Completed(row).device = row.device
           /\ Completed(row).effective = row.effective /\ Completed(row).inside = row.inside
<1>1. Completed(row) \in AttendanceEvent
    BY DEF Completed, AttendanceEvent, SelfieStates
<1> QED
    BY <1>1, UnknownIsNoRow DEF Completed, AttendanceEvent

LEMMA CompleteSelfieKeeps == ASSUME Inductive, NEW c \in Punches, CompleteSelfie(c) PROVE Inductive'
<1>1. /\ events' = [events EXCEPT ![c] = Completed(events[c])] /\ events[c] # Unknown /\ extras' \in Nat
      /\ UNCHANGED <<now, up, export, ahead, captured, presence, shifts, fence>>
    BY DEF CompleteSelfie, Extra, Completed, job, Inductive, Sane, AttendanceTypeOK
<1>2. events[c] \in AttendanceEvent /\ c \in Ids /\ DOMAIN events = Ids
    BY <1>1 DEF Inductive, Sane, AttendanceTypeOK, Ids
<1> DEFINE old == events[c]
           row == Completed(old)
<1>3. /\ events' = [events EXCEPT ![c] = row] /\ row \in AttendanceEvent /\ row # Unknown
      /\ row.kind = old.kind /\ row.server = old.server /\ row.device = old.device
      /\ row.effective = old.effective
    BY <1>1, <1>2, CompletedRow
<1>4. AttendanceTypeOK'
    BY <1>1, <1>2, <1>3 DEF Inductive, Sane, AttendanceTypeOK
<1>5. Sane'
    BY <1>1, <1>2, <1>4 DEF Inductive, Sane, IsCapture
<1>6. DriftFlagged(old) => DriftFlagged(row)
    BY <1>3 DEF DriftFlagged, Drift
<1>7. KeepsItsCapture(old, captured[c]) => KeepsItsCapture(row, captured[c])
    BY <1>3 DEF KeepsItsCapture
<1> HIDE DEF row
<1>8. BackdatingIsFlagged'
    BY <1>1, <1>2, <1>3, <1>6 DEF Inductive, BackdatingIsFlagged
<1>9. AsCaptured'
  <2>1. ASSUME NEW b \in Punches, b # c, events'[b] # Unknown PROVE KeepsItsCapture(events[b], captured[b])'
      BY <1>1, <1>2, <1>3, <2>1 DEF Inductive, AsCaptured, KeepsItsCapture
  <2>2. KeepsItsCapture(events[c], captured[c])'
    <3>1. events'[c] = row /\ captured'[c] = captured[c] /\ KeepsItsCapture(row, captured[c])
        BY <1>1, <1>2, <1>3, <1>7 DEF Inductive, AsCaptured
    <3> QED
        BY <3>1 DEF KeepsItsCapture
  <2> QED
      BY <2>1, <2>2 DEF AsCaptured
<1> QED
    BY <1>5, <1>8, <1>9 DEF Inductive

LEMMA RecordPresenceKeeps == ASSUME Inductive, NEW c \in Crossings, RecordPresence(c) PROVE Inductive'
<1>1. IsCapture(captured[c], PresenceKinds) /\ captured[c].photo = FALSE
    BY DEF RecordPresence, Inductive, Sane
<1>2. Received(captured[c]) \in AttendancePresenceEvent
    BY <1>1, ReceivedRow DEF Inductive, AttendancePresenceEvent, RowTyped
<1>3. /\ presence' = [presence EXCEPT ![c] = Received(captured[c])]
      /\ UNCHANGED <<now, up, export, ahead, captured, events, shifts, fence, extras>>
    BY DEF RecordPresence, CreatePresence, job
<1>4. AttendanceTypeOK'
    BY <1>2, <1>3 DEF Inductive, Sane, AttendanceTypeOK
<1>5. Sane'
    BY <1>3, <1>4 DEF Inductive, Sane, IsCapture
<1>6. BackdatingIsFlagged'
    BY <1>3 DEF Inductive, BackdatingIsFlagged
<1>7. AsCaptured'
    BY <1>3 DEF Inductive, AsCaptured, KeepsItsCapture
<1> QED
    BY <1>5, <1>6, <1>7 DEF Inductive

LEMMA UpsertShiftKeeps == ASSUME Inductive, NEW t \in Technicians, UpsertShift(t) PROVE Inductive'
<1>1. PICK s \in AttendanceShift : shifts' = [shifts EXCEPT ![t] = s]
    BY InputAssumption DEF UpsertShift
<1>2. UNCHANGED <<now, up, export, ahead, captured, events, presence, fence>> /\ extras' \in Nat
    BY DEF UpsertShift, Edit, Extra, job, Inductive, Sane, AttendanceTypeOK
<1>3. /\ AttendanceTypeOK' /\ DOMAIN shifts' = Technicians /\ now \in Nat
      /\ DOMAIN export' = {"pc", "week", "rows"}
    BY <1>1, <1>2 DEF Inductive, Sane, AttendanceTypeOK
<1> QED
    BY <1>2, <1>3, OtherStepsKeep

LEMMA UpsertGeofenceKeeps == ASSUME Inductive, UpsertGeofence PROVE Inductive'
<1>1. /\ fence' \in Fences \cup {Unknown} /\ extras' \in Nat
      /\ UNCHANGED <<now, up, export, ahead, captured, events, presence, shifts>>
    BY DEF UpsertGeofence, Edit, Extra, job, Inductive, Sane, AttendanceTypeOK
<1>2. /\ AttendanceTypeOK' /\ DOMAIN shifts' = Technicians /\ now \in Nat
      /\ DOMAIN export' = {"pc", "week", "rows"}
    BY <1>1, InputAssumption DEF Inductive, Sane, AttendanceTypeOK
<1> QED
    BY <1>1, <1>2, OtherStepsKeep

\* The export job, the process and the clock touch no row.
LEMMA ServerKeeps ==
    ASSUME Inductive, ComputeExport \/ PutFile \/ CommitExport \/ Stop \/ Start \/ Tick
    PROVE  Inductive'
<1>1. UNCHANGED <<ahead, captured, events, presence, shifts, fence>>
    BY DEF ComputeExport, PutFile, CommitExport, Stop, Start, Tick, tables
<1>2. now' \in 0..Horizon /\ now <= now'
    BY AttendanceAssumption DEF ComputeExport, PutFile, CommitExport, Stop, Start, Tick,
       Inductive, Sane, AttendanceTypeOK
<1>3. /\ up' \in BOOLEAN /\ extras' \in Nat /\ DOMAIN export' = {"pc", "week", "rows"}
      /\ export'.pc \in {"idle", "computed", "put", "done", "failed"}
  <2>1. /\ up \in BOOLEAN /\ extras \in Nat /\ DOMAIN export = {"pc", "week", "rows"}
        /\ export.pc \in {"idle", "computed", "put", "done", "failed"}
    BY DEF Inductive, Sane, AttendanceTypeOK
  <2>2. CASE ComputeExport
    BY <2>1, <2>2 DEF ComputeExport, Idle
  <2>3. CASE PutFile
    BY <2>1, <2>3 DEF PutFile, Idle
  <2>4. CASE CommitExport
    BY <2>1, <2>4 DEF CommitExport, Idle
  <2>5. CASE Stop
    <3>1. extras' = extras + 1 /\ up' = FALSE /\ export' = Idle
      BY <2>5 DEF Stop, Edit, Extra
    <3>2. up' \in BOOLEAN
      BY <3>1
    <3>3. extras' \in Nat
      BY <2>1, <3>1
    <3>4. /\ DOMAIN export' = {"pc", "week", "rows"}
          /\ export'.pc \in {"idle", "computed", "put", "done", "failed"}
      BY <3>1 DEF Idle
    <3> QED
      BY <3>2, <3>3, <3>4
  <2>6. CASE Start
    BY <2>1, <2>6 DEF Start
  <2>7. CASE Tick
    BY <2>1, <2>7 DEF Tick, Idle
  <2> QED
    BY <2>2, <2>3, <2>4, <2>5, <2>6, <2>7
<1>5. AttendanceTypeOK' /\ DOMAIN shifts' = Technicians
    BY <1>1, <1>2, <1>3 DEF Inductive, Sane, AttendanceTypeOK
<1> QED
    BY <1>1, <1>2, <1>3, <1>5, OtherStepsKeep

LEMMA InductiveNext == Inductive /\ [AttendanceNext]_attendanceVars => Inductive'
<1> SUFFICES ASSUME Inductive, [AttendanceNext]_attendanceVars PROVE Inductive'
    OBVIOUS
<1>1. ASSUME NEW c \in Punches, Punch(c) \/ RecordPunch(c) \/ CompleteSelfie(c) PROVE Inductive'
    BY <1>1, PunchKeeps, RecordPunchKeeps, CompleteSelfieKeeps
<1>2. ASSUME NEW c \in Crossings, Cross(c) \/ RecordPresence(c) PROVE Inductive'
    BY <1>2, CrossKeeps, RecordPresenceKeeps
<1>3. ASSUME NEW m \in Corrections, CreateAdjustment(m) PROVE Inductive'
    BY <1>3, CreateAdjustmentKeeps
<1>4. ASSUME NEW t \in Technicians, UpsertShift(t) PROVE Inductive'
    BY <1>4, UpsertShiftKeeps
<1>5. CASE UpsertGeofence
    BY <1>5, UpsertGeofenceKeeps
<1>6. CASE ComputeExport \/ PutFile \/ CommitExport \/ Stop \/ Start \/ Tick
    BY <1>6, ServerKeeps
<1>7. CASE UNCHANGED attendanceVars
  <2>1. /\ AttendanceTypeOK' /\ DOMAIN shifts' = Technicians /\ now' \in Nat /\ now <= now'
        /\ DOMAIN export' = {"pc", "week", "rows"}
    BY <1>7 DEF attendanceVars, Inductive, Sane, AttendanceTypeOK
  <2> QED
    BY <1>7, <2>1, OtherStepsKeep DEF attendanceVars
<1> QED
    BY <1>1, <1>2, <1>3, <1>4, <1>5, <1>6, <1>7 DEF AttendanceNext

\* The tables hold rows of captures that were made, each one flagged if it
\* counts before its phone captured it.
THEOREM InductiveHolds == AttendanceSpec => []Inductive
<1> QED
    BY InductiveInit, InductiveNext, PTL DEF AttendanceSpec

-----------------------------------------------------------------------------
\* The tables' rows keep their types, whatever phones send and managers write.
THEOREM AttendanceTypeCorrect == AttendanceSpec => []AttendanceTypeOK
<1>1. Inductive => AttendanceTypeOK
    BY DEF Inductive, Sane
<1> QED
    BY <1>1, InductiveHolds, PTL

\* No clock and no delay makes a punch count early without the drift flag.
THEOREM BackdatingNeedsAFlag == AttendanceSpec => []BackdatingIsFlagged
<1>1. Inductive => BackdatingIsFlagged
    BY DEF Inductive
<1> QED
    BY <1>1, InductiveHolds, PTL

\* A row, once written, stays as it is, but for its selfie.
LEMMA RowsStay ==
    ASSUME Inductive, [AttendanceNext]_attendanceVars, NEW i \in Ids, events[i] # Unknown
    PROVE  events'[i] \in {events[i], Completed(events[i])} /\ DOMAIN events' = Ids
<1>1. DOMAIN events = Ids
    BY DEF Inductive, Sane
<1>2. ASSUME NEW c \in Punches, RecordPunch(c) PROVE events'[i] = events[i] /\ DOMAIN events' = Ids
    BY <1>1, <1>2 DEF RecordPunch, CreateEvent
<1>7. ASSUME NEW c \in Punches, CompleteSelfie(c)
      PROVE  events'[i] \in {events[i], Completed(events[i])} /\ DOMAIN events' = Ids
    BY <1>1, <1>7 DEF CompleteSelfie, Completed
<1>3. ASSUME NEW m \in Corrections, CreateAdjustment(m)
      PROVE  events'[i] = events[i] /\ DOMAIN events' = Ids
    BY <1>1, <1>3 DEF CreateAdjustment, CreateEvent
<1>4. ASSUME NEW c \in Captures, Punch(c) \/ Cross(c) \/ RecordPresence(c) PROVE events' = events
    BY <1>4 DEF Punch, Cross, Capture, RecordPresence, tables
<1>5. ASSUME NEW t \in Technicians, UpsertShift(t) PROVE events' = events
    BY <1>5 DEF UpsertShift
<1>6. CASE \/ UpsertGeofence \/ ComputeExport \/ PutFile \/ CommitExport \/ Stop \/ Start \/ Tick
           \/ UNCHANGED attendanceVars
  <2>1. events' = events
    BY <1>6 DEF UpsertGeofence, ComputeExport, PutFile, CommitExport, Stop, Start, Tick, tables,
       attendanceVars
  <2> QED
    BY <1>1, <2>1
<1> QED
    BY <1>1, <1>2, <1>3, <1>4, <1>5, <1>6, <1>7 DEF AttendanceNext, Captures

\* Later syncs, selfies and corrections only widen what a day's punches say.
THEOREM DaysOnlyWiden == AttendanceSpec => WindowsOnlyWiden
<1> DEFINE Widens ==
      \A z \in ShopZones : \A t \in Technicians, d \in 0..Today(z) :
        LET mine == Bucket(EventsIn(d, d, z), t, d, z)
            next == Bucket(RowsIn(events', d, d, z), t, d, z)
        IN  /\ \A e \in mine : e.kind = "clock_in" => \E n \in next : n.kind = "clock_in"
                                 /\ n.effective <= e.effective
            /\ \A e \in mine : e.kind = "clock_out" => \E n \in next : n.kind = "clock_out"
                                 /\ n.effective >= e.effective
<1>1. Inductive /\ [AttendanceNext]_attendanceVars => [Widens]_attendanceVars
  <2> SUFFICES ASSUME Inductive, [AttendanceNext]_attendanceVars,
                      NEW z, NEW t, NEW d, NEW e \in Bucket(EventsIn(d, d, z), t, d, z)
               PROVE  /\ e.effective \in Int
                      /\ \E n \in Bucket(RowsIn(events', d, d, z), t, d, z) :
                           n.kind = e.kind /\ n.effective = e.effective
    OBVIOUS
  <2>1. PICK i \in Ids : events[i] = e /\ e # Unknown
    BY DEF Bucket, EventsIn, RowsIn, Inductive, Sane
  <2>2. e \in AttendanceEvent
    BY <2>1 DEF Inductive, Sane, AttendanceTypeOK
  <2>3. events'[i] \in {e, Completed(e)} /\ DOMAIN events' = Ids
    BY <2>1, RowsStay
  <2>4. PICK n : n = events'[i]
    OBVIOUS
  <2>5. n # Unknown /\ n.tech = e.tech /\ n.kind = e.kind /\ n.effective = e.effective
    BY <2>1, <2>2, <2>3, <2>4, CompletedRow
  <2>6. n \in Bucket(RowsIn(events', d, d, z), t, d, z)
    <3>1. n \in {events'[j] : j \in DOMAIN events'} \ {Unknown}
        BY <2>3, <2>4, <2>5
    <3> QED
        BY <2>5, <3>1 DEF Bucket, EventsIn, RowsIn
  <2>7. e.effective \in Int
    BY <2>2 DEF AttendanceEvent
  <2> QED
    BY <2>5, <2>6, <2>7
<1> QED
    BY <1>1, InductiveHolds, PTL DEF AttendanceSpec, WindowsOnlyWiden

-----------------------------------------------------------------------------
(* The rows of a day *)

\* A tick is in the day whose bounds it lies between.
LEMMA DayOfATick ==
    ASSUME NEW time \in Int, NEW z \in Int
    PROVE  /\ LocalDay(time, z) \in Int
           /\ LocalDay(time, z) * DayTicks <= time + z /\ time + z < (LocalDay(time, z) + 1) * DayTicks
<1> DEFINE x == time + z
<1>1. x \in Int /\ DayTicks \in Nat \ {0}
    BY DayAssumption
<1> HIDE DEF x
<1>2. x \div DayTicks \in Int /\ (x \div DayTicks) * DayTicks <= x /\ x < (x \div DayTicks + 1) * DayTicks
    BY <1>1
<1> QED
    BY <1>2 DEF x, LocalDay

LEMMA DaysInOrder ==
    ASSUME NEW a \in Int, NEW b \in Int, a <= b
    PROVE  a * DayTicks <= b * DayTicks /\ a * DayTicks \in Int /\ b * DayTicks \in Int
    BY DayAssumption

\* A row whose day is in the window is in the window.
LEMMA DayInWindow ==
    ASSUME NEW table, NEW row \in {table[i] : i \in DOMAIN table} \ {Unknown}, row.effective \in Int,
           NEW z \in Int, NEW from \in Int, NEW to \in Int,
           from <= LocalDay(row.effective, z), LocalDay(row.effective, z) <= to
    PROVE  row \in RowsIn(table, from, to, z)
<1> DEFINE d == LocalDay(row.effective, z)
           e == row.effective
<1>1. d \in Int /\ d * DayTicks <= e + z /\ e + z < (d + 1) * DayTicks
    BY DayOfATick
<1>2. from <= d /\ d + 1 <= to + 1 /\ e \in Int
    BY <1>1
<1> HIDE DEF d, e
<1>3. from * DayTicks <= d * DayTicks /\ (d + 1) * DayTicks <= (to + 1) * DayTicks
    BY <1>1, <1>2, DaysInOrder
<1>4. from * DayTicks \in Int /\ (to + 1) * DayTicks \in Int /\ d * DayTicks \in Int /\ (d + 1) * DayTicks \in Int
    BY <1>1, DayAssumption
<1>5. e >= from * DayTicks - z /\ e < (to + 1) * DayTicks - z
    BY <1>1, <1>2, <1>3, <1>4
<1> QED
    BY <1>5 DEF e, RowsIn

\* All the rows of a technician's day, whichever window they were cut out of.
Rows == {events[i] : i \in Ids} \ {Unknown}
Day(t, d, z) == Bucket(Rows, t, d, z)

LEMMA RowsOfADay ==
    ASSUME Sane, NEW z \in Int, NEW from \in Int, NEW to \in Int, NEW d \in from..to, NEW t
    PROVE  Bucket(EventsIn(from, to, z), t, d, z) = Day(t, d, z)
<1>1. EventsIn(from, to, z) \subseteq Rows
    BY DEF EventsIn, RowsIn, Rows, Sane
<1>2. ASSUME NEW row \in Day(t, d, z) PROVE row \in EventsIn(from, to, z)
  <2>1. row \in {events[i] : i \in DOMAIN events} \ {Unknown} /\ LocalDay(row.effective, z) = d
      BY DEF Day, Bucket, Rows, Sane
  <2>2. row.effective \in Int
      BY <2>1 DEF Sane, AttendanceTypeOK, AttendanceEvent
  <2> QED
      BY <2>1, <2>2, DayInWindow DEF EventsIn
<1> QED
    BY <1>1, <1>2 DEF Day, Bucket

LEMMA RowTypes ==
    ASSUME Sane, NEW row \in Rows
    PROVE  row \in AttendanceEvent /\ row.effective \in Int /\ row.tech \in Technicians
    BY DEF Rows, Sane, AttendanceTypeOK, AttendanceEvent

\* Zones are whole numbers of ticks, and there is at least one.
LEMMA ZonesAreNumbers == ASSUME Sane PROVE ShopZones \subseteq Int /\ ShopZones # {} /\ now \in Int
    BY InputAssumption DEF Sane, AttendanceTypeOK, ShopZones, AttendanceShift

-----------------------------------------------------------------------------
(* A punch counts when it was made *)

LEMMA TimelyRow ==
    ASSUME Inductive, NEW c \in Punches, events[c] # Unknown, Timely(c)
    PROVE  events[c].effective = captured[c].at /\ events[c].kind = captured[c].kind
<1>1. /\ IsCapture(captured[c], PunchKinds) /\ events[c] \in AttendanceEvent
      /\ KeepsItsCapture(events[c], captured[c])
    BY DEF Inductive, Sane, AttendanceTypeOK, AsCaptured, Ids
<1>2. captured[c].at \in Nat /\ events[c].server \in Nat
    BY <1>1, AttendanceAssumption DEF IsCapture, AttendanceEvent
<1> QED
    BY <1>1, <1>2, AttendanceAssumption DEF KeepsItsCapture, Timely

\* A day's punches are those made on the day, whenever they came in.
LEMMA PunchesOfADay ==
    ASSUME Inductive, NEW z \in Int, NEW t \in Technicians, NEW d \in Int,
           \A c \in Punched(t) : Timely(c), \A m \in Corrections : events[m] = Unknown
    PROVE  LocalPunches(Day(t, d, z), z) =
             {[kind |-> captured[c].kind, at |-> captured[c].at + z, inside |-> events[c].inside] :
                c \in {b \in Punched(t) : LocalDay(captured[b].at, z) = d}}
<1> DEFINE made == {b \in Punched(t) : LocalDay(captured[b].at, z) = d}
           heard(r) == [kind |-> r.kind, at |-> r.effective + z, inside |-> r.inside]
           done(c) == [kind |-> captured[c].kind, at |-> captured[c].at + z, inside |-> events[c].inside]
<1>1. ASSUME NEW c \in Punched(t) PROVE done(c) = heard(events[c]) /\ events[c].effective = captured[c].at
    BY <1>1, TimelyRow DEF Punched
<1>2. ASSUME NEW c \in made PROVE events[c] \in Day(t, d, z)
    BY <1>1 DEF Punched, Day, Bucket, Rows, Ids
<1>3. ASSUME NEW r \in Day(t, d, z) PROVE \E c \in made : r = events[c]
    BY <1>1 DEF Punched, Day, Bucket, Rows, Ids
<1>4. LocalPunches(Day(t, d, z), z) = {heard(r) : r \in Day(t, d, z)}
    BY DEF LocalPunches
<1> HIDE DEF heard, done
<1>5. {heard(r) : r \in Day(t, d, z)} = {done(c) : c \in made}
    BY <1>1, <1>2, <1>3
<1> QED
    BY <1>4, <1>5 DEF done

\* Whatever the order and the delay in which punches are synced, an honest clock's
\* count when they were made.
THEOREM LatePunchesCount == AttendanceSpec => []CountsWhenItHappened
<1>1. Inductive => CountsWhenItHappened
  <2> SUFFICES ASSUME Inductive, NEW z \in ShopZones, NEW t \in Technicians,
                      \A c \in Punched(t) : Timely(c), \A m \in Corrections : events[m] = Unknown,
                      NEW d \in 0..Today(z)
               PROVE  TechDays(t, 0, Today(z), z)[d].roll =
                        ClassifyDay(d,
                          {[kind |-> captured[c].kind, at |-> captured[c].at + z, inside |-> events[c].inside] :
                             c \in {b \in Punched(t) : LocalDay(captured[b].at, z) = d}},
                          ShiftFor(t))
      BY DEF CountsWhenItHappened
  <2>1. Sane /\ z \in Int /\ Today(z) \in Int
      BY ZonesAreNumbers, DayOfATick DEF Inductive, Today
  <2>2. Clamped(Today(z), z) = Today(z)
      BY <2>1 DEF Clamped
  <2>3. Bucket({row \in EventsIn(0, Today(z), z) : row.tech = t}, t, d, z) = Day(t, d, z)
    <3>1. Bucket(EventsIn(0, Today(z), z), t, d, z) = Day(t, d, z)
        BY <2>1, RowsOfADay
    <3> QED
        BY <3>1 DEF Bucket
  <2>4. TechDays(t, 0, Today(z), z)[d].roll = ClassifyDay(d, LocalPunches(Day(t, d, z), z), ShiftFor(t))
      BY <2>2, <2>3 DEF TechDays, DayRow
  <2>5. LocalPunches(Day(t, d, z), z) =
          {[kind |-> captured[c].kind, at |-> captured[c].at + z, inside |-> events[c].inside] :
             c \in {b \in Punched(t) : LocalDay(captured[b].at, z) = d}}
      BY <2>1, PunchesOfADay
  <2> QED
      BY <2>4, <2>5
<1> QED
    BY <1>1, InductiveHolds, PTL

-----------------------------------------------------------------------------
(* The reports agree *)

LEMMA GreatestOf ==
    ASSUME NEW S, S \subseteq Int, S # {}, NEW b \in Int, \A x \in S : x <= b
    PROVE  \E m \in S : \A x \in S : x <= m
<1> DEFINE T == {b - x : x \in S}
<1>0. \A x \in S : b - x \in Nat
  <2> SUFFICES ASSUME NEW x \in S PROVE b - x \in Nat
      OBVIOUS
  <2>1. x \in Int
      OBVIOUS
  <2> QED
      BY <2>1
<1>1. T \subseteq Nat /\ T # {}
    BY <1>0
<1>2. PICK n \in T : \A k \in T : n <= k
    BY <1>1, LeastElement
<1>3. PICK m \in S : n = b - m
    OBVIOUS
<1>4. ASSUME NEW x \in S PROVE x <= m
  <2>1. b - x \in T /\ m \in Int /\ x \in Int
      OBVIOUS
  <2>2. n <= b - x
      BY <1>2, <2>1
  <2> HIDE DEF T
  <2> QED
      BY <1>3, <2>1, <2>2
<1> QED
    BY <1>4

LEMMA LeastOf ==
    ASSUME NEW S, S \subseteq Int, S # {}, NEW b \in Int, \A x \in S : b <= x
    PROVE  \E m \in S : \A x \in S : m <= x
<1> DEFINE T == {x - b : x \in S}
<1>0. \A x \in S : x - b \in Nat
  <2> SUFFICES ASSUME NEW x \in S PROVE x - b \in Nat
      OBVIOUS
  <2>1. x \in Int
      OBVIOUS
  <2> QED
      BY <2>1
<1>1. T \subseteq Nat /\ T # {}
    BY <1>0
<1>2. PICK n \in T : \A k \in T : n <= k
    BY <1>1, LeastElement
<1>3. PICK m \in S : n = m - b
    OBVIOUS
<1>4. ASSUME NEW x \in S PROVE m <= x
  <2>1. x - b \in T /\ m \in Int /\ x \in Int
      OBVIOUS
  <2>2. n <= x - b
      BY <1>2, <2>1
  <2> HIDE DEF T
  <2> QED
      BY <1>3, <2>1, <2>2
<1> QED
    BY <1>4

\* Every report's row of a day is the same, whichever window it was cut out of.
LEMMA RowOfADay ==
    ASSUME Sane, NEW z \in Int, NEW from \in Int, NEW to \in Int, NEW d \in from..to, NEW t
    PROVE  /\ DayRow(EventsIn(from, to, z), t, d, z) = DayRow(Rows, t, d, z)
           /\ DayRow({r \in EventsIn(from, to, z) : r.tech = t}, t, d, z) = DayRow(Rows, t, d, z)
<1>1. Bucket(EventsIn(from, to, z), t, d, z) = Bucket(Rows, t, d, z)
    BY RowsOfADay DEF Day
<1>2. Bucket({r \in EventsIn(from, to, z) : r.tech = t}, t, d, z) = Bucket(Rows, t, d, z)
    BY <1>1 DEF Bucket
<1> QED
    BY <1>1, <1>2 DEF DayRow

\* The days so far, in a zone.
LEMMA DaysSoFar ==
    ASSUME Sane, NEW z \in ShopZones
    PROVE  /\ z \in Int /\ Today(z) \in Int /\ LocalDay(0, z) \in Int /\ LocalDay(0, z) <= Today(z)
           /\ Clamped(Today(z), z) = Today(z) /\ Clamped(Today(z) + 1, z) = Today(z)
<1> DEFINE a == LocalDay(0, z)
           b == Today(z)
<1>1. z \in Int /\ now \in Int /\ 0 <= now
  <2>1. now \in 0..Horizon /\ Horizon \in Nat
      BY AttendanceAssumption DEF Sane, AttendanceTypeOK
  <2> QED
      BY <2>1, ZonesAreNumbers
<1>2. a \in Int /\ a * DayTicks <= 0 + z
  <2>1. PICK t \in Int : t = 0
      OBVIOUS
  <2>2. LocalDay(t, z) \in Int /\ LocalDay(t, z) * DayTicks <= t + z
      BY <1>1, DayOfATick
  <2> QED
      BY <2>1, <2>2
<1>3. b \in Int /\ now + z < (b + 1) * DayTicks
    BY <1>1, DayOfATick DEF Today
<1> HIDE DEF a, b
<1>4. a * DayTicks < (b + 1) * DayTicks
    BY <1>1, <1>2, <1>3, DayAssumption
<1>5. a < b + 1
    BY <1>2, <1>3, <1>4, DayAssumption
<1>6. a <= b /\ b + 1 \in Int /\ b + 1 > b
    BY <1>2, <1>3, <1>5
<1> QED
    BY <1>1, <1>2, <1>3, <1>6 DEF Clamped, a, b

\* payroll, tech_days and variance.
LEMMA PayrollRows ==
    ASSUME Sane, NEW z \in ShopZones
    PROVE  LET first   == LocalDay(0, z)
               payroll == Payroll(first, Today(z), z)
               differs == Variance(first, Today(z), z)
           IN  /\ DOMAIN payroll = Roster(EventsIn(first, Today(z), z)) \X (first..Today(z))
               /\ \A at \in DOMAIN payroll :
                    /\ payroll[at] = DayRow(Rows, at[1], at[2], z)
                    /\ TechDays(at[1], first, Today(z), z)[at[2]] = payroll[at]
               /\ \A at \in DOMAIN differs : differs[at].row = payroll[at]
<1> DEFINE first == LocalDay(0, z)
           last == Today(z)
           rows == EventsIn(first, last, z)
           seen == PresenceIn(first, last, z)
           row(at) == DayRow(rows, at[1], at[2], z)
           asked == Roster(rows) \X (first..last)
           payroll == Payroll(first, last, z)
           differs == Variance(first, last, z)
<1>1. first \in Int /\ last \in Int /\ z \in Int /\ Clamped(last, z) = last
    BY DaysSoFar
<1>2. payroll = [at \in asked |-> row(at)]
    BY <1>1 DEF Payroll
<1>3. ASSUME NEW at \in asked
      PROVE  /\ row(at) = DayRow(Rows, at[1], at[2], z)
             /\ TechDays(at[1], first, last, z)[at[2]] = row(at)
  <2>1. at[2] \in first..last
      OBVIOUS
  <2>2. /\ row(at) = DayRow(Rows, at[1], at[2], z)
        /\ DayRow({r \in rows : r.tech = at[1]}, at[1], at[2], z) = DayRow(Rows, at[1], at[2], z)
      BY <1>1, <2>1, RowOfADay
  <2>3. TechDays(at[1], first, last, z)[at[2]] = DayRow({r \in rows : r.tech = at[1]}, at[1], at[2], z)
      BY <1>1, <2>1 DEF TechDays
  <2> QED
      BY <2>2, <2>3
<1>4. DOMAIN differs \subseteq asked /\ \A at \in DOMAIN differs : differs[at].row = row(at)
    BY <1>1 DEF Variance
<1> HIDE DEF payroll, differs, asked
<1>5. /\ DOMAIN payroll = asked
      /\ \A at \in DOMAIN payroll : /\ payroll[at] = DayRow(Rows, at[1], at[2], z)
                                     /\ TechDays(at[1], first, last, z)[at[2]] = payroll[at]
      /\ \A at \in DOMAIN differs : differs[at].row = payroll[at]
    BY <1>2, <1>3, <1>4
<1> QED
    BY <1>5 DEF payroll, differs, asked

\* grid, which counts the days besides.
LEMMA GridRows ==
    ASSUME Sane, NEW z \in ShopZones
    PROVE  LET first   == LocalDay(0, z)
               payroll == Payroll(first, Today(z), z)
               grid    == Grid(first, Today(z) + 1, z)
           IN  /\ DOMAIN grid = Roster(EventsIn(first, Today(z), z))
               /\ \A at \in DOMAIN payroll : grid[at[1]].cells[at[2]] = payroll[at]
               /\ \A t \in DOMAIN grid : grid[t].present <= grid[t].working
<1> DEFINE first == LocalDay(0, z)
           last == Today(z)
           rows == EventsIn(first, last, z)
           cell(t, day) == DayRow(rows, t, day, z)
           paid(t) == {day \in first..last : cell(t, day).roll.status \in {"present", "field", "half"}}
           working(t) == {day \in first..last : cell(t, day).roll.status # "holiday"}
           grid == Grid(first, last + 1, z)
           payroll == Payroll(first, last, z)
<1>1. first \in Int /\ last \in Int /\ Clamped(last, z) = last /\ Clamped(last + 1, z) = last
    BY DaysSoFar
<1>2. grid = [t \in Roster(rows) |-> [cells   |-> [day \in first..last |-> cell(t, day)],
                                      working |-> Cardinality(working(t)),
                                      present |-> Cardinality(paid(t))]]
    BY <1>1 DEF Grid
<1>3. payroll = [at \in Roster(rows) \X (first..last) |-> cell(at[1], at[2])]
    BY <1>1 DEF Payroll
<1>4. ASSUME NEW t PROVE Cardinality(paid(t)) <= Cardinality(working(t))
  <2>1. IsFiniteSet(first..last) /\ working(t) \subseteq first..last /\ paid(t) \subseteq working(t)
      BY <1>1, FS_Interval
  <2>2. IsFiniteSet(working(t))
      BY <2>1, FS_Subset
  <2> QED
      BY <2>1, <2>2, FS_Subset
<1> HIDE DEF grid, payroll, cell, paid, working, rows
<1>5. /\ DOMAIN grid = Roster(rows)
      /\ \A at \in DOMAIN payroll : grid[at[1]].cells[at[2]] = payroll[at]
      /\ \A t \in DOMAIN grid : grid[t].present <= grid[t].working
    BY <1>2, <1>3, <1>4
<1> QED
    BY <1>5 DEF grid, payroll, rows

\* board, a day at a time.
LEMMA BoardRows ==
    ASSUME Sane, NEW z \in ShopZones, NEW d \in LocalDay(0, z)..Today(z), NEW t \in DOMAIN Board(d, z)
    PROVE  /\ t \in Roster(EventsIn(LocalDay(0, z), Today(z), z))
           /\ Board(d, z)[t].row = DayRow(Rows, t, d, z)
<1> DEFINE first == LocalDay(0, z)
           last == Today(z)
<1>1. /\ first \in Int /\ last \in Int /\ z \in Int /\ d \in Int
      /\ first <= d /\ d <= last /\ d + 1 <= last + 1 /\ last + 1 \in Int /\ d + 1 \in Int
    BY DaysSoFar
<1>2. t \in Roster(EventsIn(d, d, z)) /\ Board(d, z)[t].row = DayRow(EventsIn(d, d, z), t, d, z)
    BY DEF Board
<1>3. DayRow(EventsIn(d, d, z), t, d, z) = DayRow(Rows, t, d, z)
  <2>1. z \in Int /\ d \in Int /\ d \in d..d
      BY <1>1
  <2>2. Bucket(EventsIn(d, d, z), t, d, z) = Day(t, d, z)
      BY <2>1, RowsOfADay
  <2> QED
      BY <2>2 DEF DayRow, Day
<1>4. EventsIn(d, d, z) \subseteq EventsIn(first, last, z)
  <2> SUFFICES ASSUME NEW row \in EventsIn(d, d, z) PROVE row \in EventsIn(first, last, z)
      OBVIOUS
  <2> DEFINE e == row.effective
  <2>1. /\ row \in {events[i] : i \in DOMAIN events} \ {Unknown}
        /\ e >= d * DayTicks - z /\ e < (d + 1) * DayTicks - z
      BY DEF EventsIn, RowsIn
  <2>2. e \in Int
      BY <2>1, RowTypes DEF Rows, Sane
  <2> HIDE DEF e, first, last
  <2>3. first * DayTicks <= d * DayTicks /\ (d + 1) * DayTicks <= (last + 1) * DayTicks
      BY <1>1, DaysInOrder
  <2>4. first * DayTicks \in Int /\ d * DayTicks \in Int
        /\ (d + 1) * DayTicks \in Int /\ (last + 1) * DayTicks \in Int
      BY <1>1, DayAssumption
  <2>5. e >= first * DayTicks - z /\ e < (last + 1) * DayTicks - z
      BY <1>1, <2>1, <2>2, <2>3, <2>4
  <2> QED
      BY <2>1, <2>5 DEF e, EventsIn, RowsIn
<1> QED
    BY <1>2, <1>3, <1>4 DEF Roster

\* What the phone shows of today: the newest of each kind.
LEMMA NewestIs ==
    ASSUME Sane, NEW S \in SUBSET Rows, S # {}, NEW b \in Int, \A r \in S : r.effective <= b
    PROVE  Newest(S) \in {r.effective : r \in S} /\ \A r \in S : r.effective <= Newest(S)
<1> DEFINE T == {r.effective : r \in S}
<1>1. T \subseteq Int /\ T # {} /\ \A x \in T : x <= b
    BY RowTypes
<1>2. PICK m \in T : \A x \in T : x <= m
  <2> HIDE DEF T
  <2> QED
    BY <1>1, GreatestOf DEF T
<1>3. Newest(S) = CHOOSE x \in T : \A r \in S : r.effective <= x
    BY DEF Newest
<1> QED
    BY <1>2, <1>3

\* The first and the last of a day's punches.
LEMMA ExtremePunches ==
    ASSUME NEW Q, \A q \in Q : q.at \in Int, Q # {}, NEW a \in Int, NEW b \in Int,
           \A q \in Q : a <= q.at /\ q.at <= b
    PROVE  /\ Earliest(Q) \in Q
           /\ Latest(Q) \in Q /\ \A q \in Q : q.at <= Latest(Q).at
<1> DEFINE T == {q.at : q \in Q}
<1>1. T \subseteq Int /\ T # {} /\ (\A x \in T : a <= x) /\ (\A x \in T : x <= b)
    OBVIOUS
<1>2. \A q \in Q : q.at \in T
    OBVIOUS
<1>3. \A x \in T : \E q \in Q : x = q.at
    OBVIOUS
<1> HIDE DEF T
<1>4. \E m \in T : \A x \in T : m <= x
    BY <1>1, LeastOf
<1>5. \E m \in T : \A x \in T : x <= m
    BY <1>1, GreatestOf
<1>6. \E p \in Q : \A q \in Q : p.at <= q.at
    BY <1>2, <1>3, <1>4
<1>7. \E p \in Q : \A q \in Q : q.at <= p.at
    BY <1>2, <1>3, <1>5
<1> QED
    BY <1>6, <1>7 DEF Earliest, Latest

LEMMA TodayRow ==
    ASSUME Sane, NEW z \in ShopZones, NEW t, DayRow(Rows, t, Today(z), z).roll.firstIn # Unknown
    PROVE  LET status == TodayStatus(t, z)
               roll   == DayRow(Rows, t, Today(z), z).roll
           IN  /\ status.lastIn # Unknown /\ status.lastIn + z >= roll.firstIn
               /\ status.lastOut = IF roll.lastOut = Unknown THEN Unknown ELSE roll.lastOut - z
<1> DEFINE day  == Today(z)
           mine == Day(t, day, z)
           P    == LocalPunches(mine, z)
           heard(r) == [kind |-> r.kind, at |-> r.effective + z, inside |-> r.inside]
           roll == DayRow(Rows, t, day, z).roll
           status == TodayStatus(t, z)
           a == day * DayTicks
           b == (day + 1) * DayTicks
<1>1. z \in Int /\ day \in Int /\ a \in Int /\ b \in Int
  <2>1. z \in Int /\ Today(z) \in Int
      BY DaysSoFar
  <2> QED
      BY <2>1, DayAssumption
<1>2. status.lastIn = Newest(Ins(mine)) /\ status.lastOut = Newest(Outs(mine))
  <2>1. Bucket(EventsIn(day, day, z), t, day, z) = mine
    <3> HIDE DEF day
    <3> QED
      BY <1>1, day \in day..day, RowsOfADay
  <2> QED
      BY <2>1 DEF TodayStatus
<1>3. \A r \in mine : /\ r \in Rows /\ r.effective \in Int
                      /\ a <= r.effective + z /\ r.effective + z < b
  <2> SUFFICES ASSUME NEW r \in mine
               PROVE  r \in Rows /\ r.effective \in Int /\ a <= r.effective + z /\ r.effective + z < b
      OBVIOUS
  <2>1. r \in Rows /\ LocalDay(r.effective, z) = day
      BY DEF Day, Bucket
  <2>2. r.effective \in Int
      BY <2>1, RowTypes
  <2> QED
      BY <1>1, <2>1, <2>2, DayOfATick
<1>4. roll = ClassifyDay(day, P, ShiftFor(t))
    BY DEF DayRow, Day
<1>5. Ins(P) = {heard(r) : r \in Ins(mine)} /\ Outs(P) = {heard(r) : r \in Outs(mine)}
    BY DEF LocalPunches, Ins, Outs
<1>6. Ins(mine) \subseteq mine /\ Outs(mine) \subseteq mine
    BY DEF Ins, Outs
<1>7. \A r : heard(r).at = r.effective + z
    OBVIOUS
<1> HIDE DEF day, mine, P, a, b, heard, roll, status
<1>8. /\ Ins(P) # {} /\ roll.firstIn = Earliest(Ins(P)).at
      /\ roll.lastOut = IF Outs(P) = {} THEN Unknown ELSE Latest(Outs(P)).at
  <2>1. roll.firstIn # Unknown
      BY DEF roll, day
  <2> QED
      BY <1>4, <2>1 DEF ClassifyDay, NoTimes
<1>9. \A q \in Ins(P) \cup Outs(P) : q.at \in Int /\ a <= q.at /\ q.at <= b
  <2> SUFFICES ASSUME NEW r \in mine PROVE heard(r).at \in Int /\ a <= heard(r).at /\ heard(r).at <= b
      BY <1>5, <1>6
  <2> QED
      BY <1>1, <1>3, <1>7
<1>10. PICK r \in Ins(mine) : roll.firstIn = r.effective + z
  <2>1. Earliest(Ins(P)) \in Ins(P)
      BY <1>1, <1>8, <1>9, ExtremePunches
  <2>2. PICK r \in Ins(mine) : Earliest(Ins(P)) = heard(r)
      BY <1>5, <2>1
  <2>3. Earliest(Ins(P)).at = r.effective + z
      BY <1>7, <2>2
  <2> QED
      BY <1>8, <2>3
<1>11. Newest(Ins(mine)) \in Int /\ r.effective <= Newest(Ins(mine))
  <2>1. Ins(mine) \in SUBSET Rows /\ Ins(mine) # {}
      BY <1>3, <1>6
  <2>2. b - z \in Int /\ \A x \in Ins(mine) : x.effective \in Int /\ x.effective <= b - z
      BY <1>1, <1>3, <1>6
  <2>3. /\ Newest(Ins(mine)) \in {x.effective : x \in Ins(mine)}
        /\ \A x \in Ins(mine) : x.effective <= Newest(Ins(mine))
      BY <2>1, <2>2, NewestIs
  <2> QED
      BY <2>2, <2>3
<1>12. status.lastIn # Unknown /\ status.lastIn + z >= roll.firstIn
    BY <1>1, <1>2, <1>3, <1>6, <1>10, <1>11, DayAssumption
<1>13. status.lastOut = IF roll.lastOut = Unknown THEN Unknown ELSE roll.lastOut - z
  <2>1. CASE Outs(mine) = {}
      BY <1>2, <1>5, <1>8, <2>1 DEF Newest
  <2>2. CASE Outs(mine) # {}
    <3> DEFINE last == Latest(Outs(P))
    <3>1. Outs(P) # {} /\ Outs(mine) \in SUBSET Rows
        BY <1>3, <1>5, <1>6, <2>2
    <3>2. last \in Outs(P) /\ \A q \in Outs(P) : q.at <= last.at
        BY <1>1, <1>9, <3>1, ExtremePunches
    <3>3. b - z \in Int /\ \A x \in Outs(mine) : x.effective \in Int /\ x.effective <= b - z
        BY <1>1, <1>3, <1>6
    <3> DEFINE top == Newest(Outs(mine))
    <3>4. top \in {x.effective : x \in Outs(mine)} /\ \A x \in Outs(mine) : x.effective <= top
        BY <2>2, <3>1, <3>3, NewestIs
    <3> HIDE DEF last, top
    <3>5. PICK x \in Outs(mine) : last.at = x.effective + z
        BY <1>5, <1>7, <3>2
    <3>6. PICK y \in Outs(mine) : top = y.effective
        BY <3>4
    <3>7. y.effective + z <= last.at
        BY <1>5, <1>7, <3>2
    <3>8. x.effective <= top
        BY <3>4
    <3>9. top = last.at - z /\ last.at \in Int
        BY <1>1, <3>3, <3>5, <3>6, <3>7, <3>8
    <3>10. roll.lastOut = last.at /\ last.at # Unknown
        BY <1>8, <3>1, <3>9, DayAssumption DEF last
    <3> QED
        BY <1>2, <3>9, <3>10 DEF top
  <2> QED
      BY <2>1, <2>2
<1> QED
    BY <1>12, <1>13 DEF status, roll, day

\* Five reports and the phone tell the manager and the technician one story, for
\* any tables the slice can come to.
THEOREM ReportsDoAgree == AttendanceSpec => []ReportsAgree
<1>1. Inductive => ReportsAgree
  <2> SUFFICES ASSUME Sane, NEW z \in ShopZones
               PROVE  LET first   == LocalDay(0, z)
                          payroll == Payroll(first, Today(z), z)
                          differs == Variance(first, Today(z), z)
                          grid    == Grid(first, Today(z) + 1, z)
                          today(t) == payroll[<<t, Today(z)>>].roll
                      IN  /\ \A at \in DOMAIN payroll : grid[at[1]].cells[at[2]] = payroll[at]
                          /\ \A t \in DOMAIN grid : grid[t].present <= grid[t].working
                          /\ \A t \in DOMAIN grid : today(t).firstIn # Unknown =>
                               LET status == TodayStatus(t, z)
                               IN  /\ status.lastIn # Unknown /\ status.lastIn + z >= today(t).firstIn
                                   /\ status.lastOut = IF today(t).lastOut = Unknown THEN Unknown
                                                       ELSE today(t).lastOut - z
                          /\ \A at \in DOMAIN payroll : TechDays(at[1], first, Today(z), z)[at[2]] = payroll[at]
                          /\ \A at \in DOMAIN differs : differs[at].row = payroll[at]
                          /\ \A d \in first..Today(z) : \A t \in DOMAIN Board(d, z) :
                               <<t, d>> \in DOMAIN payroll /\ Board(d, z)[t].row = payroll[<<t, d>>]
      BY DEF Inductive, ReportsAgree
  <2> DEFINE first   == LocalDay(0, z)
             last    == Today(z)
             payroll == Payroll(first, last, z)
             differs == Variance(first, last, z)
             grid    == Grid(first, last + 1, z)
             everyone == Roster(EventsIn(first, last, z))
  <2>1. /\ DOMAIN payroll = everyone \X (first..last)
        /\ \A at \in DOMAIN payroll :
             /\ payroll[at] = DayRow(Rows, at[1], at[2], z)
             /\ TechDays(at[1], first, last, z)[at[2]] = payroll[at]
        /\ \A at \in DOMAIN differs : differs[at].row = payroll[at]
      BY PayrollRows
  <2>2. /\ DOMAIN grid = everyone
        /\ \A at \in DOMAIN payroll : grid[at[1]].cells[at[2]] = payroll[at]
        /\ \A t \in DOMAIN grid : grid[t].present <= grid[t].working
      BY GridRows
  <2>3. last \in first..last /\ first \in Int /\ last \in Int
      BY DaysSoFar
  <2>4. \A d \in first..last : \A t \in DOMAIN Board(d, z) :
           t \in everyone /\ Board(d, z)[t].row = DayRow(Rows, t, d, z)
      BY BoardRows
  <2> HIDE DEF payroll, differs, grid, everyone
  <2>5. \A t \in everyone, d \in first..last :
           <<t, d>> \in DOMAIN payroll /\ payroll[<<t, d>>] = DayRow(Rows, t, d, z)
      BY <2>1
  <2>6. ASSUME NEW t \in DOMAIN grid PROVE payroll[<<t, last>>] = DayRow(Rows, t, last, z)
      BY <2>2, <2>3, <2>5
  <2>7. ASSUME NEW d \in first..last, NEW t \in DOMAIN Board(d, z)
        PROVE  <<t, d>> \in DOMAIN payroll /\ Board(d, z)[t].row = payroll[<<t, d>>]
      BY <2>4, <2>5
  <2>8. ASSUME NEW t \in DOMAIN grid, payroll[<<t, last>>].roll.firstIn # Unknown
        PROVE  LET status == TodayStatus(t, z)
                   roll   == payroll[<<t, last>>].roll
               IN  /\ status.lastIn # Unknown /\ status.lastIn + z >= roll.firstIn
                   /\ status.lastOut = IF roll.lastOut = Unknown THEN Unknown ELSE roll.lastOut - z
      BY <2>6, <2>8, TodayRow
  <2> QED
      BY <2>1, <2>2, <2>7, <2>8 DEF payroll, differs, grid
<1> QED
    BY <1>1, InductiveHolds, PTL

-----------------------------------------------------------------------------
(* When the export is due *)

LEMMA DueIsANumber == ASSUME NEW w \in Int PROVE DueOf(w) \in Int /\ Sunday(w) \in Int /\ FirstDay(w) \in Int
<1>1. w * WeekDays \in Int /\ DefaultShift.zone \in Int
    BY DayAssumption, ZoneAssumption
<1>2. Sunday(w) \in Int /\ FirstDay(w) \in Int
    BY <1>1, DayAssumption DEF Sunday, FirstDay
<1> DEFINE s == Sunday(w)
<1> HIDE DEF s
<1>3. s * DayTicks \in Int /\ ExportTick \in Int
    BY <1>2, DayAssumption, AttendanceAssumption DEF s
<1>4. s * DayTicks + ExportTick - DefaultShift.zone \in Int
    BY <1>1, <1>3
<1> QED
    BY <1>2, <1>4 DEF DueOf, s

\* Each due time is in a week of its own: the week that it exports.
LEMMA DueWeek ==
    ASSUME NEW w \in Int PROVE WeekEnding(LocalDay(DueOf(w), DefaultShift.zone)) = w
<1> DEFINE s == Sunday(w)
           z == DefaultShift.zone
<1>1. s \in Int /\ z \in Int /\ ExportTick \in 0..(DayTicks - 1) /\ DayTicks \in Nat \ {0}
    BY DueIsANumber, ZoneAssumption, AttendanceAssumption, DayAssumption
<1>2. LocalDay(DueOf(w), z) = (s * DayTicks + ExportTick - z + z) \div DayTicks
    BY DEF LocalDay, DueOf
<1>3. s + 1 = (w + 1) * WeekDays
    BY DayAssumption DEF Sunday
<1> HIDE DEF s, z
<1>4. s * DayTicks \in Int /\ (s + 1) * DayTicks = s * DayTicks + DayTicks
    BY <1>1
<1> DEFINE x == s * DayTicks + ExportTick - z + z
<1>5. x \in Int /\ s * DayTicks <= x /\ x < (s + 1) * DayTicks
    BY <1>1, <1>4
<1> HIDE DEF x
<1>6. x \div DayTicks = s
    BY <1>1, <1>5
<1>7. LocalDay(DueOf(w), z) = s
    BY <1>2, <1>6 DEF x
<1>8. ((w + 1) * WeekDays) \div WeekDays = w + 1
    BY DayAssumption
<1> QED
    BY <1>3, <1>7, <1>8 DEF WeekEnding, z

LEMMA DuesInOrder ==
    ASSUME NEW v \in Int, NEW w \in Int, v <= w PROVE DueOf(v) <= DueOf(w)
<1>1. v * WeekDays <= w * WeekDays /\ v * WeekDays \in Int /\ w * WeekDays \in Int
    BY DayAssumption
<1>2. Sunday(v) <= Sunday(w)
    BY <1>1, DayAssumption DEF Sunday
<1>3. Sunday(v) * DayTicks <= Sunday(w) * DayTicks /\ Sunday(v) * DayTicks \in Int /\ Sunday(w) * DayTicks \in Int
    BY <1>2, DueIsANumber, DaysInOrder
<1>4. DefaultShift.zone \in Int /\ ExportTick \in Int
    BY ZoneAssumption, AttendanceAssumption, DayAssumption
<1> QED
    BY <1>3, <1>4 DEF DueOf

LEMMA NextDueIsDue ==
    ASSUME NEW time \in Nat, time <= Horizon + 1
    PROVE  NextDue(time) \in Dues /\ NextDue(time) >= time
<1> DEFINE top == Horizon + 2
           W == {w \in 0..top : DueOf(w) >= time}
<1>1. top \in Nat /\ top \in 0..top
    BY AttendanceAssumption
<1>2. DueOf(top) >= time
  <2> DEFINE s == Sunday(top)
  <2>1. s >= top
    <3>1. top * WeekDays >= top * 1 /\ top * WeekDays \in Int
        BY <1>1, DayAssumption
    <3> HIDE DEF top
    <3> QED
        BY <1>1, <3>1, DayAssumption DEF Sunday
  <2>2. s \in Int
      BY <1>1, DueIsANumber
  <2> HIDE DEF s
  <2>3. top * DayTicks <= s * DayTicks /\ top * DayTicks \in Int /\ s * DayTicks \in Int
      BY <1>1, <2>1, <2>2, DaysInOrder
  <2>4. top * DayTicks = (Horizon + 1) * DayTicks + DayTicks /\ (Horizon + 1) * DayTicks >= (Horizon + 1) * 1
        /\ (Horizon + 1) * DayTicks \in Int
      BY AttendanceAssumption, DayAssumption
  <2>5. DefaultShift.zone <= DayTicks /\ DefaultShift.zone \in Int /\ ExportTick \in Nat
      BY ZoneAssumption, AttendanceAssumption, DayAssumption
  <2>6. s * DayTicks + ExportTick - DefaultShift.zone >= Horizon + 1
    <3> HIDE DEF top
    <3> QED
      BY <2>3, <2>4, <2>5, AttendanceAssumption, DayAssumption
  <2> QED
      BY <2>3, <2>5, <2>6, AttendanceAssumption DEF DueOf, s
<1>3. W \subseteq Nat /\ top \in W
    BY <1>1, <1>2
<1>4. PICK w \in W : \A v \in W : w <= v
  <2> HIDE DEF W
  <2> QED
    BY <1>3, LeastElement
<1>5. DueOf(w) \in Dues /\ DueOf(w) >= time
    BY DEF Dues
<1>6. ASSUME NEW e \in Dues, e >= time PROVE DueOf(w) <= e
  <2>1. PICK v \in 0..top : e = DueOf(v)
      BY DEF Dues
  <2>2. v \in W
      BY <1>6, <2>1
  <2> QED
      BY <1>3, <1>4, <2>1, <2>2, DuesInOrder
<1> QED
    BY <1>5, <1>6 DEF NextDue

-----------------------------------------------------------------------------
(* The payroll file *)

ShiftsWritten == \A t \in Technicians : shifts[t] # Unknown => shifts[t] \in ShiftUpdates

\* The week's due time is past, and will not come again.
Over(w) == DueOf(w) <= now /\ DueOf(w) < nextRun

Good(file, w) == Over(w) /\ \E z \in ShopZones : Explained(file, w, z)

FileInv ==
    /\ DOMAIN csv = Weeks /\ DOMAIN amended = Weeks
    /\ nextRun \in Dues
    /\ ShiftsWritten
    /\ \A w \in Weeks : csv[w] # Unknown => Good(csv[w], w)
    /\ export.pc = "computed" /\ export.week \in Weeks => Good(export.rows, export.week)

\* Once the export of a week was due its Sunday has come in every zone, so that no
\* report of the week is cut short any more.
LEMMA SundayHasCome ==
    ASSUME Sane, ShiftsWritten, NEW z \in ShopZones, NEW w \in Int, DueOf(w) <= now
    PROVE  z \in Int /\ Sunday(w) \in Int /\ FirstDay(w) \in Int /\ Clamped(Sunday(w), z) = Sunday(w)
<1> DEFINE s == Sunday(w)
           b == Today(z)
<1>1. z \in Int /\ now \in Int /\ s \in Int /\ FirstDay(w) \in Int
    BY ZonesAreNumbers, DueIsANumber
<1>2. z >= DefaultShift.zone - ExportTick
    BY ZoneAssumption, AttendanceAssumption, DayAssumption DEF ShiftsWritten, ShopZones
<1>3. b \in Int /\ now + z < (b + 1) * DayTicks
    BY <1>1, DayOfATick DEF Today
<1>4. s * DayTicks + ExportTick - DefaultShift.zone <= now
    BY DEF DueOf
<1> HIDE DEF s, b
<1>5. s * DayTicks \in Int /\ (b + 1) * DayTicks \in Int /\ DefaultShift.zone \in Int /\ ExportTick \in Int
    BY <1>1, <1>3, DayAssumption, ZoneAssumption, AttendanceAssumption
<1>6. s * DayTicks < (b + 1) * DayTicks
    BY <1>1, <1>2, <1>3, <1>4, <1>5
<1>7. s < b + 1
    BY <1>1, <1>3, <1>6, DayAssumption
<1>8. s <= b
    BY <1>1, <1>3, <1>7
<1> QED
    BY <1>1, <1>3, <1>8 DEF Clamped, s, b

\* Whether a week's payroll has a technician, and what of.
RowsOf(t) == {r \in Rows : r.tech = t}
OnRoster(t, w, z) == t \in Roster(RowsIn(events, FirstDay(w), Sunday(w), z))

LEMMA WhatExplains ==
    ASSUME Sane, ShiftsWritten, NEW z \in ShopZones, NEW w \in Int, DueOf(w) <= now, NEW file
    PROVE  Explained(file, w, z) <=>
             \A t \in Technicians \ amended[w], d \in FirstDay(w)..Sunday(w) :
               /\ (<<t, d>> \in DOMAIN file) <=> OnRoster(t, w, z)
               /\ OnRoster(t, w, z) => file[<<t, d>>] = DayRow(Rows, t, d, z)
<1> DEFINE a == FirstDay(w)
           b == Sunday(w)
           rows == EventsIn(a, b, z)
           fresh == Payroll(a, b, z)
<1>1. z \in Int /\ a \in Int /\ b \in Int /\ Clamped(b, z) = b
    BY SundayHasCome
<1>2. fresh = [at \in Roster(rows) \X (a..b) |-> DayRow(rows, at[1], at[2], z)]
    BY <1>1 DEF Payroll
<1>3. ASSUME NEW t, NEW d \in a..b
      PROVE  /\ <<t, d>> \in DOMAIN fresh <=> OnRoster(t, w, z)
             /\ <<t, d>> \in DOMAIN fresh => fresh[<<t, d>>] = DayRow(Rows, t, d, z)
  <2>1. DayRow(rows, t, d, z) = DayRow(Rows, t, d, z)
    <3>1. Bucket(rows, t, d, z) = Day(t, d, z)
        BY <1>1, RowsOfADay
    <3> QED
        BY <3>1 DEF DayRow, Day
  <2>2. t \in Roster(rows) <=> OnRoster(t, w, z)
      BY DEF OnRoster, EventsIn
  <2> HIDE DEF rows, fresh
  <2>3. <<t, d>> \in DOMAIN fresh <=> t \in Roster(rows)
      BY <1>2
  <2>4. t \in Roster(rows) => fresh[<<t, d>>] = DayRow(rows, t, d, z)
      BY <1>2
  <2> QED
      BY <2>1, <2>2, <2>3, <2>4
<1>4. Explained(file, w, z) <=>
        \A t \in Technicians \ amended[w], d \in a..b :
          /\ (<<t, d>> \in DOMAIN file) = (<<t, d>> \in DOMAIN fresh)
          /\ <<t, d>> \in DOMAIN fresh => file[<<t, d>>] = fresh[<<t, d>>]
    BY DEF Explained
<1> HIDE DEF fresh, rows
<1> QED
    BY <1>3, <1>4

\* The same in the next state.
Explanations ==
    \A z \in ShopZones, w \in Int : \A file :
      Sane /\ ShiftsWritten /\ DueOf(w) <= now =>
        (Explained(file, w, z) <=>
           \A t \in Technicians \ amended[w], d \in FirstDay(w)..Sunday(w) :
             /\ (<<t, d>> \in DOMAIN file) <=> OnRoster(t, w, z)
             /\ OnRoster(t, w, z) => file[<<t, d>>] = DayRow(Rows, t, d, z))

LEMMA ExplanationsHold == Explanations
    BY WhatExplains DEF Explanations

LEMMA ExplanationsStillHold == Explanations'
    BY ExplanationsHold, PTL

LEMMA ZonesThere == Sane => ShopZones # {}
    BY ZonesAreNumbers

LEMMA ZonesStillThere == (Sane => ShopZones # {})'
    BY ZonesThere, PTL

\* A week's payroll says of a technician what his rows and his shift say.
Untouched(t) == RowsOf(t)' = RowsOf(t) /\ shifts'[t] = shifts[t]

LEMMA UntouchedRows ==
    ASSUME Sane, Sane', NEW t \in Technicians, Untouched(t), NEW z, NEW w, NEW d
    PROVE  OnRoster(t, w, z)' = OnRoster(t, w, z) /\ DayRow(Rows, t, d, z)' = DayRow(Rows, t, d, z)
<1>1. ASSUME NEW r, r.tech = t
      PROVE  r \in RowsIn(events', FirstDay(w), Sunday(w), z) <=> r \in RowsIn(events, FirstDay(w), Sunday(w), z)
  <2>1. r \in Rows' <=> r \in Rows
      BY <1>1 DEF Untouched, RowsOf
  <2> QED
      BY <2>1 DEF RowsIn, Rows, Sane
<1>2. OnRoster(t, w, z)' = OnRoster(t, w, z)
    BY <1>1 DEF OnRoster, Roster, Untouched
<1>3. Bucket(Rows, t, d, z)' = Bucket(Rows, t, d, z)
  <2>1. Bucket(Rows, t, d, z) = {r \in RowsOf(t) : LocalDay(r.effective, z) = d}
      BY DEF Bucket, RowsOf
  <2>2. Bucket(Rows, t, d, z)' = {r \in RowsOf(t)' : LocalDay(r.effective, z) = d}
      BY DEF Bucket, RowsOf
  <2> QED
      BY <2>1, <2>2 DEF Untouched
<1>4. ShiftFor(t)' = ShiftFor(t)
    BY DEF ShiftFor, Untouched
<1>5. DayRow(Rows, t, d, z)' = DayRow(Rows, t, d, z)
    BY <1>3, <1>4 DEF DayRow, DayFlags, DriftFlagged, Drift, LocalPunches
<1> QED
    BY <1>2, <1>5

\* What a step leaves of a file that was good.
LEMMA GoodStays ==
    ASSUME Sane, Sane', ShiftsWritten, ShiftsWritten', NEW w \in Int, NEW file, Good(file, w),
           now <= now', nextRun' = nextRun \/ nextRun' = NextDue(now + 1),
           \A t \in Technicians \ amended'[w] : t \notin amended[w] /\ Untouched(t),
           ShopZones \subseteq ShopZones' \/ Technicians \subseteq amended'[w]
    PROVE  Good(file, w)'
<1>1. now \in 0..Horizon /\ now' \in 0..Horizon /\ DueOf(w) \in Int
    BY DueIsANumber DEF Sane, AttendanceTypeOK
<1>2. Over(w)'
  <2>1. NextDue(now + 1) >= now + 1 /\ NextDue(now + 1) \in Int
    <3>1. now + 1 \in Nat /\ now + 1 <= Horizon + 1
        BY <1>1, AttendanceAssumption
    <3>2. NextDue(now + 1) >= now + 1 /\ NextDue(now + 1) \in Dues
        BY <3>1, NextDueIsDue
    <3>3. Dues \subseteq Int
        BY DueIsANumber DEF Dues
    <3> QED
        BY <3>2, <3>3
  <2>2. DueOf(w) <= now /\ DueOf(w) < nextRun
      BY DEF Good, Over
  <2>3. DueOf(w) <= now' /\ DueOf(w) < nextRun'
      BY <1>1, <2>1, <2>2
  <2> QED
      BY <2>3 DEF Over
<1>3. \E z \in ShopZones' : Explained(file, w, z)'
  <2>1. PICK z \in ShopZones : Explained(file, w, z)
      BY DEF Good
  <2>2. ASSUME NEW y \in ShopZones', \A t \in Technicians \ amended'[w], d \in FirstDay(w)..Sunday(w) :
                 /\ (<<t, d>> \in DOMAIN file) <=> OnRoster(t, w, y)'
                 /\ OnRoster(t, w, y)' => file[<<t, d>>] = DayRow(Rows, t, d, y)'
        PROVE  Explained(file, w, y)'
      BY <1>2, <2>2, ExplanationsStillHold DEF Over, Explanations
  <2>3. CASE Technicians \subseteq amended'[w]
      BY <2>2, <2>3, ZonesStillThere
  <2>4. CASE ShopZones \subseteq ShopZones'
    <3>1. \A t \in Technicians \ amended[w], d \in FirstDay(w)..Sunday(w) :
               /\ (<<t, d>> \in DOMAIN file) <=> OnRoster(t, w, z)
               /\ OnRoster(t, w, z) => file[<<t, d>>] = DayRow(Rows, t, d, z)
        BY <2>1, WhatExplains DEF Good, Over
    <3>2. \A t \in Technicians \ amended'[w], d \in FirstDay(w)..Sunday(w) :
               /\ (<<t, d>> \in DOMAIN file) <=> OnRoster(t, w, z)'
               /\ OnRoster(t, w, z)' => file[<<t, d>>] = DayRow(Rows, t, d, z)'
        BY <3>1, UntouchedRows
    <3> QED
        BY <2>2, <2>4, <3>2
  <2> QED
      BY <2>3, <2>4
<1> QED
    BY <1>2, <1>3 DEF Good

LEMMA FileInvInit == AttendanceInit => FileInv
<1> SUFFICES ASSUME AttendanceInit PROVE FileInv
    OBVIOUS
<1>1. NextDue(0) \in Dues
    BY NextDueIsDue, AttendanceAssumption
<1> QED
    BY <1>1 DEF AttendanceInit, FileInv, ShiftsWritten, Idle

\* The tables change, and with them who has been amended.
LEMMA TablesMove ==
    ASSUME Sane, Sane', FileInv, ShiftsWritten', NEW who, Amend(who),
           UNCHANGED <<now, nextRun, export, csv>>,
           \A t \in Technicians \ who : Untouched(t),
           ShopZones \subseteq ShopZones' \/ Technicians \subseteq who
    PROVE  FileInv'
<1>1. Weeks \subseteq Int
    BY DEF Weeks
<1>2. /\ DOMAIN amended' = Weeks
      /\ \A w \in Weeks : csv[w] # Unknown \/ (export.pc = "computed" /\ export.week = w) =>
           amended'[w] = amended[w] \cup who
    BY DEF Amend
<1>3. ASSUME NEW w \in Weeks, NEW file, Good(file, w), amended'[w] = amended[w] \cup who
      PROVE  Good(file, w)'
  <2>1. \A t \in Technicians \ amended'[w] : t \notin amended[w] /\ Untouched(t)
      BY <1>3
  <2>2. ShopZones \subseteq ShopZones' \/ Technicians \subseteq amended'[w]
      BY <1>3
  <2>3. w \in Int /\ now <= now' /\ nextRun' = nextRun
      BY <1>1 DEF Sane, AttendanceTypeOK
  <2> QED
      BY <1>3, <2>1, <2>2, <2>3, GoodStays DEF FileInv
<1>4. ASSUME NEW w \in Weeks, csv[w] # Unknown PROVE Good(csv[w], w)'
  <2>1. PICK file : file = csv[w]
      OBVIOUS
  <2>2. Good(file, w)'
      BY <1>2, <1>3, <1>4, <2>1 DEF FileInv
  <2> QED
      BY <2>1, <2>2
<1>5. ASSUME export.pc = "computed", export.week \in Weeks PROVE Good(export.rows, export.week)'
  <2>1. PICK file : file = export.rows
      OBVIOUS
  <2>2. PICK w \in Weeks : w = export.week
      BY <1>5
  <2>3. Good(file, w)'
      BY <1>2, <1>3, <1>5, <2>1, <2>2 DEF FileInv
  <2> QED
      BY <2>1, <2>2, <2>3
<1> QED
    BY <1>2, <1>4, <1>5 DEF FileInv

\* The tables stay, and files that are made are good.
LEMMA TablesStay ==
    ASSUME Sane, Sane', FileInv, UNCHANGED <<events, shifts>>, now <= now',
           nextRun' = nextRun \/ nextRun' = NextDue(now + 1),
           DOMAIN csv' = Weeks, DOMAIN amended' = Weeks,
           \A w \in Weeks : \/ csv'[w] = csv[w] /\ (csv[w] # Unknown => amended'[w] = amended[w])
                           \/ /\ export.pc = "computed" /\ export.week = w
                              /\ csv'[w] = export.rows /\ amended'[w] = amended[w],
           (export'.pc = "computed" /\ export'.week \in Weeks) =>
              \/ /\ export' = export /\ amended'[export.week] = amended[export.week]
              \/ \E file, w : file = export'.rows /\ w = export'.week /\ Good(file, w)'
    PROVE  FileInv'
<1>1. Weeks \subseteq Int
    BY DEF Weeks
<1>2. nextRun' \in Dues
  <2>1. now + 1 \in Nat /\ now + 1 <= Horizon + 1
      BY AttendanceAssumption DEF Sane, AttendanceTypeOK
  <2> QED
      BY <2>1, NextDueIsDue DEF FileInv
<1>3. ShiftsWritten' /\ ShopZones' = ShopZones /\ \A t : Untouched(t)
    BY DEF FileInv, ShiftsWritten, ShopZones, Untouched, RowsOf, Rows
<1>4. ASSUME NEW w \in Weeks, NEW file, Good(file, w), amended'[w] = amended[w]
      PROVE  Good(file, w)'
    BY <1>1, <1>3, <1>4, GoodStays DEF FileInv
<1>5. ASSUME NEW w \in Weeks, csv'[w] # Unknown PROVE Good(csv[w], w)'
  <2>1. PICK file : file = csv'[w]
      OBVIOUS
  <2>2. Good(file, w) /\ amended'[w] = amended[w]
      BY <1>5, <2>1 DEF FileInv
  <2>3. Good(file, w)'
      BY <1>4, <2>2
  <2> QED
      BY <2>1, <2>3
<1>6. ASSUME export'.pc = "computed", export'.week \in Weeks PROVE Good(export.rows, export.week)'
  <2>1. CASE \E file, w : file = export'.rows /\ w = export'.week /\ Good(file, w)'
      BY <2>1
  <2>2. CASE export' = export /\ amended'[export.week] = amended[export.week]
    <3>1. PICK file : file = export.rows
        OBVIOUS
    <3>2. PICK w \in Weeks : w = export.week
        BY <1>6, <2>2
    <3>3. Good(file, w)'
        BY <1>4, <1>6, <2>2, <3>1, <3>2 DEF FileInv
    <3> QED
        BY <2>2, <3>1, <3>2, <3>3
  <2> QED
      BY <1>6, <2>1, <2>2
<1> QED
    BY <1>2, <1>3, <1>5, <1>6 DEF FileInv

\* A row of one technician is nobody else's.
LEMMA NewRowTouches ==
    ASSUME Sane, NEW i \in Ids, NEW row, events[i] = Unknown, CreateEvent(i, row), UNCHANGED shifts
    PROVE  \A t \in Technicians \ {row.tech} : Untouched(t)
<1>1. events' = [events EXCEPT ![i] = row] /\ DOMAIN events = Ids
    BY DEF CreateEvent, Sane
<1>2. Rows \subseteq Rows'
    BY <1>1 DEF Rows
<1>3. Rows' \subseteq Rows \cup {row}
    BY <1>1 DEF Rows
<1> QED
    BY <1>2, <1>3 DEF Untouched, RowsOf

LEMMA RecordPunchFiles ==
    ASSUME Sane, Sane', FileInv, NEW c \in Punches, RecordPunch(c) PROVE FileInv'
<1> DEFINE row == Received(captured[c])
<1>1. /\ CreateEvent(c, row) /\ events[c] = Unknown /\ c \in Ids /\ Amend({captured[c].tech})
      /\ UNCHANGED <<now, nextRun, export, csv, shifts>>
    BY DEF RecordPunch, job, Ids
<1>2. row.tech = captured[c].tech
    BY DEF Received
<1> HIDE DEF row
<1>3. \A t \in Technicians \ {captured[c].tech} : Untouched(t)
    BY <1>1, <1>2, NewRowTouches
<1>4. ShiftsWritten' /\ ShopZones' = ShopZones
    BY <1>1 DEF FileInv, ShiftsWritten, ShopZones
<1> QED
    BY <1>1, <1>3, <1>4, TablesMove

LEMMA CreateAdjustmentFiles ==
    ASSUME Sane, Sane', FileInv, NEW m \in Corrections, CreateAdjustment(m) PROVE FileInv'
<1>1. PICK t \in Technicians, k \in PunchKinds, time \in 0..now :
        CreateEvent(m, Asserted(t, k, time)) /\ Amend({t})
    BY DEF CreateAdjustment
<1>2. events[m] = Unknown /\ m \in Ids /\ UNCHANGED <<now, nextRun, export, csv, shifts>>
    BY DEF CreateAdjustment, job, Ids
<1>3. Asserted(t, k, time).tech = t
    BY DEF Asserted
<1>4. \A s \in Technicians \ {t} : Untouched(s)
    BY <1>1, <1>2, <1>3, NewRowTouches
<1>5. ShiftsWritten' /\ ShopZones' = ShopZones
    BY <1>2 DEF FileInv, ShiftsWritten, ShopZones
<1> QED
    BY <1>1, <1>2, <1>4, <1>5, TablesMove

\* A completed selfie is its technician's affair too.
LEMMA CompleteSelfieFiles ==
    ASSUME Sane, Sane', FileInv, NEW c \in Punches, CompleteSelfie(c) PROVE FileInv'
<1>1. /\ events' = [events EXCEPT ![c] = Completed(events[c])] /\ events[c] # Unknown
      /\ Amend({events[c].tech}) /\ UNCHANGED <<now, nextRun, export, csv, shifts>>
    BY DEF CompleteSelfie, Completed, job
<1>2. events[c] \in AttendanceEvent /\ c \in Ids /\ DOMAIN events = Ids
    BY <1>1 DEF Sane, AttendanceTypeOK, Ids
<1> DEFINE old == events[c]
           row == Completed(old)
<1>3. row.tech = old.tech /\ events' = [events EXCEPT ![c] = row]
    BY <1>1, <1>2, CompletedRow
<1> HIDE DEF row
<1>4. Rows \subseteq Rows' \cup {old} /\ Rows' \subseteq Rows \cup {row}
    BY <1>2, <1>3 DEF Rows
<1>5. \A t \in Technicians \ {old.tech} : Untouched(t)
    BY <1>1, <1>3, <1>4 DEF Untouched, RowsOf
<1>6. ShiftsWritten' /\ ShopZones' = ShopZones
    BY <1>1 DEF FileInv, ShiftsWritten, ShopZones
<1> QED
    BY <1>1, <1>5, <1>6, TablesMove

\* A shift that brings no new zone is its technician's affair.
LEMMA UpsertShiftFiles ==
    ASSUME Sane, Sane', FileInv, NEW t \in Technicians, UpsertShift(t) PROVE FileInv'
<1>1. PICK s \in ShiftUpdates : /\ shifts' = [shifts EXCEPT ![t] = s]
                               /\ Amend(IF ShopZones = {s.zone} THEN {t} ELSE Technicians)
    BY DEF UpsertShift
<1>2. UNCHANGED <<now, nextRun, export, csv, events>>
    BY DEF UpsertShift, job
<1>3. /\ shifts'[t] = s /\ s # Unknown /\ DOMAIN shifts = Technicians
      /\ \A u \in Technicians \ {t} : shifts'[u] = shifts[u]
    BY <1>1, InputAssumption, UnknownIsNoRow DEF Sane
<1>4. ShiftsWritten'
    BY <1>3 DEF FileInv, ShiftsWritten
<1>5. \A u \in Technicians \ {t} : Untouched(u)
    BY <1>2, <1>3 DEF Untouched, RowsOf, Rows
<1>6. CASE ShopZones = {s.zone}
  <2>1. s.zone \in ShopZones'
      BY <1>3 DEF ShopZones
  <2> QED
      BY <1>1, <1>2, <1>4, <1>5, <1>6, <2>1, TablesMove
<1>7. CASE ShopZones # {s.zone}
  <2>1. Amend(Technicians)
      BY <1>1, <1>7
  <2> QED
      BY <1>2, <1>4, <2>1, TablesMove
<1> QED
    BY <1>6, <1>7

\* The file of a week is computed at its due time, once.
LEMMA ComputeExportFiles == ASSUME Sane, Sane', FileInv, ComputeExport PROVE FileInv'
<1> DEFINE w == WeekEnding(LocalDay(now, DefaultShift.zone))
<1>1. now = nextRun /\ nextRun' = NextDue(now + 1) /\ UNCHANGED <<now, events, shifts, csv>>
      /\ export.pc = "idle"
    BY DEF ComputeExport, tables
<1>2. PICK v \in 0..(Horizon + 2) : now = DueOf(v)
    BY <1>1 DEF FileInv, Dues
<1>3. w = v /\ v \in Int
    BY <1>2, DueWeek
<1>4. DOMAIN csv' = Weeks /\ now <= now' /\ \A u \in Weeks : csv'[u] = csv[u]
    BY <1>1 DEF FileInv, Sane, AttendanceTypeOK
<1>5. CASE Exported(w)
  <2>1. export' = [Idle EXCEPT !.pc = "done"] /\ UNCHANGED amended
      BY <1>5 DEF ComputeExport
  <2>2. export'.pc # "computed"
      BY <2>1 DEF Idle
  <2> QED
      BY <1>1, <1>4, <2>1, <2>2, TablesStay DEF FileInv
<1>6. CASE ~Exported(w)
  <2>1. PICK z \in ShopZones :
          export' = [pc |-> "computed", week |-> w, rows |-> Payroll(FirstDay(w), Sunday(w), z)]
      BY <1>6 DEF ComputeExport
  <2>2. amended' = [amended EXCEPT ![w] = {}]
      BY <1>6 DEF ComputeExport
  <2>3. DOMAIN amended' = Weeks /\ \A u \in Weeks \ {v} : amended'[u] = amended[u]
      BY <1>3, <2>2 DEF FileInv
  <2>4. v \in Weeks => csv[v] = Unknown
    <3>1. v \in Weeks /\ csv[v] # Unknown => DueOf(v) < nextRun
        BY DEF FileInv, Good, Over
    <3>2. DueOf(v) \in Int
        BY <1>3, DueIsANumber
    <3> QED
        BY <1>1, <1>2, <3>1, <3>2
  <2>5. PICK file : file = Payroll(FirstDay(v), Sunday(v), z)
      OBVIOUS
  <2>6. export'.pc = "computed" /\ export'.week = v /\ export'.rows = file
      BY <1>3, <2>1, <2>5
  <2>7. Good(file, v)'
    <3>1. Payroll(FirstDay(v), Sunday(v), z)' = file /\ ShopZones' = ShopZones
        BY <1>1, <2>5 DEF Payroll, Clamped, Today, EventsIn, Roster, DayRow, ShiftFor, ShopZones,
           DayFlags, DriftFlagged, Drift, LocalPunches, Bucket
    <3>2. Explained(file, v, z)'
        BY <3>1 DEF Explained
    <3>3. Over(v)'
      <4>1. now \in 0..Horizon
          BY DEF Sane, AttendanceTypeOK
      <4>2. now + 1 \in Nat /\ now + 1 <= Horizon + 1
          BY <4>1, AttendanceAssumption
      <4>3. NextDue(now + 1) >= now + 1 /\ NextDue(now + 1) \in Dues
          BY <4>2, NextDueIsDue
      <4>4. NextDue(now + 1) \in Int
          BY <4>3, DueIsANumber DEF Dues
      <4> QED
          BY <1>1, <1>2, <4>1, <4>3, <4>4 DEF Over
    <3> QED
        BY <3>1, <3>2, <3>3 DEF Good
  <2>8. \A u \in Weeks : csv'[u] = csv[u] /\ (csv[u] # Unknown => amended'[u] = amended[u])
      BY <1>4, <2>3, <2>4
  <2> QED
      BY <1>1, <1>4, <2>3, <2>6, <2>7, <2>8, TablesStay
<1> QED
    BY <1>5, <1>6

LEMMA PutFileFiles == ASSUME Sane, Sane', FileInv, PutFile PROVE FileInv'
<1>1. /\ export.pc = "computed" /\ UNCHANGED <<now, nextRun, events, shifts, amended>>
      /\ \/ csv' = [csv EXCEPT ![export.week] = export.rows] /\ export' = [export EXCEPT !.pc = "put"]
         \/ export' = [Idle EXCEPT !.pc = "failed"] /\ UNCHANGED csv
    BY DEF PutFile, tables
<1>2. export'.pc # "computed" /\ now <= now'
    BY <1>1 DEF Sane, AttendanceTypeOK, Idle
<1>3. DOMAIN csv = Weeks /\ DOMAIN amended = Weeks
    BY DEF FileInv
<1>4. /\ DOMAIN csv' = Weeks
      /\ \A w \in Weeks : csv'[w] = csv[w] \/ (export.week = w /\ csv'[w] = export.rows)
    BY <1>1, <1>3
<1> QED
    BY <1>1, <1>2, <1>3, <1>4, TablesStay

\* The rest leaves the files, the rows and the shifts alone.
LEMMA OthersFiles ==
    ASSUME Sane, Sane', FileInv, UNCHANGED <<events, shifts, csv, amended>>, now <= now',
           nextRun' = nextRun \/ nextRun' = NextDue(now + 1),
           export' = export \/ export'.pc # "computed"
    PROVE  FileInv'
    BY TablesStay DEF FileInv

LEMMA FileInvNext == Inductive /\ FileInv /\ [AttendanceNext]_attendanceVars => FileInv'
<1> SUFFICES ASSUME Inductive, FileInv, [AttendanceNext]_attendanceVars PROVE FileInv'
    OBVIOUS
<1>1. Sane /\ Sane'
    BY InductiveNext DEF Inductive
<1>2. now \in Nat
    BY <1>1 DEF Sane, AttendanceTypeOK
<1>3. CASE \/ \E c \in Captures : Punch(c) \/ Cross(c) \/ RecordPresence(c)
           \/ UpsertGeofence \/ UNCHANGED attendanceVars
  <2>1. UNCHANGED <<now, nextRun, export, csv, events, shifts, amended>>
      BY <1>3 DEF Punch, Cross, Capture, RecordPresence, UpsertGeofence, attendanceVars, job, tables
  <2> QED
      BY <1>1, <1>2, <2>1, OthersFiles
<1>4. CASE CommitExport \/ Stop \/ Start \/ Tick
  <2>1. UNCHANGED <<csv, events, shifts, amended>>
      BY <1>4 DEF CommitExport, Stop, Start, Tick, tables
  <2>2. now <= now' /\ (nextRun' = nextRun \/ nextRun' = NextDue(now + 1))
      BY <1>2, <1>4 DEF CommitExport, Stop, Start, Tick
  <2>3. export' = export \/ export'.pc # "computed"
      BY <1>4 DEF CommitExport, Stop, Start, Tick, Idle
  <2> QED
      BY <1>1, <2>1, <2>2, <2>3, OthersFiles
<1>5. Punches \cup Crossings \subseteq Captures
    BY DEF Captures
<1> QED
    BY <1>1, <1>3, <1>4, <1>5, RecordPunchFiles, CompleteSelfieFiles, CreateAdjustmentFiles, UpsertShiftFiles,
       ComputeExportFiles, PutFileFiles DEF AttendanceNext

\* No order of late syncs, late selfies, corrections, shifts, restarts and failed uploads leaves a
\* payroll file that says of a technician what the tables do not explain.
THEOREM FilesAreExplained == AttendanceSpec => []ExportExplained
<1>1. FileInv => ExportExplained
    BY DEF FileInv, Good, ExportExplained
<1> QED
    BY <1>1, InductiveHolds, FileInvInit, FileInvNext, PTL DEF AttendanceSpec

-----------------------------------------------------------------------------
(* The duty report: the samples of the window in the order of time, the       *)
(* verdict that governs from each, the runs that the segments make, and the   *)
(* minutes of each kind.                                                      *)

-----------------------------------------------------------------------------
\* What InWindow makes of it: the pings of the window, rising.
IsSample(s) == s.at \in Nat /\ s.inside \in Verdicts
Rising(pts) == \A i, j \in 1..Len(pts) : i < j => pts[i].at < pts[j].at

IsWindow(pts, W) ==
    /\ Len(pts) \in Nat /\ DOMAIN pts = 1..Len(pts)
    /\ \A i \in 1..Len(pts) : pts[i] \in W
    /\ \A s \in W : \E i \in 1..Len(pts) : pts[i] = s
    /\ \A s \in W : IsSample(s)
    /\ \A r, s \in W : r.at = s.at => r = s
    /\ Rising(pts)

LEMMA InWindowIs ==
    ASSUME NEW S, IsFiniteSet(S), \A s \in S : IsSample(s), \A r, s \in S : r.at = s.at => r = s,
           NEW from \in Int, NEW to \in Int
    PROVE  IsWindow(InWindow(S, from, to), {s \in S : from <= s.at /\ s.at <= to})
<1> DEFINE W == {s \in S : from <= s.at /\ s.at <= to}
           pts == InWindow(S, from, to)
<1>1. IsFiniteSet(W) /\ W \subseteq S
    BY FS_Subset
<1>2. pts = ByTime(W)
    BY DEF InWindow
<1>3. (\A s \in W : IsSample(s) /\ s.at \in Nat) /\ \A r, s \in W : r.at = s.at => r = s
    BY DEF IsSample
<1> HIDE DEF pts, W
<1>4. /\ Cardinality(W) \in Nat /\ pts \in [1..Cardinality(W) -> W]
      /\ \A i, j \in 1..Cardinality(W) : i < j => pts[i].at < pts[j].at
      /\ \A s \in W : \E i \in 1..Cardinality(W) : pts[i] = s
    BY <1>1, <1>2, <1>3, ByTimeIs
<1>5. Len(pts) = Cardinality(W) /\ DOMAIN pts = 1..Cardinality(W)
    BY <1>4
<1>6. IsWindow(pts, W)
    BY <1>3, <1>4, <1>5 DEF IsWindow, Rising
<1> QED
    BY <1>6 DEF pts, W

\* The verdict that governs from the i-th sample on: of the last known one so far,
\* or else of the first known one.
Known(pts, i) == pts[i].inside # Unknown
Governs(pts, i, k) ==
    \/ \E j \in 1..i : Known(pts, j) /\ (\A l \in (j + 1)..i : ~Known(pts, l)) /\ k = KindOf(pts[j].inside)
    \/ /\ \A l \in 1..i : ~Known(pts, l)
       /\ \E j \in 1..Len(pts) : /\ Known(pts, j) /\ \A l \in 1..(j - 1) : ~Known(pts, l)
                                 /\ k = KindOf(pts[j].inside)
    \/ (\A l \in 1..Len(pts) : ~Known(pts, l)) /\ k = "inside"

LEMMA KindOfIs == \A v : KindOf(v) \in Kinds /\ KindOf(v) # Unknown /\ KindOf(v) # "no_data"
    BY UnknownIsNoKind DEF KindOf, Kinds

CarriedStep(pts, f, i) ==
    IF i = 0 THEN Unknown ELSE IF pts[i].inside = Unknown THEN f[i - 1] ELSE KindOf(pts[i].inside)
Carries(pts, f) == f = [i \in 0..Len(pts) |-> CarriedStep(pts, f, i)]

LEMMA CarriedExists ==
    ASSUME NEW pts, Len(pts) \in Nat
    PROVE  \E f : Carries(pts, f)
<1> DEFINE n == Len(pts)
           C == Kinds \cup {Unknown}
           step == [p \in (1..n) \X C |-> IF pts[p[1]].inside = Unknown THEN p[2] ELSE KindOf(pts[p[1]].inside)]
<1>1. \A k \in 1..n : \A x \in C :
        step[<<k, x>>] = (IF pts[k].inside = Unknown THEN x ELSE KindOf(pts[k].inside)) /\ step[<<k, x>>] \in C
    BY KindOfIs
<1>2. Unknown \in C /\ n \in Nat
    OBVIOUS
<1> HIDE DEF step, C, n
<1>3. PICK f : Recursion(C, Unknown, step, n, f)
  <2>1. StaysIn(C, step, n)
      BY <1>1 DEF StaysIn
  <2> QED
      BY <1>2, <2>1, RecursionExists
<1>7. f \in [0..n -> C] /\ f[0] = Unknown /\ \A k \in 1..n : f[k] = step[<<k, f[k - 1]>>]
    BY <1>3 DEF Recursion
<1>4. ASSUME NEW k \in 0..n PROVE f[k] = CarriedStep(pts, f, k)
  <2>1. CASE k = 0
      BY <1>7, <2>1 DEF CarriedStep
  <2>2. CASE k # 0
    <3>1. k \in 1..n /\ k - 1 \in 0..n
        BY <1>2, <2>2
    <3>2. f[k - 1] \in C
        BY <1>7, <3>1
    <3> QED
        BY <1>1, <1>7, <2>2, <3>1, <3>2 DEF CarriedStep
  <2> QED
      BY <2>1, <2>2
<1>5. f = [k \in 0..n |-> f[k]]
    BY <1>7
<1>6. Carries(pts, f)
    BY <1>4, <1>5 DEF Carries, n
<1> QED
    BY <1>6

LEMMA ResolvedIs ==
    ASSUME NEW pts, Len(pts) \in Nat, DOMAIN pts = 1..Len(pts), NEW i \in 1..Len(pts)
    PROVE  Governs(pts, i, Resolved(pts)[i]) /\ Resolved(pts)[i] \in Kinds \ {"no_data"}
<1> DEFINE n == Len(pts)
           f == CHOOSE g : Carries(pts, g)
           known == {k \in DOMAIN pts : f[k] # Unknown}
           leading == IF known = {} THEN "inside" ELSE f[CHOOSE k \in known : \A j \in known : k <= j]
<1>1. Resolved(pts) = [k \in DOMAIN pts |-> IF f[k] = Unknown THEN leading ELSE f[k]]
    BY DEF Resolved, Carries, CarriedStep
<1>2. Carries(pts, f)
    BY CarriedExists
<1> HIDE DEF f
<1>3. f[0] = Unknown /\ \A k \in 1..n : f[k] = IF ~Known(pts, k) THEN f[k - 1] ELSE KindOf(pts[k].inside)
    BY <1>2 DEF Carries, CarriedStep, Known
<1> DEFINE LastKnown(k) == \E j \in 1..k : /\ Known(pts, j) /\ \A l \in (j + 1)..k : ~Known(pts, l)
                                           /\ f[k] = KindOf(pts[j].inside)
           NoneKnown(k) == \A l \in 1..k : ~Known(pts, l)
           D == {k \in Nat : k <= n => \/ f[k] = Unknown /\ NoneKnown(k)
                                       \/ f[k] # Unknown /\ LastKnown(k)}
<1>4. 0 \in D
    BY <1>3
<1>5. ASSUME NEW k \in Nat, k \in D PROVE k + 1 \in D
  <2> SUFFICES ASSUME k + 1 <= n
               PROVE  \/ f[k + 1] = Unknown /\ NoneKnown(k + 1)
                      \/ f[k + 1] # Unknown /\ LastKnown(k + 1)
      OBVIOUS
  <2>1. f[k + 1] = IF ~Known(pts, k + 1) THEN f[k] ELSE KindOf(pts[k + 1].inside)
      BY <1>3
  <2>2. CASE Known(pts, k + 1)
    <3>1. f[k + 1] = KindOf(pts[k + 1].inside) /\ k + 1 \in 1..(k + 1) /\ ((k + 1) + 1)..(k + 1) = {}
        BY <2>1, <2>2
    <3>2. LastKnown(k + 1)
        BY <2>2, <3>1
    <3>3. f[k + 1] # Unknown
        BY <3>1, KindOfIs
    <3> QED
        BY <3>2, <3>3
  <2>3. CASE ~Known(pts, k + 1) /\ f[k] = Unknown
    <3>1. NoneKnown(k)
        BY <1>5, <2>3
    <3> QED
        BY <2>1, <2>3, <3>1
  <2>4. CASE ~Known(pts, k + 1) /\ f[k] # Unknown
    <3>1. LastKnown(k)
        BY <1>5, <2>4
    <3>2. PICK j \in 1..k : /\ Known(pts, j) /\ \A l \in (j + 1)..k : ~Known(pts, l)
                            /\ f[k] = KindOf(pts[j].inside)
        BY <3>1
    <3>3. j \in 1..(k + 1) /\ \A l \in (j + 1)..(k + 1) : ~Known(pts, l)
        BY <2>4, <3>2
    <3>4. f[k + 1] = f[k]
        BY <2>1, <2>4
    <3>5. LastKnown(k + 1)
        BY <3>2, <3>3, <3>4
    <3> QED
        BY <2>4, <3>4, <3>5
  <2> QED
      BY <2>2, <2>3, <2>4
<1> HIDE DEF D
<1>6. \A k \in 1..n : (f[k] = Unknown /\ NoneKnown(k)) \/ (f[k] # Unknown /\ LastKnown(k))
  <2>1. \A k \in Nat : k \in D
      BY <1>4, <1>5, NatIsInductive
  <2> QED
      BY <2>1 DEF D
<1>7. i \in DOMAIN pts
    OBVIOUS
<1>8. CASE f[i] # Unknown
  <2>1. Resolved(pts)[i] = f[i]
      BY <1>1, <1>7, <1>8
  <2>2. LastKnown(i)
      BY <1>6, <1>8
  <2> QED
      BY <2>1, <2>2, KindOfIs DEF Governs
<1>9. CASE f[i] = Unknown /\ known = {}
  <2>1. Resolved(pts)[i] = "inside"
      BY <1>1, <1>7, <1>9
  <2>2. \A k \in 1..n : ~Known(pts, k)
    <3> SUFFICES ASSUME NEW k \in 1..n, Known(pts, k) PROVE FALSE
        OBVIOUS
    <3>1. f[k] # Unknown
        BY <1>3, KindOfIs
    <3> QED
        BY <1>9, <3>1
  <2> QED
      BY <2>1, <2>2 DEF Governs, Kinds
<1>10. CASE f[i] = Unknown /\ known # {}
  <2>1. known \subseteq Nat
      OBVIOUS
  <2> DEFINE m == CHOOSE k \in known : \A j \in known : k <= j
  <2>2. m \in known /\ \A j \in known : m <= j
      BY <1>10, <2>1, LeastElement
  <2>3. Resolved(pts)[i] = f[m]
      BY <1>1, <1>7, <1>10
  <2> HIDE DEF m
  <2>4. m \in 1..n /\ f[m] # Unknown
      BY <2>2
  <2>5. \A l \in 1..(m - 1) : ~Known(pts, l)
    <3> SUFFICES ASSUME NEW l \in 1..(m - 1), Known(pts, l) PROVE FALSE
        OBVIOUS
    <3>1. l \in 1..n /\ l < m
        BY <2>4
    <3>2. f[l] # Unknown
        BY <1>3, <3>1, KindOfIs
    <3> QED
        BY <2>2, <3>1, <3>2
  <2>6. Known(pts, m)
    <3>1. PICK j \in 1..m : Known(pts, j)
        BY <1>6, <2>4
    <3> QED
        BY <2>4, <2>5, <3>1
  <2>7. f[m] = KindOf(pts[m].inside)
      BY <1>3, <2>4, <2>6
  <2>8. NoneKnown(i)
      BY <1>6, <1>10
  <2> QED
      BY <2>3, <2>4, <2>5, <2>6, <2>7, <2>8, KindOfIs DEF Governs
<1> QED
    BY <1>8, <1>9, <1>10
-----------------------------------------------------------------------------
\* Runs that follow on each other, of which duty_summary makes the whole.
Run == [from : Int, to : Int, kind : Kinds]
Follows(runs) == \A i \in 1..(Len(runs) - 1) : runs[i].to = runs[i + 1].from

LEMMA RunParts ==
    ASSUME NEW runs \in Seq(Run)
    PROVE  /\ Len(runs) \in Nat /\ DOMAIN runs = 1..Len(runs)
           /\ \A k \in 1..Len(runs) : /\ runs[k] \in Run /\ runs[k].from \in Int /\ runs[k].to \in Int
                                      /\ runs[k].kind \in Kinds /\ runs[k].to - runs[k].from \in Int
<1>1. \A k \in 1..Len(runs) : runs[k] \in Run
    OBVIOUS
<1>2. \A r \in Run : r.from \in Int /\ r.to \in Int /\ r.kind \in Kinds
    BY DEF Run
<1> QED
    BY <1>1, <1>2

SumsTo(runs, kind, f) ==
    /\ f[0] = 0
    /\ \A k \in 1..Len(runs) :
         f[k] = f[k - 1] + (IF runs[k].kind = kind THEN runs[k].to - runs[k].from ELSE 0)
    /\ \A k \in 0..Len(runs) : f[k] \in Int

LEMMA MinutesIs ==
    ASSUME NEW runs \in Seq(Run), NEW kind
    PROVE  \E f : SumsTo(runs, kind, f) /\ Minutes(runs, kind) = f[Len(runs)]
<1> DEFINE part(k) == IF runs[k].kind = kind THEN runs[k].to - runs[k].from ELSE 0
           q == [k \in DOMAIN runs |-> part(k)]
           n == Len(runs)
<1>1. n \in Nat /\ DOMAIN runs = 1..n /\ \A k \in 1..n : part(k) \in Int
    BY RunParts
<1>2. Len(q) = n /\ \A k \in 1..n : q[k] = part(k)
    BY <1>1
<1>3. Minutes(runs, kind) = Total(q)
    BY DEF Minutes
<1> HIDE DEF q, n, part
<1>4. PICK f : Totals(q, f) /\ Total(q) = f[n]
    BY <1>1, <1>2, TotalIs
<1>5. SumsTo(runs, kind, f)
  <2>1. f[0] = 0 /\ (\A k \in 1..n : f[k] = f[k - 1] + part(k)) /\ \A k \in 0..n : f[k] \in Int
      BY <1>1, <1>2, <1>4 DEF Totals
  <2> QED
      BY <2>1 DEF SumsTo, part, n
<1> QED
    BY <1>3, <1>4, <1>5 DEF n

LEMMA MinutesAddUp ==
    ASSUME NEW runs \in Seq(Run), runs # <<>>, Follows(runs)
    PROVE  Minutes(runs, "inside") + Minutes(runs, "outside") + Minutes(runs, "no_data")
             = runs[Len(runs)].to - runs[1].from
<1> DEFINE n == Len(runs)
           long(k) == runs[k].to - runs[k].from
<1>0. n \in Nat /\ n >= 1 /\ \A k \in 1..n : runs[k].from \in Int /\ runs[k].to \in Int /\ runs[k].kind \in Kinds
    BY RunParts
<1>1. PICK f : SumsTo(runs, "inside", f) /\ Minutes(runs, "inside") = f[n]
    BY MinutesIs
<1>2. PICK g : SumsTo(runs, "outside", g) /\ Minutes(runs, "outside") = g[n]
    BY MinutesIs
<1>3. PICK h : SumsTo(runs, "no_data", h) /\ Minutes(runs, "no_data") = h[n]
    BY MinutesIs
<1> DEFINE D == {k \in Nat : k + 1 <= n => f[k + 1] + g[k + 1] + h[k + 1] = runs[k + 1].to - runs[1].from}
<1>4. ASSUME NEW k \in 1..n
      PROVE  f[k] + g[k] + h[k] = f[k - 1] + g[k - 1] + h[k - 1] + long(k)
  <2>1. f[k - 1] \in Int /\ g[k - 1] \in Int /\ h[k - 1] \in Int /\ long(k) \in Int
      BY <1>0, <1>1, <1>2, <1>3 DEF SumsTo
  <2>2. /\ f[k] = f[k - 1] + (IF runs[k].kind = "inside" THEN long(k) ELSE 0)
        /\ g[k] = g[k - 1] + (IF runs[k].kind = "outside" THEN long(k) ELSE 0)
        /\ h[k] = h[k - 1] + (IF runs[k].kind = "no_data" THEN long(k) ELSE 0)
      BY <1>1, <1>2, <1>3 DEF SumsTo
  <2> HIDE DEF long
  <2>3. runs[k].kind \in {"inside", "outside", "no_data"}
      BY <1>0 DEF Kinds
  <2>4. CASE runs[k].kind = "inside"
      BY <2>1, <2>2, <2>4
  <2>5. CASE runs[k].kind = "outside"
      BY <2>1, <2>2, <2>5
  <2>6. CASE runs[k].kind = "no_data"
      BY <2>1, <2>2, <2>6
  <2> QED
      BY <2>3, <2>4, <2>5, <2>6
<1>5. 0 \in D
  <2>1. f[0] = 0 /\ g[0] = 0 /\ h[0] = 0 /\ 1 \in 1..n
      BY <1>0, <1>1, <1>2, <1>3 DEF SumsTo
  <2>2. f[1] + g[1] + h[1] = f[0] + g[0] + h[0] + long(1)
      BY <1>4, <2>1
  <2> QED
      BY <1>0, <2>1, <2>2
<1>6. ASSUME NEW k \in Nat, k \in D PROVE k + 1 \in D
  <2> SUFFICES ASSUME k + 2 <= n PROVE f[k + 2] + g[k + 2] + h[k + 2] = runs[k + 2].to - runs[1].from
      OBVIOUS
  <2>1. k + 2 \in 1..n /\ k + 1 \in 1..(n - 1) /\ k + 1 \in 1..n /\ 1 \in 1..n /\ (k + 2) - 1 = k + 1
      BY <1>0
  <2>2. f[k + 2] + g[k + 2] + h[k + 2] = f[k + 1] + g[k + 1] + h[k + 1] + long(k + 2)
      BY <1>4, <2>1
  <2>3. f[k + 1] + g[k + 1] + h[k + 1] = runs[k + 1].to - runs[1].from
      BY <1>6, <2>1
  <2>4. runs[k + 1].to = runs[k + 2].from
      BY <2>1 DEF Follows
  <2> QED
      BY <1>0, <2>1, <2>2, <2>3, <2>4
<1> HIDE DEF D
<1>7. n - 1 \in D
    BY <1>0, <1>5, <1>6, NatIsInductive
<1> QED
  <2>1. f[(n - 1) + 1] + g[(n - 1) + 1] + h[(n - 1) + 1] = runs[(n - 1) + 1].to - runs[1].from
      BY <1>0, <1>7 DEF D
  <2>2. (n - 1) + 1 = n
      BY <1>0
  <2> QED
      BY <1>1, <1>2, <1>3, <2>1, <2>2
-----------------------------------------------------------------------------
\* Merging a segment into the runs so far; G says of which kind each moment is.
Alternates(runs) == \A i \in 1..(Len(runs) - 1) : runs[i].kind # runs[i + 1].kind
Says(run, G) == \A x \in run.from..(run.to - 1) : <<x, run.kind>> \in G
Partitions(runs, from, to, G) ==
    /\ runs \in Seq(Run)
    /\ Follows(runs) /\ Alternates(runs)
    /\ \A i \in 1..Len(runs) : Says(runs[i], G)
    /\ IF runs = <<>> THEN to = from ELSE runs[1].from = from /\ runs[Len(runs)].to = to

LEMMA ExtendKeeps ==
    ASSUME NEW runs, NEW from \in Int, NEW G, NEW run \in Run,
           Partitions(runs, from, run.from, G), Says(run, G)
    PROVE  Partitions(Extend(runs, run), from, run.to, G) /\ Extend(runs, run) # <<>>
<1> DEFINE n == Len(runs)
<1>1. /\ n \in Nat /\ DOMAIN runs = 1..n /\ runs \in Seq(Run)
      /\ \A k \in 1..n : runs[k] \in Run /\ runs[k].from \in Int /\ runs[k].to \in Int /\ runs[k].kind \in Kinds
      /\ run.from \in Int /\ run.to \in Int /\ run.kind \in Kinds
    BY RunParts DEF Partitions, Run
<1>2. runs # <<>> => n >= 1 /\ n \in 1..n /\ runs[1].from = from /\ runs[n].to = run.from /\ Last(runs) = runs[n]
    BY <1>1 DEF Partitions, Last
<1>5. /\ \A k \in 1..(n - 1) : runs[k].to = runs[k + 1].from /\ runs[k].kind # runs[k + 1].kind
      /\ \A k \in 1..n : Says(runs[k], G)
      /\ runs = <<>> => n = 0 /\ run.from = from
      /\ runs # <<>> => n # 0
    BY <1>1 DEF Partitions, Follows, Alternates
<1> DEFINE s == Append(runs, run)
<1>6. s \in Seq(Run) /\ Len(s) = n + 1 /\ s[n + 1] = run /\ (\A k \in 1..n : s[k] = runs[k]) /\ s # <<>>
    BY <1>1, AppendProperties
<1> HIDE DEF s, n
<1>3. CASE runs # <<>> /\ runs[n].kind = run.kind
  <2> DEFINE u == [runs EXCEPT ![n].to = run.to]
             r == [runs[n] EXCEPT !.to = run.to]
  <2>1. Extend(runs, run) = u
      BY <1>2, <1>3 DEF Extend, n
  <2>2. r \in Run /\ r.from = runs[n].from /\ r.to = run.to /\ r.kind = run.kind
      BY <1>1, <1>2, <1>3 DEF Run
  <2>3. u = [runs EXCEPT ![n] = r]
      OBVIOUS
  <2> HIDE DEF r
  <2>4. u \in Seq(Run) /\ Len(u) = n /\ u[n] = r /\ \A k \in 1..(n - 1) : u[k] = runs[k]
      BY <1>1, <1>2, <1>3, <2>2, <2>3
  <2> HIDE DEF u
  <2>5. Follows(u)
    <3> SUFFICES ASSUME NEW k \in 1..(n - 1) PROVE u[k].to = u[k + 1].from
        BY <2>4 DEF Follows
    <3>1. runs[k].to = runs[k + 1].from
        BY <1>5
    <3>2. u[k] = runs[k] /\ (k + 1 = n \/ (k + 1 \in 1..(n - 1) /\ u[k + 1] = runs[k + 1]))
        BY <1>1, <2>4
    <3> QED
        BY <2>2, <2>4, <3>1, <3>2
  <2>6. Alternates(u)
    <3> SUFFICES ASSUME NEW k \in 1..(n - 1) PROVE u[k].kind # u[k + 1].kind
        BY <2>4 DEF Alternates
    <3>1. runs[k].kind # runs[k + 1].kind
        BY <1>5
    <3>2. u[k] = runs[k] /\ (k + 1 = n \/ (k + 1 \in 1..(n - 1) /\ u[k + 1] = runs[k + 1]))
        BY <1>1, <2>4
    <3> QED
        BY <1>3, <2>2, <2>4, <3>1, <3>2
  <2>7. Says(r, G)
    <3> SUFFICES ASSUME NEW x \in r.from..(r.to - 1) PROVE <<x, r.kind>> \in G
        BY DEF Says
    <3>0. x \in Int /\ runs[n].from <= x /\ x < run.to
        BY <1>1, <1>2, <1>3, <2>2
    <3>1. CASE x < run.from
      <4>1. x \in runs[n].from..(runs[n].to - 1)
          BY <1>1, <1>2, <1>3, <3>0, <3>1
      <4>2. Says(runs[n], G)
          BY <1>2, <1>3, <1>5
      <4> QED
          BY <1>3, <2>2, <4>1, <4>2 DEF Says
    <3>2. CASE run.from <= x
      <4>1. x \in run.from..(run.to - 1)
          BY <1>1, <3>0, <3>2
      <4> QED
          BY <2>2, <4>1 DEF Says
    <3> QED
        BY <1>1, <3>0, <3>1, <3>2
  <2>8. \A k \in 1..n : Says(u[k], G)
    <3> SUFFICES ASSUME NEW k \in 1..n PROVE Says(u[k], G)
        OBVIOUS
    <3>1. Says(runs[k], G)
        BY <1>5
    <3>2. k = n \/ k \in 1..(n - 1)
        BY <1>1
    <3> QED
        BY <2>4, <2>7, <3>1, <3>2
  <2>9. u # <<>> /\ u[1].from = from /\ u[Len(u)].to = run.to
    <3>1. n = 1 \/ 1 \in 1..(n - 1)
        BY <1>1, <1>2, <1>3
    <3>2. Len(u) >= 1
        BY <1>2, <1>3, <2>4
    <3> QED
        BY <1>2, <1>3, <2>2, <2>4, <3>1, <3>2
  <2> QED
      BY <2>1, <2>4, <2>5, <2>6, <2>8, <2>9 DEF Partitions
<1>4. CASE ~(runs # <<>> /\ runs[n].kind = run.kind)
  <2>1. Extend(runs, run) = s
      BY <1>2, <1>4 DEF Extend, s
  <2>3. Follows(s)
    <3> SUFFICES ASSUME NEW k \in 1..n PROVE s[k].to = s[k + 1].from
        BY <1>1, <1>6 DEF Follows
    <3>1. CASE k = n
      <4>1. runs # <<>>
          BY <1>1, <1>5, <3>1
      <4> QED
          BY <1>2, <1>6, <3>1, <4>1
    <3>2. CASE k # n
      <4>1. k \in 1..(n - 1) /\ k + 1 \in 1..n
          BY <1>1, <3>2
      <4> QED
          BY <1>5, <1>6, <4>1
    <3> QED
        BY <3>1, <3>2
  <2>4. Alternates(s)
    <3> SUFFICES ASSUME NEW k \in 1..n PROVE s[k].kind # s[k + 1].kind
        BY <1>1, <1>6 DEF Alternates
    <3>1. CASE k = n
      <4>1. runs # <<>>
          BY <1>1, <1>5, <3>1
      <4> QED
          BY <1>4, <1>6, <3>1, <4>1
    <3>2. CASE k # n
      <4>1. k \in 1..(n - 1) /\ k + 1 \in 1..n
          BY <1>1, <3>2
      <4> QED
          BY <1>5, <1>6, <4>1
    <3> QED
        BY <3>1, <3>2
  <2>5. \A k \in 1..(n + 1) : Says(s[k], G)
    <3> SUFFICES ASSUME NEW k \in 1..(n + 1) PROVE Says(s[k], G)
        OBVIOUS
    <3>1. k = n + 1 \/ k \in 1..n
        BY <1>1
    <3> QED
        BY <1>5, <1>6, <3>1
  <2>6. s[1].from = from /\ s[Len(s)].to = run.to
    <3>1. CASE runs = <<>>
      <4>1. n = 0 /\ run.from = from
          BY <1>5, <3>1
      <4> QED
          BY <1>6, <4>1
    <3>2. CASE runs # <<>>
      <4>1. 1 \in 1..n
          BY <1>1, <1>2, <3>2
      <4> QED
          BY <1>2, <1>6, <3>2, <4>1
    <3> QED
        BY <3>1, <3>2
  <2> QED
      BY <2>1, <1>6, <2>3, <2>4, <2>5, <2>6 DEF Partitions
<1> QED
    BY <1>3, <1>4
LEMMA ExtendType ==
    ASSUME NEW runs \in Seq(Run), NEW run \in Run
    PROVE  Extend(runs, run) \in Seq(Run)
<1> DEFINE n == Len(runs)
<1>1. CASE runs # <<>> /\ Last(runs).kind = run.kind /\ Last(runs).to = run.from
  <2> DEFINE r == [runs[n] EXCEPT !.to = run.to]
  <2>1. n \in 1..n /\ runs[n] \in Run
      BY <1>1, RunParts
  <2>2. r \in Run
      BY <2>1 DEF Run
  <2>3. Extend(runs, run) = [runs EXCEPT ![n] = r]
      BY <1>1 DEF Extend
  <2> HIDE DEF r
  <2> QED
      BY <2>1, <2>2, <2>3
<1>2. CASE ~(runs # <<>> /\ Last(runs).kind = run.kind /\ Last(runs).to = run.from)
  <2>1. Extend(runs, run) = Append(runs, run)
      BY <1>2 DEF Extend
  <2> QED
      BY <2>1, AppendProperties
<1> QED
    BY <1>1, <1>2

\* The runs after each of the segments.
MergedStep(pts, from, to, cadence, f, i) ==
    IF i = 0 THEN <<>>
    ELSE IF Cut(pts, from, to, i - 1) < Cut(pts, from, to, i)
         THEN Extend(f[i - 1], Segment(pts, from, to, cadence, i)) ELSE f[i - 1]
Merges(pts, from, to, cadence, f) ==
    f = [i \in 0..(Len(pts) + 1) |-> MergedStep(pts, from, to, cadence, f, i)]

LEMMA MergesExists ==
    ASSUME NEW pts, NEW from, NEW to, NEW cadence, Len(pts) \in Nat,
           \A i \in 1..(Len(pts) + 1) : Segment(pts, from, to, cadence, i) \in Run
    PROVE  \E f : Merges(pts, from, to, cadence, f)
<1> DEFINE m == Len(pts) + 1
           S == Seq(Run)
           seg(i) == Segment(pts, from, to, cadence, i)
           some(i) == Cut(pts, from, to, i - 1) < Cut(pts, from, to, i)
           step == [p \in (1..m) \X S |-> IF some(p[1]) THEN Extend(p[2], seg(p[1])) ELSE p[2]]
<1>1. m \in Nat /\ <<>> \in S /\ \A k \in 1..m : seg(k) \in Run
    OBVIOUS
<1>2. \A k \in 1..m : \A x \in S : step[<<k, x>>] = IF some(k) THEN Extend(x, seg(k)) ELSE x
    OBVIOUS
<1>3. \A k \in 1..m : \A x \in S : Extend(x, seg(k)) \in S
    BY <1>1, ExtendType
<1> HIDE DEF step, S, m, some, seg
<1>4. StaysIn(S, step, m)
  <2>1. ASSUME NEW k \in 1..m, NEW x \in S PROVE step[<<k, x>>] \in S
    <3>1. step[<<k, x>>] = IF some(k) THEN Extend(x, seg(k)) ELSE x
        BY <1>2
    <3>2. Extend(x, seg(k)) \in S
        BY <1>3
    <3> QED
        BY <3>1, <3>2
  <2> QED
      BY <2>1 DEF StaysIn
<1>5. PICK f : Recursion(S, <<>>, step, m, f)
    BY <1>1, <1>4, RecursionExists
<1>6. f \in [0..m -> S] /\ f[0] = <<>> /\ \A k \in 1..m : f[k] = step[<<k, f[k - 1]>>]
    BY <1>5 DEF Recursion
<1>7. ASSUME NEW k \in 0..m PROVE f[k] = MergedStep(pts, from, to, cadence, f, k)
  <2>1. CASE k = 0
      BY <1>6, <2>1 DEF MergedStep
  <2>2. CASE k # 0
    <3>1. k \in 1..m /\ k - 1 \in 0..m
        BY <1>1, <2>2
    <3>2. f[k] = IF some(k) THEN Extend(f[k - 1], seg(k)) ELSE f[k - 1]
        BY <1>2, <1>6, <3>1
    <3> QED
        BY <2>2, <3>2 DEF MergedStep, some, seg
  <2> QED
      BY <2>1, <2>2
<1>8. f = [k \in 0..m |-> f[k]]
    BY <1>6
<1>9. Merges(pts, from, to, cadence, f)
    BY <1>7, <1>8 DEF Merges, m
<1> QED
    BY <1>9

\* Of segments that say what G says, the runs partition the window.
LEMMA MergedPartitions ==
    ASSUME NEW pts, NEW from \in Int, NEW to \in Int, NEW cadence, NEW G, Len(pts) \in Nat, from < to,
           \A i \in 1..(Len(pts) + 1) :
             /\ Segment(pts, from, to, cadence, i) \in Run
             /\ Cut(pts, from, to, i - 1) \in Int /\ Cut(pts, from, to, i) \in Int
             /\ Cut(pts, from, to, i - 1) <= Cut(pts, from, to, i)
             /\ Says(Segment(pts, from, to, cadence, i), G)
    PROVE  LET runs == Merged(pts, from, to, cadence) IN Partitions(runs, from, to, G) /\ runs # <<>>
<1> DEFINE m == Len(pts) + 1
           f == CHOOSE g : Merges(pts, from, to, cadence, g)
           cut(i) == Cut(pts, from, to, i)
           seg(i) == Segment(pts, from, to, cadence, i)
<1>1. Merged(pts, from, to, cadence) = f[m] /\ m \in Nat /\ m # 0
    BY DEF Merged, Merges, MergedStep
<1>2. Merges(pts, from, to, cadence, f)
    BY MergesExists
<1>3. cut(0) = from /\ cut(m) = to
    BY DEF Cut
<1> HIDE DEF f
<1>4. f[0] = <<>> /\ \A k \in 1..m : f[k] = IF cut(k - 1) < cut(k) THEN Extend(f[k - 1], seg(k)) ELSE f[k - 1]
    BY <1>2 DEF Merges, MergedStep
<1>5. \A k \in 1..m : /\ seg(k) \in Run /\ Says(seg(k), G) /\ seg(k).from = cut(k - 1) /\ seg(k).to = cut(k)
                        /\ cut(k - 1) \in Int /\ cut(k) \in Int /\ cut(k - 1) <= cut(k)
    BY DEF Segment
<1> HIDE DEF cut, seg, m
<1> DEFINE D == {k \in Nat : k <= m => Partitions(f[k], from, cut(k), G)}
<1>6. 0 \in D
  <2>1. <<>> \in Seq(Run) /\ Len(<<>>) = 0
      OBVIOUS
  <2>2. Partitions(<<>>, from, from, G)
      BY <2>1 DEF Partitions, Follows, Alternates
  <2> QED
      BY <1>3, <1>4, <2>2
<1>7. ASSUME NEW k \in Nat, k \in D PROVE k + 1 \in D
  <2> SUFFICES ASSUME k + 1 <= m PROVE Partitions(f[k + 1], from, cut(k + 1), G)
      OBVIOUS
  <2>1. k + 1 \in 1..m /\ (k + 1) - 1 = k /\ k <= m
      BY <1>1
  <2>2. Partitions(f[k], from, cut(k), G)
      BY <1>7, <2>1
  <2>3. CASE cut(k) < cut(k + 1)
    <3>1. f[k + 1] = Extend(f[k], seg(k + 1))
        BY <1>4, <2>1, <2>3
    <3>2. seg(k + 1) \in Run /\ Says(seg(k + 1), G) /\ seg(k + 1).from = cut(k) /\ seg(k + 1).to = cut(k + 1)
        BY <1>5, <2>1
    <3>3. Partitions(f[k], from, seg(k + 1).from, G)
        BY <2>2, <3>2
    <3>4. Partitions(Extend(f[k], seg(k + 1)), from, seg(k + 1).to, G)
        BY <3>2, <3>3, ExtendKeeps
    <3> QED
        BY <3>1, <3>2, <3>4
  <2>4. CASE ~(cut(k) < cut(k + 1))
    <3>1. f[k + 1] = f[k]
        BY <1>4, <2>1, <2>4
    <3>2. cut(k) \in Int /\ cut(k + 1) \in Int /\ cut(k) <= cut(k + 1)
        BY <1>5, <2>1
    <3>3. cut(k + 1) = cut(k)
        BY <2>4, <3>2
    <3> QED
        BY <2>2, <3>1, <3>3
  <2> QED
      BY <2>3, <2>4
<1> HIDE DEF D
<1>8. m \in D
    BY <1>1, <1>6, <1>7, NatIsInductive
<1>9. Partitions(f[m], from, to, G)
    BY <1>1, <1>3, <1>8 DEF D
<1>10. f[m] # <<>>
    BY <1>9 DEF Partitions
<1> QED
    BY <1>1, <1>9, <1>10
-----------------------------------------------------------------------------
\* A segment is of the kind that KindAt finds for its moments.
LEMMA LatestIs ==
    ASSUME NEW P, NEW p \in P, \A q \in P : q.at \in Nat /\ q.at <= p.at /\ (q.at = p.at => q = p)
    PROVE  Latest(P) = p
<1>1. ASSUME NEW q \in P, \A r \in P : r.at <= q.at PROVE q = p
    BY <1>1
<1> QED
    BY <1>1 DEF Latest

LEMMA EarliestIs ==
    ASSUME NEW P, NEW p \in P, \A q \in P : q.at \in Nat /\ p.at <= q.at /\ (q.at = p.at => q = p)
    PROVE  Earliest(P) = p
<1>1. ASSUME NEW q \in P, \A r \in P : q.at <= r.at PROVE q = p
    BY <1>1
<1> QED
    BY <1>1 DEF Earliest

\* The samples around a moment: the last one up to it, the first one after it.
StartOf(W, from, x) ==
    LET before == {s \in W : s.at <= x} IN IF before = {} THEN from ELSE Latest(before).at
EndOf(W, to, x) ==
    LET after == {s \in W : s.at > x} IN IF after = {} THEN to ELSE Earliest(after).at

LEMMA CutAt ==
    ASSUME NEW pts, NEW W, IsWindow(pts, W), NEW from \in Int, NEW to \in Int,
           NEW i \in 1..(Len(pts) + 1), NEW x \in Int,
           Cut(pts, from, to, i - 1) <= x, x < Cut(pts, from, to, i)
    PROVE  /\ \A j \in 1..Len(pts) : pts[j].at <= x <=> j <= i - 1
           /\ StartOf(W, from, x) = Cut(pts, from, to, i - 1)
           /\ EndOf(W, to, x) = Cut(pts, from, to, i)
<1> DEFINE n == Len(pts)
           before == {s \in W : s.at <= x}
           after  == {s \in W : s.at > x}
<1>1. /\ n \in Nat
      /\ \A j \in 1..n : pts[j] \in W /\ pts[j].at \in Nat
      /\ \A s \in W : s.at \in Nat /\ \E j \in 1..n : pts[j] = s
      /\ \A j, k \in 1..n : j < k => pts[j].at < pts[k].at
      /\ \A r, s \in W : r.at = s.at => r = s
    BY DEF IsWindow, IsSample, Rising
<1>2. i - 1 # 0 => i - 1 \in 1..n /\ Cut(pts, from, to, i - 1) = pts[i - 1].at
    BY <1>1 DEF Cut
<1>3. i # n + 1 => i \in 1..n /\ Cut(pts, from, to, i) = pts[i].at
    BY <1>1 DEF Cut
<1> HIDE DEF n
<1>4. ASSUME NEW j \in 1..n PROVE pts[j].at <= x <=> j <= i - 1
  <2>1. CASE j <= i - 1
    <3>1. j = i - 1 \/ j < i - 1
        BY <2>1
    <3>2. i - 1 \in 1..n /\ pts[i - 1].at <= x
        BY <1>1, <1>2, <2>1
    <3>3. pts[j].at <= pts[i - 1].at
        BY <1>1, <3>1, <3>2
    <3> QED
        BY <1>1, <2>1, <3>2, <3>3
  <2>2. CASE ~(j <= i - 1)
    <3>1. i \in 1..n /\ x < pts[i].at /\ (j = i \/ i < j)
        BY <1>1, <1>3, <2>2
    <3>2. pts[i].at <= pts[j].at
        BY <1>1, <3>1
    <3> QED
        BY <1>1, <2>2, <3>1, <3>2
  <2> QED
      BY <2>1, <2>2
<1>5. (IF before = {} THEN from ELSE Latest(before).at) = Cut(pts, from, to, i - 1)
  <2>1. CASE i - 1 = 0
    <3>1. before = {}
        BY <1>1, <1>4, <2>1
    <3> QED
        BY <2>1, <3>1 DEF Cut
  <2>2. CASE i - 1 # 0
    <3>1. pts[i - 1] \in before
        BY <1>1, <1>2, <1>4, <2>2
    <3>2. ASSUME NEW q \in before PROVE q.at \in Nat /\ q.at <= pts[i - 1].at /\ (q.at = pts[i - 1].at => q = pts[i - 1])
      <4>1. PICK j \in 1..n : pts[j] = q
          BY <1>1
      <4>2. j <= i - 1
          BY <1>4, <4>1
      <4>3. j = i - 1 \/ j < i - 1
          BY <4>2
      <4> QED
          BY <1>1, <1>2, <2>2, <4>1, <4>3
    <3> HIDE DEF before
    <3>3. Latest(before) = pts[i - 1]
        BY <3>1, <3>2, LatestIs
    <3> QED
        BY <1>2, <2>2, <3>1, <3>3
  <2> QED
      BY <2>1, <2>2
<1>6. (IF after = {} THEN to ELSE Earliest(after).at) = Cut(pts, from, to, i)
  <2>1. CASE i = n + 1
    <3>1. after = {}
      <4>1. ASSUME NEW s \in after PROVE FALSE
        <5>1. PICK j \in 1..n : pts[j] = s
            BY <1>1
        <5>2. s.at <= x /\ s.at > x /\ s.at \in Nat
            BY <1>1, <1>4, <2>1, <5>1
        <5> QED
            BY <5>2
      <4> QED
          BY <4>1
    <3>2. Cut(pts, from, to, i) = to
        BY <1>1, <2>1 DEF Cut, n
    <3> QED
        BY <3>1, <3>2
  <2>2. CASE i # n + 1
    <3>1. pts[i] \in after
        BY <1>1, <1>3, <2>2
    <3>2. ASSUME NEW q \in after PROVE q.at \in Nat /\ pts[i].at <= q.at /\ (q.at = pts[i].at => q = pts[i])
      <4>1. PICK j \in 1..n : pts[j] = q
          BY <1>1
      <4>2. ~(j <= i - 1)
          BY <1>1, <1>4, <4>1
      <4>3. j = i \/ i < j
          BY <1>1, <4>2
      <4> QED
          BY <1>1, <1>3, <2>2, <4>1, <4>3
    <3> HIDE DEF after
    <3>3. Earliest(after) = pts[i]
        BY <3>1, <3>2, EarliestIs
    <3> QED
        BY <1>3, <2>2, <3>1, <3>3
  <2> QED
      BY <2>1, <2>2
<1>7. StartOf(W, from, x) = Cut(pts, from, to, i - 1)
    BY <1>5 DEF StartOf
<1>8. EndOf(W, to, x) = Cut(pts, from, to, i)
    BY <1>6 DEF EndOf
<1> QED
    BY <1>4, <1>7, <1>8 DEF n

\* KindAt, of a window with samples.
KindFound(W, from, to, x, a, b, k) ==
    LET before == {s \in W : s.at <= x}
        known  == {s \in W : s.inside # Unknown}
        last   == {s \in before : s.inside # Unknown}
    IN  k = IF b - a > 2 * Cadence THEN "no_data"
            ELSE IF last # {} THEN KindOf(Latest(last).inside)
            ELSE IF known = {} THEN "inside" ELSE KindOf(Earliest(known).inside)

LEMMA KindAtIs ==
    ASSUME NEW S, NEW from \in Int, NEW to \in Int, NEW x \in Int, NEW pts,
           IsWindow(pts, {s \in S : from <= s.at /\ s.at <= to}),
           NEW i \in 1..(Len(pts) + 1), pts # <<>>,
           Cut(pts, from, to, i - 1) <= x, x < Cut(pts, from, to, i)
    PROVE  KindFound({s \in S : from <= s.at /\ s.at <= to}, from, to, x,
                     Cut(pts, from, to, i - 1), Cut(pts, from, to, i), KindAt(S, from, to, x))
<1> DEFINE W == {s \in S : from <= s.at /\ s.at <= to}
           before == {s \in W : s.at <= x}
           known  == {s \in W : s.inside # Unknown}
           last   == {s \in before : s.inside # Unknown}
           start  == StartOf(W, from, x)
           end    == EndOf(W, to, x)
           a == Cut(pts, from, to, i - 1)
           b == Cut(pts, from, to, i)
<1>0. IsWindow(pts, W)
    OBVIOUS
<1>1. start = a /\ end = b
  <2> HIDE DEF W
  <2> QED
      BY <1>0, CutAt
<1>2. W # {}
  <2>1. 1 \in 1..Len(pts) /\ pts[1] \in W
    <3> HIDE DEF W
    <3>1. Len(pts) \in Nat /\ DOMAIN pts = 1..Len(pts) /\ \A j \in 1..Len(pts) : pts[j] \in W
        BY <1>0 DEF IsWindow
    <3>2. Len(pts) # 0
        BY <3>1
    <3> QED
        BY <3>1, <3>2
  <2> QED
      BY <2>1
<1>3. KindAt(S, from, to, x)
        = CASE W = {} \/ end - start > 2 * Cadence -> "no_data"
            [] W # {} /\ end - start <= 2 * Cadence /\ last # {} -> KindOf(Latest(last).inside)
            [] W # {} /\ end - start <= 2 * Cadence /\ last = {} ->
                 IF known = {} THEN "inside" ELSE KindOf(Earliest(known).inside)
    BY DEF KindAt, StartOf, EndOf
<1>4. KindAt(S, from, to, x)
        = IF b - a > 2 * Cadence THEN "no_data"
          ELSE IF last # {} THEN KindOf(Latest(last).inside)
          ELSE IF known = {} THEN "inside" ELSE KindOf(Earliest(known).inside)
  <2> DEFINE Long == b - a > 2 * Cadence
  <2>0. a \in Int /\ b \in Int
    <3>1. \A j \in 1..Len(pts) : pts[j] \in W /\ pts[j].at \in Nat
        BY DEF IsWindow, IsSample
    <3> HIDE DEF W
    <3>2. Len(pts) \in Nat
        BY DEF IsWindow
    <3> QED
        BY <3>1, <3>2 DEF Cut
  <2> HIDE DEF a, b, W, last, known, start, end
  <2>1. (end - start <= 2 * Cadence) = ~Long /\ (end - start > 2 * Cadence) = Long
      BY <1>1, <2>0, DutyPingsAssumption
  <2> HIDE DEF Long
  <2>2. KindAt(S, from, to, x)
        = CASE Long -> "no_data"
            [] ~Long /\ last # {} -> KindOf(Latest(last).inside)
            [] ~Long /\ last = {} ->
                 IF known = {} THEN "inside" ELSE KindOf(Earliest(known).inside)
      BY <1>2, <1>3, <2>1
  <2> QED
      BY <2>2 DEF Long
<1> DEFINE v == KindAt(S, from, to, x)
<1>5. v = IF b - a > 2 * Cadence THEN "no_data"
          ELSE IF last # {} THEN KindOf(Latest(last).inside)
          ELSE IF known = {} THEN "inside" ELSE KindOf(Earliest(known).inside)
    BY <1>4
<1>6. KindFound(W, from, to, x, a, b, v)
  <2> HIDE DEF v, W, a, b
  <2> QED
      BY <1>5 DEF KindFound
<1> QED
    BY <1>6

LEMMA SegmentSays ==
    ASSUME NEW S, NEW from \in Int, NEW to \in Int, NEW x \in Int, NEW pts,
           IsWindow(pts, {s \in S : from <= s.at /\ s.at <= to}),
           NEW i \in 1..(Len(pts) + 1), pts # <<>>,
           Cut(pts, from, to, i - 1) <= x, x < Cut(pts, from, to, i)
    PROVE  Segment(pts, from, to, Cadence, i).kind = KindAt(S, from, to, x)
<1> DEFINE W == {s \in S : from <= s.at /\ s.at <= to}
           n == Len(pts)
           before == {s \in W : s.at <= x}
           known  == {s \in W : s.inside # Unknown}
           last   == {s \in before : s.inside # Unknown}
           a == Cut(pts, from, to, i - 1)
           b == Cut(pts, from, to, i)
           ii == IF i = 1 THEN 1 ELSE i - 1
           r == Resolved(pts)[ii]
           k == KindAt(S, from, to, x)
<1>1. KindFound(W, from, to, x, a, b, k)
    BY KindAtIs
<1>2. Segment(pts, from, to, Cadence, i).kind = IF b - a > 2 * Cadence THEN "no_data" ELSE r
    BY DEF Segment
<1> HIDE DEF W, k
<1>3. \A j \in 1..n : pts[j].at <= x <=> j <= i - 1
    BY CutAt DEF W
<1>4. /\ n \in Nat /\ DOMAIN pts = 1..n
      /\ \A j \in 1..n : pts[j] \in W /\ pts[j].at \in Nat
      /\ \A s \in W : s.at \in Nat /\ \E j \in 1..n : pts[j] = s
      /\ \A j, l \in 1..n : j < l => pts[j].at < pts[l].at
    BY DEF IsWindow, IsSample, Rising, W
<1>5. n # 0
    OBVIOUS
<1>6. ii \in 1..n
    BY <1>4, <1>5
<1>7. Governs(pts, ii, r)
    BY <1>4, <1>6, ResolvedIs
<1> HIDE DEF r, a, b, n, ii
<1> DEFINE Long == b - a > 2 * Cadence
           found == IF last # {} THEN KindOf(Latest(last).inside)
                    ELSE IF known = {} THEN "inside" ELSE KindOf(Earliest(known).inside)
<1>17. k = IF Long THEN "no_data" ELSE found
    BY <1>1 DEF KindFound
<1> HIDE DEF Long, found
<1> SUFFICES ASSUME ~Long PROVE r = k
    BY <1>2, <1>17 DEF Long, k
<1>8. k = IF last # {} THEN KindOf(Latest(last).inside)
          ELSE IF known = {} THEN "inside" ELSE KindOf(Earliest(known).inside)
    BY <1>17 DEF found
<1>9. ASSUME NEW j \in 1..n, Known(pts, j), j <= i - 1, \A l \in (j + 1)..(i - 1) : ~Known(pts, l)
      PROVE  k = KindOf(pts[j].inside)
  <2>1. pts[j] \in last
      BY <1>3, <1>4, <1>9 DEF Known
  <2>2. ASSUME NEW q \in last PROVE q.at \in Nat /\ q.at <= pts[j].at /\ (q.at = pts[j].at => q = pts[j])
    <3>1. PICK l \in 1..n : pts[l] = q
        BY <1>4
    <3>2. l <= i - 1 /\ Known(pts, l)
        BY <1>3, <3>1 DEF Known
    <3>3. l = j \/ l < j
        BY <1>4, <1>9, <3>2
    <3> QED
        BY <1>4, <3>1, <3>3
  <2> HIDE DEF last
  <2>3. Latest(last) = pts[j]
      BY <2>1, <2>2, LatestIs
  <2> QED
      BY <1>8, <2>1, <2>3
<1>10. ASSUME \A l \in 1..(i - 1) : ~Known(pts, l) PROVE last = {}
  <2>1. ASSUME NEW q \in last PROVE FALSE
    <3>1. PICK l \in 1..n : pts[l] = q
        BY <1>4
    <3>2. l <= i - 1 /\ Known(pts, l)
        BY <1>3, <3>1 DEF Known
    <3> QED
        BY <1>4, <1>10, <3>2
  <2> QED
      BY <2>1
<1>11. ASSUME \A l \in 1..(i - 1) : ~Known(pts, l),
              NEW j \in 1..n, Known(pts, j), \A l \in 1..(j - 1) : ~Known(pts, l)
       PROVE  k = KindOf(pts[j].inside)
  <2>1. pts[j] \in known
      BY <1>4, <1>11 DEF Known
  <2>2. ASSUME NEW q \in known PROVE q.at \in Nat /\ pts[j].at <= q.at /\ (q.at = pts[j].at => q = pts[j])
    <3>1. PICK l \in 1..n : pts[l] = q
        BY <1>4
    <3>2. Known(pts, l)
        BY <3>1 DEF Known
    <3>3. l = j \/ j < l
        BY <1>4, <1>11, <3>2
    <3> QED
        BY <1>4, <3>1, <3>3
  <2>3. last = {}
      BY <1>10, <1>11
  <2> HIDE DEF known, last
  <2>4. Earliest(known) = pts[j]
      BY <2>1, <2>2, EarliestIs
  <2> QED
      BY <1>8, <2>1, <2>3, <2>4
<1>12. ASSUME \A l \in 1..n : ~Known(pts, l) PROVE k = "inside"
  <2>1. known = {}
    <3>1. ASSUME NEW q \in known PROVE FALSE
      <4>1. PICK l \in 1..n : pts[l] = q
          BY <1>4
      <4> QED
          BY <1>12, <4>1 DEF Known
    <3> QED
        BY <3>1
  <2>2. last = {}
      BY <2>1
  <2> QED
      BY <1>8, <2>1, <2>2
<1>13. ii \in Nat /\ (i = 1 => ii = 1) /\ (i # 1 => ii = i - 1) /\ (i = 1 \/ i - 1 \in 1..n)
    BY <1>4, <1>6 DEF ii, n
<1>14. CASE \E j \in 1..ii : Known(pts, j) /\ (\A l \in (j + 1)..ii : ~Known(pts, l)) /\ r = KindOf(pts[j].inside)
  <2>1. PICK j \in 1..ii : Known(pts, j) /\ (\A l \in (j + 1)..ii : ~Known(pts, l)) /\ r = KindOf(pts[j].inside)
      BY <1>14
  <2>2. CASE i # 1
    <3>1. ii = i - 1 /\ j \in 1..n /\ j <= i - 1
        BY <1>4, <1>13, <2>2
    <3> QED
        BY <1>9, <2>1, <3>1
  <2>3. CASE i = 1
    <3>1. j = 1 /\ j \in 1..n
        BY <1>4, <1>6, <1>13, <2>3
    <3>2. (\A l \in 1..(i - 1) : ~Known(pts, l)) /\ (\A l \in 1..(j - 1) : ~Known(pts, l))
        BY <2>3, <3>1
    <3> QED
        BY <1>11, <2>1, <3>1, <3>2
  <2> QED
      BY <2>2, <2>3
<1>15. CASE \A l \in 1..ii : ~Known(pts, l)
  <2>1. \A l \in 1..(i - 1) : ~Known(pts, l)
      BY <1>13, <1>15
  <2>2. CASE \E j \in 1..n : /\ Known(pts, j) /\ \A l \in 1..(j - 1) : ~Known(pts, l)
                             /\ r = KindOf(pts[j].inside)
      BY <1>11, <2>1, <2>2
  <2>3. CASE (\A l \in 1..n : ~Known(pts, l)) /\ r = "inside"
      BY <1>12, <2>3
  <2>4. ~\E j \in 1..ii : Known(pts, j)
      BY <1>15
  <2> QED
      BY <1>7, <2>2, <2>3, <2>4 DEF Governs, n
<1>16. CASE (\A l \in 1..n : ~Known(pts, l)) /\ r = "inside"
    BY <1>12, <1>16
<1> QED
    BY <1>7, <1>14, <1>15, <1>16 DEF Governs, n
\* Of which kind each moment is, as a relation.
Moments(S, from, to) == {<<x, KindAt(S, from, to, x)>> : x \in Int}

LEMMA IntervalsPartition ==
    ASSUME NEW S, IsFiniteSet(S), \A s \in S : IsSample(s), \A r, s \in S : r.at = s.at => r = s,
           NEW from \in Int, NEW to \in Int, from < to
    PROVE  LET runs == DutyIntervals(S, from, to, Cadence)
           IN  Partitions(runs, from, to, Moments(S, from, to)) /\ runs # <<>>
<1> DEFINE W == {s \in S : from <= s.at /\ s.at <= to}
           pts == InWindow(S, from, to)
           G == Moments(S, from, to)
           runs == DutyIntervals(S, from, to, Cadence)
<1>1. IsWindow(pts, W)
    BY InWindowIs
<1>2. CASE pts = <<>>
  <2> DEFINE run == [from |-> from, to |-> to, kind |-> "no_data"]
  <2>1. runs = <<run>>
      BY <1>2 DEF DutyIntervals
  <2>2. W = {}
    <3> HIDE DEF W
    <3>1. \A s \in W : \E i \in 1..Len(pts) : pts[i] = s
        BY <1>1 DEF IsWindow
    <3>2. Len(pts) = 0
        BY <1>2
    <3> QED
        BY <3>1, <3>2
  <2>3. \A x \in Int : KindAt(S, from, to, x) = "no_data"
      BY <2>2 DEF KindAt
  <2>4. \A x \in Int : <<x, "no_data">> \in G
      BY <2>3 DEF Moments
  <2>5. run \in Run /\ run.from = from /\ run.to = to /\ run.kind = "no_data"
      BY DEF Run, Kinds
  <2> HIDE DEF G, run
  <2>6. Says(run, G)
    <3>1. ASSUME NEW x \in from..(to - 1) PROVE <<x, "no_data">> \in G
      <4>1. x \in Int
          OBVIOUS
      <4> QED
          BY <2>4, <4>1, Zenon
    <3> QED
        BY <2>5, <3>1 DEF Says
  <2>7. <<run>> \in Seq(Run) /\ Len(<<run>>) = 1 /\ <<run>>[1] = run /\ <<run>> # <<>>
      BY <2>5
  <2>8. Follows(<<run>>) /\ Alternates(<<run>>)
      BY <2>7 DEF Follows, Alternates
  <2>9. Partitions(<<run>>, from, to, G)
      BY <2>5, <2>6, <2>7, <2>8 DEF Partitions
  <2> HIDE DEF runs
  <2> QED
      BY <2>1, <2>7, <2>9 DEF G, runs
<1>3. CASE pts # <<>>
  <2>1. runs = Merged(pts, from, to, Cadence)
      BY <1>3 DEF DutyIntervals
  <2> DEFINE n == Len(pts)
  <2>2. n \in Nat /\ DOMAIN pts = 1..n /\ n # 0
    <3>1. n \in Nat /\ DOMAIN pts = 1..n
        BY <1>1 DEF IsWindow
    <3> HIDE DEF pts, n
    <3>2. n # 0
        BY <1>3, <3>1 DEF n
    <3> QED
        BY <3>1, <3>2
  <2>3. /\ \A i \in 1..n : pts[i].at \in Nat /\ from <= pts[i].at /\ pts[i].at <= to
        /\ \A i, j \in 1..n : i < j => pts[i].at < pts[j].at
    <3>1. \A s \in W : s.at \in Nat /\ from <= s.at /\ s.at <= to
        BY DEF IsSample
    <3> HIDE DEF pts, W
    <3> QED
        BY <1>1, <3>1 DEF IsWindow, Rising
  <2> HIDE DEF pts
  <2> DEFINE cut(i) == Cut(pts, from, to, i)
  <2>4. cut(0) = from /\ cut(n + 1) = to /\ \A i \in 1..n : cut(i) = pts[i].at
      BY <2>2 DEF Cut
  <2> HIDE DEF n, cut
  <2>5. ASSUME NEW i \in 1..(n + 1)
        PROVE  cut(i - 1) \in Int /\ cut(i) \in Int /\ cut(i - 1) <= cut(i)
    <3>1. CASE i = 1
      <4>1. 1 \in 1..n /\ cut(i - 1) = from
          BY <2>2, <2>4, <3>1
      <4> QED
          BY <2>3, <2>4, <3>1, <4>1
    <3>2. CASE i = n + 1 /\ i # 1
      <4>1. n \in 1..n /\ i - 1 = n
          BY <2>2, <3>2
      <4> QED
          BY <2>3, <2>4, <3>2, <4>1
    <3>3. CASE i # n + 1 /\ i # 1
      <4>1. i \in 1..n /\ i - 1 \in 1..n /\ i - 1 < i
          BY <2>2, <3>3
      <4>2. pts[i - 1].at < pts[i].at /\ pts[i].at \in Nat /\ pts[i - 1].at \in Nat
          BY <2>3, <4>1
      <4> QED
          BY <2>4, <4>1, <4>2
    <3> QED
        BY <3>1, <3>2, <3>3
  <2> DEFINE seg(i) == Segment(pts, from, to, Cadence, i)
  <2>6. ASSUME NEW i \in 1..(n + 1)
        PROVE  seg(i) \in Run
    <3>1. (IF i = 1 THEN 1 ELSE i - 1) \in 1..n
        BY <2>2
    <3>2. Resolved(pts)[IF i = 1 THEN 1 ELSE i - 1] \in Kinds
        BY <2>2, <3>1, ResolvedIs DEF n
    <3>3. cut(i - 1) \in Int /\ cut(i) \in Int
        BY <2>5
    <3> QED
        BY <3>2, <3>3 DEF Segment, Run, Kinds, cut
  <2>7. ASSUME NEW i \in 1..(n + 1)
        PROVE  Says(seg(i), G)
    <3> SUFFICES ASSUME NEW x \in seg(i).from..(seg(i).to - 1) PROVE <<x, seg(i).kind>> \in G
        BY DEF Says
    <3>1. seg(i).from = cut(i - 1) /\ seg(i).to = cut(i)
        BY DEF Segment, cut
    <3>2. x \in Int /\ cut(i - 1) <= x /\ x < cut(i)
        BY <2>5, <3>1
    <3>3. i \in 1..(Len(pts) + 1) /\ Cut(pts, from, to, i - 1) <= x /\ x < Cut(pts, from, to, i)
        BY <3>2 DEF n, cut
    <3>4. seg(i).kind = KindAt(S, from, to, x)
        BY <1>1, <1>3, <3>2, <3>3, SegmentSays
    <3> QED
        BY <3>2, <3>4 DEF Moments
  <2> HIDE DEF G, seg
  <2>8. \A i \in 1..(Len(pts) + 1) :
             /\ Segment(pts, from, to, Cadence, i) \in Run
             /\ Cut(pts, from, to, i - 1) \in Int /\ Cut(pts, from, to, i) \in Int
             /\ Cut(pts, from, to, i - 1) <= Cut(pts, from, to, i)
             /\ Says(Segment(pts, from, to, Cadence, i), G)
      BY <2>5, <2>6, <2>7 DEF n, cut, seg
  <2>9. Len(pts) \in Nat
      BY <2>2 DEF n
  <2> HIDE DEF runs
  <2>10. Partitions(Merged(pts, from, to, Cadence), from, to, G) /\ Merged(pts, from, to, Cadence) # <<>>
      BY <2>8, <2>9, MergedPartitions
  <2> QED
      BY <2>1, <2>10 DEF G, runs
<1> QED
    BY <1>2, <1>3

-----------------------------------------------------------------------------
\* No two pings of the same time, and of the ones on the phone none it did not take.
DutyInv ==
    /\ clock \in 0..ShiftEnd
    /\ taken \subseteq Samples /\ queue \subseteq taken /\ stored \subseteq Samples
    /\ \A p, q \in taken : p.at = q.at => p = q
    /\ \A p, q \in stored : p.at = q.at => p = q

LEMMA DutyInvInit == DutyInit => DutyInv
    BY DutyPingsAssumption DEF DutyInit, DutyInv

LEMMA RecordPingsKeeps ==
    ASSUME DutyInv, NEW batch \in SUBSET queue, RecordPings(batch)
    PROVE  stored' \subseteq Samples /\ \A p, q \in stored' : p.at = q.at => p = q
<1> DEFINE fresh == {p \in batch : PingInWindow(p.at) /\ \A s \in stored : s.at # p.at}
           judged(p) == [p EXCEPT !.inside = IF fenceActive THEN @ ELSE Unknown]
<1>1. stored' = stored \cup {judged(p) : p \in fresh}
    BY DEF RecordPings
<1>2. \A p \in fresh : p \in taken /\ p \in Samples /\ \A s \in stored : s.at # p.at
    BY DEF DutyInv
<1>3. \A p \in Samples : judged(p) \in Samples /\ judged(p).at = p.at
    BY DEF Samples, Verdicts
<1> HIDE DEF fresh, judged
<1> QED
    BY <1>1, <1>2, <1>3 DEF DutyInv

LEMMA DutyInvNext == DutyInv /\ [DutyNext]_dutyVars => DutyInv'
<1> SUFFICES ASSUME DutyInv, [DutyNext]_dutyVars PROVE DutyInv'
    OBVIOUS
<1>1. CASE Sample
  <2>1. PICK v \in Verdicts : LET p == [at |-> clock, inside |-> v]
                             IN  taken' = taken \cup {p} /\ queue' = Capped(queue \cup {p})
      BY <1>1 DEF Sample
  <2> DEFINE p == [at |-> clock, inside |-> v]
  <2>2. p \in Samples /\ p.at = clock
      BY DEF DutyInv, Samples
  <2>3. taken' = taken \cup {p} /\ queue' \subseteq queue \cup {p}
      BY <2>1 DEF Capped
  <2>4. (\A q \in taken : q.at # clock) /\ UNCHANGED <<clock, stored>>
      BY <1>1 DEF Sample
  <2> HIDE DEF p
  <2> QED
      BY <2>2, <2>3, <2>4 DEF DutyInv
<1>2. CASE SyncPings
  <2>1. Oldest(queue, MaxBatch) \subseteq queue
      BY DEF Oldest
  <2>2. stored' \subseteq Samples /\ \A p, q \in stored' : p.at = q.at => p = q
      BY <1>2, <2>1, RecordPingsKeeps DEF SyncPings
  <2> QED
      BY <1>2, <2>2 DEF SyncPings, DutyInv
<1>3. CASE AnswerLost
  <2>1. Oldest(queue, MaxBatch) \subseteq queue
      BY DEF Oldest
  <2>2. stored' \subseteq Samples /\ \A p, q \in stored' : p.at = q.at => p = q
      BY <1>3, <2>1, RecordPingsKeeps DEF AnswerLost
  <2> QED
      BY <1>3, <2>2 DEF AnswerLost, DutyInv
<1>4. CASE BatchRefused
    BY <1>4 DEF BatchRefused, DutyInv
<1>5. CASE SetFence
    BY <1>5 DEF SetFence, DutyInv
<1>6. CASE ClockTick
    BY <1>6, DutyPingsAssumption DEF ClockTick, DutyInv
<1>7. CASE UNCHANGED dutyVars
    BY <1>7 DEF dutyVars, DutyInv
<1> QED
    BY <1>1, <1>2, <1>3, <1>4, <1>5, <1>6, <1>7 DEF DutyNext

\* The time of a stored ping identifies it, so there are finitely many.
LEMMA StoredIsFinite ==
    ASSUME DutyInv
    PROVE  IsFiniteSet(stored) /\ \A s \in stored : IsSample(s)
<1> DEFINE f == [s \in stored |-> s.at]
<1>1. \A s \in stored : s.at \in 0..ShiftEnd /\ s.at \in Nat /\ s.inside \in Verdicts
    BY DutyPingsAssumption DEF DutyInv, Samples
<1>2. f \in Injection(stored, 0..ShiftEnd)
    BY <1>1 DEF DutyInv, Injection, IsInjective
<1>3. IsFiniteSet(0..ShiftEnd)
    BY FS_Interval, DutyPingsAssumption
<1> HIDE DEF f
<1>4. IsFiniteSet(stored)
    BY <1>2, <1>3, FS_Injection
<1> QED
    BY <1>1, <1>4 DEF IsSample

LEMMA DutyInvPartitions == DutyInv => DutyPartition
<1> SUFFICES ASSUME DutyInv, NEW from \in 0..clock, stored # {}, from < clock
             PROVE  LET runs == DutyBreakdown(stored, from, clock, Cadence)
                    IN  /\ runs # <<>> /\ runs[1].from = from /\ Last(runs).to = clock
                        /\ \A i \in 1..(Len(runs) - 1) : /\ runs[i].to = runs[i + 1].from
                                                         /\ runs[i].kind # runs[i + 1].kind
                        /\ \A i \in DOMAIN runs : \A x \in runs[i].from..(runs[i].to - 1) :
                             runs[i].kind = KindAt(stored, from, clock, x)
                        /\ LET sum == DutySummary(runs)
                           IN  sum["inside"] + sum["outside"] + sum["no_data"] = clock - from
    BY DEF DutyPartition
<1> DEFINE runs == DutyBreakdown(stored, from, clock, Cadence)
           G == Moments(stored, from, clock)
<1>1. from \in Int /\ clock \in Int /\ ~(clock <= from)
    BY DEF DutyInv
<1>2. from # Unknown /\ clock # Unknown
    BY <1>1, DayAssumption
<1>3. runs = DutyIntervals(stored, from, clock, Cadence)
    BY <1>1, <1>2 DEF DutyBreakdown
<1>4. Partitions(runs, from, clock, G) /\ runs # <<>>
  <2> HIDE DEF runs
  <2>1. IsFiniteSet(stored) /\ (\A s \in stored : IsSample(s)) /\ \A r, s \in stored : r.at = s.at => r = s
      BY StoredIsFinite DEF DutyInv
  <2> QED
      BY <1>1, <1>3, <2>1, IntervalsPartition
<1> HIDE DEF runs, G
<1>5. runs \in Seq(Run) /\ Follows(runs) /\ runs[1].from = from /\ runs[Len(runs)].to = clock
    BY <1>4 DEF Partitions
<1>6. Len(runs) \in Nat /\ DOMAIN runs = 1..Len(runs)
    BY <1>5, RunParts
<1>7. ASSUME NEW i \in DOMAIN runs, NEW x \in runs[i].from..(runs[i].to - 1)
      PROVE  runs[i].kind = KindAt(stored, from, clock, x)
  <2>1. <<x, runs[i].kind>> \in G
      BY <1>4, <1>6, <1>7 DEF Partitions, Says
  <2> QED
      BY <2>1 DEF G, Moments
<1>8. DutySummary(runs)["inside"] + DutySummary(runs)["outside"] + DutySummary(runs)["no_data"] = clock - from
  <2>1. /\ DutySummary(runs)["inside"] = Minutes(runs, "inside")
        /\ DutySummary(runs)["outside"] = Minutes(runs, "outside")
        /\ DutySummary(runs)["no_data"] = Minutes(runs, "no_data")
      BY DEF DutySummary, Kinds
  <2>2. Minutes(runs, "inside") + Minutes(runs, "outside") + Minutes(runs, "no_data")
          = runs[Len(runs)].to - runs[1].from
      BY <1>4, <1>5, MinutesAddUp
  <2> QED
      BY <1>5, <2>1, <2>2
<1>9. \A i \in 1..(Len(runs) - 1) : runs[i].to = runs[i + 1].from /\ runs[i].kind # runs[i + 1].kind
    BY <1>4 DEF Partitions, Follows, Alternates
<1>10. Last(runs).to = clock
    BY <1>5 DEF Last
<1> QED
    BY <1>4, <1>5, <1>7, <1>8, <1>9, <1>10 DEF runs

\* For any cadence, caps and limits, and whatever pings are lost, refused, sent
\* twice or judged without a fence: the report accounts for every moment of the
\* clocked window once, as the kind that the pings say.
THEOREM DutyPartitionHolds == DutySpec => []DutyPartition
<1>1. DutyInit => DutyInv
    BY DutyInvInit
<1>2. DutyInv /\ [DutyNext]_dutyVars => DutyInv'
    BY DutyInvNext
<1>3. DutyInv => DutyPartition
    BY DutyInvPartitions
<1> QED
    BY <1>1, <1>2, <1>3, PTL DEF DutySpec
=============================================================================
