---------------------------- MODULE MCAttendance ----------------------------
(* The instances of Attendance and DutyPings that TLC checks: a week of two   *)
(* days, a working day and a Sunday, and the start of the next.  Pings and    *)
(* punches share no table, so one behaviour looks at one of the two.          *)
EXTENDS Attendance, DutyPings, TLC

CONSTANTS c1, c2, x1, t1, t2

VARIABLE focus  \* what this behaviour is about

\* One phone; the other technician has corrections and a shift only.
MCPhoneOf == [c \in {c1, c2, x1} |-> t1]

\* A mocked fix at the shop, so that a day with a punch has the flag and one without has not.
MCFixes  == {[at |-> 0, accuracy |-> 0, mock |-> TRUE, bssid |-> 0]}
MCFences == {[center |-> 0, radius |-> 1, wifi |-> {0}], [center |-> 5, radius |-> 1, wifi |-> {5}]}
MCPhotos == {TRUE}
MCDefaultShift == [start |-> 0, end |-> 1, grace |-> 0, workingDays |-> {0}, zone |-> 0]
\* A shift over midnight, on Sundays too, in another zone.
MCShiftUpdates == {[start |-> 1, end |-> 1, grace |-> 0, workingDays |-> {0, 1}, zone |-> 1]}
MCSkews == {-1, 0, 1}

MCInit ==
    /\ focus \in {"punches", "pings"}
    /\ AttendanceInit /\ (focus = "pings" => ahead = [t \in DOMAIN ahead |-> 0])
    /\ DutyInit /\ (focus = "punches" => fenceActive)

MCNext ==
    /\ UNCHANGED focus
    /\ \/ focus = "punches" /\ AttendanceNext /\ UNCHANGED dutyVars
       \/ focus = "pings" /\ DutyNext /\ UNCHANGED attendanceVars

MCSpec == MCInit /\ [][MCNext]_<<focus, attendanceVars, dutyVars>>

\* Punches are interchangeable.
Symmetric == Permutations(Punches)
=============================================================================
