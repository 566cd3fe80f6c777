------------------------------- MODULE MCPhone -------------------------------
(* The instances of Outbox and Travel that TLC checks: the outbox with the    *)
(* server's answers at its centre, and one job's drive, whose punches go      *)
(* through it.  One behaviour looks at one of them, the other being idle.     *)
EXTENDS MCOutbox, Travel

CONSTANTS
    MaxPunches,  \* bound on the punches of a drive
    MaxFixes,    \* bound on the breadcrumbs that are not lost
    MaxQueued    \* bound on the punches in the outbox

VARIABLE focus  \* the module this behaviour is about

\* The punches of a drive, wherever they are.
DriveTaps == {<<punched[i].kind, punched[i].tap>> : i \in DOMAIN punched}
               \cup {<<p.kind, p.at>> : p \in Range(outbox) \cup Range(todo)}

\* A flush starts when its first punch has aged by a tick, or at the end, and sends
\* at once; what it does not meet happens before it or after it, so that while it
\* is under way the technician can only punch again what it has just sent.  A drive of
\* which it deletes a punch has no mocked fixes.
FlushBounds ==
    /\ (todo = <<>> /\ todo' # <<>>) =>
         IF PhoneTime < LastTick THEN Head(outbox).at < PhoneTime ELSE crumbs = {}
    /\ todo # <<>> =>
         /\ sent \/ sent' \/ todo' = <<>>
         /\ <<road, crumbs, samples, pin, assigned>>' = <<road, crumbs, samples, pin, assigned>>
         /\ \A kind \in PunchKinds \ {Head(todo).kind} : tapped'[kind] = tapped[kind]
         /\ leg' # leg => tapped' # tapped
    /\ lost' # {} => \A s \in crumbs' \cup samples' : s.trusted

\* The pin is put before the drive, whose end is when the phone says so; only then
\* is the answer to a batch lost, or a batch sent within its last tick, or the job
\* reassigned, once every punch has arrived, under breadcrumbs that are still queued:
\* what is refused before that might as well not have been sampled.  One breadcrumb
\* may be untrusted.  Nothing is claimed of a drive once a punch has lost its time.
DriveBounds ==
    /\ ~late /\ FlushBounds
    /\ (Now + skew)' <= LastTick
    /\ pin' # pin => Now = 1 /\ DriveTaps = {}
    /\ (samples' # samples /\ PhoneTime < LastTick) => crumbs' = {} /\ \E s \in crumbs : s.at < PhoneTime
    /\ assigned' # assigned => PhoneTime = LastTick /\ crumbs # {} /\ outbox = <<>>
    /\ ~assigned => tapped' = tapped
    /\ Cardinality(DriveTaps') <= MaxPunches
    /\ Len(outbox') <= MaxQueued
    /\ Cardinality(crumbs' \cup samples') <= MaxFixes
    /\ Cardinality({s \in crumbs' \cup samples' : ~s.trusted}) <= 1

\* A right clock with a fence and a pin, or a fast one without.
PhoneInit ==
    /\ focus \in {"outbox", "drive"}
    /\ Init
    /\ TravelInit
    /\ (skew = 0) = (fence = 0) /\ (skew = 0) = (pin = Reach)
    /\ (focus # "drive" => skew = 0)

PhoneNext ==
    /\ UNCHANGED focus
    /\ \/ focus = "outbox" /\ Next /\ UNCHANGED travelVars
       \/ focus = "drive" /\ TravelNext /\ DriveBounds /\ UNCHANGED vars

PhoneSpec == PhoneInit /\ [][PhoneNext]_<<focus, vars, travelVars>>
=============================================================================
