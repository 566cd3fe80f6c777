------------------------------- MODULE Travel -------------------------------
(* One home visit's travel evidence: the phone's punches (TravelScreen, over  *)
(* the outbox) and breadcrumbs (travelTracker, travelQueue, travelSync), and  *)
(* what the server keeps and derives of them (record_location,                *)
(* record_travel_samples, set_customer_pin).  The technician really drives    *)
(* along the road of Route; what the server knows of it comes late, twice,    *)
(* out of order or never, stamped by a phone whose clock may be off.  Left    *)
(* out: the *_delivery kinds of punch, which no route is derived from, and    *)
(* punches that are parked as failed, and perhaps discarded by the technician *)
(* (module Outbox); a live punch and its removeItem are one step, the button  *)
(* being disabled while its call is out.                                      *)
EXTENDS Route

CONSTANTS
    Reach,     \* the last place on the road
    LastTick,  \* bound on the drive
    Backdate,  \* jobs_gps_backdate_ceiling_hours, in ticks
    Future,    \* jobs_gps_future_tolerance_seconds
    Skews,     \* how far ahead a phone's clock may be
    Pins,      \* where the customer's pin may be put
    Mocks      \* where a mocked fix may claim to be

ASSUME TravelAssumption == /\ {Reach, LastTick, Backdate, Future} \subseteq Nat /\ Skews \subseteq Nat
                    /\ Pins \subseteq 0 .. Reach /\ Mocks \subseteq 0 .. Reach

VARIABLES
    road,      \* where the technician was at each tick; the last one is now
    skew,      \* how far the phone's clock is ahead
    fence,     \* the workshop's fence, if one is active
    pin,       \* job.customer_lat and customer_lng
    assigned,  \* the job is still this technician's
    leg,       \* the leg that travelTracker samples
    crumbs,    \* the breadcrumb queue
    samples,   \* the committed job_travel_sample rows
    outbox,    \* the queued punches, one of each kind
    todo,      \* flushOutbox: what is left of its snapshot, none when it is not syncing
    sent,      \* flushOutbox: the first of them is at the server, but still queued
    punched,   \* the committed job_location rows, as they came
    tapped,    \* history: when each kind was tapped last
    lost,      \* history: the kinds whose last punch was deleted unsent
    late       \* history: a punch came too late, or too early, to keep its time

ground     == <<road, skew, fence>>
flushing   == <<todo, sent>>
history    == <<tapped, lost, late>>
travelVars == <<ground, pin, assigned, leg, crumbs, samples, outbox, flushing, punched, history>>

-----------------------------------------------------------------------------
Places  == 0 .. Reach
Departs == {"depart_workshop", "depart_customer"}
Arrives == {"arrive_customer", "arrive_workshop"}
PunchKinds == Departs \cup Arrives
LegOf(kind) == IF kind = "depart_workshop" THEN "outbound" ELSE "return"

Now  == Len(road)
Here == road[Now]
PhoneTime == Now + skew

TravelInit ==
    /\ road = <<0>>
    /\ skew \in Skews
    /\ fence \in {0, Nowhere}
    /\ pin \in Pins \cup {Nowhere}
    /\ assigned = TRUE
    /\ leg = Nowhere
    /\ crumbs = {} /\ samples = {}
    /\ outbox = <<>> /\ punched = <<>>
    /\ todo = <<>> /\ sent = FALSE
    /\ tapped = [k \in PunchKinds |-> Nowhere]
    /\ lost = {} /\ late = FALSE

Locations == {punched[i] : i \in DOMAIN punched}
RouteNow == DeriveRoute(Locations, samples, fence, pin)

-----------------------------------------------------------------------------
(* The technician and the phone                                              *)

Drive ==
    /\ Now < LastTick
    /\ \E p \in Places : Distance(Here, p) <= MaxSpeed /\ road' = Append(road, p)
    /\ UNCHANGED <<skew, fence, pin, assigned, leg, crumbs, samples, outbox, flushing, punched, history>>

AddCrumb(p, trusted) ==
    crumbs' = crumbs \cup {[leg |-> leg, at |-> PhoneTime, pos |-> p, trusted |-> trusted]}

\* handleTravelUpdate: a fix while a leg is armed.  A mock or coarse one may be
\* elsewhere.
Fix ==
    /\ leg # Nowhere
    /\ \A s \in crumbs \cup samples : s.at # PhoneTime
    /\ \/ AddCrumb(Here, TRUE)
       \/ \E p \in Mocks : AddCrumb(p, FALSE)
    /\ UNCHANGED <<ground, pin, assigned, leg, samples, outbox, flushing, punched, history>>

\* _gps_trust_window, for a device time t.
InTrustWindow(t) == Now <= t + Backdate /\ t <= Now + Future

\* get_location_by_client
AtServer(rows, punch) == \E i \in DOMAIN rows : rows[i].kind = punch.kind /\ rows[i].tap = punch.at

\* record_location: idempotent on client_id; a time out of the trust window is
\* replaced by the server's.
Received(rows, punch) ==
    IF AtServer(rows, punch) THEN rows
    ELSE Append(rows, [kind |-> punch.kind, pos |-> punch.pos, tap |-> punch.at,
                       at   |-> IF InTrustWindow(punch.at) THEN punch.at ELSE Now])

RecordLocation(punch) ==
    /\ punched' = Received(punched, punch)
    /\ late' = (late \/ (punched' # punched /\ ~InTrustWindow(punch.at)))

\* enqueue: a queued punch of the same kind is replaced in its place.
PunchQueued(punch) ==
    IF \E i \in DOMAIN outbox : outbox[i].kind = punch.kind
    THEN [i \in DOMAIN outbox |-> IF outbox[i].kind = punch.kind THEN punch ELSE outbox[i]]
    ELSE Append(outbox, punch)

\* removeItem, by the id that all punches of a kind share.
Without(kind) == Filtered(outbox, {queued \in Range(outbox) : queued.kind # kind})

\* sendOrQueue: live, which drops a queued one of the kind; queued; or live with
\* the answer lost, so that it is queued too.
SendOrQueue(punch) ==
    \/ /\ RecordLocation(punch)
       /\ outbox' = Without(punch.kind)
    \/ /\ outbox' = PunchQueued(punch)
       /\ UNCHANGED <<punched, late>>
    \/ /\ RecordLocation(punch)
       /\ outbox' = PunchQueued(punch)

\* The screen's copy of the job may be any the server has had: there are more
\* departures in it than arrivals, or not.
SeesTransit(departs, arrives, transit) ==
    \E n \in 0 .. Len(punched) :
      LET Count(k) == Cardinality({i \in 1 .. n : punched[i].kind = k})
      IN  (Count(departs) > Count(arrives)) = transit

Tap(kind) ==
    LET punch == [kind |-> kind, at |-> PhoneTime, pos |-> Here] IN
    /\ tapped[kind] # Now
    /\ tapped' = [tapped EXCEPT ![kind] = Now]
    /\ lost' = lost \ {kind}
    /\ SendOrQueue(punch)

\* startTravel; no outbound leg without a pin to arrive at.
StartTravel ==
    /\ \E kind \in Departs :
         /\ kind = "depart_workshop" => pin # Nowhere /\ SeesTransit(kind, "arrive_customer", FALSE)
         /\ kind = "depart_customer" => SeesTransit(kind, "arrive_workshop", FALSE)
         /\ Tap(kind)
         /\ leg' = LegOf(kind)
    /\ UNCHANGED <<ground, pin, assigned, crumbs, samples, flushing>>

\* arrive: at the pin, if there is one; the fence may not be known to the phone.
Arrive ==
    /\ \E kind \in Arrives :
         /\ kind = "arrive_customer" => /\ pin \in {Here, Nowhere}
                                        /\ SeesTransit("depart_workshop", kind, TRUE)
         /\ kind = "arrive_workshop" => SeesTransit("depart_customer", kind, TRUE)
         /\ Tap(kind)
    /\ leg' = Nowhere
    /\ UNCHANGED <<ground, pin, assigned, crumbs, samples, flushing>>

\* stopJobTravel at logout, or when the failsafe strikes.
StopTravel ==
    /\ leg # Nowhere /\ leg' = Nowhere
    /\ UNCHANGED <<ground, pin, assigned, crumbs, samples, outbox, flushing, punched, history>>

-----------------------------------------------------------------------------
(* Synchronisation                                                           *)

\* flushOutbox, one at a time, over a copy of the outbox.
FlushPunches ==
    /\ todo = <<>> /\ outbox # <<>>
    /\ todo' = outbox
    /\ UNCHANGED <<ground, pin, assigned, leg, crumbs, samples, outbox, sent, punched, history>>

\* send(item): it reaches the server, and the answer is on its way.
SendPunch ==
    /\ todo # <<>> /\ ~sent
    /\ RecordLocation(Head(todo))
    /\ sent' = TRUE
    /\ UNCHANGED <<ground, pin, assigned, leg, crumbs, samples, outbox, todo, tapped, lost>>

\* The answer: removeItem(item.id) drops whatever is queued under that id by now.
RemovePunch ==
    /\ sent
    /\ outbox' = Without(Head(todo).kind)
    /\ lost' = lost \cup {p.kind : p \in {q \in Range(outbox) : /\ q.kind = Head(todo).kind
                                                             /\ ~AtServer(punched, q)}}
    /\ todo' = Tail(todo) /\ sent' = FALSE
    /\ UNCHANGED <<ground, pin, assigned, leg, crumbs, samples, punched, tapped, late>>

\* No connection, no answer or a server error: the flush ends, and so it does with
\* the app.
BreakFlush ==
    /\ todo # <<>> /\ todo' = <<>> /\ sent' = FALSE
    /\ UNCHANGED <<ground, pin, assigned, leg, crumbs, samples, outbox, punched, history>>

\* syncTravelSamples and record_travel_samples: samples out of the trust window
\* are rejected, known ones ignored; a lost answer keeps the queue.
SyncSamples ==
    /\ assigned /\ crumbs # {}
    /\ samples' = samples \cup {s \in crumbs : InTrustWindow(s.at)}
    /\ crumbs' \in {{}, crumbs}
    /\ UNCHANGED <<ground, pin, assigned, leg, outbox, flushing, punched, history>>

\* 403: the job is somebody else's; the phone drops the batch.
SyncRefused ==
    /\ ~assigned /\ crumbs # {}
    /\ crumbs' = {}
    /\ UNCHANGED <<ground, pin, assigned, leg, samples, outbox, flushing, punched, history>>

-----------------------------------------------------------------------------
\* set_customer_pin, idempotent by value, by its technician or a manager.
SetCustomerPin(manager, p) ==
    /\ manager \/ assigned
    /\ pin' = p
    /\ UNCHANGED <<ground, assigned, leg, crumbs, samples, outbox, flushing, punched, history>>

\* The job is given to somebody else, for good.
Reassign ==
    /\ assigned /\ assigned' = FALSE
    /\ UNCHANGED <<ground, pin, leg, crumbs, samples, outbox, flushing, punched, history>>

TravelNext ==
    \/ Drive \/ Fix
    \/ StartTravel \/ Arrive \/ StopTravel
    \/ FlushPunches \/ SendPunch \/ RemovePunch \/ BreakFlush
    \/ SyncSamples \/ SyncRefused
    \/ \E p \in Pins, manager \in BOOLEAN : SetCustomerPin(manager, p)
    \/ Reassign

TravelSpec == TravelInit /\ [][TravelNext]_travelVars

-----------------------------------------------------------------------------
(* Properties                                                                *)

\* The places really passed from tick a to tick b.
Driven(a, b) ==
    Total([t \in 1 .. Now - 1 |-> IF a <= t /\ t < b THEN Distance(road[t], road[t + 1]) ELSE 0])

DrivenBetween(from, to) ==
    IF Nowhere \in {tapped[from], tapped[to]} THEN 0
    ELSE Driven(Earlier(tapped[from]), tapped[to] + Slack)

\* A leg billed by its breadcrumbs is no longer than the last drive from one kind of
\* punch to the other was, the window's slack included.
NoLonger(stretch, from, to) == stretch.basis = "breadcrumbs" => stretch.m <= DrivenBetween(from, to)
OutIsHonest  == NoLonger(RouteNow.out, "depart_workshop", "arrive_customer")
BackIsHonest == RouteNow.back # Nowhere => NoLonger(RouteNow.back, "depart_customer", "arrive_workshop")

\* Every punch has arrived, in time, or been deleted.
AllArrived == outbox = <<>> /\ todo = <<>> /\ ~late /\ RouteNow # Nowhere

\* Once every punch has arrived in time, a leg that is billed by its breadcrumbs is
\* no longer than the last drive was, whatever is mocked, resent, late, out of
\* order or missing, and whatever the phone's clock says; unless a flush that was
\* under way when the technician set off or arrived again deleted that punch: then
\* the leg may count both drives, although derive_route says that a rescheduled job
\* driven twice "must count only the latest drive's samples".
FuelIsHonest ==
    AllArrived =>
      /\ {"depart_workshop", "arrive_customer"} \cap lost = {} => OutIsHonest
      /\ {"depart_customer", "arrive_workshop"} \cap lost = {} => BackIsHonest
=============================================================================
