------------------------------- MODULE Route -------------------------------
(* The billable route of a home visit (derive_route and its helpers in       *)
(* backend/app/features/jobs/service.py): GPS punches and breadcrumbs in,    *)
(* kilometres out.  Places lie on one road and are numbered along it, the    *)
(* workshop's fence being centred on 0; times are ticks.                     *)
EXTENDS Naturals, FiniteSets, Sequences, SequencesExt, Lists

CONSTANTS
    MinTrusted,  \* _TRAVEL_MIN_TRUSTED_SAMPLES
    MaxSpeed,    \* _TRAVEL_MAX_SPEED_MPS, in places per tick
    MinSegment,  \* _TRAVEL_MIN_SEGMENT_M
    Slack,       \* _TRAVEL_WINDOW_SLACK
    FarOff,      \* how far from the fence, or the pin, a punch is still taken at its word
    Circuity,    \* fuel_route_circuity_factor
    Nowhere      \* no pin, no punch, no route

ASSUME RouteAssumption ==
    /\ {MinTrusted, MaxSpeed, MinSegment, Slack, FarOff, Circuity} \subseteq Nat
    /\ MinSegment > 0 /\ Circuity > 0
    /\ Nowhere \notin Nat

Distance(a, b) == IF a > b THEN a - b ELSE b - a
Earlier(t) == IF t > Slack THEN t - Slack ELSE 0

-----------------------------------------------------------------------------
\* Mutant: the first punch of a kind counts.
EarliestLocation(locations, kind) ==
    LET matching == {l \in locations : l.kind = kind} IN
    IF matching = {} THEN Nowhere
    ELSE CHOOSE l \in matching : \A other \in matching : l.at <= other.at

\* _latest_location
LatestLocation(locations, kind) ==
    LET matching == {l \in locations : l.kind = kind} IN
    IF matching = {} THEN Nowhere
    ELSE CHOOSE l \in matching : \A other \in matching : other.at <= l.at

TrustedSamples(samples) == {s \in samples : s.trusted}

\* The metres between two fixes, unless they are jitter, a duplicate or a teleport.
Segment(prev, curr) ==
    LET m == Distance(prev.pos, curr.pos) IN
    IF \/ curr.at <= prev.at
       \/ m < MinSegment
       \/ m > MaxSpeed * (curr.at - prev.at)
    THEN 0 ELSE m

\* path_sum_m: from fix to fix, in the order of captured_at.
PathSum(samples) ==
    LET fix == ByTime(TrustedSamples(samples)) IN
    IF Len(fix) < MinTrusted THEN Nowhere
    ELSE Total([i \in 1 .. Len(fix) - 1 |-> Segment(fix[i], fix[i + 1])])

\* _leg_ladder: driven metres if the trail is worth it, else the estimate.
LegLadder(origin, dest, samples, leg, window) ==
    LET straight == Distance(origin, dest)
        path     == IF window = <<>> THEN Nowhere
                    ELSE PathSum({s \in samples : /\ s.leg = leg
                                                  /\ window[1] <= s.at /\ s.at <= window[2]})
    IN IF path # Nowhere /\ path >= straight
       THEN [m |-> path, basis |-> "breadcrumbs"]
       ELSE [m |-> straight * Circuity, basis |-> "estimate"]

\* A punch from far away is replaced by the place it should have been made at.
Sane(punch, place) ==
    IF place # Nowhere /\ Distance(punch.pos, place) > FarOff THEN place ELSE punch.pos

Window(from, to) == <<Earlier(from.at), to.at + Slack>>

\* The way there: from the punch, or the fence if there is none.
Outbound(locations, samples, fence) ==
    LET depart == LatestLocation(locations, "depart_workshop")
        arrive == LatestLocation(locations, "arrive_customer")
    IN IF arrive = Nowhere \/ (depart = Nowhere /\ fence = Nowhere) THEN Nowhere
       ELSE IF depart = Nowhere
       THEN LegLadder(fence, arrive.pos, samples, "outbound", <<>>)
       ELSE LegLadder(Sane(depart, fence), arrive.pos, samples, "outbound", Window(depart, arrive))

\* The way back, once it was made after the latest arrival.
Return(locations, samples, fence, customer) ==
    LET arrive == LatestLocation(locations, "arrive_customer")
        depart == LatestLocation(locations, "depart_customer")
        home   == LatestLocation(locations, "arrive_workshop")
    IN IF home = Nowhere \/ home.at <= arrive.at THEN Nowhere
       ELSE IF depart # Nowhere /\ depart.at >= arrive.at
       THEN LegLadder(Sane(depart, customer), Sane(home, fence), samples, "return",
                      Window(depart, home))
       ELSE IF customer = Nowhere THEN Nowhere
       ELSE LegLadder(customer, Sane(home, fence), samples, "return", <<>>)

\* derive_route
DeriveRoute(locations, samples, fence, customer) ==
    LET out == Outbound(locations, samples, fence) IN
    IF out = Nowhere THEN Nowhere
    ELSE LET back == Return(locations, samples, fence, customer) IN
         [out   |-> out,
          back  |-> back,
          round |-> out.m + (IF back = Nowhere THEN out.m ELSE back.m),
          basis |-> IF back = Nowhere \/ back.basis = out.basis THEN out.basis ELSE "estimate"]
=============================================================================
