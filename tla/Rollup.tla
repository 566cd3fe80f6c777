------------------------------- MODULE Rollup -------------------------------
(* Request metrics on their way to the database: the registry every request   *)
(* is counted in (backend/app/core/metrics.py) and the five-minute job that   *)
(* writes what has been counted since its last tick (MetricRollup in          *)
(* features/telemetry/service.py, _run_metric_rollup in main.py).  Registry   *)
(* and baseline live in the process, the rows outlive it.                     *)
EXTENDS Integers

CONSTANTS
    Routes,    \* "METHOD path" labels
    MaxServed, \* bound on the requests of a process to one route
    MaxTicks   \* bound on the ticks of a behaviour

ASSUME RollupAssumption == MaxServed \in Nat /\ MaxTicks \in Nat

VARIABLES
    registry, \* MetricsRegistry._routes: requests, and the 5xx among them
    baseline, \* MetricRollup._baseline
    seeded,   \* MetricRollup._seeded
    window,   \* the rollup that is being committed
    rolled,   \* what the committed ops_metric_rollup rows add up to, by route
    served,   \* history: what was counted after a first tick, and not lost in a crash
    echoed,   \* history: a commit was applied that its tick took for failed
    ticks     \* ticks so far

rollupVars == <<registry, baseline, seeded, window, rolled, served, echoed, ticks>>

-----------------------------------------------------------------------------
Zero   == [count |-> 0, errors |-> 0]
Nothing == [r \in Routes |-> Zero]
NoTick  == [current |-> Nothing, delta |-> Nothing, on |-> FALSE]

Plus(a, b)  == [count |-> a.count + b.count, errors |-> a.errors + b.errors]
Minus(a, b) == [count |-> a.count - b.count, errors |-> a.errors - b.errors]

RollupInit ==
    /\ registry = Nothing /\ baseline = Nothing
    /\ seeded = FALSE
    /\ window = NoTick
    /\ rolled = Nothing
    /\ served = Nothing
    /\ echoed = FALSE
    /\ ticks = 0

\* MetricsMiddleware counts a request, whatever has become of it.
CountRequest(r) ==
    /\ registry[r].count < MaxServed
    /\ \E error \in {0, 1} :
         LET one == [count |-> 1, errors |-> error] IN
         /\ registry' = [registry EXCEPT ![r] = Plus(@, one)]
         /\ served' = [served EXCEPT ![r] = IF seeded THEN Plus(@, one) ELSE @]
    /\ UNCHANGED <<baseline, seeded, window, rolled, echoed, ticks>>

\* The first tick after boot takes its bearings and writes nothing.
Seed ==
    /\ ~seeded /\ ticks < MaxTicks
    /\ baseline' = registry
    /\ seeded' = TRUE
    /\ ticks' = ticks + 1
    /\ UNCHANGED <<registry, window, rolled, served, echoed>>

\* Mutant: the baseline moves on before the commit.
ForgetfulSnapshot ==
    /\ seeded /\ ~window.on /\ ticks < MaxTicks
    /\ window' = [current |-> registry,
                delta   |-> [r \in Routes |-> Minus(registry[r], baseline[r])],
                on      |-> TRUE]
    /\ baseline' = registry
    /\ ticks' = ticks + 1
    /\ UNCHANGED <<registry, seeded, rolled, served, echoed>>

\* The snapshot and the rows are made without an await in between.
Snapshot ==
    /\ seeded /\ ~window.on /\ ticks < MaxTicks
    /\ window' = [current |-> registry,
                delta   |-> [r \in Routes |-> Minus(registry[r], baseline[r])],
                on      |-> TRUE]
    /\ ticks' = ticks + 1
    /\ UNCHANGED <<registry, baseline, seeded, rolled, served, echoed>>

\* A row for each route that was busy (a row with their totals is their sum).
WithRows(delta) == [r \in Routes |-> Plus(rolled[r], delta[r])]

\* Committed: only now does the baseline move on.
CommitTick ==
    /\ window.on
    /\ rolled' = WithRows(window.delta)
    /\ baseline' = window.current
    /\ window' = NoTick
    /\ UNCHANGED <<registry, seeded, served, echoed, ticks>>

\* The commit failed, or only its answer was lost; the next tick covers both windows.
FailTick ==
    /\ window.on
    /\ \/ UNCHANGED <<rolled, echoed>>
       \/ rolled' = WithRows(window.delta) /\ echoed' = TRUE
    /\ window' = NoTick
    /\ UNCHANGED <<registry, baseline, seeded, served, ticks>>

\* What had not been written goes with the process, a tick's commit that may
\* have been applied included.
Replace ==
    /\ registry' = Nothing /\ baseline' = Nothing
    /\ seeded' = FALSE
    /\ window' = NoTick
    /\ \/ /\ UNCHANGED rolled
          /\ served' = [r \in Routes |-> IF seeded THEN Minus(served[r], Minus(registry[r], baseline[r]))
                                         ELSE served[r]]
       \/ /\ window.on
          /\ rolled' = WithRows(window.delta)
          /\ served' = [r \in Routes |-> Minus(served[r], Minus(registry[r], window.current[r]))]
    /\ UNCHANGED <<echoed, ticks>>

RollupNext ==
    \/ \E r \in Routes : CountRequest(r)
    \/ Seed \/ Snapshot \/ CommitTick \/ FailTick
    \/ Replace

RollupSpec == RollupInit /\ [][RollupNext]_rollupVars

-----------------------------------------------------------------------------
\* Every request that was counted after a first tick is in the table or still to
\* be rolled up, exactly once, whatever ticks fail and whenever the process is
\* replaced, unless the answer to a commit was lost.
RolledUpOnce ==
    ~echoed => \A r \in Routes :
      served[r] = Plus(rolled[r], IF seeded THEN Minus(registry[r], baseline[r]) ELSE Zero)
=============================================================================
