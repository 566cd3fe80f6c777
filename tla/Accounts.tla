------------------------------ MODULE Accounts ------------------------------
(* One row of the technician table (identity slice) under concurrent logins,  *)
(* PIN changes and session revocations.  Each request loads the row, decides, *)
(* and commits: an UPDATE of the columns it changed, and of no others.        *)
EXTENDS Naturals, FiniteSets

CONSTANTS
    Requests,       \* HTTP requests; each is made once
    Pins,           \* PINs
    LongPins,       \* the ones that are long enough for a manager
    LockThreshold,  \* LOCK_THRESHOLD
    BaseLock,       \* BASE_LOCK_SECONDS
    MaxLock,        \* MAX_LOCK_SECONDS
    IpCap,          \* attempts that IpRateLimiter allows ...
    IpWindow,       \* ... in any time this long
    Never,          \* NULL
    LastTick        \* bound on the clock

ASSUME AccountsAssumption ==
    /\ LongPins \subseteq Pins /\ LongPins # {}
    /\ LockThreshold \in Nat \ {0} /\ BaseLock \in Nat \ {0} /\ MaxLock \in Nat
    /\ IpCap \in Nat /\ IpWindow \in Nat /\ LastTick \in Nat
    /\ Never \notin Nat

VARIABLES
    tick,       \* the time
    account,    \* the committed row
    request,    \* the requests made so far
    tokens,     \* the ver claims of the tokens handed out
    streak,     \* history: wrong PINs counted since the last reset
    lastWrong,  \* history: when the last of them was judged
    blurred,    \* history: the throttle was written from a row that was not current
    dead        \* history: the versions that a revocation has ended

accountVars == <<tick, account, request, tokens, streak, lastWrong, blurred, dead>>

-----------------------------------------------------------------------------
Roles == {"tech", "manager"}

\* The technician row.
Technician == [role : Roles, pin : Pins, failed : Nat, lockedUntil : Nat \cup {Never},
               version : Nat]

Unmade == [kind |-> "none", pin |-> Never, at |-> 0, row |-> Never, pc |-> "new"]

AccountsInit ==
    /\ tick = 0
    /\ account \in [role : Roles, pin : LongPins, failed : {0}, lockedUntil : {Never},
                    version : {0}]
    /\ request = [r \in Requests |-> Unmade]
    /\ tokens = {0}
    /\ streak = 0 /\ lastWrong = 0 /\ blurred = FALSE /\ dead = {}

-----------------------------------------------------------------------------
(* The throttle's policy                                                     *)

IsLocked(until) == until # Never /\ until > tick

LockDuration(failures) ==
    IF failures < LockThreshold THEN 0
    ELSE LET doubled == BaseLock * 2 ^ (failures - LockThreshold)
         IN  IF doubled < MaxLock THEN doubled ELSE MaxLock

NextLockUntil(failures, now) ==
    IF LockDuration(failures) = 0 THEN Never ELSE now + LockDuration(failures)

\* IpRateLimiter.allow, for one client address: an attempt that was refused is
\* not one.
Allow == Cardinality({r \in Requests : /\ request[r].kind = "login"
                                       /\ request[r].pc # "throttled"
                                       /\ request[r].at + IpWindow > tick}) < IpCap

-----------------------------------------------------------------------------
(* Requests                                                                  *)

Make(r, rec) == request[r].pc = "new" /\ request' = [request EXCEPT ![r] = rec]
Asks(kind, pin, next) == [kind |-> kind, pin |-> pin, at |-> tick, row |-> account, pc |-> next]
Answers(r, next) == request' = [request EXCEPT ![r].pc = next]

\* Mutant: the whole row is written back.
WholeRow(old, new) == new

\* The UPDATE of what differs from the loaded row.
Changed(old, new) ==
    [c \in DOMAIN new |-> IF new[c] # old[c] THEN new[c] ELSE account[c]]

\* login up to the point where the row is loaded and the lock looked at.
Login(r) ==
    /\ \E p \in Pins :
         Make(r, IF ~Allow THEN [Asks("login", p, "throttled") EXCEPT !.row = Never]
                 ELSE Asks("login", p, IF IsLocked(account.lockedUntil) THEN "locked" ELSE "loaded"))
    /\ UNCHANGED <<tick, account, tokens, streak, lastWrong, blurred, dead>>

Loaded(r, kind) == request[r].kind = kind /\ request[r].pc = "loaded"

\* The loaded row has the throttle that is committed.
Current(row) == row.failed = account.failed /\ row.lockedUntil = account.lockedUntil

\* Mutant: the count is rolled back with the 401.
WrongPinForgotten(r) ==
    /\ Loaded(r, "login") /\ request[r].pin # request[r].row.pin
    /\ Answers(r, "wrong")
    /\ streak' = streak + 1 /\ lastWrong' = request[r].at
    /\ UNCHANGED <<tick, account, tokens, blurred, dead>>

\* The count and the lock are committed before the 401 goes out.
WrongPin(r) ==
    LET old == request[r].row IN
    /\ Loaded(r, "login") /\ request[r].pin # old.pin
    /\ account' = Changed(old, [old EXCEPT
                     !.failed = old.failed + 1,
                     !.lockedUntil = NextLockUntil(old.failed + 1, request[r].at)])
    /\ Answers(r, "wrong")
    /\ streak' = streak + 1 /\ lastWrong' = request[r].at
    /\ blurred' = (blurred \/ ~Current(old))
    /\ UNCHANGED <<tick, tokens, dead>>

\* History: the throttle starts afresh, if the row that is committed says so.
Fresh == /\ streak' = 0
         /\ blurred' = ~(account'.failed = 0 /\ account'.lockedUntil = Never)

Unthrottled(row) == [row EXCEPT !.failed = 0, !.lockedUntil = Never]

RightPin(r) ==
    LET old == request[r].row IN
    /\ Loaded(r, "login") /\ request[r].pin = old.pin
    /\ account' = Changed(old, Unthrottled(old))
    /\ tokens' = tokens \cup {old.version}
    /\ Answers(r, "ok")
    /\ Fresh
    /\ UNCHANGED <<tick, lastWrong, dead>>

\* get_current_principal lets a token through.
Accepted(ver) == ver = account.version

\* set_pin: a manager may set any PIN, a technician the own one.
MaySetPin(who) == who = "manager" \/ (who = "self" /\ \E v \in tokens : Accepted(v))
PinPolicy(p) == account.role = "manager" => p \in LongPins

AskPin(r) ==
    /\ \E p \in Pins, who \in {"manager", "self", "another"} :
         Make(r, Asks("pin", p, IF MaySetPin(who) /\ PinPolicy(p) THEN "loaded" ELSE "refused"))
    /\ UNCHANGED <<tick, account, tokens, streak, lastWrong, blurred, dead>>

SetPin(r) ==
    LET old == request[r].row IN
    /\ Loaded(r, "pin")
    /\ account' = [Changed(old, Unthrottled(old)) EXCEPT !.pin = request[r].pin]
    /\ Answers(r, "ok")
    /\ Fresh
    /\ UNCHANGED <<tick, tokens, lastWrong, dead>>

AskRevocation(r) ==
    /\ Make(r, Asks("revoke", Never, "loaded"))
    /\ UNCHANGED <<tick, account, tokens, streak, lastWrong, blurred, dead>>

\* History: with no other revocation under way, every lower version has ended.
RevokeSessions(r) ==
    LET old == request[r].row IN
    /\ Loaded(r, "revoke")
    /\ account' = Changed(old, [old EXCEPT !.version = @ + 1])
    /\ Answers(r, "ok")
    /\ dead' = IF \E s \in Requests \ {r} : Loaded(s, "revoke") THEN dead
               ELSE dead \cup 0..(account'.version - 1)
    /\ UNCHANGED <<tick, tokens, streak, lastWrong, blurred>>

\* A connection, process or commit fails under the request.
LoseRequest(r) ==
    /\ request[r].pc = "loaded" /\ Answers(r, "lost")
    /\ UNCHANGED <<tick, account, tokens, streak, lastWrong, blurred, dead>>

AccountsTick ==
    /\ tick < LastTick /\ tick' = tick + 1
    /\ UNCHANGED <<account, request, tokens, streak, lastWrong, blurred, dead>>

AccountsNext ==
    \/ \E r \in Requests :
         \/ Login(r) \/ WrongPin(r) \/ RightPin(r)
         \/ AskPin(r) \/ SetPin(r) \/ AskRevocation(r) \/ RevokeSessions(r)
         \/ LoseRequest(r)
    \/ AccountsTick

AccountsSpec == AccountsInit /\ [][AccountsNext]_accountVars

-----------------------------------------------------------------------------
(* Properties                                                                *)

\* The throttle is the one that the failures since the last reset earn.
CountIsExact ==
    ~blurred => /\ account.failed = streak
                /\ account.lockedUntil = NextLockUntil(streak, lastWrong)

\* failed_attempts counts the "consecutive failed logins" (models.py) since the
\* last success or PIN change, and the lock is the one that this count earns;
\* only a wrong PIN that was judged against an outdated row can blur it.  And a
\* lock always decays, blurred or not: it never lasts longer than MAX_LOCK.
ThrottleIsExact ==
    /\ CountIsExact
    /\ account.lockedUntil # Never => account.lockedUntil <= tick + MaxLock

\* Once a revocation is answered and no other is under way, the tokens minted
\* under any lower version stay out for good, whatever login, PIN change or
\* revocation commits later from a row loaded before it.
RevocationHolds == \A v \in dead : ~Accepted(v)
=============================================================================
