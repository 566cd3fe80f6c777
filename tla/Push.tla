-------------------------------- MODULE Push --------------------------------
(* Whose phone an assignment is pushed to: the registry of push tokens        *)
(* (backend/app/features/notifications), which a phone refreshes when its app *)
(* is opened by somebody, and which notify_assignment prunes while it sends.  *)
(* Nothing takes a token off a technician who signs out.                      *)
EXTENDS Naturals, FiniteSets

CONSTANTS
    Phones,        \* phones
    Crew,          \* technicians
    Nobody,        \* there is no such row
    Registrations, \* POST /devices; each is made once
    Assignments,   \* manager assignments that push; each is made once
    MaxTokens      \* bound on the tokens a phone is given

ASSUME PushAssumption == Nobody \notin Crew /\ MaxTokens \in Nat \ {0}

VARIABLES
    issued,       \* the tokens FCM has given to each phone; only the last one lives
    tokenOwner,   \* the committed device_token rows: each token's owner
    registration, \* the registrations made so far
    assignment,   \* the assignments made so far
    registrant,   \* history: who registered each token last, by its commit
    crossed       \* history: tokens whose last registration had not seen another's

pushVars == <<issued, tokenOwner, registration, assignment, registrant, crossed>>

-----------------------------------------------------------------------------
Tokens == Phones \X (1 .. MaxTokens)
Lives(k) == issued[k[1]] = k[2]

Unregistered == [token |-> Nobody, tech |-> Nobody, seen |-> Nobody, alone |-> TRUE, pc |-> "new"]
Unassigned   == [tech |-> Nobody, todo |-> {}, dead |-> {}, pc |-> "new"]

PushInit ==
    /\ issued = [p \in Phones |-> 1]
    /\ tokenOwner = [k \in Tokens |-> Nobody]
    /\ registration = [r \in Registrations |-> Unregistered]
    /\ assignment = [a \in Assignments |-> Unassigned]
    /\ registrant = [k \in Tokens |-> Nobody]
    /\ crossed = {}

\* FCM gives the phone another token, as after a reinstallation.
Rotate(p) ==
    /\ issued[p] < MaxTokens
    /\ issued' = [issued EXCEPT ![p] = @ + 1]
    /\ UNCHANGED <<tokenOwner, registration, assignment, registrant, crossed>>

-----------------------------------------------------------------------------
\* registerForPush when t opens the app, up to the SELECT of upsert_token.
LoadToken(r) ==
    /\ registration[r].pc = "new"
    /\ \E p \in Phones, t \in Crew :
         LET k == <<p, issued[p]>> IN
         registration' = [registration EXCEPT ![r] =
           [token |-> k, tech |-> t, seen |-> tokenOwner[k], alone |-> TRUE, pc |-> "loaded"]]
    /\ UNCHANGED <<issued, tokenOwner, assignment, registrant, crossed>>

\* The owner that is written: the ORM leaves the column alone if it was loaded so.
Owner(reg) == IF reg.seen = reg.tech THEN tokenOwner[reg.token] ELSE reg.tech

\* An INSERT of a token inserted meanwhile, or an UPDATE of one that was pruned,
\* fails.
Registrable(reg) == (reg.seen = Nobody) = (tokenOwner[reg.token] = Nobody)

CommitToken(r) ==
    LET reg == registration[r] IN
    /\ reg.pc = "loaded"
    /\ IF Registrable(reg)
       THEN /\ tokenOwner' = [tokenOwner EXCEPT ![reg.token] = Owner(reg)]
            /\ registrant' = [registrant EXCEPT ![reg.token] = reg.tech]
            /\ crossed' = IF reg.alone THEN crossed \ {reg.token} ELSE crossed \cup {reg.token}
            /\ registration' = [s \in Registrations |->
                 IF s = r THEN [registration[s] EXCEPT !.pc = "ok"]
                 ELSE IF registration[s].token = reg.token THEN [registration[s] EXCEPT !.alone = FALSE]
                 ELSE registration[s]]
       ELSE /\ registration' = [registration EXCEPT ![r].pc = "error"]
            /\ UNCHANGED <<tokenOwner, registrant, crossed>>
    /\ UNCHANGED <<issued, assignment>>

-----------------------------------------------------------------------------
\* assign has committed; notify_assignment lists the technician's tokens.
ListTokens(a) ==
    /\ assignment[a].pc = "new"
    /\ \E t \in Crew :
         assignment' = [assignment EXCEPT ![a] =
           [tech |-> t, todo |-> {k \in Tokens : tokenOwner[k] = t}, dead |-> {}, pc |-> "sending"]]
    /\ UNCHANGED <<issued, tokenOwner, registration, registrant, crossed>>

\* Mutant: any failure is taken for a dead device.
AnyFailure(k) == TRUE

\* 404 or 410: the token is UNREGISTERED.
Gone(k) == ~Lives(k)

\* FCM takes a message, or refuses it.
PushTo(a) ==
    /\ assignment[a].pc = "sending"
    /\ \E k \in assignment[a].todo, refused \in BOOLEAN :
         /\ ~Lives(k) => refused
         /\ assignment' = [assignment EXCEPT ![a].todo = @ \ {k},
                             ![a].dead = IF refused /\ Gone(k) THEN @ \cup {k} ELSE @]
    /\ UNCHANGED <<issued, tokenOwner, registration, registrant, crossed>>

\* The second commit of assign, after the last message or one that raised.
CommitPruned(a) ==
    /\ assignment[a].pc = "sending"
    /\ tokenOwner' = [k \in Tokens |-> IF k \in assignment[a].dead THEN Nobody ELSE tokenOwner[k]]
    /\ assignment' = [assignment EXCEPT ![a].pc = "done"]
    /\ UNCHANGED <<issued, registration, registrant, crossed>>

\* The process dies; what was pruned comes back.
LosePush(a) ==
    /\ assignment[a].pc = "sending"
    /\ assignment' = [assignment EXCEPT ![a].pc = "lost"]
    /\ UNCHANGED <<issued, tokenOwner, registration, registrant, crossed>>

PushNext ==
    \/ \E p \in Phones : Rotate(p)
    \/ \E r \in Registrations : LoadToken(r) \/ CommitToken(r)
    \/ \E a \in Assignments : ListTokens(a) \/ PushTo(a) \/ CommitPruned(a) \/ LosePush(a)

PushSpec == PushInit /\ [][PushNext]_pushVars

-----------------------------------------------------------------------------
\* A technician's assignments are pushed to the phones where that technician was
\* the last to register, and to no other live one: no failed or interrupted push
\* takes a live token away, and no token stays with a former owner, unless two
\* registrations of it crossed.
PushesFindTheirTech ==
    \A k \in Tokens \ crossed : Lives(k) => tokenOwner[k] = registrant[k]
=============================================================================
