----------------------------- MODULE Customers -----------------------------
(* Who a job belongs to, and what that customer has agreed to: the customer   *)
(* link of create_job with its consent chip (_link_customer), the consent     *)
(* endpoint, and the script that makes customers of old jobs                  *)
(* (scripts/backfill_customers.py).  A phone number is matched, never         *)
(* constrained: "households share numbers; match is a suggestion".            *)
EXTENDS Naturals, Sequences, FiniteSets

CONSTANTS
    Visits,      \* intakes and consent requests; each is made once
    Numbers,     \* phone numbers in E.164
    NoNumber,    \* a phone that has no such form
    Names,       \* customer names
    NoOne        \* NULL, or not there

ASSUME CustomersAssumption == NoNumber \notin Numbers /\ NoOne \notin Nat

VARIABLES
    customer,    \* the committed customers, each with its phone and consent log
    intake,      \* the committed jobs, by the intake that created them
    visit,       \* the requests made so far
    begun,       \* transactions begun so far
    backfill,    \* the backfill that is running, and what it has loaded
    raced,       \* history: numbers for which a customer was created by one who had
                 \* not seen the one created meanwhile
    outrun       \* history: customers whose last consent was given or withdrawn by
                 \* one that another had overtaken

customersVars == <<customer, intake, visit, begun, backfill, raced, outrun>>

-----------------------------------------------------------------------------
\* A customer with its only phone; no code merges customers or adds phones.
CustomerRow == [phone : Numbers, optIn : BOOLEAN, log : Seq([kind : {"given", "withdrawn"}, at : Nat])]

NotVisited == [kind |-> "none", phone |-> NoNumber, name |-> NoOne, subject |-> NoOne,
               consent |-> FALSE, at |-> 0, logs |-> <<>>, owners |-> 0, optIn |-> FALSE, pc |-> "new"]
NoBackfill == [jobs |-> {}, owner |-> <<>>]

CustomersInit ==
    /\ customer = <<>>
    /\ intake = [v \in Visits |-> NoOne]
    /\ visit = [v \in Visits |-> NotVisited]
    /\ begun = 0
    /\ backfill = NoBackfill
    /\ raced = {} /\ outrun = {}

-----------------------------------------------------------------------------
Owners(phone) == {c \in DOMAIN customer : customer[c].phone = phone}

\* Mutant: a number with one owner is taken for ambiguous.
TwoOwners(phone) ==
    IF Cardinality(Owners(phone)) = 2 THEN CHOOSE c \in Owners(phone) : TRUE ELSE NoOne

\* match_customer_by_phone: none or several owners are no match.
Match(phone) ==
    IF Cardinality(Owners(phone)) = 1 THEN CHOOSE c \in Owners(phone) : TRUE ELSE NoOne

\* Mutant: a withdrawal stamps the column too.
AlwaysStamped(kind, loaded, committed) == TRUE

\* The column after record_consent: a new time for "given"; NULL is written for
\* "withdrawn" if the loaded value was another, else the column is left alone.
Stamp(kind, loaded, committed) ==
    CASE kind = "given" -> TRUE
      [] kind = "withdrawn" /\ loaded -> FALSE
      [] kind = "withdrawn" /\ ~loaded -> committed

\* record_consent, committed: the event, dated by its transaction's start, and
\* the column.
Consented(row, kind, at, loaded) ==
    [row EXCEPT !.optIn = Stamp(kind, loaded, @), !.log = Append(@, [kind |-> kind, at |-> at])]

VisitGoes(v, next) == visit' = [visit EXCEPT ![v].pc = next]

\* A request's transaction begins with the caller's own row.  It remembers when,
\* and, for the history, the consents that were recorded by then.
Meets(v, asked) ==
    /\ visit[v].pc = "new"
    /\ visit' = [visit EXCEPT ![v] =
                   [asked EXCEPT !.at = begun, !.pc = "begun",
                                 !.logs = [c \in DOMAIN customer |-> Len(customer[c].log)]]]
    /\ begun' = begun + 1
    /\ UNCHANGED <<customer, intake, backfill, raced, outrun>>

\* Another consent of c was recorded since v began.
Overtaken(v, c) ==
    Len(customer[c].log) > IF c \in DOMAIN visit[v].logs THEN visit[v].logs[c] ELSE 0

Recorded(v, c) == outrun' = IF Overtaken(v, c) THEN outrun \cup {c} ELSE outrun \ {c}

-----------------------------------------------------------------------------
(* create_job                                                                *)

CreateJob(v) ==
    \E p \in Numbers \cup {NoNumber}, n \in Names, chip \in BOOLEAN :
      Meets(v, [NotVisited EXCEPT !.kind = "intake", !.phone = p, !.name = n, !.consent = chip])

\* The intake has looked for its customer.
MatchIntake(v) ==
    LET m == Match(visit[v].phone) IN
    /\ visit[v].kind = "intake" /\ visit[v].pc = "begun"
    /\ visit' = [visit EXCEPT ![v].subject = m, ![v].pc = "matched",
                              ![v].optIn = m # NoOne /\ customer[m].optIn,
                              ![v].owners = Cardinality(Owners(visit[v].phone))]
    /\ UNCHANGED <<customer, intake, begun, backfill, raced, outrun>>

Job(v, owner) == [phone |-> visit[v].phone, name |-> visit[v].name, owner |-> owner]

Matched(v) == visit[v].kind = "intake" /\ visit[v].pc = "matched"

\* No chip, or no number consent could apply to: the job, linked as it matched.
CommitPlain(v) ==
    /\ Matched(v)
    /\ ~visit[v].consent \/ (visit[v].subject = NoOne /\ visit[v].phone = NoNumber)
    /\ intake' = [intake EXCEPT ![v] = Job(v, visit[v].subject)]
    /\ VisitGoes(v, "done")
    /\ UNCHANGED <<customer, begun, backfill, raced, outrun>>

\* The chip on a match: the consent and the job, in one transaction.
CommitConsented(v) ==
    LET c == visit[v].subject IN
    /\ Matched(v) /\ visit[v].consent /\ c # NoOne
    /\ customer' = [customer EXCEPT ![c] = Consented(@, "given", visit[v].at, visit[v].optIn)]
    /\ intake' = [intake EXCEPT ![v] = Job(v, c)]
    /\ VisitGoes(v, "done")
    /\ Recorded(v, c)
    /\ UNCHANGED <<begun, backfill, raced>>

\* create_customer_with_phone
NewCustomer(phone, log) == [phone |-> phone, optIn |-> log # <<>>, log |-> log]

\* History: somebody else has created an owner of this number in between.
Races(phone, seen) == IF Cardinality(Owners(phone)) > seen THEN raced \cup {phone} ELSE raced

\* The chip without a match, an ambiguous number included: a customer of its own.
CommitCreated(v) ==
    LET p == visit[v].phone IN
    /\ Matched(v) /\ visit[v].consent /\ visit[v].subject = NoOne /\ p # NoNumber
    /\ customer' = Append(customer, NewCustomer(p, <<[kind |-> "given", at |-> visit[v].at]>>))
    /\ intake' = [intake EXCEPT ![v] = Job(v, Len(customer) + 1)]
    /\ VisitGoes(v, "done")
    /\ raced' = Races(p, visit[v].owners)
    /\ UNCHANGED <<begun, backfill, outrun>>

\* "Consent must never fail intake": an error rolls back and matches once more,
\* and the job is created without the consent.
ConsentFails(v) ==
    /\ Matched(v) /\ visit[v].consent /\ visit[v].phone # NoNumber
    /\ visit' = [visit EXCEPT ![v].consent = FALSE, ![v].subject = Match(visit[v].phone)]
    /\ UNCHANGED <<customer, intake, begun, backfill, raced, outrun>>

-----------------------------------------------------------------------------
(* POST /customers/{id}/consent                                              *)

AskConsent(v) ==
    \E c \in DOMAIN customer, k \in {"given", "withdrawn"} : Meets(v, [NotVisited EXCEPT !.kind = k, !.subject = c])

LoadCustomer(v) ==
    /\ visit[v].kind \in {"given", "withdrawn"} /\ visit[v].pc = "begun"
    /\ visit' = [visit EXCEPT ![v].optIn = customer[visit[v].subject].optIn, ![v].pc = "loaded"]
    /\ UNCHANGED <<customer, intake, begun, backfill, raced, outrun>>

RecordConsent(v) ==
    LET c == visit[v].subject IN
    /\ visit[v].pc = "loaded"
    /\ customer' = [customer EXCEPT ![c] = Consented(@, visit[v].kind, visit[v].at, visit[v].optIn)]
    /\ VisitGoes(v, "done")
    /\ Recorded(v, c)
    /\ UNCHANGED <<intake, begun, backfill, raced>>

LoseVisit(v) ==
    /\ visit[v].pc \in {"matched", "begun", "loaded"} /\ VisitGoes(v, "lost")
    /\ UNCHANGED <<customer, intake, begun, backfill, raced, outrun>>

-----------------------------------------------------------------------------
(* The backfill                                                              *)

JobsOf(jobs, phone) == {v \in jobs : intake[v].phone = phone}

\* The unlinked jobs with a number, and one owner of each number that has any:
\* which one, the order of the rows decides.
BackfillLoad ==
    /\ backfill.jobs = {}
    /\ LET jobs   == {v \in Visits : /\ intake[v] # NoOne
                                     /\ intake[v].owner = NoOne
                                     /\ intake[v].phone \in Numbers}
           phones == {p \in Numbers : Owners(p) # {}}
       IN  /\ jobs # {}
           /\ \E owner \in [phones -> DOMAIN customer] :
                /\ \A p \in phones : owner[p] \in Owners(p)
                /\ backfill' = [jobs |-> jobs, owner |-> owner]
    /\ UNCHANGED <<customer, intake, visit, begun, raced, outrun>>

Linked(jobs, c) == [v \in Visits |-> IF v \in jobs THEN [intake[v] EXCEPT !.owner = c] ELSE intake[v]]
Left(phone) == [backfill EXCEPT !.jobs = @ \ JobsOf(@, phone)]

\* One cluster of jobs, committed on its own.
BackfillCluster(phone) ==
    LET cluster == JobsOf(backfill.jobs, phone)
        created == Len(customer) + 1
        known   == phone \in DOMAIN backfill.owner
        oneName == Cardinality({intake[v].name : v \in cluster}) = 1
    IN
    /\ cluster # {}
    /\ backfill' = Left(phone)
    /\ \/ /\ known
          /\ intake' = Linked(cluster, backfill.owner[phone])
          /\ UNCHANGED <<customer, raced>>
       \/ /\ ~known /\ oneName
          /\ customer' = Append(customer, NewCustomer(phone, <<>>))
          /\ intake' = Linked(cluster, created)
          /\ raced' = Races(phone, 0)
       \/ /\ ~known /\ ~oneName
          /\ UNCHANGED <<customer, intake, raced>>
    /\ UNCHANGED <<visit, begun, outrun>>

BackfillStops ==
    /\ backfill.jobs # {} /\ backfill' = NoBackfill
    /\ UNCHANGED <<customer, intake, visit, begun, raced, outrun>>

CustomersNext ==
    \/ \E v \in Visits :
         \/ CreateJob(v) \/ MatchIntake(v)
         \/ CommitPlain(v) \/ CommitConsented(v) \/ CommitCreated(v) \/ ConsentFails(v)
         \/ AskConsent(v) \/ LoadCustomer(v) \/ RecordConsent(v)
         \/ LoseVisit(v)
    \/ BackfillLoad \/ BackfillStops
    \/ \E p \in Numbers : BackfillCluster(p)

CustomersSpec == CustomersInit /\ [][CustomersNext]_customersVars

-----------------------------------------------------------------------------
(* Properties                                                                *)

\* "Denormalized current consent state; truth lives in customer_consent_event"
\* (models.py): the column says what the latest event says, unless another
\* consent was recorded while the last one was being recorded.
ConsentFollowsLog ==
    \A c \in DOMAIN customer \ outrun :
      LET log == customer[c].log
      IN  customer[c].optIn =
            \E i \in DOMAIN log : log[i].kind = "given" /\ \A j \in DOMAIN log : log[j].at <= log[i].at

\* Two customers own one number only if two of an intake and a backfill created
\* them at the same time; and a job belongs to an owner of its number.
OneCustomerPerPhone ==
    /\ \A p \in Numbers : Cardinality(Owners(p)) > 1 => p \in raced
    /\ \A v \in Visits : intake[v] # NoOne /\ intake[v].owner # NoOne
                           => intake[v].owner \in Owners(intake[v].phone)
=============================================================================
