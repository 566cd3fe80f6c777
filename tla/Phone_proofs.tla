---------------------------- MODULE Phone_proofs ----------------------------
(* The technician's phone.  The outbox, for any number of writes, versions,   *)
(* technicians, sign-ins and deaths of the app: what is queued is kept unless *)
(* a flush held an earlier version, and the queue never goes back to a        *)
(* version older than one that is saved.  And the drive, for any road, clock  *)
(* and limits: what is billed by breadcrumbs is no longer than what was       *)
(* driven.                                                                    *)
EXTENDS Outbox, Travel, Induction, SequenceTheorems

-----------------------------------------------------------------------------
(* Array.filter                                                              *)

\* One more item of a prefix, if it is kept.
Step(q, keep, f, n) ==
    IF n = 0 THEN <<>> ELSE IF q[n] \in keep THEN Append(f[n - 1], q[n]) ELSE f[n - 1]
FiltersUpTo(q, keep, f, n) == f = [k \in 0..n |-> Step(q, keep, f, k)]

\* The recursion over the prefixes defines a function.
LEMMA PrefixesExist ==
    ASSUME NEW q, NEW keep
    PROVE  \A n \in Nat : \E f : FiltersUpTo(q, keep, f, n)
<1> DEFINE S == {n \in Nat : \E f : FiltersUpTo(q, keep, f, n)}
<1>1. 0 \in S
  <2>1. FiltersUpTo(q, keep, [k \in 0..0 |-> <<>>], 0)
      BY DEF FiltersUpTo, Step
  <2> QED
      BY <2>1
<1>2. ASSUME NEW n \in Nat, n \in S PROVE n + 1 \in S
  <2>1. PICK f : FiltersUpTo(q, keep, f, n)
      BY <1>2
  <2> DEFINE g == [k \in 0..(n + 1) |-> IF k = n + 1 THEN Step(q, keep, f, n + 1) ELSE f[k]]
  <2>2. /\ \A k \in 0..n : g[k] = f[k] /\ f[k] = Step(q, keep, f, k)
        /\ g[n + 1] = Step(q, keep, f, n + 1)
        /\ DOMAIN g = 0..(n + 1) /\ g = [k \in 0..(n + 1) |-> g[k]]
      BY <2>1 DEF FiltersUpTo
  <2> HIDE DEF g
  <2>3. ASSUME NEW k \in 0..(n + 1) PROVE g[k] = Step(q, keep, g, k)
    <3>1. CASE k = 0
      <4>1. k \in 0..n
          BY <3>1
      <4> QED
          BY <3>1, <4>1, <2>2 DEF Step
    <3>2. CASE k # 0 /\ k # n + 1
      <4>1. k \in 0..n /\ k - 1 \in 0..n
          BY <3>2
      <4> QED
          BY <3>2, <4>1, <2>2 DEF Step
    <3>3. CASE k = n + 1
      <4>1. k # 0 /\ k - 1 = n /\ n \in 0..n
          BY <3>3
      <4> QED
          BY <3>3, <4>1, <2>2 DEF Step
    <3> QED
        BY <3>1, <3>2, <3>3
  <2>4. FiltersUpTo(q, keep, g, n + 1)
      BY <2>2, <2>3 DEF FiltersUpTo
  <2> QED
      BY <2>4
<1> HIDE DEF S
<1>3. \A n \in Nat : n \in S
    BY <1>1, <1>2, NatIsInductive
<1> QED
    BY <1>3 DEF S

\* What the first k of a filtered sequence consist of.
Sifted(q, keep, k, r) ==
    /\ r \in Seq(Range(q))
    /\ \A i \in 1..k : q[i] \in keep => \E a \in DOMAIN r : r[a] = q[i]
    /\ \A a \in DOMAIN r : r[a] \in keep
    /\ \A a, b \in DOMAIN r : a < b => \E i, j \in 1..k : i < j /\ r[a] = q[i] /\ r[b] = q[j]
    /\ \A a \in DOMAIN r : \E i \in 1..k : r[a] = q[i]

LEMMA SiftOneMore ==
    ASSUME NEW X, NEW q \in Seq(X), NEW keep, NEW k \in 1..Len(q), NEW r, Sifted(q, keep, k - 1, r)
    PROVE  Sifted(q, keep, k, IF q[k] \in keep THEN Append(r, q[k]) ELSE r)
<1>1. q[k] \in Range(q) /\ Len(r) \in Nat /\ DOMAIN r = 1..Len(r) /\ k - 1 \in Nat /\ k \in 1..k
    BY DEF Range, Sifted
<1>2. CASE q[k] \notin keep
    BY <1>1, <1>2 DEF Sifted
<1>3. CASE q[k] \in keep
  <2> DEFINE s == Append(r, q[k])
  <2>1. /\ s \in Seq(Range(q)) /\ Len(s) = Len(r) + 1 /\ DOMAIN s = 1..(Len(r) + 1)
        /\ s[Len(r) + 1] = q[k] /\ \A a \in 1..Len(r) : s[a] = r[a]
      BY <1>1 DEF Sifted
  <2> HIDE DEF s
  <2>2. \A i \in 1..k : q[i] \in keep => \E a \in DOMAIN s : s[a] = q[i]
      BY <1>1, <2>1 DEF Sifted
  <2>3. \A a \in DOMAIN s : s[a] \in keep /\ \E i \in 1..k : s[a] = q[i]
      BY <1>1, <1>3, <2>1 DEF Sifted
  <2>4. ASSUME NEW a \in DOMAIN s, NEW b \in DOMAIN s, a < b
        PROVE  \E i, j \in 1..k : i < j /\ s[a] = q[i] /\ s[b] = q[j]
    <3>1. CASE b = Len(r) + 1
      <4>1. PICK i \in 1..(k - 1) : r[a] = q[i]
          BY <1>1, <2>1, <2>4, <3>1 DEF Sifted
      <4> QED
          BY <1>1, <2>1, <2>4, <3>1, <4>1
    <3>2. CASE b # Len(r) + 1
      <4>1. a \in DOMAIN r /\ b \in DOMAIN r
          BY <1>1, <2>1, <2>4, <3>2
      <4>2. PICK i, j \in 1..(k - 1) : i < j /\ r[a] = q[i] /\ r[b] = q[j]
          BY <4>1, <2>4 DEF Sifted
      <4> QED
          BY <1>1, <2>1, <4>1, <4>2
    <3> QED
        BY <3>1, <3>2
  <2>5. Sifted(q, keep, k, s)
      BY <2>1, <2>2, <2>3, <2>4 DEF Sifted
  <2> QED
      BY <1>3, <2>5 DEF s
<1> QED
    BY <1>2, <1>3

\* Filtering keeps what is to be kept, in order, and nothing else.
LEMMA FilteredIs ==
    ASSUME NEW X, NEW q \in Seq(X), NEW keep
    PROVE  Sifted(q, keep, Len(q), Filtered(q, keep))
<1> DEFINE n == Len(q)
           f == CHOOSE g : FiltersUpTo(q, keep, g, n)
<1>1. n \in Nat
    OBVIOUS
<1>2. FiltersUpTo(q, keep, f, n)
    BY <1>1, PrefixesExist
<1>3. Filtered(q, keep) = f[n]
    BY DEF Filtered, FiltersUpTo, Step
<1> HIDE DEF n, f
<1>4. \A k \in 0..n : f[k] = Step(q, keep, f, k)
    BY <1>2 DEF FiltersUpTo
<1> DEFINE S == {k \in Nat : k <= n => Sifted(q, keep, k, f[k])}
<1>5. 0 \in S
  <2>1. f[0] = <<>>
      BY <1>1, <1>4 DEF Step
  <2>2. <<>> \in Seq(Range(q)) /\ DOMAIN <<>> = {} /\ 1..0 = {}
      OBVIOUS
  <2>3. Sifted(q, keep, 0, <<>>)
      BY <2>2 DEF Sifted
  <2> QED
      BY <2>1, <2>3
<1>6. ASSUME NEW k \in Nat, k \in S PROVE k + 1 \in S
  <2> SUFFICES ASSUME k + 1 <= n PROVE Sifted(q, keep, k + 1, f[k + 1])
      OBVIOUS
  <2>1. Sifted(q, keep, k, f[k]) /\ k + 1 \in 1..Len(q) /\ (k + 1) - 1 = k
      BY <1>1, <1>6 DEF n
  <2>2. f[k + 1] = IF q[k + 1] \in keep THEN Append(f[k], q[k + 1]) ELSE f[k]
      BY <1>1, <1>4 DEF Step
  <2> QED
      BY <2>1, <2>2, SiftOneMore
<1> HIDE DEF S
<1>7. n \in S
    BY <1>1, <1>5, <1>6, NatIsInductive
<1> QED
    BY <1>1, <1>3, <1>7 DEF S, n

-----------------------------------------------------------------------------
(* The inductive invariant                                                   *)

OutboxItem == [tap : Taps, tech : Techs, status : {"queued", "failed"}, attempts : Nat]

FlushPC == {"idle", "next", "parking", "exhausted", "ok", "rejected", "unauthorized", "error", "unreachable"}

OutboxTypes ==
    /\ queue \in Seq(OutboxItem)
    /\ session \in Techs \cup {None}
    /\ flush \in [pc : FlushPC, todo : Seq(Taps)]
    /\ flush.pc # "idle" => flush.todo # <<>>
    /\ tap \in [Taps -> {"new"} \cup Settled \cup Live]

\* A version is made when the earlier ones are settled.
MadeInOrder == \A v, w \in Taps : Later(v, w) /\ tap[w] # "new" => tap[v] \in Settled

\* What is queued, or was when the flush began, its technician was told is queued.
ToldSo ==
    /\ \A v \in InQueue : tap[v] = "queued"
    /\ \A i \in DOMAIN flush.todo : tap[flush.todo[i]] = "queued"

\* A later version that has come into the queue since is known to have done so.
HeldVersions ==
    /\ \A i \in DOMAIN flush.todo, v \in InQueue : Later(flush.todo[i], v) => v \in overtaken
    /\ flush.pc = "ok" => Calling \in applied

OutboxInv ==
    /\ OutboxTypes
    /\ MadeInOrder
    /\ ToldSo
    /\ HeldVersions
    /\ QueueIsCurrent
    /\ KeptUnlessOvertaken

-----------------------------------------------------------------------------
(* The queue                                                                 *)

TapsIn(q) == {q[i].tap : i \in DOMAIN q}
NoTwoVersions(q) == \A i, j \in DOMAIN q : SameWrite(q[i].tap, q[j].tap) => i = j

LEMMA SameWriteIsAnEquivalence ==
    \A u, v, w : /\ SameWrite(v, v)
                 /\ SameWrite(v, w) => SameWrite(w, v)
                 /\ SameWrite(u, v) /\ SameWrite(v, w) => SameWrite(u, w)
    BY DEF SameWrite

\* A filtered queue is a queue; what was distinct stays distinct.
LEMMA FilteredQueue ==
    ASSUME NEW q \in Seq(OutboxItem), NEW keep
    PROVE  LET r == Filtered(q, keep)
           IN  /\ r \in Seq(OutboxItem)
               /\ TapsIn(r) = {q[i].tap : i \in {j \in DOMAIN q : q[j] \in keep}}
               /\ NoTwoVersions(q) => NoTwoVersions(r)
<1> DEFINE r == Filtered(q, keep)
<1>1. Sifted(q, keep, Len(q), r)
    BY FilteredIs
<1> HIDE DEF r
<1>2. DOMAIN q = 1..Len(q)
    OBVIOUS
<1>3. r \in Seq(OutboxItem)
  <2>1. Range(q) \subseteq OutboxItem
      BY DEF Range
  <2> QED
      BY <1>1, <2>1 DEF Sifted
<1>4. ASSUME NEW t \in TapsIn(r) PROVE t \in {q[i].tap : i \in {j \in DOMAIN q : q[j] \in keep}}
  <2>1. PICK a \in DOMAIN r : t = r[a].tap
      BY DEF TapsIn
  <2> QED
      BY <1>1, <1>2, <2>1 DEF Sifted
<1>5. ASSUME NEW t \in {q[i].tap : i \in {j \in DOMAIN q : q[j] \in keep}} PROVE t \in TapsIn(r)
    BY <1>1, <1>2 DEF Sifted, TapsIn
<1>6. ASSUME NoTwoVersions(q), NEW a \in DOMAIN r, NEW b \in DOMAIN r, SameWrite(r[a].tap, r[b].tap)
      PROVE  a = b
  <2>1. a \in Nat /\ b \in Nat
      BY <1>3
  <2>2. ASSUME NEW x \in DOMAIN r, NEW y \in DOMAIN r, x < y, SameWrite(r[x].tap, r[y].tap) PROVE FALSE
    <3>1. PICK i, j \in 1..Len(q) : i < j /\ r[x] = q[i] /\ r[y] = q[j]
        BY <1>1, <2>2 DEF Sifted
    <3> QED
        BY <1>2, <1>6, <2>2, <3>1 DEF NoTwoVersions
  <2> QED
      BY <1>6, <2>1, <2>2, SameWriteIsAnEquivalence
<1>7. NoTwoVersions(q) => NoTwoVersions(r)
    BY <1>6 DEF NoTwoVersions
<1> QED
    BY <1>3, <1>4, <1>5, <1>7 DEF r

\* removeItem: every version of the write has left.
LEMMA RemovedIs ==
    ASSUME NEW q \in Seq(OutboxItem), NEW v, NoTwoVersions(q)
    PROVE  /\ Removed(q, v) \in Seq(OutboxItem)
           /\ TapsIn(Removed(q, v)) = {t \in TapsIn(q) : ~SameWrite(t, v)}
           /\ NoTwoVersions(Removed(q, v))
<1> DEFINE keep == {x \in Range(q) : ~SameWrite(x.tap, v)}
<1>1. {q[i].tap : i \in {j \in DOMAIN q : q[j] \in keep}} = {t \in TapsIn(q) : ~SameWrite(t, v)}
    BY DEF TapsIn, Range
<1> HIDE DEF keep
<1> QED
    BY <1>1, FilteredQueue DEF Removed, keep

\* enqueue: the new version is there, and no other of this write.
LEMMA EnqueuedIs ==
    ASSUME NEW q \in Seq(OutboxItem), NEW v \in Taps, NoTwoVersions(q)
    PROVE  /\ Enqueued(q, v) \in Seq(OutboxItem)
           /\ TapsIn(Enqueued(q, v)) = {v} \cup {t \in TapsIn(q) : ~SameWrite(t, v)}
           /\ NoTwoVersions(Enqueued(q, v))
<1>1. NewItem(v) \in OutboxItem /\ NewItem(v).tap = v
    BY ConstantsAssumption DEF NewItem, OutboxItem
<1>2. CASE \E i \in DOMAIN q : SameWrite(q[i].tap, v)
  <2> DEFINE e == [i \in DOMAIN q |-> IF SameWrite(q[i].tap, v) THEN NewItem(v) ELSE q[i]]
  <2>1. e \in Seq(OutboxItem) /\ DOMAIN e = DOMAIN q
      BY <1>1
  <2>2. \A i \in DOMAIN q : e[i].tap = IF SameWrite(q[i].tap, v) THEN v ELSE q[i].tap
      BY <1>1
  <2>3. Enqueued(q, v) = e
      BY <1>2 DEF Enqueued
  <2> HIDE DEF e
  <2>4. TapsIn(e) = {v} \cup {t \in TapsIn(q) : ~SameWrite(t, v)}
      BY <1>2, <2>1, <2>2 DEF TapsIn
  <2>5. NoTwoVersions(e)
      BY <2>1, <2>2, SameWriteIsAnEquivalence DEF NoTwoVersions
  <2> QED
      BY <2>1, <2>3, <2>4, <2>5
<1>3. CASE ~\E i \in DOMAIN q : SameWrite(q[i].tap, v)
  <2> DEFINE e == Append(q, NewItem(v))
  <2>1. /\ e \in Seq(OutboxItem) /\ Len(q) \in Nat
        /\ DOMAIN q = 1..Len(q) /\ DOMAIN e = 1..(Len(q) + 1)
        /\ e[Len(q) + 1].tap = v /\ \A i \in DOMAIN q : e[i] = q[i]
      BY <1>1
  <2>2. Enqueued(q, v) = e
      BY <1>3 DEF Enqueued
  <2> HIDE DEF e
  <2>3. TapsIn(e) = {v} \cup {t \in TapsIn(q) : ~SameWrite(t, v)}
      BY <1>3, <2>1 DEF TapsIn
  <2>4. NoTwoVersions(e)
      BY <1>3, <2>1, SameWriteIsAnEquivalence DEF NoTwoVersions
  <2> QED
      BY <2>1, <2>2, <2>3, <2>4
<1> QED
    BY <1>2, <1>3

\* r is q with other statuses and attempts.
SameTaps(q, r) ==
    /\ r \in Seq(OutboxItem)
    /\ DOMAIN r = DOMAIN q /\ \A i \in DOMAIN q : r[i].tap = q[i].tap

LEMMA ChangedIs ==
    ASSUME NEW q \in Seq(OutboxItem), NEW r, DOMAIN r = DOMAIN q, r = [i \in DOMAIN r |-> r[i]],
           \A i \in DOMAIN q : r[i] \in OutboxItem /\ r[i].tap = q[i].tap
    PROVE  SameTaps(q, r)
<1>1. r \in [1..Len(q) -> OutboxItem]
    OBVIOUS
<1>2. r \in Seq(OutboxItem)
    BY <1>1
<1> QED
    BY <1>2 DEF SameTaps

LEMMA ChangesKeepTheTaps ==
    ASSUME NEW q \in Seq(OutboxItem), NEW v
    PROVE  SameTaps(q, MarkedFailed(q, v)) /\ SameTaps(q, Bumped(q, v)) /\ SameTaps(q, Retried(q, v))
<1>1. \A i \in DOMAIN q : q[i] \in OutboxItem
    OBVIOUS
<1>2. ASSUME NEW x \in OutboxItem
      PROVE  /\ [x EXCEPT !.status = "failed"] \in OutboxItem
             /\ [x EXCEPT !.status = "failed"].tap = x.tap
    BY DEF OutboxItem
<1>3. ASSUME NEW x \in OutboxItem
      PROVE  /\ [x EXCEPT !.attempts = @ + 1] \in OutboxItem
             /\ [x EXCEPT !.attempts = @ + 1].tap = x.tap
    BY DEF OutboxItem
<1>4. ASSUME NEW x \in OutboxItem
      PROVE  /\ [x EXCEPT !.status = "queued", !.attempts = 0] \in OutboxItem
             /\ [x EXCEPT !.status = "queued", !.attempts = 0].tap = x.tap
    BY DEF OutboxItem
<1>5. SameTaps(q, MarkedFailed(q, v))
  <2>1. MarkedFailed(q, v) = [i \in DOMAIN q |-> IF SameWrite(q[i].tap, v) THEN [q[i] EXCEPT !.status = "failed"] ELSE q[i]]
      BY DEF MarkedFailed, Changed
  <2> DEFINE r == MarkedFailed(q, v)
  <2>2. /\ DOMAIN r = DOMAIN q /\ r = [i \in DOMAIN r |-> r[i]]
        /\ \A i \in DOMAIN q : r[i] \in OutboxItem /\ r[i].tap = q[i].tap
      BY <1>1, <1>2, <2>1
  <2> HIDE DEF r
  <2>3. SameTaps(q, r)
      BY <2>2, ChangedIs
  <2> QED
      BY <2>3 DEF r
<1>6. SameTaps(q, Bumped(q, v))
  <2>1. Bumped(q, v) = [i \in DOMAIN q |-> IF SameWrite(q[i].tap, v) THEN [q[i] EXCEPT !.attempts = @ + 1] ELSE q[i]]
      BY DEF Bumped, Changed
  <2> DEFINE r == Bumped(q, v)
  <2>2. /\ DOMAIN r = DOMAIN q /\ r = [i \in DOMAIN r |-> r[i]]
        /\ \A i \in DOMAIN q : r[i] \in OutboxItem /\ r[i].tap = q[i].tap
      BY <1>1, <1>3, <2>1
  <2> HIDE DEF r
  <2>3. SameTaps(q, r)
      BY <2>2, ChangedIs
  <2> QED
      BY <2>3 DEF r
<1>7. SameTaps(q, Retried(q, v))
  <2>1. Retried(q, v) = [i \in DOMAIN q |-> IF SameWrite(q[i].tap, v)
                           THEN [q[i] EXCEPT !.status = "queued", !.attempts = 0] ELSE q[i]]
      BY DEF Retried, Changed
  <2> DEFINE r == Retried(q, v)
  <2>2. /\ DOMAIN r = DOMAIN q /\ r = [i \in DOMAIN r |-> r[i]]
        /\ \A i \in DOMAIN q : r[i] \in OutboxItem /\ r[i].tap = q[i].tap
      BY <1>1, <1>4, <2>1
  <2> HIDE DEF r
  <2>3. SameTaps(q, r)
      BY <2>2, ChangedIs
  <2> QED
      BY <2>3 DEF r
<1> QED
    BY <1>5, <1>6, <1>7

LEMMA SameTapsIs ==
    ASSUME NEW q, NEW r, SameTaps(q, r)
    PROVE  TapsIn(r) = TapsIn(q) /\ (NoTwoVersions(q) => NoTwoVersions(r))
    BY DEF SameTaps, TapsIn, NoTwoVersions

-----------------------------------------------------------------------------
(* The steps                                                                 *)

\* The queue and the flush speak of taps.
LEMMA WhatIsThere ==
    ASSUME OutboxTypes
    PROVE  /\ InQueue \subseteq Taps
           /\ \A i \in DOMAIN flush.todo : flush.todo[i] \in Taps
           /\ flush.pc # "idle" => 1 \in DOMAIN flush.todo /\ Calling = flush.todo[1] /\ Calling \in Taps
<1>1. queue \in Seq(OutboxItem) /\ flush.todo \in Seq(Taps)
    BY DEF OutboxTypes
<1>2. ASSUME NEW i \in DOMAIN queue PROVE queue[i].tap \in Taps
  <2>1. queue[i] \in OutboxItem
      BY <1>1
  <2> QED
      BY <2>1 DEF OutboxItem
<1>3. flush.pc # "idle" => 1 \in DOMAIN flush.todo /\ Calling = flush.todo[1]
    BY <1>1 DEF OutboxTypes, Calling
<1> QED
    BY <1>1, <1>2, <1>3 DEF InQueue

LEMMA OutboxInvInit == Init => OutboxInv
<1> SUFFICES ASSUME Init PROVE OutboxInv
    OBVIOUS
<1>1. queue = <<>> /\ flush.todo = <<>> /\ InQueue = {} /\ DOMAIN flush.todo = {}
    BY DEF Init, Idle, InQueue
<1>2. OutboxTypes
    BY DEF Init, Idle, OutboxTypes, FlushPC
<1>3. MadeInOrder /\ KeptUnlessOvertaken
    BY DEF Init, MadeInOrder, KeptUnlessOvertaken, Later, SameWrite
<1>4. ToldSo /\ HeldVersions /\ QueueIsCurrent
    BY <1>1 DEF Init, Idle, ToldSo, HeldVersions, QueueIsCurrent
<1> QED
    BY <1>2, <1>3, <1>4 DEF OutboxInv

\* v's tap goes on: it is made after the earlier versions, or settled.
TapGoes(v, next) ==
    /\ tap' = [tap EXCEPT ![v] = next]
    /\ \/ /\ tap[v] = "new" /\ next \in Settled \cup Live
          /\ \A w \in Taps : Later(w, v) => tap[w] \in Settled
       \/ tap[v] \in Live /\ next \in Settled

LEMMA TapGoing ==
    ASSUME OutboxInv, NEW v \in Taps, NEW next, TapGoes(v, next)
    PROVE  /\ tap' \in [Taps -> {"new"} \cup Settled \cup Live]
           /\ tap'[v] = next /\ \A u \in Taps \ {v} : tap'[u] = tap[u]
           /\ tap[v] \notin Settled
           /\ MadeInOrder'
           /\ \A w \in Taps : Later(v, w) => tap[w] = "new"
           /\ \A w \in Taps : Saved(w) => w # v /\ Saved(w)'
<1>1. /\ tap' \in [Taps -> {"new"} \cup Settled \cup Live]
      /\ tap'[v] = next /\ \A u \in Taps \ {v} : tap'[u] = tap[u]
    BY DEF TapGoes, OutboxInv, OutboxTypes
<1>2. tap[v] \notin Settled
    BY DEF TapGoes, Settled, Live
<1>3. \A w \in Taps : Later(v, w) => tap[w] = "new"
    BY <1>2 DEF OutboxInv, MadeInOrder
<1>4. MadeInOrder'
  <2> SUFFICES ASSUME NEW u \in Taps, NEW w \in Taps, Later(u, w), tap'[w] # "new"
               PROVE  tap'[u] \in Settled
      BY DEF MadeInOrder, Later, SameWrite
  <2>1. CASE w = v
    <3>1. u # v
        BY <2>1, ConstantsAssumption DEF Later
    <3>2. tap[u] \in Settled
        BY <2>1 DEF TapGoes, OutboxInv, MadeInOrder, Live
    <3> QED
        BY <1>1, <3>1, <3>2
  <2>2. CASE w # v
    <3>1. tap[u] \in Settled
        BY <1>1, <2>2 DEF OutboxInv, MadeInOrder
    <3> QED
        BY <1>1, <1>2, <3>1
  <2> QED
      BY <2>1, <2>2
<1>5. \A w \in Taps : Saved(w) => w # v /\ Saved(w)'
    BY <1>1, <1>2 DEF Saved, Settled
<1> QED
    BY <1>1, <1>2, <1>3, <1>4, <1>5

\* A step that leaves the queue's taps alone; a flush may have less to do.
LEMMA QueueStays ==
    ASSUME OutboxInv, TapsIn(queue') = TapsIn(queue), NoTwoVersions(queue) => NoTwoVersions(queue'),
           OutboxTypes', MadeInOrder',
           \A v \in Taps : Saved(v) = Saved(v)' /\ (tap[v] = "queued") = (tap'[v] = "queued"),
           \A i \in DOMAIN flush'.todo : \E j \in DOMAIN flush.todo : flush'.todo[i] = flush.todo[j],
           flush'.pc = "ok" => Calling' \in applied',
           applied \subseteq applied', UNCHANGED <<discarded, overtaken>>
    PROVE  OutboxInv'
<1>1. InQueue = TapsIn(queue) /\ InQueue' = TapsIn(queue')
    BY DEF InQueue, TapsIn
<1>2. \A v \in Taps : Superseded(v) = Superseded(v)'
    BY DEF Superseded, Later, SameWrite
<1>3. InQueue \subseteq Taps /\ \A i \in DOMAIN flush.todo : flush.todo[i] \in Taps
    BY WhatIsThere DEF OutboxInv
<1>4. ToldSo'
    BY <1>1, <1>3 DEF OutboxInv, ToldSo
<1>5. HeldVersions'
  <2>1. \A i \in DOMAIN flush'.todo, v \in InQueue' : Later(flush'.todo[i], v) => v \in overtaken
      BY <1>1 DEF OutboxInv, HeldVersions
  <2> QED
      BY <2>1 DEF HeldVersions, Later, SameWrite
<1>6. QueueIsCurrent'
  <2>1. \A v \in InQueue' : ~Superseded(v)'
      BY <1>1, <1>2, <1>3 DEF OutboxInv, QueueIsCurrent
  <2>2. NoTwoVersions(queue')
      BY DEF OutboxInv, QueueIsCurrent, NoTwoVersions
  <2> QED
      BY <2>1, <2>2 DEF QueueIsCurrent, NoTwoVersions, SameWrite
<1>7. KeptUnlessOvertaken'
    BY <1>1, <1>2 DEF OutboxInv, KeptUnlessOvertaken
<1> QED
    BY <1>4, <1>5, <1>6, <1>7 DEF OutboxInv

\* The step that queues v replaces an earlier version, never a later one.
LEMMA Queueing ==
    ASSUME OutboxInv, NEW v \in Taps, Enqueue(v), TapGoes(v, "queued"),
           session' \in Techs \cup {None}, UNCHANGED <<flush, applied, discarded>>
    PROVE  OutboxInv'
<1>1. NoTwoVersions(queue) /\ queue \in Seq(OutboxItem)
    BY DEF OutboxInv, QueueIsCurrent, NoTwoVersions, OutboxTypes
<1>2. /\ queue' \in Seq(OutboxItem) /\ NoTwoVersions(queue')
      /\ TapsIn(queue') = {v} \cup {t \in TapsIn(queue) : ~SameWrite(t, v)}
    BY <1>1, EnqueuedIs DEF Enqueue
<1>3. InQueue = TapsIn(queue) /\ InQueue' = TapsIn(queue')
    BY DEF InQueue, TapsIn
<1>4. /\ tap' \in [Taps -> {"new"} \cup Settled \cup Live]
      /\ tap'[v] = "queued" /\ \A u \in Taps \ {v} : tap'[u] = tap[u]
      /\ tap[v] \notin Settled
      /\ MadeInOrder'
      /\ \A w \in Taps : Later(v, w) => tap[w] = "new"
      /\ \A w \in Taps : Saved(w) => w # v /\ Saved(w)'
    BY TapGoing
<1>5. InQueue \subseteq Taps /\ \A i \in DOMAIN flush.todo : flush.todo[i] \in Taps
    BY WhatIsThere DEF OutboxInv
<1>6. OutboxTypes'
    BY <1>2, <1>4 DEF OutboxInv, OutboxTypes
<1>7. ToldSo'
    BY <1>2, <1>3, <1>4, <1>5 DEF OutboxInv, ToldSo
<1>8. overtaken \subseteq overtaken'
    BY DEF Enqueue
<1>9. HeldVersions'
  <2>1. ASSUME NEW i \in DOMAIN flush.todo, NEW u \in InQueue', Later(flush.todo[i], u)
        PROVE  u \in overtaken'
    <3>1. CASE u = v
        BY <2>1, <3>1 DEF Enqueue, HeldByFlush
    <3>2. CASE u # v
        BY <2>1, <3>2, <1>2, <1>3, <1>8 DEF OutboxInv, HeldVersions
    <3> QED
        BY <3>1, <3>2
  <2> QED
      BY <2>1 DEF OutboxInv, HeldVersions, Later, SameWrite, Calling
<1>10. \A u \in Taps : u # v => Saved(u)' = Saved(u)
    BY <1>4 DEF Saved
<1>11. QueueIsCurrent'
  <2>1. ASSUME NEW u \in InQueue' PROVE ~Superseded(u)'
    <3>1. CASE u = v
      <4>1. \A w \in Taps : Later(v, w) => ~Saved(w)'
        <5>1. \A w \in Taps : Later(v, w) => w # v /\ tap[w] = "new"
            BY <1>4, ConstantsAssumption DEF Later
        <5> QED
            BY <5>1, <1>4 DEF Saved
      <4> QED
          BY <3>1, <4>1 DEF Superseded, Later, SameWrite
    <3>2. CASE u # v
      <4>1. u \in InQueue /\ ~SameWrite(u, v)
          BY <3>2, <1>2, <1>3
      <4>2. \A w \in Taps : Later(u, w) => w # v /\ ~Saved(w)
          BY <4>1 DEF OutboxInv, QueueIsCurrent, Superseded, Later
      <4> QED
          BY <4>2, <1>10 DEF Superseded, Later, SameWrite
    <3> QED
        BY <3>1, <3>2
  <2> QED
      BY <2>1, <1>2 DEF QueueIsCurrent, NoTwoVersions, SameWrite
<1>12. KeptUnlessOvertaken'
  <2> SUFFICES ASSUME NEW u \in Taps, tap'[u] = "queued",
                      u \notin InQueue' \cup applied' \cup discarded' \cup overtaken'
               PROVE  Superseded(u)'
      BY DEF KeptUnlessOvertaken
  <2>1. u # v /\ tap[u] = "queued"
      BY <1>2, <1>3, <1>4
  <2>2. CASE u \in InQueue
    <3>1. SameWrite(u, v)
        BY <1>2, <1>3, <2>2
    <3>2. ~Later(v, u)
        BY <1>4, <2>1
    <3>3. Later(u, v)
        BY <2>1, <3>1, <3>2, SameWriteIsAnEquivalence, ConstantsAssumption DEF Later
    <3> QED
        BY <1>4, <3>3 DEF Superseded, Saved, Later, SameWrite
  <2>3. CASE u \notin InQueue
    <3>1. Superseded(u)
        BY <1>8, <2>1, <2>3 DEF OutboxInv, KeptUnlessOvertaken
    <3> QED
        BY <1>4, <3>1 DEF Superseded, Later, SameWrite
  <2> QED
      BY <2>2, <2>3
<1> QED
    BY <1>6, <1>4, <1>7, <1>9, <1>11, <1>12 DEF OutboxInv

LEMMA TapOfflineKeeps == ASSUME OutboxInv, NEW v \in Taps, TapOffline(v) PROVE OutboxInv'
<1>1. TapGoes(v, "queued")
    BY DEF TapOffline, CanTap, TapGoes, Settled
<1> QED
    BY <1>1, Queueing DEF TapOffline, OutboxInv, OutboxTypes

LEMMA OutcomesAre ==
    ASSUME NEW o \in Outcomes
    PROVE  o.heard \in Live \cup {"rejected"} /\ (o.heard = "ok" => o.done = TRUE)
<1>1. CASE o \in {[done |-> TRUE, heard |-> "ok"]}
    BY <1>1 DEF Live
<1>2. CASE o \in [done : {FALSE}, heard : {"rejected", "unauthorized", "error"}]
    BY <1>2 DEF Live
<1>3. CASE o \in [done : BOOLEAN, heard : {"unreachable"}]
    BY <1>3 DEF Live
<1> QED
    BY <1>1, <1>2, <1>3 DEF Outcomes

LEMMA TapOnlineKeeps ==
    ASSUME OutboxInv, NEW v \in Taps, NEW o \in Outcomes, TapOnline(v, o)
    PROVE  OutboxInv'
<1>1. TapGoes(v, o.heard) /\ o.heard \in Live \cup {"rejected"}
    BY OutcomesAre DEF TapOnline, CanTap, TapGoes, Settled
<1>2. /\ tap' \in [Taps -> {"new"} \cup Settled \cup Live]
      /\ tap'[v] = o.heard /\ \A u \in Taps \ {v} : tap'[u] = tap[u]
      /\ tap[v] \notin Settled /\ MadeInOrder'
    BY <1>1, TapGoing
<1>3. \A u \in Taps : Saved(u) = Saved(u)' /\ (tap[u] = "queued") = (tap'[u] = "queued")
  <2>1. tap'[v] \notin {"done", "queued"} /\ tap[v] \notin {"done", "queued"}
      BY <1>1, <1>2 DEF Live, Settled
  <2> QED
      BY <1>2, <2>1 DEF Saved
<1>4. OutboxTypes' /\ applied \subseteq applied'
    BY <1>2 DEF OutboxInv, OutboxTypes, TapOnline, Serve
<1>5. flush'.pc = "ok" => Calling' \in applied'
    BY <1>4 DEF OutboxInv, HeldVersions, TapOnline, Calling
<1> QED
    BY <1>2, <1>3, <1>4, <1>5, QueueStays DEF TapOnline

\* Every version of c's write leaves the queue, for a reason.
LEMMA Removing ==
    ASSUME OutboxInv, NEW c \in Taps, queue' = Removed(queue, c),
           queue' \in Seq(OutboxItem) => OutboxTypes', MadeInOrder',
           \A u \in Taps : u # c => Saved(u)' = Saved(u),
           \A u \in Taps : Saved(u) => Saved(u)',
           \A u \in Taps : (tap[u] = "queued") = (tap'[u] = "queued"),
           \A i \in DOMAIN flush'.todo : \E j \in DOMAIN flush.todo : flush'.todo[i] = flush.todo[j],
           flush'.pc = "ok" => Calling' \in applied',
           applied \subseteq applied', discarded \subseteq discarded', overtaken' = overtaken,
           \A u \in InQueue : SameWrite(u, c) =>
             u \in applied' \cup discarded' \cup overtaken' \/ Superseded(u)'
    PROVE  OutboxInv'
<1>1. NoTwoVersions(queue) /\ queue \in Seq(OutboxItem)
    BY DEF OutboxInv, QueueIsCurrent, NoTwoVersions, OutboxTypes
<1>2. /\ queue' \in Seq(OutboxItem) /\ NoTwoVersions(queue')
      /\ TapsIn(queue') = {t \in TapsIn(queue) : ~SameWrite(t, c)}
    BY <1>1, RemovedIs
<1>3. InQueue = TapsIn(queue) /\ InQueue' = TapsIn(queue')
    BY DEF InQueue, TapsIn
<1>4. OutboxTypes'
    BY <1>2
<1>5. InQueue \subseteq Taps /\ \A i \in DOMAIN flush.todo : flush.todo[i] \in Taps
    BY WhatIsThere DEF OutboxInv
<1>6. ToldSo'
  <2>1. \A u \in InQueue' : tap'[u] = "queued"
      BY <1>2, <1>3, <1>5 DEF OutboxInv, ToldSo
  <2>2. \A i \in DOMAIN flush'.todo : tap'[flush'.todo[i]] = "queued"
      BY <1>5 DEF OutboxInv, ToldSo
  <2> QED
      BY <2>1, <2>2 DEF ToldSo
<1>7. HeldVersions'
  <2>1. \A i \in DOMAIN flush'.todo, u \in InQueue' : Later(flush'.todo[i], u) => u \in overtaken'
      BY <1>2, <1>3 DEF OutboxInv, HeldVersions
  <2> QED
      BY <2>1 DEF HeldVersions, Later, SameWrite
<1>8. QueueIsCurrent'
  <2>1. ASSUME NEW u \in InQueue' PROVE ~Superseded(u)'
    <3>1. u \in InQueue /\ ~SameWrite(u, c)
        BY <1>2, <1>3
    <3>2. \A w \in Taps : Later(u, w) => w # c /\ ~Saved(w)
        BY <3>1 DEF OutboxInv, QueueIsCurrent, Superseded, Later
    <3> QED
        BY <3>2 DEF Superseded, Later, SameWrite
  <2> QED
      BY <2>1, <1>2 DEF QueueIsCurrent, NoTwoVersions, SameWrite
<1>9. KeptUnlessOvertaken'
  <2> SUFFICES ASSUME NEW u \in Taps, tap'[u] = "queued",
                      u \notin InQueue' \cup applied' \cup discarded' \cup overtaken'
               PROVE  Superseded(u)'
      BY DEF KeptUnlessOvertaken
  <2>1. CASE u \in InQueue
    <3>1. SameWrite(u, c)
        BY <1>2, <1>3, <2>1
    <3> QED
        BY <2>1, <3>1
  <2>2. CASE u \notin InQueue
    <3>1. Superseded(u)
        BY <2>2 DEF OutboxInv, KeptUnlessOvertaken
    <3> QED
        BY <3>1 DEF Superseded, Later, SameWrite
  <2> QED
      BY <2>1, <2>2
<1> QED
    BY <1>4, <1>6, <1>7, <1>8, <1>9 DEF OutboxInv

LEMMA SettleLiveKeeps == ASSUME OutboxInv, NEW v \in Taps, SettleLive(v) PROVE OutboxInv'
<1>1. CASE LiveOk(v)
  <2>1. TapGoes(v, "done")
      BY <1>1 DEF LiveOk, TapGoes, Settled, Live
  <2>2. /\ tap' \in [Taps -> {"new"} \cup Settled \cup Live]
        /\ tap'[v] = "done" /\ \A u \in Taps \ {v} : tap'[u] = tap[u]
        /\ MadeInOrder'
        /\ \A w \in Taps : Later(v, w) => tap[w] = "new"
        /\ \A w \in Taps : Saved(w) => w # v /\ Saved(w)'
      BY <2>1, TapGoing
  <2>3. /\ queue' = Removed(queue, v)
        /\ UNCHANGED <<session, flush, applied, discarded, overtaken>>
      BY <1>1 DEF SettleLive, LiveOk
  <2>4. queue' \in Seq(OutboxItem) => OutboxTypes'
      BY <2>2, <2>3 DEF OutboxInv, OutboxTypes
  <2>5. \A u \in InQueue : SameWrite(u, v) => Superseded(u)'
    <3> SUFFICES ASSUME NEW u \in InQueue, SameWrite(u, v) PROVE Superseded(u)'
        OBVIOUS
    <3>1. u \in Taps /\ tap[u] = "queued"
        BY WhatIsThere DEF OutboxInv, ToldSo
    <3>2. u # v
        BY <3>1, <1>1 DEF LiveOk
    <3>3. Later(u, v)
        BY <2>2, <3>1, <3>2, SameWriteIsAnEquivalence, ConstantsAssumption DEF Later
    <3> QED
        BY <2>2, <3>3 DEF Superseded, Saved, Later, SameWrite
  <2>6. \A u \in Taps : /\ (u # v => Saved(u)' = Saved(u)) /\ (Saved(u) => Saved(u)')
                        /\ (tap[u] = "queued") = (tap'[u] = "queued")
      BY <1>1, <2>2 DEF Saved, LiveOk
  <2> QED
      BY <2>2, <2>3, <2>4, <2>5, <2>6, Removing DEF OutboxInv, HeldVersions, Calling
<1>2. CASE LiveUnauthorized(v)
  <2>1. TapGoes(v, "rejected")
      BY <1>2 DEF LiveUnauthorized, TapGoes, Settled, Live
  <2>2. /\ tap' \in [Taps -> {"new"} \cup Settled \cup Live]
        /\ tap'[v] = "rejected" /\ \A u \in Taps \ {v} : tap'[u] = tap[u]
        /\ MadeInOrder'
      BY <2>1, TapGoing
  <2>3. /\ session' = None
        /\ UNCHANGED <<queue, flush, applied, discarded, overtaken>>
      BY <1>2 DEF SettleLive, LiveUnauthorized
  <2>4. \A u \in Taps : Saved(u) = Saved(u)' /\ (tap[u] = "queued") = (tap'[u] = "queued")
      BY <1>2, <2>2 DEF LiveUnauthorized, Saved
  <2>5. OutboxTypes'
      BY <2>2, <2>3 DEF OutboxInv, OutboxTypes
  <2> QED
      BY <2>2, <2>3, <2>4, <2>5, QueueStays DEF OutboxInv, HeldVersions, Calling
<1>3. CASE LiveTransient(v)
  <2>1. TapGoes(v, "queued")
      BY <1>3 DEF LiveTransient, TapGoes, Settled, Live
  <2> QED
      BY <1>3, <2>1, Queueing DEF LiveTransient, SettleLive, OutboxInv, OutboxTypes
<1> QED
    BY <1>1, <1>2, <1>3 DEF SettleLive

-----------------------------------------------------------------------------
(* The flush                                                                 *)

\* The rest of a snapshot holds what the snapshot held.
LEMMA GoingOn ==
    ASSUME OutboxTypes, flush.pc # "idle", Continue \/ Break
    PROVE  /\ flush' \in [pc : FlushPC, todo : Seq(Taps)]
           /\ flush'.pc \in {"idle", "next"}
           /\ flush'.pc # "idle" => flush'.todo # <<>>
           /\ \A i \in DOMAIN flush'.todo : \E j \in DOMAIN flush.todo : flush'.todo[i] = flush.todo[j]
<1>1. CASE flush' = Idle
    BY <1>1 DEF Idle, FlushPC
<1>2. CASE Len(flush.todo) # 1 /\ flush' = [pc |-> "next", todo |-> Tail(flush.todo)]
  <2> DEFINE q == flush.todo
  <2>1. q \in Seq(Taps) /\ q # <<>> /\ Len(q) \in Nat /\ Len(q) # 1 /\ DOMAIN q = 1..Len(q)
      BY <1>2 DEF OutboxTypes
  <2> HIDE DEF q
  <2>2. Tail(q) \in Seq(Taps) /\ Len(Tail(q)) = Len(q) - 1
      BY <2>1
  <2>3. DOMAIN Tail(q) = 1..(Len(q) - 1) /\ Tail(q) # <<>>
    <3>1. \A r \in Seq(Taps) : DOMAIN r = 1..Len(r) /\ (Len(r) # 0 => r # <<>>)
        OBVIOUS
    <3> QED
        BY <3>1, <2>1, <2>2
  <2>4. \A i \in 1..(Len(q) - 1) : Tail(q)[i] = q[i + 1] /\ i + 1 \in 1..Len(q)
      BY <2>1
  <2> QED
      BY <1>2, <2>1, <2>2, <2>3, <2>4 DEF q, FlushPC
<1> QED
    BY <1>1, <1>2 DEF Continue, Break

LEMMA StartFlushKeeps == ASSUME OutboxInv, StartFlush PROVE OutboxInv'
<1> DEFINE keep == {x \in Range(queue) : x.status = "queued" /\ x.tech = session}
           m == Mine(queue)
<1>1. queue \in Seq(OutboxItem) /\ NoTwoVersions(queue)
    BY DEF OutboxInv, OutboxTypes, QueueIsCurrent, NoTwoVersions
<1>2. m = Filtered(queue, keep)
    BY DEF Mine
<1> HIDE DEF m, keep
<1>3. m \in Seq(OutboxItem) /\ TapsIn(m) \subseteq TapsIn(queue)
  <2>1. /\ m \in Seq(OutboxItem)
        /\ TapsIn(m) = {queue[i].tap : i \in {j \in DOMAIN queue : queue[j] \in keep}}
      BY <1>1, <1>2, FilteredQueue
  <2>2. {queue[i].tap : i \in {j \in DOMAIN queue : queue[j] \in keep}} \subseteq TapsIn(queue)
      BY DEF TapsIn
  <2> QED
      BY <2>1, <2>2
<1>4. \A i \in DOMAIN m : m[i].tap \in Taps /\ m[i].tap \in TapsIn(queue)
  <2>1. \A i \in DOMAIN m : m[i] \in OutboxItem
      BY <1>3
  <2> QED
      BY <1>3, <2>1 DEF OutboxItem, TapsIn
<1> DEFINE s == Snapshot
<1>5. s = [i \in DOMAIN m |-> m[i].tap]
    BY DEF Snapshot, m
<1> HIDE DEF s
<1>6. s \in Seq(Taps) /\ DOMAIN s = DOMAIN m
    BY <1>3, <1>4, <1>5
<1>7. \A i \in DOMAIN s : s[i] \in InQueue
    BY <1>4, <1>5, <1>6 DEF TapsIn, InQueue
<1>8. /\ flush' = [pc |-> "next", todo |-> s] /\ s # <<>>
      /\ UNCHANGED <<queue, session, tap, applied, discarded, overtaken>>
    BY DEF StartFlush, s, historyVars
<1>9. OutboxTypes'
    BY <1>6, <1>8 DEF OutboxInv, OutboxTypes, FlushPC
<1>10. MadeInOrder' /\ KeptUnlessOvertaken' /\ QueueIsCurrent'
    BY <1>8 DEF OutboxInv, MadeInOrder, KeptUnlessOvertaken, QueueIsCurrent, InQueue, Superseded,
                Saved, Later, SameWrite
<1>11. ToldSo'
    BY <1>7, <1>8 DEF OutboxInv, ToldSo, InQueue
<1>12. HeldVersions'
  <2>1. ASSUME NEW i \in DOMAIN s, NEW v \in InQueue, Later(s[i], v) PROVE FALSE
    <3>1. s[i] = v
        BY <1>7, <2>1 DEF OutboxInv, QueueIsCurrent, InQueue, Later
    <3>2. v \in Nat
        BY <2>1, WhatIsThere, ConstantsAssumption DEF OutboxInv
    <3> QED
        BY <2>1, <3>1, <3>2 DEF Later
  <2> QED
      BY <2>1, <1>8 DEF HeldVersions, InQueue, Later, SameWrite
<1> QED
    BY <1>9, <1>10, <1>11, <1>12 DEF OutboxInv

LEMMA FlushCallKeeps == ASSUME OutboxInv, NEW o \in Outcomes, FlushCall(o) PROVE OutboxInv'
<1>1. /\ flush.pc = "next" /\ flush' = [flush EXCEPT !.pc = o.heard]
      /\ UNCHANGED <<queue, tap, discarded, overtaken, session>>
    BY DEF FlushCall
<1>2. o.heard \in FlushPC \ {"idle"} /\ (o.heard = "ok" => o.done = TRUE)
    BY OutcomesAre DEF FlushPC, Live
<1>3. /\ flush' \in [pc : FlushPC, todo : Seq(Taps)]
      /\ flush'.pc = o.heard /\ flush'.todo = flush.todo
    BY <1>1, <1>2 DEF OutboxInv, OutboxTypes
<1>4. OutboxTypes' /\ MadeInOrder'
    BY <1>1, <1>3 DEF OutboxInv, OutboxTypes, MadeInOrder, Later, SameWrite
<1>5. applied' = IF o.done THEN applied \cup {Calling} ELSE applied
    BY DEF FlushCall, Serve
<1>6. applied \subseteq applied' /\ (flush'.pc = "ok" => Calling' \in applied')
  <2>1. Calling' = Calling
      BY <1>3 DEF Calling
  <2> QED
      BY <1>2, <1>3, <1>5, <2>1
<1>7. /\ TapsIn(queue') = TapsIn(queue) /\ (NoTwoVersions(queue) => NoTwoVersions(queue'))
      /\ \A v \in Taps : Saved(v) = Saved(v)' /\ (tap[v] = "queued") = (tap'[v] = "queued")
    BY <1>1 DEF Saved
<1> QED
    BY <1>1, <1>3, <1>4, <1>6, <1>7, QueueStays

\* A flush that has had its answer changes the status or attempts of an item, or nothing.
LEMMA Marking ==
    ASSUME OutboxInv, SameTaps(queue, queue'), UNCHANGED <<session, tap, applied, discarded, overtaken>>,
           flush' \in [pc : FlushPC, todo : Seq(Taps)], flush'.pc # "idle" => flush'.todo # <<>>,
           flush'.pc # "ok",
           \A i \in DOMAIN flush'.todo : \E j \in DOMAIN flush.todo : flush'.todo[i] = flush.todo[j]
    PROVE  OutboxInv'
<1>1. TapsIn(queue') = TapsIn(queue) /\ (NoTwoVersions(queue) => NoTwoVersions(queue'))
    BY SameTapsIs
<1>2. OutboxTypes' /\ MadeInOrder'
    BY DEF OutboxInv, OutboxTypes, MadeInOrder, Later, SameWrite, SameTaps
<1>3. \A v \in Taps : Saved(v) = Saved(v)' /\ (tap[v] = "queued") = (tap'[v] = "queued")
    BY DEF Saved
<1> QED
    BY <1>1, <1>2, <1>3, QueueStays

LEMMA QueueHasItsTaps == ASSUME OutboxInv PROVE queue \in Seq(OutboxItem) /\ SameTaps(queue, queue)
    BY DEF OutboxInv, OutboxTypes, SameTaps

\* Whatever versions of the write it sent a flush removes, each was applied or
\* came later, while the flush held the one it sent.
LEMMA FlushOkKeeps ==
    ASSUME OutboxInv, FlushOk, UNCHANGED <<session, tap, applied, discarded, overtaken>>
    PROVE  OutboxInv'
<1>1. flush.pc = "ok" /\ queue' = Removed(queue, Calling) /\ Continue
    BY DEF FlushOk
<1>2. Calling \in Taps /\ 1 \in DOMAIN flush.todo /\ Calling = flush.todo[1] /\ InQueue \subseteq Taps
    BY <1>1, WhatIsThere DEF OutboxInv
<1>3. Calling \in applied /\ tap[Calling] = "queued"
    BY <1>1, <1>2 DEF OutboxInv, HeldVersions, ToldSo
<1>4. \A u \in InQueue : SameWrite(u, Calling) => u \in applied' \cup overtaken'
  <2> SUFFICES ASSUME NEW u \in InQueue, SameWrite(u, Calling) PROVE u \in applied \cup overtaken
      OBVIOUS
  <2>1. CASE Later(Calling, u)
      BY <1>2, <2>1 DEF OutboxInv, HeldVersions
  <2>2. CASE Later(u, Calling)
      BY <1>2, <1>3, <2>2 DEF OutboxInv, QueueIsCurrent, Superseded, Saved
  <2>3. CASE u = Calling
      BY <1>3, <2>3
  <2> QED
      BY <1>2, <2>1, <2>2, <2>3, SameWriteIsAnEquivalence, ConstantsAssumption DEF Later
<1>5. /\ flush' \in [pc : FlushPC, todo : Seq(Taps)]
      /\ flush'.pc \in {"idle", "next"}
      /\ flush'.pc # "idle" => flush'.todo # <<>>
      /\ \A i \in DOMAIN flush'.todo : \E j \in DOMAIN flush.todo : flush'.todo[i] = flush.todo[j]
    BY <1>1, GoingOn DEF OutboxInv
<1>6. (queue' \in Seq(OutboxItem) => OutboxTypes') /\ MadeInOrder'
    BY <1>5 DEF OutboxInv, OutboxTypes, MadeInOrder, Later, SameWrite
<1>7. \A v \in Taps : Saved(v) = Saved(v)' /\ (tap[v] = "queued") = (tap'[v] = "queued")
    BY DEF Saved
<1> QED
    BY <1>1, <1>2, <1>4, <1>5, <1>6, <1>7, Removing

LEMMA SettleFlushKeeps == ASSUME OutboxInv, SettleFlush PROVE OutboxInv'
<1>1. UNCHANGED <<session, tap, applied, discarded, overtaken>>
    BY DEF SettleFlush, historyVars
<1>2. queue \in Seq(OutboxItem) /\ SameTaps(queue, queue)
    BY QueueHasItsTaps
<1>3. flush.pc # "idle" /\ (Continue \/ Break) =>
        /\ flush' \in [pc : FlushPC, todo : Seq(Taps)]
        /\ flush'.pc # "ok"
        /\ flush'.pc # "idle" => flush'.todo # <<>>
        /\ \A i \in DOMAIN flush'.todo : \E j \in DOMAIN flush.todo : flush'.todo[i] = flush.todo[j]
    BY GoingOn DEF OutboxInv
<1>4. CASE FlushOk
    BY <1>1, <1>4, FlushOkKeeps
<1>5. CASE FlushRejected
  <2>1. SameTaps(queue, queue')
      BY <1>2, <1>5, ChangesKeepTheTaps DEF FlushRejected
  <2> QED
      BY <1>1, <1>3, <1>5, <2>1, Marking DEF FlushRejected
<1>6. CASE FlushError
  <2>1. SameTaps(queue, queue')
      BY <1>2, <1>6, ChangesKeepTheTaps DEF FlushError
  <2>2. CASE Break
      BY <1>1, <1>3, <1>6, <2>1, <2>2, Marking DEF FlushError
  <2>3. CASE flush' = [flush EXCEPT !.pc = "exhausted"]
    <3>1. /\ flush' \in [pc : FlushPC, todo : Seq(Taps)]
          /\ flush'.pc = "exhausted" /\ flush'.todo = flush.todo /\ flush.todo # <<>>
        BY <1>6, <2>3 DEF OutboxInv, OutboxTypes, FlushPC, FlushError
    <3> QED
        BY <1>1, <2>1, <3>1, Marking
  <2> QED
      BY <1>6, <2>2, <2>3 DEF FlushError
<1>7. CASE FlushUnreachable
    BY <1>1, <1>2, <1>3, <1>7, Marking DEF FlushUnreachable
<1> QED
    BY <1>4, <1>5, <1>6, <1>7 DEF SettleFlush

LEMMA ParkingKeeps == ASSUME OutboxInv, EndSession \/ Park PROVE OutboxInv'
<1>1. queue' = queue /\ SameTaps(queue, queue)
    BY QueueHasItsTaps DEF EndSession, Park
<1>2. CASE EndSession
  <2>1. /\ flush' \in [pc : FlushPC, todo : Seq(Taps)]
        /\ flush'.pc = "parking" /\ flush'.todo = flush.todo /\ flush.todo # <<>>
      BY <1>2 DEF OutboxInv, OutboxTypes, FlushPC, EndSession
  <2>2. OutboxTypes' /\ MadeInOrder'
      BY <1>1, <1>2, <2>1 DEF OutboxInv, OutboxTypes, MadeInOrder, Later, SameWrite, EndSession
  <2>3. /\ TapsIn(queue') = TapsIn(queue) /\ (NoTwoVersions(queue) => NoTwoVersions(queue'))
        /\ \A v \in Taps : Saved(v) = Saved(v)' /\ (tap[v] = "queued") = (tap'[v] = "queued")
        /\ UNCHANGED <<applied, discarded, overtaken>>
      BY <1>1, <1>2 DEF Saved, EndSession, historyVars
  <2> QED
      BY <2>1, <2>2, <2>3, QueueStays
<1>3. CASE Park
  <2>1. UNCHANGED <<session, tap, applied, discarded, overtaken>>
      BY <1>3 DEF Park, historyVars
  <2>2. flush' = Idle /\ flush' \in [pc : FlushPC, todo : Seq(Taps)] /\ DOMAIN flush'.todo = {}
      BY <1>3 DEF Park, Break, Idle, FlushPC
  <2> QED
      BY <1>1, <2>1, <2>2, Marking DEF Idle
<1> QED
    BY <1>2, <1>3

-----------------------------------------------------------------------------
(* The technician and the app                                                *)

LEMMA RetryKeeps == ASSUME OutboxInv, NEW v \in Taps, Retry(v) PROVE OutboxInv'
<1>1. SameTaps(queue, queue')
    BY QueueHasItsTaps, ChangesKeepTheTaps DEF Retry
<1>2. UNCHANGED <<session, tap, flush, applied, discarded, overtaken>>
    BY DEF Retry, historyVars
<1>3. TapsIn(queue') = TapsIn(queue) /\ (NoTwoVersions(queue) => NoTwoVersions(queue'))
    BY <1>1, SameTapsIs
<1>4. OutboxTypes' /\ MadeInOrder' /\ (flush'.pc = "ok" => Calling' \in applied')
    BY <1>1, <1>2 DEF OutboxInv, OutboxTypes, MadeInOrder, Later, SameWrite, SameTaps, HeldVersions, Calling
<1>5. \A w \in Taps : Saved(w) = Saved(w)' /\ (tap[w] = "queued") = (tap'[w] = "queued")
    BY <1>2 DEF Saved
<1> QED
    BY <1>2, <1>3, <1>4, <1>5, QueueStays

\* One version of a write is in the queue, so the one discarded is the one that leaves.
LEMMA DiscardKeeps == ASSUME OutboxInv, NEW v \in Taps, Discard(v) PROVE OutboxInv'
<1>1. UNCHANGED <<session, tap, flush, applied, overtaken>> /\ discarded' = discarded \cup {v}
    BY DEF Discard
<1>2. queue' = Removed(queue, v) /\ v \in InQueue
    BY DEF Discard, InQueue
<1>3. \A u \in InQueue : SameWrite(u, v) => u = v
    BY <1>2 DEF OutboxInv, QueueIsCurrent, InQueue
<1>4. (queue' \in Seq(OutboxItem) => OutboxTypes') /\ MadeInOrder' /\ (flush'.pc = "ok" => Calling' \in applied')
    BY <1>1 DEF OutboxInv, OutboxTypes, MadeInOrder, Later, SameWrite, HeldVersions, Calling
<1>5. \A w \in Taps : Saved(w) = Saved(w)' /\ (tap[w] = "queued") = (tap'[w] = "queued")
    BY <1>1 DEF Saved
<1> QED
    BY <1>1, <1>2, <1>3, <1>4, <1>5, Removing

LEMMA SigningKeeps == ASSUME OutboxInv, Logout \/ \E t \in Techs : Login(t) PROVE OutboxInv'
<1>1. /\ UNCHANGED <<queue, tap, flush, applied, discarded, overtaken>>
      /\ session' \in Techs \cup {None}
    BY DEF Logout, Login, historyVars
<1>2. OutboxTypes' /\ MadeInOrder' /\ (flush'.pc = "ok" => Calling' \in applied')
    BY <1>1 DEF OutboxInv, OutboxTypes, MadeInOrder, Later, SameWrite, HeldVersions, Calling
<1>3. /\ TapsIn(queue') = TapsIn(queue) /\ (NoTwoVersions(queue) => NoTwoVersions(queue'))
      /\ \A w \in Taps : Saved(w) = Saved(w)' /\ (tap[w] = "queued") = (tap'[w] = "queued")
    BY <1>1 DEF Saved
<1> QED
    BY <1>1, <1>2, <1>3, QueueStays

LEMMA RestartKeeps == ASSUME OutboxInv, Restart PROVE OutboxInv'
<1>1. UNCHANGED <<queue, session, applied, discarded, overtaken>> /\ flush' = Idle
    BY DEF Restart, historyVars
<1>2. /\ tap' \in [Taps -> {"new"} \cup Settled \cup Live]
      /\ \A v \in Taps : tap'[v] = IF tap[v] \in Live THEN "lost" ELSE tap[v]
    BY DEF Restart, OutboxInv, OutboxTypes, Settled
<1>3. \A v \in Taps : /\ tap'[v] # "new" => tap[v] # "new"
                      /\ tap[v] \in Settled => tap'[v] \in Settled
    BY <1>2 DEF Live, Settled
<1>4. MadeInOrder'
    BY <1>3 DEF OutboxInv, MadeInOrder, Later, SameWrite
<1>5. /\ flush' \in [pc : FlushPC, todo : Seq(Taps)] /\ flush'.pc = "idle"
      /\ DOMAIN flush'.todo = {}
    BY <1>1 DEF Idle, FlushPC
<1>6. OutboxTypes'
    BY <1>1, <1>2, <1>5 DEF OutboxInv, OutboxTypes
<1>7. /\ TapsIn(queue') = TapsIn(queue) /\ (NoTwoVersions(queue) => NoTwoVersions(queue'))
      /\ \A w \in Taps : Saved(w) = Saved(w)' /\ (tap[w] = "queued") = (tap'[w] = "queued")
    BY <1>1, <1>2 DEF Saved, Live
<1> QED
    BY <1>1, <1>4, <1>5, <1>6, <1>7, QueueStays

LEMMA OutboxStutters == ASSUME OutboxInv, UNCHANGED vars PROVE OutboxInv'
<1>1. UNCHANGED <<queue, session, tap, flush, applied, discarded, overtaken>>
    BY DEF vars, historyVars
<1>2. OutboxTypes' /\ MadeInOrder' /\ (flush'.pc = "ok" => Calling' \in applied')
    BY <1>1 DEF OutboxInv, OutboxTypes, MadeInOrder, Later, SameWrite, HeldVersions, Calling
<1>3. /\ TapsIn(queue') = TapsIn(queue) /\ (NoTwoVersions(queue) => NoTwoVersions(queue'))
      /\ \A w \in Taps : Saved(w) = Saved(w)' /\ (tap[w] = "queued") = (tap'[w] = "queued")
    BY <1>1 DEF Saved
<1> QED
    BY <1>1, <1>2, <1>3, QueueStays

LEMMA OutboxInvNext == OutboxInv /\ [Next]_vars => OutboxInv'
<1> SUFFICES ASSUME OutboxInv, [Next]_vars PROVE OutboxInv'
    OBVIOUS
<1>1. CASE \E v \in Taps : \/ TapOffline(v) \/ \E o \in Outcomes : TapOnline(v, o)
                           \/ SettleLive(v) \/ Retry(v) \/ Discard(v)
    BY <1>1, TapOfflineKeeps, TapOnlineKeeps, SettleLiveKeeps, RetryKeeps, DiscardKeeps
<1>2. CASE StartFlush \/ SettleFlush \/ \E o \in Outcomes : FlushCall(o)
    BY <1>2, StartFlushKeeps, SettleFlushKeeps, FlushCallKeeps
<1>3. CASE EndSession \/ Park
    BY <1>3, ParkingKeeps
<1>4. CASE Logout \/ Restart \/ \E t \in Techs : Login(t)
    BY <1>4, SigningKeeps, RestartKeeps
<1>5. CASE UNCHANGED vars
    BY <1>5, OutboxStutters
<1> QED
    BY <1>1, <1>2, <1>3, <1>4, <1>5 DEF Next

-----------------------------------------------------------------------------
(* The theorems                                                              *)

\* The types, the order in which versions are made, and what a flush may hold:
\* what sendOrQueue, the mutex of the queue and flushOutbox maintain together.
THEOREM OutboxInvHolds == Spec => []OutboxInv
<1> QED
    BY OutboxInvInit, OutboxInvNext, PTL DEF Spec

\* A write that was queued reaches the server, stays in the queue, gives way to
\* a later version or is discarded by hand, unless a flush held an earlier
\* version when it was queued: removeItem, which flushOutbox calls by id after
\* the await of its send, takes nothing else away.
THEOREM KeptHolds == Spec => []KeptUnlessOvertaken
<1>1. OutboxInv => KeptUnlessOvertaken
    BY DEF OutboxInv
<1> QED
    BY <1>1, OutboxInvHolds, PTL

\* Last write wins: enqueue and the removeItem of sendOrQueue never leave a
\* version in the queue older than one its technician was told is saved.
THEOREM CurrentHolds == Spec => []QueueIsCurrent
<1>1. OutboxInv => QueueIsCurrent
    BY DEF OutboxInv
<1> QED
    BY <1>1, OutboxInvHolds, PTL

-----------------------------------------------------------------------------
(* The drive: its invariant                                                  *)

\* What is in a list.
Items(q) == {q[i] : i \in 1..Len(q)}
Punch == [kind : PunchKinds, at : Nat, pos : Places]
Row   == [kind : PunchKinds, pos : Places, tap : Nat, at : Nat]

\* No breadcrumb but from a tick of the drive, a trusted one from where it was driven.
OnTheRoad ==
    /\ \A s \in crumbs \cup samples : /\ s.at \in Nat /\ s.at - skew \in 1..Now
                                      /\ s.trusted => s.pos = road[s.at - skew]
    /\ \A r, s \in crumbs \cup samples : r.at = s.at => r = s

\* The last punch of each kind is queued or there, unless a flush deleted it, and
\* no later one is, nor in the flush's copy of the outbox.
Made(kind, at) == tapped[kind] # Nowhere /\ at <= tapped[kind] + skew
PunchesKept ==
    /\ \A p \in Items(outbox) \cup Items(todo) : Made(p.kind, p.at)
    /\ \A r \in Items(punched) : Made(r.kind, r.tap) /\ (~late => r.at = r.tap)
    /\ \A k \in PunchKinds \ lost : tapped[k] # Nowhere =>
         \/ \E p \in Items(outbox) : p.kind = k /\ p.at = tapped[k] + skew
         \/ \E r \in Items(punched) : r.kind = k /\ r.tap = tapped[k] + skew

TravelTypeOK ==
    /\ road \in Seq(Places) /\ Now \in Nat /\ Now >= 1
    /\ skew \in Nat /\ late \in BOOLEAN
    /\ tapped \in [PunchKinds -> Nat \cup {Nowhere}]
    /\ \A k \in PunchKinds : tapped[k] # Nowhere => tapped[k] \in 1..Now
    /\ outbox \in Seq(Punch) /\ punched \in Seq(Row)
    /\ todo \in Seq(Punch) /\ (sent => todo # <<>>)

TravelInv == TravelTypeOK /\ OnTheRoad /\ PunchesKept

-----------------------------------------------------------------------------
(* The drive: lists of punches                                               *)

LEMMA ItemsAppend ==
    ASSUME NEW S, NEW q \in Seq(S), NEW x \in S
    PROVE  Append(q, x) \in Seq(S) /\ Items(Append(q, x)) = Items(q) \cup {x} /\ Append(q, x) # q
<1> DEFINE r == Append(q, x)
<1>1. /\ Len(q) \in Nat /\ r \in Seq(S) /\ Len(r) = Len(q) + 1 /\ r[Len(q) + 1] = x
      /\ \A i \in 1..Len(q) : r[i] = q[i]
    BY AppendProperties
<1> HIDE DEF r
<1>2. Items(r) \subseteq Items(q) \cup {x}
  <2> SUFFICES ASSUME NEW i \in 1..Len(r) PROVE r[i] \in Items(q) \cup {x}
      BY DEF Items
  <2>1. i \in 1..Len(q) \/ i = Len(q) + 1
      BY <1>1
  <2> QED
      BY <1>1, <2>1 DEF Items
<1>3. Items(q) \cup {x} \subseteq Items(r)
  <2>1. Len(q) + 1 \in 1..Len(r) /\ \A i \in 1..Len(q) : i \in 1..Len(r)
      BY <1>1
  <2> QED
      BY <1>1, <2>1 DEF Items
<1>4. r # q
    BY <1>1
<1> QED
    BY <1>1, <1>2, <1>3, <1>4 DEF r

LEMMA ItemsTail ==
    ASSUME NEW S, NEW q \in Seq(S), q # <<>>
    PROVE  Tail(q) \in Seq(S) /\ Head(q) \in Items(q) /\ Head(q) \in S /\ Items(q) = Items(Tail(q)) \cup {Head(q)}
<1> DEFINE r == Tail(q)
           n == Len(q)
<1>1. /\ n \in Nat /\ n # 0 /\ r \in Seq(S) /\ Len(r) = n - 1 /\ Head(q) = q[1]
      /\ \A i \in 1..(n - 1) : r[i] = q[i + 1]
    OBVIOUS
<1>2. 1 \in 1..n /\ q[1] \in S
    BY <1>1
<1> HIDE DEF r, n
<1>3. Items(q) \subseteq Items(r) \cup {q[1]}
  <2> SUFFICES ASSUME NEW i \in 1..n PROVE q[i] \in Items(r) \cup {q[1]}
      BY DEF Items, n
  <2>1. CASE i = 1
      BY <2>1
  <2>2. CASE i # 1
    <3>1. i - 1 \in 1..(n - 1) /\ (i - 1) + 1 = i
        BY <1>1, <2>2
    <3>2. r[i - 1] = q[i]
        BY <1>1, <3>1
    <3> QED
        BY <1>1, <3>1, <3>2 DEF Items
  <2> QED
      BY <2>1, <2>2
<1>4. Items(r) \subseteq Items(q)
  <2> SUFFICES ASSUME NEW i \in 1..(n - 1) PROVE r[i] \in Items(q)
      BY <1>1 DEF Items
  <2>1. i + 1 \in 1..n
      BY <1>1
  <2> QED
      BY <1>1, <2>1 DEF Items, n
<1>5. q[1] \in Items(q)
    BY <1>2 DEF Items, n
<1> QED
    BY <1>1, <1>2, <1>3, <1>4, <1>5 DEF r

\* enqueue: the punch is in, others of its kind are out, the rest stays.
LEMMA PunchQueuedIs ==
    ASSUME outbox \in Seq(Punch), NEW punch \in Punch
    PROVE  /\ PunchQueued(punch) \in Seq(Punch) /\ punch \in Items(PunchQueued(punch))
           /\ Items(PunchQueued(punch)) \subseteq Items(outbox) \cup {punch}
           /\ \A p \in Items(outbox) : p.kind # punch.kind => p \in Items(PunchQueued(punch))
<1> DEFINE n == Len(outbox)
           q == PunchQueued(punch)
<1>1. n \in Nat /\ DOMAIN outbox = 1..n /\ \A i \in 1..n : outbox[i] \in Punch
    OBVIOUS
<1>2. CASE \E i \in DOMAIN outbox : outbox[i].kind = punch.kind
  <2>1. q = [i \in 1..n |-> IF outbox[i].kind = punch.kind THEN punch ELSE outbox[i]]
      BY <1>1, <1>2 DEF PunchQueued
  <2> HIDE DEF q
  <2>2. q \in Seq(Punch) /\ Len(q) = n
      BY <1>1, <2>1
  <2> HIDE DEF n
  <2>3. \A i \in 1..n : q[i] = IF outbox[i].kind = punch.kind THEN punch ELSE outbox[i]
      BY <2>1
  <2>4. PICK i \in 1..n : outbox[i].kind = punch.kind
      BY <1>1, <1>2
  <2>5. punch \in Items(q)
      BY <2>2, <2>3, <2>4 DEF Items
  <2>6. Items(q) \subseteq Items(outbox) \cup {punch}
      BY <2>2, <2>3 DEF Items, n
  <2>7. \A p \in Items(outbox) : p.kind # punch.kind => p \in Items(q)
      BY <2>2, <2>3 DEF Items, n
  <2> QED
      BY <2>2, <2>5, <2>6, <2>7 DEF q
<1>3. CASE ~\E i \in DOMAIN outbox : outbox[i].kind = punch.kind
  <2>1. q = Append(outbox, punch)
      BY <1>3 DEF PunchQueued
  <2>2. Append(outbox, punch) \in Seq(Punch) /\ Items(Append(outbox, punch)) = Items(outbox) \cup {punch}
      BY ItemsAppend
  <2> QED
      BY <2>1, <2>2
<1> QED
    BY <1>2, <1>3

\* Array.filter keeps what is to be kept.
LEMMA FilteredItems ==
    ASSUME NEW S, NEW q \in Seq(S), NEW keep
    PROVE  Filtered(q, keep) \in Seq(S) /\ Items(Filtered(q, keep)) = {x \in Items(q) : x \in keep}
<1> DEFINE r == Filtered(q, keep)
<1>1. Sifted(q, keep, Len(q), r)
    BY FilteredIs
<1>2. Range(q) \subseteq S
    BY DEF Range
<1> HIDE DEF r
<1>3. r \in Seq(Range(q)) /\ DOMAIN r = 1..Len(r)
    BY <1>1 DEF Sifted
<1>4. r \in Seq(S)
    BY <1>2, <1>3
<1>5. Items(r) = {x \in Items(q) : x \in keep}
    BY <1>1, <1>3 DEF Sifted, Items
<1> QED
    BY <1>4, <1>5 DEF r

\* record_location: the punch is there, by kind and tap, and nothing else is new.
LEMMA ReceivedIs ==
    ASSUME punched \in Seq(Row), Now \in Nat, NEW punch \in Punch, RecordLocation(punch)
    PROVE  /\ punched' \in Seq(Row) /\ Items(punched) \subseteq Items(punched')
           /\ \E r \in Items(punched') : r.kind = punch.kind /\ r.tap = punch.at
           /\ \A r \in Items(punched') :
                \/ r \in Items(punched)
                \/ r.kind = punch.kind /\ r.tap = punch.at /\ (~late' => r.at = r.tap)
           /\ ~late' => ~late
<1>1. punched' = Received(punched, punch) /\ late' = (late \/ (punched' # punched /\ ~InTrustWindow(punch.at)))
    BY DEF RecordLocation
<1>2. Len(punched) \in Nat /\ DOMAIN punched = 1..Len(punched)
    OBVIOUS
<1>3. CASE \E i \in DOMAIN punched : punched[i].kind = punch.kind /\ punched[i].tap = punch.at
  <2>1. punched' = punched
      BY <1>1, <1>3 DEF Received, AtServer
  <2>2. \E r \in Items(punched) : r.kind = punch.kind /\ r.tap = punch.at
      BY <1>2, <1>3 DEF Items
  <2>3. Items(punched') = Items(punched)
      BY <2>1
  <2> QED
      BY <1>1, <2>1, <2>2, <2>3
<1>4. CASE ~\E i \in DOMAIN punched : punched[i].kind = punch.kind /\ punched[i].tap = punch.at
  <2> DEFINE row == [kind |-> punch.kind, pos |-> punch.pos, tap |-> punch.at,
                     at   |-> IF InTrustWindow(punch.at) THEN punch.at ELSE Now]
  <2>1. punched' = Append(punched, row)
      BY <1>1, <1>4 DEF Received, AtServer
  <2>2. row \in Row /\ row.kind = punch.kind /\ row.tap = punch.at /\ (InTrustWindow(punch.at) => row.at = row.tap)
      BY DEF Row, Punch
  <2> HIDE DEF row
  <2>3. punched' \in Seq(Row) /\ Items(punched') = Items(punched) \cup {row} /\ punched' # punched
      BY <2>1, <2>2, ItemsAppend
  <2> QED
      BY <1>1, <2>2, <2>3
<1> QED
    BY <1>3, <1>4

-----------------------------------------------------------------------------
(* The drive: the steps                                                      *)

LEMMA TravelInvInit == TravelInit => TravelInv
<1> SUFFICES ASSUME TravelInit PROVE TravelInv
    OBVIOUS
<1>1. road = <<0>> /\ 0 \in Places /\ skew \in Nat
    BY TravelAssumption DEF TravelInit, Places
<1>2. road \in Seq(Places) /\ Len(road) = 1
    BY <1>1
<1>3. TravelTypeOK
  <2>1. outbox \in Seq(Punch) /\ punched \in Seq(Row) /\ todo \in Seq(Punch) /\ late \in BOOLEAN /\ ~sent
    <3>1. outbox = <<>> /\ punched = <<>> /\ todo = <<>> /\ late = FALSE /\ sent = FALSE
        BY DEF TravelInit
    <3>2. \A S : <<>> \in Seq(S)
        OBVIOUS
    <3> QED
        BY <3>1, <3>2
  <2>2. tapped \in [PunchKinds -> Nat \cup {Nowhere}] /\ \A k \in PunchKinds : tapped[k] = Nowhere
      BY DEF TravelInit
  <2> QED
      BY <1>1, <1>2, <2>1, <2>2 DEF TravelTypeOK, Now
<1>4. OnTheRoad
    BY DEF TravelInit, OnTheRoad
<1>5. PunchesKept
  <2>1. Items(outbox) = {} /\ Items(punched) = {} /\ Items(todo) = {}
      BY DEF TravelInit, Items
  <2>2. \A k \in PunchKinds : tapped[k] = Nowhere
      BY DEF TravelInit
  <2> QED
      BY <2>1, <2>2 DEF PunchesKept
<1> QED
    BY <1>3, <1>4, <1>5 DEF TravelInv

LEMMA DriveKeeps == ASSUME TravelInv, Drive PROVE TravelInv'
<1>1. PICK p \in Places : road' = Append(road, p)
    BY DEF Drive
<1>2. UNCHANGED <<skew, crumbs, samples, outbox, todo, sent, punched, tapped, lost, late>>
    BY DEF Drive, flushing, history
<1>3. road \in Seq(Places) /\ Now \in Nat /\ Now >= 1 /\ Now = Len(road)
    BY DEF TravelInv, TravelTypeOK, Now
<1>4. road' \in Seq(Places) /\ Now' = Now + 1 /\ \A t \in 1..Now : road'[t] = road[t]
    BY <1>1, <1>3, AppendProperties DEF Now
<1>5. TravelTypeOK'
    BY <1>2, <1>3, <1>4 DEF TravelInv, TravelTypeOK
<1>6. OnTheRoad'
    BY <1>2, <1>3, <1>4 DEF TravelInv, OnTheRoad
<1>7. PunchesKept'
    BY <1>2 DEF TravelInv, PunchesKept, Made
<1> QED
    BY <1>5, <1>6, <1>7 DEF TravelInv

LEMMA FixKeeps == ASSUME TravelInv, Fix PROVE TravelInv'
<1>1. PICK p, trusted : AddCrumb(p, trusted) /\ (trusted => p = Here)
    BY DEF Fix
<1>2. UNCHANGED <<road, skew, samples, outbox, todo, sent, punched, tapped, lost, late>>
    BY DEF Fix, ground, flushing, history
<1> DEFINE s == [leg |-> leg, at |-> PhoneTime, pos |-> p, trusted |-> trusted]
<1>3. crumbs' = crumbs \cup {s}
    BY <1>1 DEF AddCrumb
<1>4. Now \in Nat /\ Now >= 1 /\ skew \in Nat
    BY DEF TravelInv, TravelTypeOK
<1>5. s.at = PhoneTime /\ s.at \in Nat /\ s.at - skew = Now /\ Now \in 1..Now /\ (s.trusted => s.pos = road[Now])
    BY <1>1, <1>4 DEF PhoneTime, Here
<1>6. \A r \in crumbs \cup samples : r.at # s.at
    BY <1>5 DEF Fix
<1> HIDE DEF s
<1>7. TravelTypeOK'
    BY <1>2 DEF TravelInv, TravelTypeOK, Now
<1>8. OnTheRoad'
    BY <1>2, <1>3, <1>5, <1>6 DEF TravelInv, OnTheRoad, Now
<1>9. PunchesKept'
    BY <1>2 DEF TravelInv, PunchesKept, Made
<1> QED
    BY <1>7, <1>8, <1>9 DEF TravelInv

\* A punch on its way: what is queued and what is there afterwards.
Sent(punch) ==
    /\ outbox' \in Seq(Punch) /\ Items(outbox') \subseteq Items(outbox) \cup {punch}
    /\ punched' \in Seq(Row) /\ Items(punched) \subseteq Items(punched')
    /\ \A r \in Items(punched') :
         \/ r \in Items(punched)
         \/ r.kind = punch.kind /\ r.tap = punch.at /\ (~late' => r.at = r.tap)
    /\ ~late' => ~late
    /\ late' \in BOOLEAN
    /\ \/ punch \in Items(outbox')
       \/ \E r \in Items(punched') : r.kind = punch.kind /\ r.tap = punch.at
    /\ \A p \in Items(outbox) : p.kind # punch.kind => p \in Items(outbox')

\* removeItem: nothing of the kind stays, and everything else does.
LEMMA WithoutIs ==
    ASSUME outbox \in Seq(Punch), NEW kind
    PROVE  Without(kind) \in Seq(Punch) /\ Items(Without(kind)) = {p \in Items(outbox) : p.kind # kind}
<1> DEFINE keep == {queued \in Range(outbox) : queued.kind # kind}
<1>1. \A p \in Items(outbox) : p \in keep <=> p.kind # kind
    BY DEF Items, Range
<1>2. Without(kind) = Filtered(outbox, keep)
    BY DEF Without
<1> HIDE DEF keep
<1>3. Filtered(outbox, keep) \in Seq(Punch) /\ Items(Filtered(outbox, keep)) = {x \in Items(outbox) : x \in keep}
    BY FilteredItems
<1> QED
    BY <1>1, <1>2, <1>3

LEMMA SendOrQueueIs == ASSUME TravelInv, NEW punch \in Punch, SendOrQueue(punch) PROVE Sent(punch)
<1>1. outbox \in Seq(Punch) /\ punched \in Seq(Row) /\ Now \in Nat /\ late \in BOOLEAN
    BY DEF TravelInv, TravelTypeOK
<1>2. RecordLocation(punch) => late' \in BOOLEAN
    BY <1>1 DEF RecordLocation
<1>3. CASE RecordLocation(punch) /\ outbox' = Without(punch.kind)
  <2>1. outbox' \in Seq(Punch) /\ Items(outbox') = {p \in Items(outbox) : p.kind # punch.kind}
      BY <1>1, <1>3, WithoutIs
  <2> QED
      BY <1>1, <1>2, <1>3, <2>1, ReceivedIs DEF Sent
<1>4. CASE outbox' = PunchQueued(punch) /\ UNCHANGED <<punched, late>>
  <2>1. punched' = punched /\ late' = late /\ Items(punched') = Items(punched)
      BY <1>4
  <2>2. /\ outbox' \in Seq(Punch) /\ punch \in Items(outbox')
        /\ Items(outbox') \subseteq Items(outbox) \cup {punch}
        /\ \A p \in Items(outbox) : p.kind # punch.kind => p \in Items(outbox')
      BY <1>1, <1>4, PunchQueuedIs
  <2> QED
      BY <1>1, <2>1, <2>2 DEF Sent
<1>5. CASE RecordLocation(punch) /\ outbox' = PunchQueued(punch)
  <2>2. /\ outbox' \in Seq(Punch) /\ punch \in Items(outbox')
        /\ Items(outbox') \subseteq Items(outbox) \cup {punch}
        /\ \A p \in Items(outbox) : p.kind # punch.kind => p \in Items(outbox')
      BY <1>1, <1>5, PunchQueuedIs
  <2> QED
      BY <1>1, <1>2, <1>5, <2>2, ReceivedIs DEF Sent
<1> QED
    BY <1>3, <1>4, <1>5 DEF SendOrQueue

LEMMA TapKeeps ==
    ASSUME TravelInv, NEW kind \in PunchKinds, Tap(kind), UNCHANGED <<road, skew, crumbs, samples, todo, sent>>
    PROVE  TravelInv'
<1> DEFINE punch == [kind |-> kind, at |-> PhoneTime, pos |-> Here]
<1>1. road \in Seq(Places) /\ Now \in Nat /\ Now >= 1 /\ Now = Len(road) /\ skew \in Nat /\ Now' = Now
    BY DEF TravelInv, TravelTypeOK, Now
<1>2. punch \in Punch /\ punch.kind = kind /\ punch.at = Now + skew
    BY <1>1 DEF Punch, PhoneTime, Here
<1>3. SendOrQueue(punch) /\ tapped' = [tapped EXCEPT ![kind] = Now] /\ lost' = lost \ {kind}
    BY DEF Tap
<1> HIDE DEF punch
<1>4. Sent(punch)
    BY <1>2, <1>3, SendOrQueueIs
<1>5. /\ tapped' \in [PunchKinds -> Nat \cup {Nowhere}] /\ tapped'[kind] = Now /\ Now # Nowhere
      /\ \A k \in PunchKinds : k # kind => tapped'[k] = tapped[k]
    BY <1>1, <1>3, RouteAssumption DEF TravelInv, TravelTypeOK
<1>6. TravelTypeOK'
    BY <1>1, <1>4, <1>5 DEF TravelInv, TravelTypeOK, Sent
<1>7. OnTheRoad'
    BY <1>1 DEF TravelInv, OnTheRoad
<1>8. ASSUME NEW k \in PunchKinds, NEW at, Made(k, at), at \in Nat PROVE Made(k, at)'
    BY <1>1, <1>5, <1>8 DEF Made, TravelInv, TravelTypeOK
<1>9. tapped'[kind] # Nowhere /\ punch.at <= tapped'[kind] + skew'
    BY <1>1, <1>2, <1>5
<1>10. /\ \A p \in Items(outbox) \cup Items(todo) : p \in Punch /\ p.kind \in PunchKinds /\ p.at \in Nat
       /\ \A r \in Items(punched) : r \in Row /\ r.kind \in PunchKinds /\ r.tap \in Nat
  <2>1. \A p \in Punch : p.kind \in PunchKinds /\ p.at \in Nat
      BY DEF Punch
  <2>2. \A r \in Row : r.kind \in PunchKinds /\ r.tap \in Nat
      BY DEF Row
  <2>3. Items(outbox) \subseteq Punch /\ Items(todo) \subseteq Punch /\ Items(punched) \subseteq Row
      BY DEF TravelInv, TravelTypeOK, Items
  <2> QED
      BY <2>1, <2>2, <2>3
<1>11. PunchesKept'
  <2>1. \A p \in Items(outbox') \cup Items(todo') : Made(p.kind, p.at)'
    <3> SUFFICES ASSUME NEW p \in Items(outbox') \cup Items(todo') PROVE Made(p.kind, p.at)'
        OBVIOUS
    <3>1. CASE p = punch
        BY <1>2, <1>9, <3>1 DEF Made
    <3>2. CASE p # punch
      <4>1. p \in Items(outbox) \cup Items(todo)
          BY <1>4, <3>2 DEF Sent
      <4>2. Made(p.kind, p.at)
          BY <4>1 DEF TravelInv, PunchesKept
      <4> QED
          BY <1>8, <1>10, <4>1, <4>2
    <3> QED
        BY <3>1, <3>2
  <2>2. \A r \in Items(punched') : Made(r.kind, r.tap)' /\ (~late' => r.at = r.tap)
    <3> SUFFICES ASSUME NEW r \in Items(punched') PROVE Made(r.kind, r.tap)' /\ (~late' => r.at = r.tap)
        OBVIOUS
    <3>1. CASE r \in Items(punched)
      <4>1. Made(r.kind, r.tap) /\ (~late => r.at = r.tap)
          BY <3>1 DEF TravelInv, PunchesKept
      <4>2. Made(r.kind, r.tap)'
          BY <1>8, <1>10, <3>1, <4>1
      <4> QED
          BY <1>4, <4>1, <4>2 DEF Sent
    <3>2. CASE r \notin Items(punched)
      <4>1. r.kind = kind /\ r.tap = punch.at /\ (~late' => r.at = r.tap)
          BY <1>2, <1>4, <3>2 DEF Sent
      <4> QED
          BY <1>9, <4>1 DEF Made
    <3> QED
        BY <3>1, <3>2
  <2>3. ASSUME NEW k \in PunchKinds \ lost', tapped'[k] # Nowhere
        PROVE  \/ \E p \in Items(outbox') : p.kind = k /\ p.at = tapped'[k] + skew'
               \/ \E r \in Items(punched') : r.kind = k /\ r.tap = tapped'[k] + skew'
    <3>1. CASE k = kind
        BY <1>2, <1>4, <1>5, <3>1 DEF Sent
    <3>2. CASE k # kind
      <4>1. tapped'[k] = tapped[k] /\ skew' = skew /\ k \in PunchKinds \ lost
          BY <1>3, <1>5, <3>2
      <4>2. CASE \E p \in Items(outbox) : p.kind = k /\ p.at = tapped[k] + skew
          BY <1>2, <1>4, <3>2, <4>1, <4>2 DEF Sent
      <4>3. CASE \E r \in Items(punched) : r.kind = k /\ r.tap = tapped[k] + skew
          BY <1>4, <4>1, <4>3 DEF Sent
      <4> QED
          BY <2>3, <4>1, <4>2, <4>3 DEF TravelInv, PunchesKept
    <3> QED
        BY <3>1, <3>2
  <2> QED
      BY <2>1, <2>2, <2>3 DEF PunchesKept
<1> QED
    BY <1>6, <1>7, <1>11 DEF TravelInv

\* The flush only ever has in hand what was queued.
LEMMA FlushStepKeeps ==
    ASSUME TravelInv, FlushPunches \/ BreakFlush
    PROVE  TravelInv'
<1>1. UNCHANGED <<road, skew, crumbs, samples, outbox, punched, tapped, lost, late>>
    BY DEF FlushPunches, BreakFlush, ground, history
<1>2. (todo' = outbox /\ outbox # <<>> /\ sent' = sent) \/ (todo' = <<>> /\ sent' = FALSE)
    BY DEF FlushPunches, BreakFlush
<1>3. todo' \in Seq(Punch) /\ (sent' => todo' # <<>>) /\ Items(todo') \subseteq Items(outbox)
  <2>1. Items(<<>>) = {} /\ <<>> \in Seq(Punch)
      BY DEF Items
  <2> QED
      BY <1>2, <2>1 DEF TravelInv, TravelTypeOK
<1>4. TravelTypeOK'
    BY <1>1, <1>3 DEF TravelInv, TravelTypeOK, Now
<1>5. OnTheRoad'
    BY <1>1 DEF TravelInv, OnTheRoad, Now
<1>6. PunchesKept'
    BY <1>1, <1>3 DEF TravelInv, PunchesKept, Made
<1> QED
    BY <1>4, <1>5, <1>6 DEF TravelInv

LEMMA SendPunchKeeps == ASSUME TravelInv, SendPunch PROVE TravelInv'
<1> DEFINE punch == Head(todo)
<1>1. todo \in Seq(Punch) /\ todo # <<>> /\ punched \in Seq(Row) /\ Now \in Nat /\ late \in BOOLEAN
    BY DEF TravelInv, TravelTypeOK, SendPunch
<1>2. punch \in Items(todo) /\ punch \in Punch
    BY <1>1, ItemsTail
<1>3. RecordLocation(punch) /\ UNCHANGED <<road, skew, crumbs, samples, outbox, todo, tapped, lost>>
    BY DEF SendPunch, ground
<1> HIDE DEF punch
<1>4. /\ punched' \in Seq(Row) /\ Items(punched) \subseteq Items(punched')
      /\ \A r \in Items(punched') :
           \/ r \in Items(punched)
           \/ r.kind = punch.kind /\ r.tap = punch.at /\ (~late' => r.at = r.tap)
      /\ ~late' => ~late
    BY <1>1, <1>2, <1>3, ReceivedIs
<1>5. late' \in BOOLEAN
    BY <1>1, <1>3 DEF RecordLocation
<1>6. TravelTypeOK'
    BY <1>1, <1>3, <1>4, <1>5 DEF TravelInv, TravelTypeOK, Now
<1>7. OnTheRoad'
    BY <1>3 DEF TravelInv, OnTheRoad, Now
<1>8. \A k, at : Made(k, at)' <=> Made(k, at)
    BY <1>3 DEF Made
<1>9. Made(punch.kind, punch.at)
    BY <1>2 DEF TravelInv, PunchesKept
<1>10. PunchesKept'
  <2>1. \A p \in Items(outbox') \cup Items(todo') : Made(p.kind, p.at)'
      BY <1>3, <1>8 DEF TravelInv, PunchesKept
  <2>2. \A r \in Items(punched') : Made(r.kind, r.tap)' /\ (~late' => r.at = r.tap)
    <3> SUFFICES ASSUME NEW r \in Items(punched') PROVE Made(r.kind, r.tap)' /\ (~late' => r.at = r.tap)
        OBVIOUS
    <3>1. CASE r \in Items(punched)
        BY <1>4, <1>8, <3>1 DEF TravelInv, PunchesKept
    <3>2. CASE r \notin Items(punched)
        BY <1>4, <1>8, <1>9, <3>2
    <3> QED
        BY <3>1, <3>2
  <2>3. ASSUME NEW k \in PunchKinds \ lost', tapped'[k] # Nowhere
        PROVE  \/ \E p \in Items(outbox') : p.kind = k /\ p.at = tapped'[k] + skew'
               \/ \E r \in Items(punched') : r.kind = k /\ r.tap = tapped'[k] + skew'
    <3>1. outbox' = outbox /\ tapped'[k] = tapped[k] /\ skew' = skew /\ k \in PunchKinds \ lost
        BY <1>3
    <3> QED
        BY <1>4, <2>3, <3>1 DEF TravelInv, PunchesKept
  <2> QED
      BY <2>1, <2>2, <2>3 DEF PunchesKept
<1> QED
    BY <1>6, <1>7, <1>10 DEF TravelInv

\* What removeItem deletes of a kind is at the server, or the kind is lost.
LEMMA RemovePunchKeeps == ASSUME TravelInv, RemovePunch PROVE TravelInv'
<1> DEFINE kind == Head(todo).kind
<1>1. todo \in Seq(Punch) /\ todo # <<>> /\ outbox \in Seq(Punch) /\ punched \in Seq(Row)
    BY DEF TravelInv, TravelTypeOK, RemovePunch
<1>2. Tail(todo) \in Seq(Punch) /\ Items(Tail(todo)) \subseteq Items(todo)
    BY <1>1, ItemsTail
<1>3. /\ UNCHANGED <<road, skew, crumbs, samples, punched, tapped, late>>
      /\ outbox' = Without(kind) /\ todo' = Tail(todo) /\ sent' = FALSE
      /\ lost' = lost \cup {p.kind : p \in {q \in Range(outbox) : q.kind = kind /\ ~AtServer(punched, q)}}
    BY DEF RemovePunch, ground
<1> HIDE DEF kind
<1>4. outbox' \in Seq(Punch) /\ Items(outbox') = {p \in Items(outbox) : p.kind # kind}
    BY <1>1, <1>3, WithoutIs
<1>5. \A p \in Items(outbox) : p.kind = kind /\ kind \notin lost' => AtServer(punched, p)
    BY <1>1, <1>3 DEF Items, Range
<1>6. \A p : AtServer(punched, p) => \E r \in Items(punched) : r.kind = p.kind /\ r.tap = p.at
    BY <1>1 DEF AtServer, Items
<1>7. TravelTypeOK'
    BY <1>2, <1>3, <1>4 DEF TravelInv, TravelTypeOK, Now
<1>8. OnTheRoad'
    BY <1>3 DEF TravelInv, OnTheRoad, Now
<1>9. \A k, at : Made(k, at)' <=> Made(k, at)
    BY <1>3 DEF Made
<1>10. PunchesKept'
  <2>1. \A p \in Items(outbox') \cup Items(todo') : Made(p.kind, p.at)'
      BY <1>2, <1>3, <1>4, <1>9 DEF TravelInv, PunchesKept
  <2>2. \A r \in Items(punched') : Made(r.kind, r.tap)' /\ (~late' => r.at = r.tap)
      BY <1>3, <1>9 DEF TravelInv, PunchesKept
  <2>3. ASSUME NEW k \in PunchKinds \ lost', tapped'[k] # Nowhere
        PROVE  \/ \E p \in Items(outbox') : p.kind = k /\ p.at = tapped'[k] + skew'
               \/ \E r \in Items(punched') : r.kind = k /\ r.tap = tapped'[k] + skew'
    <3>1. punched' = punched /\ tapped'[k] = tapped[k] /\ skew' = skew /\ k \in PunchKinds \ lost
        BY <1>3
    <3>2. CASE \E p \in Items(outbox) : p.kind = k /\ p.at = tapped[k] + skew
      <4>1. PICK p \in Items(outbox) : p.kind = k /\ p.at = tapped[k] + skew
          BY <3>2
      <4>2. CASE k = kind
        <5>1. \E r \in Items(punched) : r.kind = p.kind /\ r.tap = p.at
            BY <1>5, <1>6, <4>1, <4>2
        <5> QED
            BY <3>1, <4>1, <5>1
      <4> QED
          BY <1>4, <3>1, <4>1, <4>2
    <3>3. CASE \E r \in Items(punched) : r.kind = k /\ r.tap = tapped[k] + skew
        BY <3>1, <3>3
    <3> QED
        BY <2>3, <3>1, <3>2, <3>3 DEF TravelInv, PunchesKept
  <2> QED
      BY <2>1, <2>2, <2>3 DEF PunchesKept
<1> QED
    BY <1>7, <1>8, <1>10 DEF TravelInv

LEMMA SyncSamplesKeeps == ASSUME TravelInv, SyncSamples PROVE TravelInv'
<1>1. /\ UNCHANGED <<road, skew, outbox, todo, sent, punched, tapped, lost, late>>
      /\ samples' \subseteq samples \cup crumbs /\ crumbs' \subseteq crumbs
    BY DEF SyncSamples, ground, flushing, history
<1>2. TravelTypeOK'
    BY <1>1 DEF TravelInv, TravelTypeOK, Now
<1>3. OnTheRoad'
    BY <1>1 DEF TravelInv, OnTheRoad, Now
<1>4. PunchesKept'
    BY <1>1 DEF TravelInv, PunchesKept, Made
<1> QED
    BY <1>2, <1>3, <1>4 DEF TravelInv

\* Neither a pin nor an assignment, nor what the phone forgets, is in the invariant.
LEMMA OthersKeep ==
    ASSUME TravelInv, crumbs' \subseteq crumbs,
           UNCHANGED <<road, skew, samples, outbox, todo, sent, punched, tapped, lost, late>>
    PROVE  TravelInv'
<1>2. TravelTypeOK'
    BY DEF TravelInv, TravelTypeOK, Now
<1>3. OnTheRoad'
    BY DEF TravelInv, OnTheRoad, Now
<1>4. PunchesKept'
    BY DEF TravelInv, PunchesKept, Made
<1> QED
    BY <1>2, <1>3, <1>4 DEF TravelInv

LEMMA TravelInvNext == TravelInv /\ [TravelNext]_travelVars => TravelInv'
<1> SUFFICES ASSUME TravelInv, [TravelNext]_travelVars PROVE TravelInv'
    OBVIOUS
<1>1. CASE Drive
    BY <1>1, DriveKeeps
<1>2. CASE Fix
    BY <1>2, FixKeeps
<1>3. CASE StartTravel
  <2>1. PICK kind \in Departs : Tap(kind)
      BY <1>3 DEF StartTravel
  <2>2. kind \in PunchKinds /\ UNCHANGED <<road, skew, crumbs, samples, todo, sent>>
      BY <1>3 DEF StartTravel, PunchKinds, ground, flushing
  <2> QED
      BY <2>1, <2>2, TapKeeps
<1>4. CASE Arrive
  <2>1. PICK kind \in Arrives : Tap(kind)
      BY <1>4 DEF Arrive
  <2>2. kind \in PunchKinds /\ UNCHANGED <<road, skew, crumbs, samples, todo, sent>>
      BY <1>4 DEF Arrive, PunchKinds, ground, flushing
  <2> QED
      BY <2>1, <2>2, TapKeeps
<1>5. CASE FlushPunches \/ BreakFlush
    BY <1>5, FlushStepKeeps
<1>10. CASE SendPunch
    BY <1>10, SendPunchKeeps
<1>11. CASE RemovePunch
    BY <1>11, RemovePunchKeeps
<1>6. CASE SyncSamples
    BY <1>6, SyncSamplesKeeps
<1>7. CASE StopTravel \/ SyncRefused \/ Reassign
  <2>1. crumbs' \subseteq crumbs /\ UNCHANGED <<road, skew, samples, outbox, todo, sent, punched, tapped, lost, late>>
      BY <1>7 DEF StopTravel, SyncRefused, Reassign, ground, flushing, history
  <2> QED
      BY <2>1, OthersKeep
<1>8. CASE \E p \in Pins, manager \in BOOLEAN : SetCustomerPin(manager, p)
  <2>1. crumbs' \subseteq crumbs /\ UNCHANGED <<road, skew, samples, outbox, todo, sent, punched, tapped, lost, late>>
      BY <1>8 DEF SetCustomerPin, ground, flushing, history
  <2> QED
      BY <2>1, OthersKeep
<1>9. CASE UNCHANGED travelVars
  <2>1. crumbs' \subseteq crumbs /\ UNCHANGED <<road, skew, samples, outbox, todo, sent, punched, tapped, lost, late>>
      BY <1>9 DEF travelVars, ground, flushing, history
  <2> QED
      BY <2>1, OthersKeep
<1> QED
    BY <1>1, <1>2, <1>3, <1>4, <1>5, <1>6, <1>7, <1>8, <1>9, <1>10, <1>11 DEF TravelNext

-----------------------------------------------------------------------------
(* The drive: the odometer and the breadcrumbs                               *)

LEMMA DistanceIs ==
    \A a, b, c \in Nat : Distance(a, b) \in Nat /\ Distance(a, a) = 0 /\ Distance(a, c) <= Distance(a, b) + Distance(b, c)
    BY DEF Distance

LEMMA SegmentIs ==
    ASSUME NEW prev, NEW curr, prev.pos \in Nat, curr.pos \in Nat
    PROVE  Segment(prev, curr) \in Nat /\ Segment(prev, curr) <= Distance(prev.pos, curr.pos)
<1> DEFINE m == Distance(prev.pos, curr.pos)
           no == curr.at <= prev.at \/ m < MinSegment \/ m > MaxSpeed * (curr.at - prev.at)
<1>1. Segment(prev, curr) = IF no THEN 0 ELSE m
    BY DEF Segment
<1>2. m \in Nat
    BY DistanceIs
<1> HIDE DEF no, m
<1>3. Segment(prev, curr) \in Nat /\ Segment(prev, curr) <= m
    BY <1>1, <1>2
<1> QED
    BY <1>3 DEF m

\* The tick of a breadcrumb.
Tick(s) == s.at - skew
\* What the odometer adds in tick t, of the ticks from a to b.
Adds(a, b, t) == IF a <= t /\ t < b THEN Distance(road[t], road[t + 1]) ELSE 0
Odometer(a, b, g) ==
    /\ g[0] = 0 /\ Driven(a, b) = g[Now - 1]
    /\ \A t \in 1..(Now - 1) : g[t] = g[t - 1] + Adds(a, b, t)
    /\ \A t \in 0..(Now - 1) : g[t] \in Int

LEMMA RoadPlaces ==
    ASSUME TravelTypeOK
    PROVE  Now \in Nat /\ Now >= 1 /\ skew \in Nat /\ \A t \in 1..Now : road[t] \in Places /\ road[t] \in Nat
<1>1. Places \subseteq Nat
    BY TravelAssumption DEF Places
<1>2. road \in Seq(Places) /\ Now = Len(road) /\ Now \in Nat /\ Now >= 1 /\ skew \in Nat
    BY DEF TravelTypeOK, Now
<1>3. \A t \in 1..Now : road[t] \in Places
    BY <1>2
<1> QED
    BY <1>1, <1>2, <1>3

LEMMA OdometerIs ==
    ASSUME TravelTypeOK, NEW a \in Nat, NEW b \in Nat
    PROVE  (\A t \in 1..(Now - 1) : Adds(a, b, t) \in Nat) /\ \E g : Odometer(a, b, g)
<1> DEFINE n == Now - 1
           q == [t \in 1..n |-> Adds(a, b, t)]
<1>1. n \in Nat
    BY RoadPlaces
<1>2. ASSUME NEW t \in 1..n PROVE Adds(a, b, t) \in Nat
  <2>1. t \in 1..Now /\ t + 1 \in 1..Now
      BY RoadPlaces
  <2>2. Distance(road[t], road[t + 1]) \in Nat
      BY <2>1, RoadPlaces, DistanceIs
  <2> QED
      BY <2>2 DEF Adds
<1>3. Driven(a, b) = Total(q)
    BY DEF Driven, Adds
<1> HIDE DEF n
<1>4. Len(q) = n /\ \A t \in 1..n : q[t] = Adds(a, b, t) /\ q[t] \in Int
    BY <1>1, <1>2
<1> HIDE DEF q
<1>5. PICK g : Totals(q, g) /\ Total(q) = g[n]
    BY <1>1, <1>4, TotalIs
<1>6. Odometer(a, b, g)
    BY <1>3, <1>4, <1>5 DEF Totals, Odometer, n
<1> QED
    BY <1>2, <1>6 DEF n

\* From s to t it shows no less than the distance.
LEMMA OdometerFrom ==
    ASSUME TravelTypeOK, NEW a \in Nat, NEW b \in Nat, NEW g, Odometer(a, b, g),
           NEW s \in 1..Now, NEW t \in 1..Now, a <= s, s <= t, t <= b
    PROVE  Distance(road[s], road[t]) <= g[t - 1] - g[s - 1]
<1> DEFINE D == {k \in Nat : s + k <= t => Distance(road[s], road[s + k]) <= g[s + k - 1] - g[s - 1]}
<1>0. Now \in Nat /\ s \in Nat /\ t \in Nat
    BY RoadPlaces
<1>1. 0 \in D
  <2>1. s - 1 \in 0..(Now - 1) /\ s + 0 = s
      BY <1>0
  <2>2. g[s - 1] \in Int
      BY <2>1 DEF Odometer
  <2>3. Distance(road[s], road[s]) = 0
      BY RoadPlaces, DistanceIs
  <2> QED
      BY <2>1, <2>2, <2>3
<1>2. ASSUME NEW k \in Nat, k \in D PROVE k + 1 \in D
  <2> SUFFICES ASSUME s + k + 1 <= t
               PROVE  Distance(road[s], road[s + (k + 1)]) <= g[s + (k + 1) - 1] - g[s - 1]
      OBVIOUS
  <2> DEFINE u == s + k
  <2>1. u \in 1..(Now - 1) /\ u + 1 \in 1..Now /\ u \in 1..Now /\ s + (k + 1) = u + 1 /\ s + (k + 1) - 1 = u
        /\ a <= u /\ u < b /\ u \in 0..(Now - 1) /\ u - 1 \in 0..(Now - 1) /\ s - 1 \in 0..(Now - 1) /\ s + k - 1 = u - 1
      BY <1>0
  <2>2. Distance(road[s], road[u]) <= g[u - 1] - g[s - 1]
      BY <1>2, <2>1
  <2> HIDE DEF u
  <2>3. g[u] = g[u - 1] + Distance(road[u], road[u + 1])
      BY <2>1 DEF Odometer, Adds
  <2>4. /\ Distance(road[s], road[u + 1]) <= Distance(road[s], road[u]) + Distance(road[u], road[u + 1])
        /\ Distance(road[s], road[u + 1]) \in Nat /\ Distance(road[s], road[u]) \in Nat /\ Distance(road[u], road[u + 1]) \in Nat
      BY <2>1, RoadPlaces, DistanceIs
  <2>5. g[u - 1] \in Int /\ g[s - 1] \in Int
      BY <2>1 DEF Odometer
  <2>6. Distance(road[s], road[u + 1]) <= g[u] - g[s - 1]
      BY <2>2, <2>3, <2>4, <2>5
  <2> QED
      BY <2>1, <2>6
<1> HIDE DEF D
<1>3. t - s \in D
    BY <1>0, <1>1, <1>2, NatIsInductive
<1>4. t - s \in Nat /\ s + (t - s) = t
    BY <1>0
<1> QED
    BY <1>3, <1>4 DEF D

\* And it never runs back.
LEMMA OdometerGrows ==
    ASSUME TravelTypeOK, NEW a \in Nat, NEW b \in Nat, NEW g, Odometer(a, b, g), NEW s \in 0..(Now - 1)
    PROVE  g[s] <= Driven(a, b) /\ 0 <= g[s] /\ g[s] \in Int
<1> DEFINE n == Now - 1
           D == {k \in Nat : s + k <= n => g[s] <= g[s + k]}
           E == {k \in Nat : k <= n => 0 <= g[k]}
<1>0. /\ n \in Nat /\ s \in 0..n
      /\ \A t \in 1..n : g[t] = g[t - 1] + Adds(a, b, t) /\ Adds(a, b, t) \in Nat
      /\ \A t \in 0..n : g[t] \in Int
      /\ g[0] = 0 /\ Driven(a, b) = g[n]
    BY RoadPlaces, OdometerIs DEF Odometer
<1> HIDE DEF n
<1>1. 0 \in D /\ 0 \in E
    BY <1>0
<1>2. ASSUME NEW k \in Nat, k \in D PROVE k + 1 \in D
  <2> SUFFICES ASSUME s + k + 1 <= n PROVE g[s] <= g[s + (k + 1)]
      OBVIOUS
  <2> DEFINE u == s + k + 1
  <2>1. u \in 1..n /\ u - 1 \in 0..n /\ u - 1 = s + k /\ s + (k + 1) = u /\ u \in 0..n
      BY <1>0
  <2>2. g[s] <= g[s + k]
      BY <1>2, <2>1
  <2> HIDE DEF u
  <2>3. g[s] <= g[u - 1]
      BY <2>1, <2>2
  <2>4. g[s] <= g[u]
      BY <1>0, <2>1, <2>3
  <2> QED
      BY <2>1, <2>4
<1>3. ASSUME NEW k \in Nat, k \in E PROVE k + 1 \in E
  <2> SUFFICES ASSUME k + 1 <= n PROVE 0 <= g[k + 1]
      OBVIOUS
  <2>1. k + 1 \in 1..n /\ k \in 0..n /\ (k + 1) - 1 = k /\ 0 <= g[k]
      BY <1>0, <1>3
  <2> QED
      BY <1>0, <2>1
<1> HIDE DEF D, E
<1>4. n - s \in D
    BY <1>0, <1>1, <1>2, NatIsInductive
<1>5. s \in E
    BY <1>0, <1>1, <1>3, NatIsInductive
<1>6. n - s \in Nat /\ s + (n - s) = n
    BY <1>0
<1> QED
    BY <1>0, <1>4, <1>5, <1>6 DEF D, E

\* The breadcrumbs of a drive measure no more than was driven.
LEMMA PathIsDriven ==
    ASSUME TravelTypeOK, OnTheRoad, NEW X \in SUBSET samples, NEW a \in Nat, NEW b \in Nat,
           \A s \in X : s.trusted => a <= Tick(s) /\ Tick(s) <= b, PathSum(X) # Nowhere
    PROVE  PathSum(X) <= Driven(a, b)
<1> DEFINE T == TrustedSamples(X)
           fix == ByTime(T)
           n == Len(fix)
           q == [i \in 1..(n - 1) |-> Segment(fix[i], fix[i + 1])]
<1>1. PathSum(X) = Total(q)
    BY DEF PathSum
<1>2. \A s \in T : /\ s.at \in Nat /\ Tick(s) \in 1..Now /\ a <= Tick(s) /\ Tick(s) <= b
                   /\ s.pos = road[Tick(s)] /\ s.pos \in Nat
  <2>1. \A s \in T : s \in samples /\ s.trusted /\ s \in X
      BY DEF TrustedSamples
  <2> HIDE DEF T
  <2> QED
      BY <2>1, RoadPlaces DEF OnTheRoad, Tick
<1>3. \A r, s \in T : r.at = s.at => r = s
    BY DEF OnTheRoad, TrustedSamples
<1>4. IsFiniteSet(T)
  <2> HIDE DEF T
  <2> DEFINE f == [s \in T |-> Tick(s)]
  <2>1. f \in Injection(T, 1..Now)
    <3>1. \A r, s \in T : Tick(r) = Tick(s) => r = s
      <4>1. \A s \in T : s.at \in Nat
          BY <1>2
      <4> QED
          BY <1>3, <4>1, RoadPlaces DEF Tick
    <3>2. f \in [T -> 1..Now] /\ \A s \in T : f[s] = Tick(s)
        BY <1>2
    <3> HIDE DEF f
    <3> QED
        BY <3>1, <3>2 DEF Injection, IsInjective
  <2>2. IsFiniteSet(1..Now)
      BY RoadPlaces, FS_Interval
  <2> HIDE DEF f
  <2> QED
      BY <2>1, <2>2, FS_Injection
<1> HIDE DEF T
<1>5. /\ n \in Nat /\ \A i \in 1..n : fix[i] \in T
      /\ \A i, j \in 1..n : i < j => fix[i].at < fix[j].at
  <2>1. /\ Cardinality(T) \in Nat /\ fix \in [1..Cardinality(T) -> T]
        /\ \A i, j \in 1..Cardinality(T) : i < j => fix[i].at < fix[j].at
      BY <1>2, <1>3, <1>4, ByTimeIs
  <2> HIDE DEF fix
  <2>2. Len(fix) = Cardinality(T)
      BY <2>1
  <2> QED
      BY <2>1, <2>2
<1> HIDE DEF fix
<1>6. PICK g : Odometer(a, b, g)
    BY OdometerIs
<1>7. \A s \in 0..(Now - 1) : g[s] <= Driven(a, b) /\ 0 <= g[s] /\ g[s] \in Int
    BY <1>6, OdometerGrows
<1> HIDE DEF n
<1>8. \A i \in 1..(n - 1) : i \in 1..n /\ i + 1 \in 1..n
    BY <1>5
<1>9. ASSUME NEW i \in 1..(n - 1)
      PROVE  /\ q[i] \in Nat /\ q[i] = Segment(fix[i], fix[i + 1])
             /\ q[i] <= g[Tick(fix[i + 1]) - 1] - g[Tick(fix[i]) - 1]
  <2> DEFINE s == Tick(fix[i])
             t == Tick(fix[i + 1])
  <2>0. q[i] = Segment(fix[i], fix[i + 1])
      OBVIOUS
  <2> HIDE DEF q
  <2>1. fix[i] \in T /\ fix[i + 1] \in T /\ fix[i].at < fix[i + 1].at
      BY <1>5, <1>8
  <2>2. /\ s \in 1..Now /\ t \in 1..Now /\ a <= s /\ t <= b
        /\ fix[i].pos = road[s] /\ fix[i + 1].pos = road[t] /\ fix[i].pos \in Nat /\ fix[i + 1].pos \in Nat
        /\ fix[i].at \in Nat /\ fix[i + 1].at \in Nat
      BY <1>2, <2>1
  <2>3. s <= t
      BY <2>1, <2>2, RoadPlaces DEF Tick
  <2> HIDE DEF s, t
  <2>4. Distance(road[s], road[t]) <= g[t - 1] - g[s - 1]
      BY <1>6, <2>2, <2>3, OdometerFrom
  <2>5. q[i] \in Nat /\ q[i] <= Distance(fix[i].pos, fix[i + 1].pos)
      BY <2>0, <2>2, SegmentIs
  <2>6. g[t - 1] \in Int /\ g[s - 1] \in Int /\ Distance(road[s], road[t]) \in Nat
    <3>1. t - 1 \in 0..(Now - 1) /\ s - 1 \in 0..(Now - 1)
        BY <2>2, RoadPlaces
    <3> QED
        BY <1>7, <2>2, <3>1, DistanceIs
  <2>7. q[i] <= g[t - 1] - g[s - 1]
      BY <2>2, <2>4, <2>5, <2>6
  <2> QED
      BY <2>0, <2>5, <2>7 DEF s, t
<1>12. Driven(a, b) \in Int
  <2>1. Driven(a, b) = g[Now - 1] /\ Now - 1 \in 0..(Now - 1)
      BY <1>6, RoadPlaces DEF Odometer
  <2> QED
      BY <1>7, <2>1
<1>10. CASE n = 0
  <2>1. Len(q) = 0
      BY <1>10
  <2> HIDE DEF q
  <2>2. PICK f : Totals(q, f) /\ Total(q) = f[0]
      BY <2>1, TotalIs
  <2>3. Total(q) = 0
      BY <2>2 DEF Totals
  <2>4. 0 \in 0..(Now - 1)
      BY RoadPlaces
  <2> QED
      BY <1>1, <1>7, <1>12, <2>3, <2>4
<1>11. CASE n # 0
  <2>1. Len(q) = n - 1 /\ n - 1 \in Nat
      BY <1>5, <1>11
  <2> HIDE DEF q
  <2>2. PICK f : Totals(q, f) /\ Total(q) = f[n - 1]
    <3>1. \A i \in 1..Len(q) : q[i] \in Int
        BY <1>9, <2>1
    <3> QED
        BY <2>1, <3>1, TotalIs
  <2>3. f[0] = 0 /\ (\A k \in 1..(n - 1) : f[k] = f[k - 1] + q[k]) /\ \A k \in 0..(n - 1) : f[k] \in Int
      BY <2>1, <2>2 DEF Totals
  <2> DEFINE tick(i) == Tick(fix[i]) - 1
             D == {k \in Nat : k <= n - 1 => f[k] <= g[tick(k + 1)]}
  <2>4. \A i \in 1..n : tick(i) \in 0..(Now - 1)
      BY <1>2, <1>5, RoadPlaces
  <2>5. \A i \in 1..n : g[tick(i)] \in Int /\ 0 <= g[tick(i)] /\ g[tick(i)] <= Driven(a, b)
      BY <1>7, <2>4
  <2>6. \A i \in 1..(n - 1) : q[i] \in Nat /\ q[i] <= g[tick(i + 1)] - g[tick(i)]
      BY <1>9
  <2> HIDE DEF tick
  <2>7. 0 \in D
    <3>1. 1 \in 1..n /\ 0 + 1 = 1
        BY <1>5, <1>11
    <3> QED
        BY <2>3, <2>5, <3>1
  <2>8. ASSUME NEW k \in Nat, k \in D PROVE k + 1 \in D
    <3> SUFFICES ASSUME k + 1 <= n - 1 PROVE f[k + 1] <= g[tick((k + 1) + 1)]
        OBVIOUS
    <3>1. k + 1 \in 1..(n - 1) /\ k + 1 \in 1..n /\ (k + 1) + 1 \in 1..n /\ (k + 1) - 1 = k /\ k \in 0..(n - 1)
        BY <1>5, <2>1
    <3>2. f[k] <= g[tick(k + 1)]
        BY <2>8, <3>1
    <3>3. f[k + 1] = f[k] + q[k + 1] /\ q[k + 1] <= g[tick((k + 1) + 1)] - g[tick(k + 1)] /\ q[k + 1] \in Nat
        BY <2>3, <2>6, <3>1
    <3>4. f[k] \in Int /\ g[tick((k + 1) + 1)] \in Int /\ g[tick(k + 1)] \in Int
        BY <2>3, <2>5, <3>1
    <3> QED
        BY <3>2, <3>3, <3>4
  <2> HIDE DEF D
  <2>9. n - 1 \in D
      BY <2>1, <2>7, <2>8, NatIsInductive
  <2>10. f[n - 1] <= g[tick((n - 1) + 1)]
      BY <2>1, <2>9 DEF D
  <2>11. (n - 1) + 1 = n /\ n \in 1..n /\ n - 1 \in 0..(n - 1)
      BY <1>5, <1>11
  <2>12. f[n - 1] <= g[tick(n)] /\ g[tick(n)] <= Driven(a, b) /\ g[tick(n)] \in Int /\ f[n - 1] \in Int
      BY <2>3, <2>5, <2>10, <2>11
  <2> QED
      BY <1>1, <1>12, <2>2, <2>12
<1> QED
    BY <1>10, <1>11

-----------------------------------------------------------------------------
(* The drive: what is billed                                                 *)

\* With nothing on its way or deleted, the latest punch of a kind is the one made last.
LEMMA LatestIsLast ==
    ASSUME TravelInv, outbox = <<>>, ~late, NEW kind \in PunchKinds, kind \notin lost,
           LatestLocation(Locations, kind) # Nowhere
    PROVE  tapped[kind] \in 1..Now /\ tapped[kind] # Nowhere /\ LatestLocation(Locations, kind).at = tapped[kind] + skew
<1> DEFINE matching == {l \in Locations : l.kind = kind}
           latest == LatestLocation(Locations, kind)
           last == tapped[kind] + skew
<1>1. Locations = Items(punched) /\ Items(outbox) = {}
  <2>1. DOMAIN punched = 1..Len(punched)
      BY DEF TravelInv, TravelTypeOK
  <2> QED
      BY <2>1 DEF Locations, Items
<1>2. latest = IF matching = {} THEN Nowhere
               ELSE CHOOSE l \in matching : \A other \in matching : other.at <= l.at
    BY DEF LatestLocation
<1>3. \A l \in matching : l.at \in Nat /\ l.at = l.tap /\ l.at <= last /\ tapped[kind] # Nowhere
  <2>1. \A l \in Items(punched) : l.at \in Nat
    <3>1. Items(punched) \subseteq Row
        BY DEF TravelInv, TravelTypeOK, Items
    <3>2. \A r \in Row : r.at \in Nat
        BY DEF Row
    <3> QED
        BY <3>1, <3>2
  <2> QED
      BY <1>1, <2>1 DEF TravelInv, PunchesKept, Made
<1>4. matching # {}
    BY <1>2
<1>5. tapped[kind] # Nowhere /\ tapped[kind] \in 1..Now /\ last \in Nat
    BY <1>3, <1>4 DEF TravelInv, TravelTypeOK
<1>6. PICK m \in matching : m.at = last
  <2>1. PICK r \in Items(punched) : r.kind = kind /\ r.tap = last
      BY <1>1, <1>5 DEF TravelInv, PunchesKept
  <2>2. r \in matching
      BY <1>1, <2>1
  <2> QED
      BY <1>3, <2>1, <2>2
<1> HIDE DEF matching, last
<1>7. \E l \in matching : \A other \in matching : other.at <= l.at
    BY <1>3, <1>6
<1>8. latest \in matching /\ \A other \in matching : other.at <= latest.at
    BY <1>2, <1>4, <1>7
<1>9. latest.at = last
    BY <1>3, <1>5, <1>6, <1>8
<1> QED
    BY <1>5, <1>9 DEF last

\* So a leg that is billed by its breadcrumbs is no longer than its drive was.
LEMMA LegIsDriven ==
    ASSUME TravelTypeOK, OnTheRoad, NEW from, NEW to, NEW a \in 1..Now, NEW b \in 1..Now,
           from.at = a + skew, to.at = b + skew, NEW origin, NEW dest, NEW way,
           LegLadder(origin, dest, samples, way, Window(from, to)).basis = "breadcrumbs"
    PROVE  LegLadder(origin, dest, samples, way, Window(from, to)).m <= Driven(Earlier(a), b + Slack)
<1> DEFINE w == Window(from, to)
           X == {s \in samples : s.leg = way /\ w[1] <= s.at /\ s.at <= w[2]}
           straight == Distance(origin, dest)
           path == PathSum(X)
           ladder == LegLadder(origin, dest, samples, way, w)
<1>1. a \in Nat /\ b \in Nat /\ skew \in Nat /\ Slack \in Nat
    BY RoadPlaces, RouteAssumption
<1>2. w # <<>> /\ w[1] = Earlier(a + skew) /\ w[2] = (b + skew) + Slack
    BY DEF Window
<1>3. ladder = IF path # Nowhere /\ path >= straight
               THEN [m |-> path, basis |-> "breadcrumbs"]
               ELSE [m |-> straight * Circuity, basis |-> "estimate"]
    BY <1>2 DEF LegLadder
<1>4. path # Nowhere /\ ladder.m = path
  <2>1. ladder.basis = "breadcrumbs"
      OBVIOUS
  <2> HIDE DEF ladder, path, straight, w
  <2>2. CASE path # Nowhere /\ path >= straight
    <3>1. ladder = [m |-> path, basis |-> "breadcrumbs"]
        BY <1>3, <2>2
    <3> QED
        BY <2>2, <3>1
  <2>3. CASE ~(path # Nowhere /\ path >= straight)
    <3>1. ladder = [m |-> straight * Circuity, basis |-> "estimate"]
        BY <1>3, <2>3
    <3>2. ladder.basis = "estimate"
        BY <3>1
    <3> QED
        BY <2>1, <3>2
  <2> QED
      BY <2>2, <2>3
<1>5. Earlier(a) \in Nat /\ b + Slack \in Nat
    BY <1>1 DEF Earlier
<1>6. ASSUME NEW s \in X PROVE Earlier(a) <= Tick(s) /\ Tick(s) <= b + Slack
  <2>1. s \in samples /\ w[1] <= s.at /\ s.at <= w[2]
      OBVIOUS
  <2>2. s.at \in Nat /\ s.at - skew \in 1..Now
      BY <2>1 DEF OnTheRoad
  <2> QED
      BY <1>1, <1>2, <2>1, <2>2 DEF Tick, Earlier
<1>7. path <= Driven(Earlier(a), b + Slack)
  <2>1. X \in SUBSET samples
      OBVIOUS
  <2> HIDE DEF X
  <2> QED
      BY <1>4, <1>5, <1>6, <2>1, PathIsDriven
<1> QED
    BY <1>4, <1>7

LEMMA TravelInvHonest == TravelInv => FuelIsHonest
<1> DEFINE depart == LatestLocation(Locations, "depart_workshop")
           arrive == LatestLocation(Locations, "arrive_customer")
           leave  == LatestLocation(Locations, "depart_customer")
           home   == LatestLocation(Locations, "arrive_workshop")
           out    == Outbound(Locations, samples, fence)
           back   == Return(Locations, samples, fence, pin)
<1> SUFFICES ASSUME TravelInv, outbox = <<>>, ~late, RouteNow # Nowhere
             PROVE  /\ {"depart_workshop", "arrive_customer"} \cap lost = {} => OutIsHonest
                    /\ {"depart_customer", "arrive_workshop"} \cap lost = {} => BackIsHonest
    BY DEF FuelIsHonest, AllArrived
<1>1. out # Nowhere /\ RouteNow.out = out /\ RouteNow.back = back
    BY DEF RouteNow, DeriveRoute
<1>2. {"depart_workshop", "arrive_customer", "depart_customer", "arrive_workshop"} \subseteq PunchKinds
    BY DEF PunchKinds, Departs, Arrives
<1>3. TravelTypeOK /\ OnTheRoad
    BY DEF TravelInv
<1>4. \A o, d, way : LegLadder(o, d, samples, way, <<>>).basis = "estimate"
    BY DEF LegLadder
<1>5. ASSUME "depart_workshop" \notin lost, "arrive_customer" \notin lost, out.basis = "breadcrumbs"
      PROVE  out.m <= DrivenBetween("depart_workshop", "arrive_customer")
  <2>1. arrive # Nowhere /\ depart # Nowhere
      BY <1>1, <1>4, <1>5 DEF Outbound
  <2>2. out = LegLadder(Sane(depart, fence), arrive.pos, samples, "outbound", Window(depart, arrive))
      BY <2>1 DEF Outbound
  <2>3. /\ tapped["depart_workshop"] \in 1..Now /\ tapped["depart_workshop"] # Nowhere
        /\ depart.at = tapped["depart_workshop"] + skew
        /\ tapped["arrive_customer"] \in 1..Now /\ tapped["arrive_customer"] # Nowhere
        /\ arrive.at = tapped["arrive_customer"] + skew
      BY <1>2, <1>5, <2>1, LatestIsLast
  <2> HIDE DEF depart, arrive, out
  <2>4. out.m <= Driven(Earlier(tapped["depart_workshop"]), tapped["arrive_customer"] + Slack)
      BY <1>3, <1>5, <2>2, <2>3, LegIsDriven
  <2> QED
      BY <2>3, <2>4 DEF DrivenBetween
<1>6. ASSUME "depart_customer" \notin lost, "arrive_workshop" \notin lost, back # Nowhere, back.basis = "breadcrumbs"
      PROVE  back.m <= DrivenBetween("depart_customer", "arrive_workshop")
  <2>1. leave # Nowhere /\ home # Nowhere
      BY <1>4, <1>6 DEF Return
  <2>2. back = LegLadder(Sane(leave, pin), Sane(home, fence), samples, "return", Window(leave, home))
      BY <1>4, <1>6 DEF Return
  <2>3. /\ tapped["depart_customer"] \in 1..Now /\ tapped["depart_customer"] # Nowhere
        /\ leave.at = tapped["depart_customer"] + skew
        /\ tapped["arrive_workshop"] \in 1..Now /\ tapped["arrive_workshop"] # Nowhere
        /\ home.at = tapped["arrive_workshop"] + skew
      BY <1>2, <1>6, <2>1, LatestIsLast
  <2> HIDE DEF leave, home, back
  <2>4. back.m <= Driven(Earlier(tapped["depart_customer"]), tapped["arrive_workshop"] + Slack)
      BY <1>3, <1>6, <2>2, <2>3, LegIsDriven
  <2> QED
      BY <2>3, <2>4 DEF DrivenBetween
<1> HIDE DEF out, back
<1>7. {"depart_workshop", "arrive_customer"} \cap lost = {} => OutIsHonest
    BY <1>1, <1>5 DEF OutIsHonest, NoLonger
<1>8. {"depart_customer", "arrive_workshop"} \cap lost = {} => BackIsHonest
    BY <1>1, <1>6 DEF BackIsHonest, NoLonger
<1> QED
    BY <1>7, <1>8

\* The types; where the breadcrumbs are from; that no punch that is the last of its
\* kind goes missing, but for one that removeItem deletes when the flush has its
\* answer to an older punch of the kind.
THEOREM TravelInvHolds == TravelSpec => []TravelInv
<1> QED
    BY TravelInvInit, TravelInvNext, PTL DEF TravelSpec

\* For any road, clock, slack and limits, whatever is mocked, resent, late, out of
\* order or missing: once every punch has arrived in time, a leg that is billed by
\* its breadcrumbs is no longer than the last drive was, unless a flush deleted one
\* of that drive's own punches.
THEOREM FuelHonestHolds == TravelSpec => []FuelIsHonest
<1> QED
    BY TravelInvHolds, TravelInvHonest, PTL
=============================================================================
