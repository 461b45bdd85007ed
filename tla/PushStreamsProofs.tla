------------------------- MODULE PushStreamsProofs -------------------------
(***************************************************************************)
(* Proofs about PushStreams, for any clients, slots, attempts and timers.  *)
(*                                                                         *)
(* The model's loops are recursive functions (Each).  What a loop makes of *)
(* the tab is told by its stages: a relation between the tab before and    *)
(* after one round (Connected, Promoted, Settled) that every stage keeps,  *)
(* up to the last.  reconcilePushBindings() goes through two phases, one   *)
(* that takes slots away and one that gives them out (Taking, Giving).     *)
(***************************************************************************)
EXTENDS PushStreams, FiniteSetTheorems, SequenceTheorems,
        WellFoundedInduction, TLAPS

\* A nonempty set of natural numbers has a least element.
LEMMA LeastOf ==
  ASSUME NEW I, I \subseteq Nat, I # {}
  PROVE  \E m \in I : \A j \in I : m <= j
<1> DEFINE Less == OpToRel(<, Nat)
<1>1. IsWellFoundedOn(Less, Nat)
  BY NatLessThanWellFounded
<1> HIDE DEF Less
<1>2. PICK m \in I : \A j \in I : ~ (<<j, m>> \in Less)
  BY <1>1, WFMin
<1>3. \A j \in I : m <= j
  <2> SUFFICES ASSUME NEW j \in I
               PROVE  m <= j
    OBVIOUS
  <2>1. ~ (j < m)
    BY <1>2 DEF Less, OpToRel
  <2> QED
    BY <2>1
<1> QED
  BY <1>3

-----------------------------------------------------------------------------
\* What is left of a line when a client leaves it.
LEMMA RemoveFirstIs ==
  ASSUME NEW S, NEW w \in Seq(S), NEW c, \E i \in 1 .. Len(w) : w[i] = c
  PROVE  \E k \in 1 .. Len(w) :
           /\ w[k] = c
           /\ RemoveFirst(w, c) = SubSeq(w, 1, k - 1) \o SubSeq(w, k + 1, Len(w))
<1> DEFINE I == {i \in 1 .. Len(w) : w[i] = c}
           k == Min(I)
<1>1. I \subseteq Nat /\ I # {}
  OBVIOUS
<1>2. \E m \in I : \A j \in I : m <= j
  BY <1>1, LeastOf
<1>3. k \in I
  BY <1>2 DEF Min
<1>4. RemoveFirst(w, c) = RemoveAt(w, k)
  BY DEF RemoveFirst, SelectInSeq
<1> QED
  BY <1>3, <1>4 DEF RemoveAt

\* A client that leaves the line is gone from it; the others stay, each once.
LEMMA LeavesLine ==
  ASSUME NEW S, NEW w \in Seq(S), IsInjective(w), NEW c
  PROVE  /\ RemoveFirst(w, c) \in Seq(S) /\ IsInjective(RemoveFirst(w, c))
         /\ ToSet(RemoveFirst(w, c)) = ToSet(w) \ {c}
<1> DEFINE v == RemoveFirst(w, c)
<1>1. CASE \E i \in 1 .. Len(w) : w[i] = c
  <2>1. PICK k \in 1 .. Len(w) :
               w[k] = c /\ v = SubSeq(w, 1, k - 1) \o SubSeq(w, k + 1, Len(w))
    BY <1>1, RemoveFirstIs
  <2> HIDE DEF v
  <2>2. /\ v \in Seq(S) /\ Len(v) = Len(w) - 1
        /\ \A j \in 1 .. Len(v) : v[j] = IF j < k THEN w[j] ELSE w[j + 1]
    <3> DEFINE front == SubSeq(w, 1, k - 1)
               back == SubSeq(w, k + 1, Len(w))
    <3>1. /\ front \in Seq(S) /\ Len(front) = k - 1
          /\ \A j \in 1 .. Len(front) : front[j] = w[j]
      OBVIOUS
    <3>2. /\ back \in Seq(S) /\ Len(back) = Len(w) - k
          /\ \A j \in 1 .. Len(back) : back[j] = w[j + k]
      <4>1. \A i \in k + 1 .. Len(w) : w[i] \in S
        OBVIOUS
      <4> QED
        BY <4>1, SubSeqProperties
    <3>3. v = front \o back
      BY <2>1
    <3> HIDE DEF front, back
    <3>4. /\ v \in Seq(S) /\ Len(v) = Len(front) + Len(back)
          /\ \A j \in 1 .. Len(front) + Len(back) :
               v[j] = IF j <= Len(front) THEN front[j] ELSE back[j - Len(front)]
      BY <3>1, <3>2, <3>3, ConcatProperties
    <3>5. \A j \in 1 .. Len(v) : v[j] = IF j < k THEN w[j] ELSE w[j + 1]
      <4> SUFFICES ASSUME NEW j \in 1 .. Len(v)
                   PROVE  v[j] = IF j < k THEN w[j] ELSE w[j + 1]
        OBVIOUS
      <4>1. CASE j < k
        <5>1. j \in 1 .. Len(front) /\ j \in 1 .. Len(front) + Len(back)
          BY <4>1, <3>1, <3>2, <3>4
        <5>2. v[j] = front[j] /\ front[j] = w[j]
          BY <5>1, <3>1, <3>4
        <5> QED
          BY <5>2, <4>1
      <4>2. CASE j >= k
        <5>1. j - (k - 1) \in 1 .. Len(back) /\ back[j - (k - 1)] = w[j + 1]
          BY <4>2, <3>1, <3>2, <3>4
        <5> QED
          BY <5>1, <4>2, <3>1, <3>2, <3>4
      <4> QED
        BY <4>1, <4>2
    <3> QED
      BY <3>1, <3>2, <3>4, <3>5
  <2>3. \A i, j \in 1 .. Len(w) : w[i] = w[j] => i = j
    BY DEF IsInjective
  <2>4. \A i, j \in 1 .. Len(v) : v[i] = v[j] => i = j
    <3> SUFFICES ASSUME NEW i \in 1 .. Len(v), NEW j \in 1 .. Len(v), v[i] = v[j]
                 PROVE  i = j
      OBVIOUS
    <3> DEFINE at(n) == IF n < k THEN n ELSE n + 1
    <3>1. at(i) \in 1 .. Len(w) /\ at(j) \in 1 .. Len(w) /\ w[at(i)] = w[at(j)]
      BY <2>2
    <3>2. at(i) = at(j)
      BY <3>1, <2>3
    <3> QED
      BY <3>2
  <2>5. \A j \in 1 .. Len(v) : v[j] \in ToSet(w) \ {c}
    <3> SUFFICES ASSUME NEW j \in 1 .. Len(v)
                 PROVE  v[j] \in ToSet(w) \ {c}
      OBVIOUS
    <3> DEFINE at == IF j < k THEN j ELSE j + 1
    <3>1. at \in 1 .. Len(w) /\ v[j] = w[at] /\ at # k
      BY <2>2
    <3>2. w[at] # w[k]
      BY <3>1, <2>3
    <3> QED
      BY <3>1, <3>2, <2>1 DEF ToSet
  <2>6. \A i \in 1 .. Len(w) : i # k => \E j \in 1 .. Len(v) : v[j] = w[i]
    <3> SUFFICES ASSUME NEW i \in 1 .. Len(w), i # k
                 PROVE  \E j \in 1 .. Len(v) : v[j] = w[i]
      OBVIOUS
    <3>1. CASE i < k
      BY <3>1, <2>2
    <3>2. CASE i > k
      <4>1. i - 1 \in 1 .. Len(v) /\ v[i - 1] = w[i]
        BY <3>2, <2>2
      <4> QED
        BY <4>1
    <3> QED
      BY <3>1, <3>2
  <2>7. ToSet(v) = ToSet(w) \ {c}
    <3>1. \A x \in ToSet(w) \ {c} : \E j \in 1 .. Len(v) : v[j] = x
      <4> SUFFICES ASSUME NEW i \in 1 .. Len(w), w[i] # c
                   PROVE  \E j \in 1 .. Len(v) : v[j] = w[i]
        BY DEF ToSet
      <4> QED
        BY <2>1, <2>6
    <3>2. DOMAIN v = 1 .. Len(v)
      BY <2>2
    <3> QED
      BY <3>1, <3>2, <2>5 DEF ToSet
  <2>8. IsInjective(v)
    BY <2>2, <2>4 DEF IsInjective
  <2> QED
    BY <2>2, <2>7, <2>8 DEF v
<1>2. CASE ~ \E i \in 1 .. Len(w) : w[i] = c
  <2>1. v = w
    BY <1>2 DEF RemoveFirst
  <2>2. c \notin ToSet(w)
    BY <1>2 DEF ToSet
  <2> QED
    BY <2>1, <2>2
<1> QED
  BY <1>1, <1>2

\* A client that joins the line is in it once, with those that were.
LEMMA JoinsLine ==
  ASSUME NEW S, NEW w \in Seq(S), IsInjective(w), NEW c \in S
  PROVE  LET v == IF Contains(w, c) THEN w ELSE Append(w, c)
         IN  v \in Seq(S) /\ IsInjective(v) /\ ToSet(v) = ToSet(w) \cup {c}
<1> DEFINE v == IF Contains(w, c) THEN w ELSE Append(w, c)
<1>1. CASE Contains(w, c)
  <2>1. v = w
    BY <1>1
  <2>2. c \in ToSet(w)
    BY <1>1 DEF Contains, ToSet
  <2> QED
    BY <2>1, <2>2
<1>2. CASE ~ Contains(w, c)
  <2>1. v = Append(w, c)
    BY <1>2
  <2> HIDE DEF v
  <2>2. /\ v \in Seq(S) /\ Len(v) = Len(w) + 1 /\ v[Len(v)] = c
        /\ \A j \in 1 .. Len(w) : v[j] = w[j] /\ w[j] # c
    BY <2>1, <1>2 DEF Contains
  <2>3. \A i, j \in 1 .. Len(w) : w[i] = w[j] => i = j
    BY DEF IsInjective
  <2>4. \A i, j \in 1 .. Len(v) : v[i] = v[j] => i = j
    BY <2>2, <2>3
  <2>5. IsInjective(v)
    BY <2>2, <2>4 DEF IsInjective
  <2>6. ToSet(v) = ToSet(w) \cup {c}
    <3>1. DOMAIN v = 1 .. Len(w) + 1 /\ DOMAIN w = 1 .. Len(w)
      BY <2>2
    <3>2. \A x \in ToSet(v) : x \in ToSet(w) \cup {c}
      BY <3>1, <2>2 DEF ToSet
    <3>3. \A x \in ToSet(w) \cup {c} : x \in ToSet(v)
      BY <3>1, <2>2 DEF ToSet
    <3> QED
      BY <3>2, <3>3
  <2> QED
    BY <2>2, <2>5, <2>6 DEF v
<1> QED
  BY <1>1, <1>2

-----------------------------------------------------------------------------
\* Counting up from 0 to n reaches every number on the way.
LEMMA Climb ==
  ASSUME NEW n \in Nat, NEW A, 0 \in A, \A i \in 1 .. n : i - 1 \in A => i \in A
  PROVE  \A i \in 0 .. n : i \in A
<1> DEFINE missed == {i \in 0 .. n : i \notin A}
<1>1. CASE missed = {}
  BY <1>1
<1>2. CASE missed # {}
  <2> missed \subseteq Nat /\ missed # {}
    BY <1>2
  <2>1. PICK m \in missed : \A j \in missed : m <= j
    BY LeastOf
  <2>2. m \in 1 .. n /\ m - 1 \in 0 .. n
    OBVIOUS
  <2>3. m - 1 \notin missed
    BY <2>1, <2>2
  <2> QED
    BY <2>2, <2>3
<1> QED
  BY <1>1, <1>2

\* The stages of a loop over w, from base, with the step g.
Stages(S, base, w, g) ==
  {f \in [0 .. Len(w) -> S] :
     f[0] = base /\ \A i \in 1 .. Len(w) : f[i] = g[<<f[i - 1], w[i]>>]}

\* A step that maps S into itself can be repeated along a sequence.
LEMMA Recurrence ==
  ASSUME NEW S, NEW T, NEW base \in S, NEW w \in Seq(T), NEW g \in [S \X T -> S]
  PROVE  Stages(S, base, w, g) # {}
<1> DEFINE runs(m) == {f \in [0 .. m -> S] :
                         f[0] = base /\ \A i \in 1 .. m : f[i] = g[<<f[i - 1], w[i]>>]}
           A == {m \in 0 .. Len(w) : runs(m) # {}}
<1>1. 0 \in A
  <2>1. [i \in 0 .. 0 |-> base] \in runs(0)
    OBVIOUS
  <2> QED
    BY <2>1
<1>2. ASSUME NEW m \in 1 .. Len(w), m - 1 \in A
      PROVE  m \in A
  <2>1. PICK f \in [0 .. m - 1 -> S] :
               f[0] = base /\ \A i \in 1 .. m - 1 : f[i] = g[<<f[i - 1], w[i]>>]
    BY <1>2
  <2> DEFINE h == [i \in 0 .. m |-> IF i = m THEN g[<<f[m - 1], w[m]>>] ELSE f[i]]
  <2>2. w[m] \in T /\ f[m - 1] \in S
    OBVIOUS
  <2>3. g[<<f[m - 1], w[m]>>] \in S
    BY <2>2
  <2>4. \A i \in 0 .. m - 1 : f[i] \in S /\ h[i] = f[i]
    OBVIOUS
  <2>5. h \in [0 .. m -> S]
    BY <2>3, <2>4
  <2>6. h[0] = base
    BY <2>1, <2>4
  <2>7. h[m] = g[<<h[m - 1], w[m]>>]
    <3>1. h[m] = g[<<f[m - 1], w[m]>>]
      OBVIOUS
    <3>2. h[m - 1] = f[m - 1]
      BY <2>4
    <3> QED
      BY <3>1, <3>2
  <2> HIDE DEF h
  <2>8. ASSUME NEW i \in 1 .. m - 1
        PROVE  h[i] = g[<<h[i - 1], w[i]>>]
    <3>1. i \in 0 .. m - 1 /\ i - 1 \in 0 .. m - 1
      OBVIOUS
    <3>2. h[i] = f[i] /\ h[i - 1] = f[i - 1]
      BY <3>1, <2>4
    <3> QED
      BY <3>2, <2>1
  <2>9. \A i \in 1 .. m : h[i] = g[<<h[i - 1], w[i]>>]
    BY <2>7, <2>8
  <2>10. h \in runs(m)
    BY <2>5, <2>6, <2>9
  <2> QED
    BY <2>10
<1>3. Len(w) \in A
  <2>1. Len(w) \in Nat /\ Len(w) \in 0 .. Len(w)
    OBVIOUS
  <2> HIDE DEF A
  <2>2. \A i \in 1 .. Len(w) : i - 1 \in A => i \in A
    BY <1>2
  <2> QED
    BY <1>1, <2>1, <2>2, Climb
<1> QED
  BY <1>3 DEF Stages

-----------------------------------------------------------------------------
\* The tab's state, with any number of forgotten timers.
Tabs == [holders : SUBSET Clients, waiters : Seq(Clients),
         wanted : [Clients -> BOOLEAN],
         attempt : [Clients -> {"none", "connecting", "open", "ended"}],
         timer : [Clients -> BOOLEAN], stray : [Clients -> Nat],
         poll : [Clients -> BOOLEAN], slow : [Clients -> BOOLEAN],
         hears : [Clients -> BOOLEAN], overheard : [Clients -> BOOLEAN]]

\* c's part of the tab's state is the same.
Alike(p, q, c) ==
  /\ c \in p.holders <=> c \in q.holders
  /\ p.attempt[c] = q.attempt[c] /\ p.timer[c] = q.timer[c] /\ p.stray[c] = q.stray[c]
  /\ p.poll[c] = q.poll[c] /\ p.slow[c] = q.slow[c]

\* A tab whose slots and line are in order: nobody waits twice or with a slot,
\* and only holders of the slots there are have a stream.
Fit(p) ==
  /\ p \in Tabs
  /\ IsInjective(p.waiters) /\ ToSet(p.waiters) \cap p.holders = {}
  /\ IsFiniteSet(p.holders) /\ Cardinality(p.holders) <= MaxStreams
  /\ \A c \in Clients : p.attempt[c] # "none" => c \in p.holders

\* A signed-in holder has a stream, or a timer that will make one.
Alive(p, c) ==
  c \in p.holders /\ signed[c] = "in"
    => p.attempt[c] \in {"connecting", "open"} \/ p.timer[c] \/ p.stray[c] > 0

\* A client hears of changes whatever becomes of its rate limit.
Lively(p, c) ==
  \/ p.attempt[c] \in {"connecting", "open"} \/ p.timer[c] \/ p.stray[c] > 0
  \/ p.poll[c] \/ p.slow[c]

\* A client that has not signed in has nothing yet.
Fresh(c) ==
  /\ bound[c] = "none" /\ ~limited[c]
  /\ c \notin push.holders /\ ~push.timer[c] /\ push.stray[c] = 0

Inv ==
  /\ TypeOK
  /\ IsFiniteSet({c \in Clients : signed[c] # "new"})
  /\ Fit(push)
  /\ \A c \in Clients : Alive(push, c)
  /\ \A c \in Clients : signed[c] = "new" => Fresh(c)
  /\ \A c \in In : limited[c] => resume[c]
  /\ NoSlotIdle
  /\ NeverDeaf

-----------------------------------------------------------------------------
\* With fewer holders there are not more of them.
LEMMA FewerHolders ==
  ASSUME NEW p, Fit(p), NEW H, H \subseteq p.holders
  PROVE  IsFiniteSet(H) /\ Cardinality(H) <= Cardinality(p.holders)
BY FS_Subset DEF Fit

\* One more holder fits when there is a slot.
LEMMA OneMoreHolder ==
  ASSUME NEW p, Fit(p), NEW c, c \in p.holders \/ ~Full(p)
  PROVE  IsFiniteSet(p.holders \cup {c}) /\ Cardinality(p.holders \cup {c}) <= MaxStreams
<1>1. CASE c \in p.holders
  <2>1. p.holders \cup {c} = p.holders
    BY <1>1
  <2> QED
    BY <2>1 DEF Fit
<1>2. CASE c \notin p.holders
  <2>1. /\ IsFiniteSet(p.holders \cup {c})
        /\ Cardinality(p.holders \cup {c}) = Cardinality(p.holders) + 1
    BY <1>2, FS_AddElement DEF Fit
  <2>2. Cardinality(p.holders) \in Nat
    BY FS_CardinalityType DEF Fit
  <2> QED
    BY <1>2, <2>1, <2>2, PushAssumption DEF Full
<1> QED
  BY <1>1, <1>2

\* A tab stays full while its holders stay.
LEMMA StaysFull ==
  ASSUME NEW p, NEW q, Fit(q), p.holders \subseteq q.holders, Full(p)
  PROVE  Full(q)
<1>1. IsFiniteSet(p.holders) /\ Cardinality(p.holders) <= Cardinality(q.holders)
  BY FewerHolders
<1>2. Cardinality(p.holders) \in Nat /\ Cardinality(q.holders) \in Nat
  BY <1>1, FS_CardinalityType DEF Fit
<1> QED
  BY <1>1, <1>2, PushAssumption DEF Full

-----------------------------------------------------------------------------
\* A client that releases leaves the slots and the line.
LEMMA ReleaseIs ==
  ASSUME NEW p, Fit(p), NEW c \in Clients
  PROVE  LET q == Release(p, c)
         IN  /\ q \in Tabs /\ q.holders = p.holders \ {c}
             /\ q.waiters = RemoveFirst(p.waiters, c)
             /\ q.attempt = p.attempt /\ q.timer = p.timer /\ q.stray = p.stray
             /\ q.poll = p.poll /\ q.slow = p.slow /\ q.hears = p.hears
             /\ q.wanted = p.wanted /\ q.overheard = p.overheard
<1>1. p \in Tabs /\ RemoveFirst(p.waiters, c) \in Seq(Clients)
  BY LeavesLine DEF Fit, Tabs
<1> QED
  BY <1>1 DEF Release, Tabs

\* What releasing, with an attempt given up, leaves fits.
LEMMA ReleasedFits ==
  ASSUME NEW p, Fit(p), NEW c \in Clients, NEW q \in Tabs,
         q.holders = p.holders \ {c}, q.waiters = RemoveFirst(p.waiters, c),
         q.attempt = [p.attempt EXCEPT ![c] = "none"]
  PROVE  Fit(q) /\ ToSet(q.waiters) = ToSet(p.waiters) \ {c}
<1>1. p.waiters \in Seq(Clients) /\ p.attempt \in [Clients -> {"none", "connecting", "open", "ended"}]
  BY DEF Fit, Tabs
<1>2. IsInjective(q.waiters) /\ ToSet(q.waiters) = ToSet(p.waiters) \ {c}
  BY <1>1, LeavesLine DEF Fit
<1>3. IsFiniteSet(q.holders) /\ Cardinality(q.holders) <= Cardinality(p.holders)
  BY FewerHolders
<1>4. Cardinality(q.holders) <= MaxStreams
  BY <1>3, FS_CardinalityType, PushAssumption DEF Fit
<1>5. \A d \in Clients : q.attempt[d] # "none" => d \in q.holders
  BY <1>1 DEF Fit
<1>6. ToSet(q.waiters) \cap q.holders = {}
  BY <1>2 DEF Fit
<1> QED
  BY <1>2, <1>3, <1>4, <1>5, <1>6 DEF Fit

\* closePushNotifications() takes everything of the client's and nothing of another's.
LEMMA CloseIs ==
  ASSUME NEW p, Fit(p), NEW c \in Clients
  PROVE  LET q == Close(p, c)
         IN  /\ Fit(q)
             /\ q.holders = p.holders \ {c} /\ ToSet(q.waiters) = ToSet(p.waiters) \ {c}
             /\ q.attempt[c] = "none" /\ ~q.timer[c] /\ ~q.poll[c] /\ q.stray[c] = p.stray[c]
             /\ \A d \in Clients \ {c} : Alike(p, q, d)
<1> DEFINE r == Release(p, c)
           q == Close(p, c)
<1>1. /\ r \in Tabs /\ r.holders = p.holders \ {c} /\ r.waiters = RemoveFirst(p.waiters, c)
      /\ r.attempt = p.attempt /\ r.timer = p.timer /\ r.stray = p.stray
      /\ r.poll = p.poll /\ r.slow = p.slow /\ r.hears = p.hears
  BY ReleaseIs
<1>2. q = [r EXCEPT !.wanted[c] = FALSE, !.poll[c] = FALSE, !.slow[c] = FALSE,
                    !.attempt[c] = "none", !.timer[c] = FALSE, !.hears[c] = FALSE]
  BY DEF Close
<1> HIDE DEF r, q
<1>3. /\ q \in Tabs /\ q.holders = r.holders /\ q.waiters = r.waiters
      /\ q.attempt = [r.attempt EXCEPT ![c] = "none"]
      /\ q.timer = [r.timer EXCEPT ![c] = FALSE] /\ q.stray = r.stray
      /\ q.poll = [r.poll EXCEPT ![c] = FALSE] /\ q.slow = [r.slow EXCEPT ![c] = FALSE]
  BY <1>1, <1>2 DEF Tabs
<1>4. Fit(q) /\ ToSet(q.waiters) = ToSet(p.waiters) \ {c}
  BY <1>1, <1>3, ReleasedFits
<1>5. /\ p.attempt \in [Clients -> {"none", "connecting", "open", "ended"}]
      /\ p.timer \in [Clients -> BOOLEAN] /\ p.poll \in [Clients -> BOOLEAN]
      /\ p.slow \in [Clients -> BOOLEAN]
  BY DEF Fit, Tabs
<1>6. q.attempt[c] = "none" /\ ~q.timer[c] /\ ~q.poll[c] /\ q.stray[c] = p.stray[c]
  BY <1>1, <1>3, <1>5
<1>7. \A d \in Clients \ {c} : Alike(p, q, d)
  BY <1>1, <1>3, <1>5 DEF Alike
<1> QED
  BY <1>1, <1>3, <1>4, <1>6, <1>7 DEF q

\* With the same slots and line, only a holder's attempt may be new.
LEMMA SameLineFits ==
  ASSUME NEW p, Fit(p), NEW q \in Tabs, q.holders = p.holders, q.waiters = p.waiters,
         \A c \in Clients : q.attempt[c] # "none" => p.attempt[c] # "none"
  PROVE  Fit(q)
BY DEF Fit

\* scheduleSSEReconnect() sets a timer for a signed-in client.
LEMMA ScheduleIs ==
  ASSUME NEW p \in Tabs, NEW c \in Clients
  PROVE  LET q == Schedule(p, c)
         IN  /\ q \in Tabs /\ q.holders = p.holders /\ q.waiters = p.waiters
             /\ q.attempt = p.attempt /\ q.poll = p.poll /\ q.slow = p.slow
             /\ signed[c] = "in" => q.timer[c]
             /\ \A d \in Clients \ {c} : q.timer[d] = p.timer[d] /\ q.stray[d] = p.stray[d]
<1> DEFINE q == Schedule(p, c)
           more == IF p.timer[c] THEN 1 ELSE 0
<1>1. CASE signed[c] = "in"
  <2>1. q = [p EXCEPT !.timer[c] = TRUE, !.stray[c] = @ + more]
    BY <1>1 DEF Schedule
  <2>2. more \in Nat
    OBVIOUS
  <2> HIDE DEF q, more
  <2>3. p.stray[c] + more \in Nat
    BY <2>2 DEF Tabs
  <2>4. /\ q \in Tabs /\ q.holders = p.holders /\ q.waiters = p.waiters
        /\ q.attempt = p.attempt /\ q.poll = p.poll /\ q.slow = p.slow
        /\ q.timer = [p.timer EXCEPT ![c] = TRUE]
        /\ q.stray = [p.stray EXCEPT ![c] = p.stray[c] + more]
    BY <2>1, <2>3 DEF Tabs
  <2>5. p.timer \in [Clients -> BOOLEAN] /\ p.stray \in [Clients -> Nat]
    BY DEF Tabs
  <2> QED
    BY <2>4, <2>5 DEF q
<1>2. CASE signed[c] # "in"
  BY <1>2 DEF Schedule
<1> QED
  BY <1>1, <1>2

\* fallbackToPolling() gives the slot up; without a rate limit the client polls.
LEMMA FallbackIs ==
  ASSUME NEW p, Fit(p), NEW c \in Clients
  PROVE  LET q == Fallback(p, c)
         IN  /\ Fit(q)
             /\ q.holders = p.holders \ {c} /\ ToSet(q.waiters) = ToSet(p.waiters) \ {c}
             /\ signed[c] = "in" /\ ~limited[c] => q.poll[c]
             /\ \A d \in Clients \ {c} : Alike(p, q, d)
<1> DEFINE r == Release(p, c)
           t == [r EXCEPT !.attempt[c] = "none"]
           polls == t.poll[c] \/ (signed[c] = "in" /\ ~limited[c])
           q == [t EXCEPT !.poll[c] = polls]
<1>0. Fallback(p, c) = q
  BY DEF Fallback, Poll
<1>1. /\ r \in Tabs /\ r.holders = p.holders \ {c} /\ r.waiters = RemoveFirst(p.waiters, c)
      /\ r.attempt = p.attempt /\ r.timer = p.timer /\ r.stray = p.stray
      /\ r.poll = p.poll /\ r.slow = p.slow
  BY ReleaseIs
<1> HIDE DEF r
<1>2. /\ t \in Tabs /\ t.holders = r.holders /\ t.waiters = r.waiters
      /\ t.attempt = [r.attempt EXCEPT ![c] = "none"]
      /\ t.timer = r.timer /\ t.stray = r.stray /\ t.poll = r.poll /\ t.slow = r.slow
  BY <1>1 DEF Tabs
<1>3. polls \in BOOLEAN
  OBVIOUS
<1>4. signed[c] = "in" /\ ~limited[c] => polls
  OBVIOUS
<1> HIDE DEF t, polls
<1>5. /\ q \in Tabs /\ q.holders = t.holders /\ q.waiters = t.waiters
      /\ q.attempt = t.attempt /\ q.timer = t.timer /\ q.stray = t.stray
      /\ q.poll = [t.poll EXCEPT ![c] = polls] /\ q.slow = t.slow
  BY <1>2, <1>3 DEF Tabs
<1> HIDE DEF q
<1>6. Fit(q) /\ ToSet(q.waiters) = ToSet(p.waiters) \ {c}
  BY <1>1, <1>2, <1>5, ReleasedFits
<1>7. /\ p.attempt \in [Clients -> {"none", "connecting", "open", "ended"}]
      /\ p.poll \in [Clients -> BOOLEAN]
  BY DEF Fit, Tabs
<1>8. signed[c] = "in" /\ ~limited[c] => q.poll[c]
  BY <1>1, <1>2, <1>4, <1>5, <1>7
<1>9. \A d \in Clients \ {c} : Alike(p, q, d)
  BY <1>1, <1>2, <1>5, <1>7 DEF Alike
<1> QED
  BY <1>0, <1>1, <1>2, <1>5, <1>6, <1>8, <1>9

\* connectSSE() with a slot: the client holds it, connecting, and waits no more.
LEMMA AttemptIs ==
  ASSUME NEW p, Fit(p), NEW c \in Clients, c \in p.holders \/ ~Full(p)
  PROVE  LET q == Attempt(p, c)
         IN  /\ Fit(q)
             /\ q.holders = p.holders \cup {c} /\ ToSet(q.waiters) = ToSet(p.waiters) \ {c}
             /\ q.attempt[c] = "connecting"
             /\ \A d \in Clients \ {c} : Alike(p, q, d)
<1> DEFINE line == RemoveFirst(p.waiters, c)
           q == Attempt(p, c)
<1>1. q = [p EXCEPT !.wanted[c] = TRUE, !.holders = p.holders \cup {c}, !.waiters = line,
                    !.attempt[c] = "connecting", !.timer[c] = FALSE]
  BY DEF Attempt
<1>2. p \in Tabs /\ p.waiters \in Seq(Clients) /\ IsInjective(p.waiters)
  BY DEF Fit, Tabs
<1>3. line \in Seq(Clients) /\ IsInjective(line) /\ ToSet(line) = ToSet(p.waiters) \ {c}
  BY <1>2, LeavesLine
<1> HIDE DEF line, q
<1>4. /\ q \in Tabs /\ q.holders = p.holders \cup {c} /\ q.waiters = line
      /\ q.attempt = [p.attempt EXCEPT ![c] = "connecting"]
      /\ q.timer = [p.timer EXCEPT ![c] = FALSE]
      /\ q.stray = p.stray /\ q.poll = p.poll /\ q.slow = p.slow
  BY <1>1, <1>2, <1>3 DEF Tabs
<1>5. /\ p.attempt \in [Clients -> {"none", "connecting", "open", "ended"}]
      /\ p.timer \in [Clients -> BOOLEAN]
  BY <1>2 DEF Tabs
<1>6. IsFiniteSet(q.holders) /\ Cardinality(q.holders) <= MaxStreams
  BY <1>4, OneMoreHolder
<1>7. \A d \in Clients : q.attempt[d] # "none" => d \in q.holders
  BY <1>4, <1>5 DEF Fit
<1>8. ToSet(q.waiters) \cap q.holders = {}
  BY <1>3, <1>4 DEF Fit
<1>9. Fit(q)
  BY <1>3, <1>4, <1>6, <1>7, <1>8 DEF Fit
<1>10. q.attempt[c] = "connecting" /\ \A d \in Clients \ {c} : Alike(p, q, d)
  BY <1>4, <1>5 DEF Alike
<1> QED
  BY <1>3, <1>4, <1>9, <1>10 DEF q

\* connectSSE() without a slot: the client waits, on the slow poll.
LEMMA WaitIs ==
  ASSUME NEW p, Fit(p), NEW c \in Clients, c \notin p.holders
  PROVE  LET q == Wait(p, c)
         IN  /\ Fit(q)
             /\ q.holders = p.holders /\ ToSet(q.waiters) = ToSet(p.waiters) \cup {c}
             /\ q.slow[c]
             /\ \A d \in Clients \ {c} : Alike(p, q, d)
<1> DEFINE line == IF Contains(p.waiters, c) THEN p.waiters ELSE Append(p.waiters, c)
           q == Wait(p, c)
<1>1. q = [p EXCEPT !.wanted[c] = TRUE, !.slow[c] = TRUE, !.waiters = line]
  BY DEF Wait
<1>2. p \in Tabs /\ p.waiters \in Seq(Clients) /\ IsInjective(p.waiters)
  BY DEF Fit, Tabs
<1>3. line \in Seq(Clients) /\ IsInjective(line) /\ ToSet(line) = ToSet(p.waiters) \cup {c}
  BY <1>2, JoinsLine
<1> HIDE DEF line, q
<1>4. /\ q \in Tabs /\ q.holders = p.holders /\ q.waiters = line
      /\ q.attempt = p.attempt /\ q.timer = p.timer /\ q.stray = p.stray
      /\ q.poll = p.poll /\ q.slow = [p.slow EXCEPT ![c] = TRUE]
  BY <1>1, <1>2, <1>3 DEF Tabs
<1>5. p.slow \in [Clients -> BOOLEAN]
  BY <1>2 DEF Tabs
<1>6. ToSet(q.waiters) \cap q.holders = {}
  BY <1>3, <1>4 DEF Fit
<1>7. Fit(q)
  BY <1>3, <1>4, <1>6 DEF Fit
<1>8. q.slow[c] /\ \A d \in Clients \ {c} : Alike(p, q, d)
  BY <1>4, <1>5 DEF Alike
<1> QED
  BY <1>3, <1>4, <1>7, <1>8 DEF q

-----------------------------------------------------------------------------
\* What connectSSE() makes of a tab: no slot is lost, the line grows only when
\* no slot is free, and a signed-in client hears of changes.
Connected(p, q, c) ==
  /\ Fit(q)
  /\ p.holders \subseteq q.holders
  /\ \A d \in ToSet(q.waiters) : d \in ToSet(p.waiters) \/ Full(p)
  /\ signed[c] = "in" => Alive(q, c) /\ Lively(q, c)
  /\ \A d \in Clients \ {c} : Alike(p, q, d)

\* connectSSE(), whichever way it goes.
LEMMA ConnectIs ==
  ASSUME NEW p, Fit(p), NEW c \in Clients
  PROVE  Connected(p, ConnectSSE(p, c), c)
<1> DEFINE q == ConnectSSE(p, c)
<1>1. CASE limited[c]
  <2> DEFINE r == [p EXCEPT !.wanted[c] = TRUE]
  <2>1. q = Schedule(r, c)
    BY <1>1 DEF ConnectSSE
  <2>2. /\ r \in Tabs /\ r.holders = p.holders /\ r.waiters = p.waiters
        /\ r.attempt = p.attempt /\ r.timer = p.timer /\ r.stray = p.stray
        /\ r.poll = p.poll /\ r.slow = p.slow
    BY DEF Fit, Tabs
  <2> HIDE DEF r, q
  <2>3. /\ q \in Tabs /\ q.holders = r.holders /\ q.waiters = r.waiters
        /\ q.attempt = r.attempt /\ q.poll = r.poll /\ q.slow = r.slow
        /\ signed[c] = "in" => q.timer[c]
        /\ \A d \in Clients \ {c} : q.timer[d] = r.timer[d] /\ q.stray[d] = r.stray[d]
    BY <2>1, <2>2, ScheduleIs
  <2>4. Fit(q)
    BY <2>2, <2>3, SameLineFits
  <2>5. signed[c] = "in" => Alive(q, c) /\ Lively(q, c)
    BY <2>3 DEF Alive, Lively
  <2>6. \A d \in Clients \ {c} : Alike(p, q, d)
    BY <2>2, <2>3 DEF Alike
  <2> QED
    BY <2>2, <2>3, <2>4, <2>5, <2>6 DEF Connected, q
<1>2. CASE ~limited[c] /\ c \notin p.holders /\ Full(p)
  <2>1. q = Wait(p, c)
    BY <1>2 DEF ConnectSSE
  <2> HIDE DEF q
  <2>2. /\ Fit(q) /\ q.holders = p.holders /\ ToSet(q.waiters) = ToSet(p.waiters) \cup {c}
        /\ q.slow[c] /\ \A d \in Clients \ {c} : Alike(p, q, d)
    BY <1>2, <2>1, WaitIs
  <2>3. Alive(q, c) /\ Lively(q, c)
    BY <1>2, <2>2 DEF Alive, Lively
  <2> QED
    BY <1>2, <2>2, <2>3 DEF Connected, q
<1>3. CASE ~limited[c] /\ (c \in p.holders \/ ~Full(p))
  <2>1. q = Attempt(p, c)
    BY <1>3 DEF ConnectSSE
  <2> HIDE DEF q
  <2>2. /\ Fit(q) /\ q.holders = p.holders \cup {c}
        /\ ToSet(q.waiters) = ToSet(p.waiters) \ {c}
        /\ q.attempt[c] = "connecting" /\ \A d \in Clients \ {c} : Alike(p, q, d)
    BY <1>3, <2>1, AttemptIs
  <2>3. Alive(q, c) /\ Lively(q, c)
    BY <2>2 DEF Alive, Lively
  <2> QED
    BY <2>2, <2>3 DEF Connected, q
<1> QED
  BY <1>1, <1>2, <1>3

\* setupPushNotifications() connects; what else it does is no loss.
LEMMA SetupIs ==
  ASSUME NEW p, Fit(p), NEW c \in Clients
  PROVE  Connected(p, Setup(p, c), c)
<1> DEFINE r == ConnectSSE(p, c)
           slow == r.slow[c] \/ c \in Shared
           over == r.overheard[c] \/ p.hears[c]
           q == [r EXCEPT !.slow[c] = slow, !.overheard[c] = over, !.hears[c] = TRUE]
<1>0. Setup(p, c) = q
  BY DEF Setup
<1>1. Connected(p, r, c)
  BY ConnectIs
<1>2. slow \in BOOLEAN /\ over \in BOOLEAN /\ (r.slow[c] => slow)
  OBVIOUS
<1> HIDE DEF r, slow, over
<1>3. /\ q \in Tabs /\ q.holders = r.holders /\ q.waiters = r.waiters
      /\ q.attempt = r.attempt /\ q.timer = r.timer /\ q.stray = r.stray
      /\ q.poll = r.poll /\ q.slow = [r.slow EXCEPT ![c] = slow]
  BY <1>1, <1>2 DEF Connected, Fit, Tabs
<1>4. r.slow \in [Clients -> BOOLEAN]
  BY <1>1 DEF Connected, Fit, Tabs
<1> HIDE DEF q
<1>5. Fit(q)
  BY <1>1, <1>3, SameLineFits DEF Connected
<1>6. signed[c] = "in" => Alive(q, c) /\ Lively(q, c)
  BY <1>1, <1>2, <1>3, <1>4 DEF Connected, Alive, Lively
<1>7. \A d \in Clients \ {c} : Alike(p, q, d)
  BY <1>1, <1>3, <1>4 DEF Connected, Alike
<1> QED
  BY <1>0, <1>1, <1>3, <1>5, <1>6, <1>7 DEF Connected

\* What promoting c makes of a tab: no slot is lost, c leaves the line or every
\* slot is taken, and only a signed-in client is touched, for the better.
Promoted(p, q, c) ==
  /\ Fit(q)
  /\ p.holders \subseteq q.holders
  /\ ToSet(q.waiters) \subseteq ToSet(p.waiters)
  /\ Full(p) \/ c \notin ToSet(q.waiters)
  /\ Alive(p, c) => Alive(q, c)
  /\ signed[c] = "in" /\ Lively(p, c) => Lively(q, c)
  /\ \A d \in Clients : d # c \/ signed[d] # "in" => Alike(p, q, d)

\* promoteSSEWaiters() for the client next in line.
LEMMA PromoteIs ==
  ASSUME NEW p, Fit(p), NEW c \in Clients
  PROVE  Promoted(p, Promote(p, c), c)
<1>1. CASE Full(p)
  BY <1>1 DEF Promote, Promoted, Alike
<1>2. CASE ~Full(p)
  <2> DEFINE line == RemoveFirst(p.waiters, c)
             r == [p EXCEPT !.waiters = line]
  <2>0. Promote(p, c) =
          IF r.wanted[c] /\ signed[c] = "in"
          THEN [ConnectSSE([r EXCEPT !.slow[c] = FALSE], c) EXCEPT !.slow[c] = @ \/ c \in Shared]
          ELSE r
    BY <1>2 DEF Promote
  <2>1. p \in Tabs /\ p.waiters \in Seq(Clients) /\ IsInjective(p.waiters)
    BY DEF Fit, Tabs
  <2>2. line \in Seq(Clients) /\ IsInjective(line) /\ ToSet(line) = ToSet(p.waiters) \ {c}
    BY <2>1, LeavesLine
  <2> HIDE DEF line
  <2>3. /\ r \in Tabs /\ r.holders = p.holders /\ r.waiters = line
        /\ r.attempt = p.attempt /\ r.timer = p.timer /\ r.stray = p.stray
        /\ r.poll = p.poll /\ r.slow = p.slow
    BY <2>1, <2>2 DEF Tabs
  <2> HIDE DEF r
  <2>4. Fit(r)
    BY <2>2, <2>3 DEF Fit
  <2>5. CASE ~(r.wanted[c] /\ signed[c] = "in")
    <3>1. Promote(p, c) = r
      BY <2>0, <2>5
    <3>2. Alive(p, c) => Alive(r, c)
      BY <2>3 DEF Alive
    <3>3. Lively(p, c) => Lively(r, c)
      BY <2>3 DEF Lively
    <3>4. \A d \in Clients : Alike(p, r, d)
      BY <2>3 DEF Alike
    <3> QED
      BY <2>2, <2>3, <2>4, <3>1, <3>2, <3>3, <3>4 DEF Promoted
  <2>6. CASE r.wanted[c] /\ signed[c] = "in"
    <3> DEFINE t == [r EXCEPT !.slow[c] = FALSE]
               u == ConnectSSE(t, c)
               slow == u.slow[c] \/ c \in Shared
               q == [u EXCEPT !.slow[c] = slow]
    <3>1. Promote(p, c) = q
      BY <2>0, <2>6
    <3>2. /\ t \in Tabs /\ t.holders = r.holders /\ t.waiters = r.waiters
          /\ t.attempt = r.attempt /\ t.timer = r.timer /\ t.stray = r.stray
          /\ t.poll = r.poll /\ t.slow = [r.slow EXCEPT ![c] = FALSE]
      BY <2>3 DEF Tabs
    <3> HIDE DEF t
    <3>3. Fit(t)
      BY <2>4, <3>2, SameLineFits
    <3>4. Connected(t, u, c)
      BY <3>3, ConnectIs
    <3>5. slow \in BOOLEAN /\ (u.slow[c] => slow)
      OBVIOUS
    <3> HIDE DEF u, slow
    <3>6. /\ q \in Tabs /\ q.holders = u.holders /\ q.waiters = u.waiters
          /\ q.attempt = u.attempt /\ q.timer = u.timer /\ q.stray = u.stray
          /\ q.poll = u.poll /\ q.slow = [u.slow EXCEPT ![c] = slow]
      BY <3>4, <3>5 DEF Connected, Fit, Tabs
    <3>7. u.slow \in [Clients -> BOOLEAN] /\ r.slow \in [Clients -> BOOLEAN]
      BY <2>3, <3>4 DEF Connected, Fit, Tabs
    <3> HIDE DEF q
    <3>8. Fit(q)
      BY <3>4, <3>6, SameLineFits DEF Connected
    <3>9. Alive(q, c) /\ Lively(q, c)
      BY <2>6, <3>4, <3>5, <3>6, <3>7 DEF Connected, Alive, Lively
    <3>10. \A d \in Clients \ {c} : Alike(p, q, d)
      BY <2>3, <3>2, <3>4, <3>6, <3>7 DEF Connected, Alike
    <3>11. ~Full(t)
      BY <1>2, <2>3, <3>2 DEF Full
    <3>12. ToSet(q.waiters) \subseteq ToSet(p.waiters) \ {c}
      BY <2>2, <2>3, <3>2, <3>4, <3>6, <3>11 DEF Connected
    <3>13. p.holders \subseteq q.holders
      BY <2>3, <3>2, <3>4, <3>6 DEF Connected
    <3> QED
      BY <2>6, <3>1, <3>8, <3>9, <3>10, <3>12, <3>13 DEF Promoted
  <2> QED
    BY <2>5, <2>6
<1> QED
  BY <1>1, <1>2

-----------------------------------------------------------------------------
FitTabs == {p \in Tabs : Fit(p)}

\* The promotions, one after the other.
LEMMA PromoteEach ==
  ASSUME NEW start \in FitTabs, NEW w \in Seq(Clients),
         \A p \in FitTabs, c \in Clients : Promote(p, c) \in FitTabs
  PROVE  \E f \in [0 .. Len(w) -> FitTabs] :
           /\ f[0] = start /\ \A i \in 1 .. Len(w) : f[i] = Promote(f[i - 1], w[i])
           /\ Each(Promote, start, w) = f[Len(w)]
<1> DEFINE g == [x \in FitTabs \X Clients |-> Promote(x[1], x[2])]
           Def(f) == [i \in 0 .. Len(w) |-> IF i = 0 THEN start ELSE Promote(f[i - 1], w[i])]
           after == CHOOSE f : f = Def(f)
<1>1. Each(Promote, start, w) = after[Len(w)]
  BY DEF Each
<1>2. /\ g \in [FitTabs \X Clients -> FitTabs]
      /\ \A p \in FitTabs, c \in Clients : g[<<p, c>>] = Promote(p, c)
  OBVIOUS
<1>3. \E f : f = Def(f)
  <2> HIDE DEF g
  <2>1. PICK f \in [0 .. Len(w) -> FitTabs] :
               f[0] = start /\ \A i \in 1 .. Len(w) : f[i] = g[<<f[i - 1], w[i]>>]
    <3>1. Stages(FitTabs, start, w, g) # {}
      BY <1>2, Recurrence
    <3> QED
      BY <3>1 DEF Stages
  <2>2. ASSUME NEW i \in 1 .. Len(w)
        PROVE  f[i] = Promote(f[i - 1], w[i])
    <3>1. f[i - 1] \in FitTabs /\ w[i] \in Clients
      OBVIOUS
    <3> QED
      BY <1>2, <2>1, <3>1
  <2>3. \A i \in 0 .. Len(w) : f[i] = Def(f)[i]
    BY <2>1, <2>2
  <2>4. f = Def(f)
    BY <2>3
  <2> QED
    BY <2>4
<1>4. after = Def(after)
  <2> HIDE DEF Def
  <2> QED
    BY <1>3
<1> HIDE DEF after
<1>5. after[0] = start /\ \A i \in 1 .. Len(w) : after[i] = Promote(after[i - 1], w[i])
  <2>1. \A i \in 0 .. Len(w) : after[i] = Def(after)[i]
    BY <1>4
  <2> QED
    BY <2>1
<1>6. \A i \in 0 .. Len(w) : after[i] \in FitTabs
  <2> DEFINE A == {i \in 0 .. Len(w) : after[i] \in FitTabs}
  <2>1. 0 \in A
    BY <1>5
  <2>2. ASSUME NEW i \in 1 .. Len(w), i - 1 \in A
        PROVE  i \in A
    <3>1. w[i] \in Clients
      OBVIOUS
    <3> QED
      BY <1>5, <2>2, <3>1
  <2>3. Len(w) \in Nat
    OBVIOUS
  <2> HIDE DEF A
  <2>4. \A i \in 1 .. Len(w) : i - 1 \in A => i \in A
    BY <2>2
  <2>5. \A i \in 0 .. Len(w) : i \in A
    BY <2>1, <2>3, <2>4, Climb
  <2> QED
    BY <2>5 DEF A
<1>7. after \in [0 .. Len(w) -> FitTabs]
  BY <1>4, <1>6
<1> QED
  BY <1>1, <1>5, <1>7

\* What a run of promotions makes of a tab, clients that are not in the line or
\* not signed in apart: they are left alone.
Settled(p, q) ==
  /\ Fit(q)
  /\ p.holders \subseteq q.holders
  /\ \A c \in Clients : Alive(p, c) => Alive(q, c)
  /\ \A c \in Clients : signed[c] = "in" /\ Lively(p, c) => Lively(q, c)
  /\ \A c \in Clients : signed[c] # "in" \/ c \notin ToSet(p.waiters) => Alike(p, q, c)

\* Every client waiting has found every slot taken.
Busy(p) == p.waiters # <<>> => Full(p)

\* A line without clients is empty.
LEMMA EmptyLine ==
  ASSUME NEW p, p \in Tabs, \A c \in ToSet(p.waiters) : Full(p)
  PROVE  Busy(p)
<1> SUFFICES ASSUME p.waiters # <<>>
             PROVE  Full(p)
  BY DEF Busy
<1>1. p.waiters \in Seq(Clients)
  BY DEF Tabs
<1>2. 1 \in DOMAIN p.waiters
  BY <1>1
<1>3. p.waiters[1] \in ToSet(p.waiters)
  BY <1>2 DEF ToSet
<1> QED
  BY <1>3

\* A promotion settles what was settled.
LEMMA PromotionSettles ==
  ASSUME NEW p, NEW q, Settled(p, q), NEW c \in ToSet(p.waiters), c \in Clients,
         NEW r, Promoted(q, r, c)
  PROVE  Settled(p, r)
<1>1. Fit(r) /\ p.holders \subseteq r.holders
  BY DEF Settled, Promoted
<1>2. \A d \in Clients : d # c \/ signed[d] # "in" => Alike(q, r, d)
  BY DEF Promoted
<1>3. ASSUME NEW d \in Clients, Alive(p, d)
      PROVE  Alive(r, d)
  <2>1. Alive(q, d)
    BY <1>3 DEF Settled
  <2>2. CASE d = c
    BY <2>1, <2>2 DEF Promoted
  <2>3. CASE d # c
    <3>1. Alike(q, r, d)
      BY <1>2, <2>3
    <3> QED
      BY <2>1, <3>1 DEF Alive, Alike
  <2> QED
    BY <2>2, <2>3
<1>4. ASSUME NEW d \in Clients, signed[d] = "in", Lively(p, d)
      PROVE  Lively(r, d)
  <2>1. Lively(q, d)
    BY <1>4 DEF Settled
  <2>2. CASE d = c
    BY <1>4, <2>1, <2>2 DEF Promoted
  <2>3. CASE d # c
    <3>1. Alike(q, r, d)
      BY <1>2, <2>3
    <3> QED
      BY <2>1, <3>1 DEF Lively, Alike
  <2> QED
    BY <2>2, <2>3
<1>5. ASSUME NEW d \in Clients, signed[d] # "in" \/ d \notin ToSet(p.waiters)
      PROVE  Alike(p, r, d)
  <2>1. Alike(p, q, d)
    BY <1>5 DEF Settled
  <2>2. Alike(q, r, d)
    BY <1>2, <1>5
  <2> QED
    BY <2>1, <2>2 DEF Alike
<1> QED
  BY <1>1, <1>3, <1>4, <1>5 DEF Settled

\* After a handler and the promotions it queued, nobody waits for a free slot
\* who did not before a slot was given up.
LEMMA AfterTaskIs ==
  ASSUME NEW p, Fit(p)
  PROVE  /\ Settled(p, AfterTask(p))
         /\ (push.holders \subseteq p.holders => Busy(p)) => Busy(AfterTask(p))
<1>1. CASE push.holders \subseteq p.holders
  <2>1. AfterTask(p) = p
    BY <1>1 DEF AfterTask
  <2>2. Settled(p, p)
    BY DEF Settled, Alike
  <2> QED
    BY <1>1, <2>1, <2>2
<1>2. CASE ~(push.holders \subseteq p.holders)
  <2> DEFINE w == p.waiters
  <2>1. w \in Seq(Clients) /\ p \in FitTabs
    BY DEF Fit, Tabs, FitTabs
  <2>2. \A q \in FitTabs, c \in Clients : Promote(q, c) \in FitTabs
    BY PromoteIs DEF FitTabs, Promoted, Fit
  <2>3. PICK f \in [0 .. Len(w) -> FitTabs] :
               /\ f[0] = p /\ \A i \in 1 .. Len(w) : f[i] = Promote(f[i - 1], w[i])
               /\ Each(Promote, p, w) = f[Len(w)]
    BY <2>1, <2>2, PromoteEach
  <2>4. AfterTask(p) = f[Len(w)]
    BY <1>2, <2>3 DEF AfterTask
  <2> DEFINE done(i) == /\ Settled(p, f[i])
                        /\ \A c \in ToSet(f[i].waiters) :
                             Full(f[i]) \/ \E j \in i + 1 .. Len(w) : c = w[j]
             A == {i \in 0 .. Len(w) : done(i)}
  <2>5. done(0)
    <3>1. Settled(p, f[0])
      BY <2>3 DEF Settled, Alike
    <3>2. \A c \in ToSet(f[0].waiters) : \E j \in 0 + 1 .. Len(w) : c = w[j]
      BY <2>1, <2>3 DEF ToSet
    <3> QED
      BY <3>1, <3>2
  <2>6. ASSUME NEW i \in 1 .. Len(w), done(i - 1)
        PROVE  done(i)
    <3> DEFINE q == f[i - 1]
               r == f[i]
    <3>1. q \in FitTabs /\ r = Promote(q, w[i]) /\ w[i] \in Clients /\ w[i] \in ToSet(w)
      BY <2>1, <2>3 DEF ToSet
    <3>2. Promoted(q, r, w[i])
      BY <3>1, PromoteIs DEF FitTabs
    <3>3. Settled(p, q) /\ \A c \in ToSet(q.waiters) :
                              Full(q) \/ \E j \in (i - 1) + 1 .. Len(w) : c = w[j]
      BY <2>6
    <3> HIDE DEF q, r
    <3>4. Settled(p, r)
      BY <3>1, <3>2, <3>3, PromotionSettles
    <3>5. Full(q) => Full(r)
      BY <3>2, StaysFull DEF Promoted
    <3>6. ASSUME NEW c \in ToSet(r.waiters), ~Full(r)
          PROVE  \E j \in i + 1 .. Len(w) : c = w[j]
      <4>1. c \in ToSet(q.waiters) /\ ~Full(q) /\ c # w[i]
        BY <3>2, <3>5, <3>6 DEF Promoted
      <4>2. PICK j \in (i - 1) + 1 .. Len(w) : c = w[j]
        BY <3>3, <4>1
      <4>3. j \in i + 1 .. Len(w)
        BY <4>1, <4>2
      <4> QED
        BY <4>2, <4>3
    <3> QED
      BY <3>4, <3>6 DEF r
  <2>7. Len(w) \in Nat
    BY <2>1
  <2>8. done(Len(w))
    <3> HIDE DEF done
    <3>1. 0 \in A /\ \A i \in 1 .. Len(w) : i - 1 \in A => i \in A
      BY <2>5, <2>6, <2>7
    <3>2. Len(w) \in 0 .. Len(w)
      BY <2>7
    <3> HIDE DEF A
    <3>3. \A i \in 0 .. Len(w) : i \in A
      BY <2>7, <3>1, Climb
    <3>4. Len(w) \in A
      BY <3>2, <3>3
    <3> QED
      BY <3>4 DEF A
  <2>9. Busy(f[Len(w)])
    <3>1. f[Len(w)] \in Tabs
      BY <2>3, <2>7 DEF FitTabs
    <3>2. \A c \in ToSet(f[Len(w)].waiters) : Full(f[Len(w)])
      BY <2>7, <2>8
    <3> QED
      BY <3>1, <3>2, EmptyLine
  <2> QED
    BY <2>4, <2>8, <2>9
<1> QED
  BY <1>1, <1>2

-----------------------------------------------------------------------------
\* A reconnect timer is as good as a connection.
LEMMA ScheduleConnects ==
  ASSUME NEW p, Fit(p), NEW c \in Clients
  PROVE  Connected(p, Schedule(p, c), c)
<1> DEFINE q == Schedule(p, c)
<1>1. /\ q \in Tabs /\ q.holders = p.holders /\ q.waiters = p.waiters
      /\ q.attempt = p.attempt /\ q.poll = p.poll /\ q.slow = p.slow
      /\ signed[c] = "in" => q.timer[c]
      /\ \A d \in Clients \ {c} : q.timer[d] = p.timer[d] /\ q.stray[d] = p.stray[d]
  BY ScheduleIs DEF Fit
<1> HIDE DEF q
<1>2. Fit(q)
  BY <1>1, SameLineFits
<1>3. signed[c] = "in" => Alive(q, c) /\ Lively(q, c)
  BY <1>1 DEF Alive, Lively
<1>4. \A d \in Clients \ {c} : Alike(p, q, d)
  BY <1>1 DEF Alike
<1> QED
  BY <1>1, <1>2, <1>3, <1>4 DEF Connected, q

\* A timer that fires connects, or is set again.
LEMMA ReconnectIs ==
  ASSUME NEW p, Fit(p), NEW c \in Clients
  PROVE  Connected(p, Reconnect(p, c), c)
BY ScheduleConnects, ConnectIs DEF Reconnect

\* Nobody new waits while a slot is free.
LEMMA BusyStill ==
  ASSUME NEW p, NEW q, Fit(q), Busy(p), p.holders \subseteq q.holders,
         \A d \in ToSet(q.waiters) : d \in ToSet(p.waiters) \/ Full(p)
  PROVE  Busy(q)
<1>1. \A d \in ToSet(p.waiters) : p.waiters # <<>>
  BY DEF ToSet
<1>2. \A d \in ToSet(q.waiters) : Full(p)
  BY <1>1 DEF Busy
<1>3. \A d \in ToSet(q.waiters) : Full(q)
  BY <1>2, StaysFull
<1> QED
  BY <1>3, EmptyLine DEF Fit

\* A tab that fits, with few forgotten timers, is typed.
LEMMA FitIsPush ==
  ASSUME NEW p, Fit(p), \A c \in Clients : p.stray[c] <= MaxStray
  PROVE  p \in Push /\ IsInjective(p.waiters) /\ ToSet(p.waiters) \cap p.holders = {}
<1>1. p \in Tabs /\ IsInjective(p.waiters) /\ ToSet(p.waiters) \cap p.holders = {}
  BY DEF Fit
<1>2. p.stray \in [Clients -> 0 .. MaxStray]
  BY <1>1, PushAssumption DEF Tabs
<1> QED
  BY <1>1, <1>2 DEF Push, Tabs

\* A step of c's that left the others alone until it was over.
Handled(c) ==
  \E p : /\ Fit(p) /\ push' = AfterTask(p)
         /\ \A d \in Clients \ {c} : Alike(push, p, d)

\* The handler of one client, with the promotions it queued.
LEMMA HandlerKeepsInv ==
  ASSUME Inv, UNCHANGED <<signed, screen, bound>>,
         limited' \in [Clients -> BOOLEAN], resume' \in [Clients -> BOOLEAN],
         NEW c \in Clients, signed[c] # "new",
         \A d \in Clients \ {c} : limited'[d] = limited[d] /\ resume'[d] = resume[d],
         c \in In /\ limited'[c] => resume'[c],
         NEW p, Fit(p), push' = AfterTask(p), \A d \in Clients : push'.stray[d] <= MaxStray,
         \A d \in Clients \ {c} : Alike(push, p, d),
         Alive(p, c),
         c \in In /\ bound[c] # "none" => Lively(p, c) \/ resume'[c],
         push.holders \subseteq p.holders => Busy(p)
  PROVE  Inv' /\ Handled(c)
<1>1. Settled(p, push') /\ Busy(push')
  BY AfterTaskIs
<1>2. Fit(push')
  BY <1>1 DEF Settled
<1>3. TypeOK'
  <2>1. /\ push' \in Push /\ IsInjective(push'.waiters)
        /\ ToSet(push'.waiters) \cap push'.holders = {}
    BY <1>2, FitIsPush
  <2> QED
    BY <2>1 DEF Inv, TypeOK, In
<1>4. ASSUME NEW d \in Clients
      PROVE  Alive(push', d)
  <2>1. CASE d = c
    BY <1>1, <2>1 DEF Settled
  <2>2. CASE d # c
    <3>1. Alive(p, d)
      BY <2>2 DEF Inv, Alive, Alike
    <3> QED
      BY <1>1, <3>1 DEF Settled
  <2> QED
    BY <2>1, <2>2
<1>5. ASSUME NEW d \in Clients, signed[d] = "new"
      PROVE  Fresh(d)'
  <2>1. Fresh(d) /\ d # c
    BY <1>5 DEF Inv
  <2>2. Alike(push, p, d) /\ Alike(p, push', d)
    BY <1>1, <1>5, <2>1 DEF Settled
  <2> QED
    BY <2>1, <2>2 DEF Fresh, Alike
<1>6. ASSUME NEW d \in In, limited'[d]
      PROVE  resume'[d]
  BY <1>6 DEF Inv, In
<1>7. ASSUME NEW d \in In, bound[d] # "none"
      PROVE  Hears(d)'
  <2>1. Lively(p, d) \/ resume'[d]
    <3>1. CASE d = c
      BY <1>7, <3>1
    <3>2. CASE d # c
      <4>1. Hears(d)
        BY <1>7 DEF Inv, NeverDeaf
      <4>2. Alike(push, p, d) /\ resume'[d] = resume[d]
        BY <1>7, <3>2 DEF In
      <4> QED
        BY <4>1, <4>2 DEF Hears, Lively, Alike
    <3> QED
      BY <3>1, <3>2
  <2>2. Lively(p, d) => Lively(push', d)
    BY <1>1, <1>7 DEF Settled, In
  <2> QED
    BY <2>1, <2>2 DEF Hears, Lively
<1>8. IsFiniteSet({d \in Clients : signed[d] # "new"})' /\ NoSlotIdle'
  BY <1>1 DEF Inv, NoSlotIdle, Busy
<1>9. (\A d \in Clients : Alive(push, d))' /\ Fit(push)'
  BY <1>2, <1>4 DEF Alive
<1>10. (\A d \in In : limited[d] => resume[d])' /\ NeverDeaf'
  BY <1>6, <1>7 DEF NeverDeaf, In
<1>11. Handled(c)
  BY DEF Handled
<1> QED
  BY <1>3, <1>5, <1>8, <1>9, <1>10, <1>11 DEF Inv

\* A handler that ends in a connection or a timer.
LEMMA ConnectingKeepsInv ==
  ASSUME Inv, Quietly, NEW c \in Clients, signed[c] # "new",
         NEW t, Fit(t), t.holders = push.holders, t.waiters = push.waiters,
         \A d \in Clients \ {c} : Alike(push, t, d),
         NEW p, Connected(t, p, c),
         push' = AfterTask(p), \A d \in Clients : push'.stray[d] <= MaxStray
  PROVE  Inv' /\ Handled(c)
<1>1. /\ UNCHANGED <<signed, screen, bound>>
      /\ limited' \in [Clients -> BOOLEAN] /\ resume' \in [Clients -> BOOLEAN]
      /\ \A d \in Clients \ {c} : limited'[d] = limited[d] /\ resume'[d] = resume[d]
      /\ c \in In /\ limited'[c] => resume'[c]
  BY DEF Inv, TypeOK, Quietly
<1>2. Fit(p) /\ t.holders \subseteq p.holders
  BY DEF Connected
<1>3. \A d \in Clients \ {c} : Alike(push, p, d)
  BY DEF Connected, Alike
<1>4. Alive(p, c)
  BY DEF Connected, Alive
<1>5. c \in In => Lively(p, c)
  BY DEF Connected, In
<1>6. Busy(p)
  <2>1. Busy(t)
    BY DEF Inv, NoSlotIdle, Busy, Full
  <2> QED
    BY <1>2, <2>1, BusyStill DEF Connected
<1> QED
  BY <1>1, <1>2, <1>3, <1>4, <1>5, <1>6, HandlerKeepsInv

\* The fetch is answered: an attempt becomes a stream.
LEMMA OpenedKeepsInv ==
  ASSUME Inv, NEW c \in Clients, Opened(c), \A d \in Clients : push'.stray[d] <= MaxStray
  PROVE  Inv' /\ Handled(c)
<1> DEFINE p == [push EXCEPT !.attempt[c] = "open"]
<1>1. push \in Tabs /\ Fit(push)
  BY DEF Inv, Fit
<1>2. /\ p \in Tabs /\ p.holders = push.holders /\ p.waiters = push.waiters
      /\ p.attempt = [push.attempt EXCEPT ![c] = "open"]
      /\ p.timer = push.timer /\ p.stray = push.stray
      /\ p.poll = push.poll /\ p.slow = push.slow
  BY <1>1 DEF Tabs
<1>3. push.attempt \in [Clients -> {"none", "connecting", "open", "ended"}]
  BY <1>1 DEF Tabs
<1>4. push' = AfterTask(p) /\ push.attempt[c] = "connecting" /\ Quietly
  BY DEF Opened, Run
<1> HIDE DEF p
<1>5. Fit(p)
  BY <1>1, <1>2, <1>3, <1>4, SameLineFits
<1>6. \A d \in Clients \ {c} : Alike(push, p, d)
  BY <1>2, <1>3 DEF Alike
<1>7. Alive(p, c) /\ Lively(p, c)
  BY <1>2, <1>3 DEF Alive, Lively
<1>8. Busy(p)
  BY <1>2 DEF Inv, NoSlotIdle, Busy, Full
<1>9. signed[c] # "new"
  BY <1>1, <1>4 DEF Inv, Fit, Fresh
<1>10. /\ UNCHANGED <<signed, screen, bound>>
       /\ limited' \in [Clients -> BOOLEAN] /\ resume' \in [Clients -> BOOLEAN]
       /\ \A d \in Clients \ {c} : limited'[d] = limited[d] /\ resume'[d] = resume[d]
       /\ c \in In /\ limited'[c] => resume'[c]
  BY <1>4 DEF Inv, TypeOK, Quietly
<1> QED
  BY <1>4, <1>5, <1>6, <1>7, <1>8, <1>9, <1>10, HandlerKeepsInv

\* The attempt fails: the slot goes to the next in line, the client polls.
LEMMA FailedKeepsInv ==
  ASSUME Inv, NEW c \in Clients, Failed(c), \A d \in Clients : push'.stray[d] <= MaxStray
  PROVE  Inv' /\ Handled(c)
<1> DEFINE p == Fallback(push, c)
<1>1. push' = AfterTask(p) /\ push.attempt[c] = "connecting" /\ Quietly
  BY DEF Failed, Run
<1>2. /\ Fit(p) /\ p.holders = push.holders \ {c}
      /\ signed[c] = "in" /\ ~limited[c] => p.poll[c]
      /\ \A d \in Clients \ {c} : Alike(push, p, d)
  BY FallbackIs DEF Inv
<1> HIDE DEF p
<1>3. c \in push.holders
  BY <1>1 DEF Inv, Fit
<1>4. signed[c] # "new"
  BY <1>3 DEF Inv, Fresh
<1>5. ~(push.holders \subseteq p.holders)
  BY <1>2, <1>3
<1>6. Alive(p, c)
  BY <1>2 DEF Alive
<1>7. c \in In => Lively(p, c) \/ resume'[c]
  BY <1>1, <1>2 DEF Inv, In, Lively, Quietly
<1>8. /\ UNCHANGED <<signed, screen, bound>>
      /\ limited' \in [Clients -> BOOLEAN] /\ resume' \in [Clients -> BOOLEAN]
      /\ \A d \in Clients \ {c} : limited'[d] = limited[d] /\ resume'[d] = resume[d]
      /\ c \in In /\ limited'[c] => resume'[c]
  BY <1>1 DEF Inv, TypeOK, Quietly
<1> QED
  BY <1>1, <1>2, <1>4, <1>5, <1>6, <1>7, <1>8, HandlerKeepsInv

\* A stream that is over leaves a timer, if the client is still signed in.
LEMMA StreamOverKeepsInv ==
  ASSUME Inv, Quietly, NEW c \in Clients, push.attempt[c] # "none",
         NEW x \in {"none", "ended"},
         push' = AfterTask(Schedule([push EXCEPT !.attempt[c] = x], c)),
         \A d \in Clients : push'.stray[d] <= MaxStray
  PROVE  Inv' /\ Handled(c)
<1> DEFINE t == [push EXCEPT !.attempt[c] = x]
<1>1. push \in Tabs /\ Fit(push)
  BY DEF Inv, Fit
<1>2. /\ t \in Tabs /\ t.holders = push.holders /\ t.waiters = push.waiters
      /\ t.attempt = [push.attempt EXCEPT ![c] = x]
      /\ t.timer = push.timer /\ t.stray = push.stray
      /\ t.poll = push.poll /\ t.slow = push.slow
  BY <1>1 DEF Tabs
<1>3. push.attempt \in [Clients -> {"none", "connecting", "open", "ended"}]
  BY <1>1 DEF Tabs
<1>4. push' = AfterTask(Schedule(t, c))
  OBVIOUS
<1> HIDE DEF t
<1>5. Fit(t)
  BY <1>1, <1>2, <1>3, SameLineFits
<1>6. \A d \in Clients \ {c} : Alike(push, t, d)
  BY <1>2, <1>3 DEF Alike
<1>7. signed[c] # "new"
  BY <1>1 DEF Inv, Fit, Fresh
<1>8. Connected(t, Schedule(t, c), c)
  BY <1>5, ScheduleConnects
<1> QED
  BY <1>2, <1>4, <1>5, <1>6, <1>7, <1>8, ConnectingKeepsInv

\* The network is back: a client without an attempt makes one.
LEMMA OnlineKeepsInv ==
  ASSUME Inv, NEW c \in Clients, Online(c), \A d \in Clients : push'.stray[d] <= MaxStray
  PROVE  Inv' /\ Handled(c)
<1>1. push' = AfterTask(ConnectSSE(push, c)) /\ Quietly /\ signed[c] # "new"
  BY DEF Online, Run, In
<1>2. Fit(push) /\ \A d \in Clients \ {c} : Alike(push, push, d)
  BY DEF Inv, Alike
<1>3. Connected(push, ConnectSSE(push, c), c)
  BY <1>2, ConnectIs
<1> QED
  BY <1>1, <1>2, <1>3, ConnectingKeepsInv

\* A reconnect timer fires.
LEMMA TimerFiresKeepsInv ==
  ASSUME Inv, NEW c \in Clients, TimerFires(c), \A d \in Clients : push'.stray[d] <= MaxStray
  PROVE  Inv' /\ Handled(c)
<1> DEFINE t == [push EXCEPT !.timer[c] = FALSE]
<1>1. push \in Tabs /\ Fit(push)
  BY DEF Inv, Fit
<1>2. /\ t \in Tabs /\ t.holders = push.holders /\ t.waiters = push.waiters
      /\ t.attempt = push.attempt /\ t.timer = [push.timer EXCEPT ![c] = FALSE]
      /\ t.stray = push.stray /\ t.poll = push.poll /\ t.slow = push.slow
  BY <1>1 DEF Tabs
<1>3. push.timer \in [Clients -> BOOLEAN]
  BY <1>1 DEF Tabs
<1>4. push' = AfterTask(Reconnect(t, c)) /\ Quietly /\ signed[c] # "new"
  BY DEF TimerFires, Run, Inv, Fresh
<1> HIDE DEF t
<1>5. Fit(t) /\ \A d \in Clients \ {c} : Alike(push, t, d)
  BY <1>1, <1>2, <1>3, SameLineFits DEF Alike
<1>6. Connected(t, Reconnect(t, c), c)
  BY <1>5, ReconnectIs
<1> QED
  BY <1>2, <1>4, <1>5, <1>6, ConnectingKeepsInv

\* A forgotten reconnect timer fires.
LEMMA StrayFiresKeepsInv ==
  ASSUME Inv, NEW c \in Clients, StrayFires(c), \A d \in Clients : push'.stray[d] <= MaxStray
  PROVE  Inv' /\ Handled(c)
<1> DEFINE t == [push EXCEPT !.stray[c] = @ - 1]
<1>1. push \in Tabs /\ Fit(push)
  BY DEF Inv, Fit
<1>2. push.stray \in [Clients -> Nat] /\ push.stray[c] - 1 \in Nat
  BY <1>1 DEF Tabs, StrayFires
<1>3. /\ t \in Tabs /\ t.holders = push.holders /\ t.waiters = push.waiters
      /\ t.attempt = push.attempt /\ t.timer = push.timer
      /\ t.stray = [push.stray EXCEPT ![c] = push.stray[c] - 1]
      /\ t.poll = push.poll /\ t.slow = push.slow
  BY <1>1, <1>2 DEF Tabs
<1>4. push' = AfterTask(Reconnect(t, c)) /\ Quietly /\ signed[c] # "new"
  BY DEF StrayFires, Run, Inv, Fresh
<1> HIDE DEF t
<1>5. Fit(t) /\ \A d \in Clients \ {c} : Alike(push, t, d)
  BY <1>1, <1>2, <1>3, SameLineFits DEF Alike
<1>6. Connected(t, Reconnect(t, c), c)
  BY <1>5, ReconnectIs
<1> QED
  BY <1>3, <1>4, <1>5, <1>6, ConnectingKeepsInv

\* A rate limit closes the client, to be resumed.
LEMMA RateLimitedKeepsInv ==
  ASSUME Inv, NEW c \in Clients, RateLimited(c), \A d \in Clients : push'.stray[d] <= MaxStray
  PROVE  Inv' /\ Handled(c)
<1> DEFINE p == Close(push, c)
<1>1. /\ push' = AfterTask(p) /\ UNCHANGED <<signed, screen, bound>>
      /\ limited' = [limited EXCEPT ![c] = TRUE] /\ resume' = [resume EXCEPT ![c] = TRUE]
      /\ c \in In \/ push.attempt[c] = "connecting"
  BY DEF RateLimited, Run
<1>2. /\ Fit(p) /\ p.holders = push.holders \ {c}
      /\ ToSet(p.waiters) = ToSet(push.waiters) \ {c}
      /\ \A d \in Clients \ {c} : Alike(push, p, d)
  BY CloseIs DEF Inv
<1> HIDE DEF p
<1>3. limited \in [Clients -> BOOLEAN] /\ resume \in [Clients -> BOOLEAN]
  BY DEF Inv, TypeOK
<1>4. signed[c] # "new"
  BY <1>1 DEF Inv, Fit, Fresh, In
<1>5. push.holders \subseteq p.holders => Busy(p)
  <2>1. Busy(push)
    BY DEF Inv, NoSlotIdle, Busy
  <2> QED
    BY <1>2, <2>1, BusyStill
<1>6. Alive(p, c)
  BY <1>2 DEF Alive
<1>7. /\ limited' \in [Clients -> BOOLEAN] /\ resume' \in [Clients -> BOOLEAN] /\ resume'[c]
      /\ \A d \in Clients \ {c} : limited'[d] = limited[d] /\ resume'[d] = resume[d]
  BY <1>1, <1>3
<1> QED
  BY <1>1, <1>2, <1>4, <1>5, <1>6, <1>7, HandlerKeepsInv

\* A bound client's live updates are set up again when its rate limit is over.
LEMMA ResumeKeepsInv ==
  ASSUME Inv, NEW c \in Clients, Resume(c), \A d \in Clients : push'.stray[d] <= MaxStray
  PROVE  Inv' /\ (Handled(c) \/ UNCHANGED push)
<1>1. /\ resume[c] /\ ~limited[c] /\ resume' = [resume EXCEPT ![c] = FALSE]
      /\ UNCHANGED <<signed, screen, bound, limited>>
  BY DEF Resume
<1>2. limited \in [Clients -> BOOLEAN] /\ resume \in [Clients -> BOOLEAN]
  BY DEF Inv, TypeOK
<1>3. /\ limited' \in [Clients -> BOOLEAN] /\ resume' \in [Clients -> BOOLEAN]
      /\ \A d \in Clients \ {c} : limited'[d] = limited[d] /\ resume'[d] = resume[d]
      /\ ~limited'[c]
  BY <1>1, <1>2
<1>4. CASE c \in In /\ bound[c] # "none"
  <2> DEFINE p == Setup(push, c)
  <2>1. push' = AfterTask(p)
    BY <1>4 DEF Resume, Run
  <2>2. Connected(push, p, c)
    BY SetupIs DEF Inv
  <2> HIDE DEF p
  <2>3. Busy(p)
    <3>1. Busy(push)
      BY DEF Inv, NoSlotIdle, Busy
    <3> QED
      BY <2>2, <3>1, BusyStill DEF Connected
  <2>4. /\ signed[c] # "new" /\ Fit(p) /\ Alive(p, c) /\ Lively(p, c)
        /\ \A d \in Clients \ {c} : Alike(push, p, d)
    BY <1>4, <2>2 DEF Connected, In
  <2> QED
    BY <1>1, <1>3, <2>1, <2>3, <2>4, HandlerKeepsInv
<1>5. CASE ~(c \in In /\ bound[c] # "none")
  <2>1. UNCHANGED push
    BY <1>5 DEF Resume
  <2>2. \A d \in In : bound[d] # "none" => Hears(d)'
    BY <1>1, <1>3, <1>5, <2>1 DEF Inv, NeverDeaf, Hears, In
  <2>3. \A d \in In : limited[d] => resume'[d]
    BY <1>1, <1>3 DEF Inv, In
  <2>4. TypeOK'
    BY <1>1, <1>3, <2>1 DEF Inv, TypeOK, In
  <2>5. \A d \in Clients : signed[d] = "new" => Fresh(d)'
    BY <1>1, <2>1 DEF Inv, Fresh
  <2>6. (\A d \in Clients : Alive(push, d))' /\ Fit(push)' /\ NoSlotIdle'
    BY <1>1, <2>1 DEF Inv, Alive, NoSlotIdle
  <2>7. (\A d \in In : limited[d] => resume[d])' /\ NeverDeaf'
    BY <1>1, <2>2, <2>3 DEF NeverDeaf, In
  <2>8. IsFiniteSet({d \in Clients : signed[d] # "new"})'
    BY <1>1 DEF Inv
  <2> QED
    BY <1>1, <2>1, <2>4, <2>5, <2>6, <2>7, <2>8 DEF Inv
<1> QED
  BY <1>4, <1>5

\* A client that signs in has nothing to lose.
LEMMA SignInKeepsInv ==
  ASSUME Inv, NEW c \in Clients, SignIn(c)
  PROVE  Inv'
<1>1. /\ signed[c] = "new" /\ signed' = [signed EXCEPT ![c] = "in"]
      /\ screen' = c \/ screen' = screen
      /\ UNCHANGED <<bound, limited, resume, push>>
  BY DEF SignIn
<1>2. signed \in [Clients -> {"new", "in", "out"}] /\ screen \in In \cup {Nobody}
  BY DEF Inv, TypeOK
<1>3. In' = In \cup {c}
  BY <1>1, <1>2 DEF In
<1>4. Fresh(c)
  BY <1>1 DEF Inv
<1>5. TypeOK'
  <2>1. signed' \in [Clients -> {"new", "in", "out"}] /\ screen' \in In' \cup {Nobody}
    BY <1>1, <1>2, <1>3
  <2> QED
    BY <1>1, <2>1 DEF Inv, TypeOK
<1>6. IsFiniteSet({d \in Clients : signed[d] # "new"})'
  <2>1. {d \in Clients : signed'[d] # "new"} = {d \in Clients : signed[d] # "new"} \cup {c}
    BY <1>1, <1>2
  <2>2. IsFiniteSet({d \in Clients : signed[d] # "new"} \cup {c})
    BY FS_AddElement DEF Inv
  <2> QED
    BY <2>1, <2>2
<1>7. (\A d \in Clients : Alive(push, d))'
  BY <1>1, <1>2, <1>4 DEF Inv, Alive, Fresh
<1>8. (\A d \in Clients : signed[d] = "new" => Fresh(d))'
  BY <1>1, <1>2 DEF Inv, Fresh
<1>9. (\A d \in In : limited[d] => resume[d])'
  BY <1>1, <1>3, <1>4 DEF Inv, Fresh
<1>10. NeverDeaf'
  BY <1>1, <1>3, <1>4 DEF Inv, NeverDeaf, Hears, Fresh
<1>11. Fit(push)' /\ NoSlotIdle'
  BY <1>1 DEF Inv, NoSlotIdle
<1> QED
  BY <1>5, <1>6, <1>7, <1>8, <1>9, <1>10, <1>11 DEF Inv

\* Another account on screen changes nothing else.
LEMMA SwitchToKeepsInv ==
  ASSUME Inv, NEW c \in Clients, SwitchTo(c)
  PROVE  Inv'
<1>1. UNCHANGED <<signed, bound, limited, resume, push>> /\ screen' \in In
  BY DEF SwitchTo
<1>2. TypeOK' /\ In' = In
  BY <1>1 DEF Inv, TypeOK, In
<1>3. (\A d \in Clients : Alive(push, d))' /\ (\A d \in Clients : signed[d] = "new" => Fresh(d))'
  BY <1>1 DEF Inv, Alive, Fresh
<1>4. Fit(push)' /\ NoSlotIdle' /\ NeverDeaf'
  BY <1>1, <1>2 DEF Inv, NoSlotIdle, NeverDeaf, Hears
<1> QED
  BY <1>1, <1>2, <1>3, <1>4 DEF Inv

\* Nobody on screen changes nothing else yet.
LEMMA SwitchAwayKeepsInv ==
  ASSUME Inv, SwitchAway
  PROVE  Inv'
<1>1. UNCHANGED <<signed, bound, limited, resume, push>> /\ screen' = Nobody
  BY DEF SwitchAway
<1>2. TypeOK' /\ In' = In
  BY <1>1 DEF Inv, TypeOK, In
<1>3. (\A d \in Clients : Alive(push, d))' /\ (\A d \in Clients : signed[d] = "new" => Fresh(d))'
  BY <1>1 DEF Inv, Alive, Fresh
<1>4. Fit(push)' /\ NoSlotIdle' /\ NeverDeaf'
  BY <1>1, <1>2 DEF Inv, NoSlotIdle, NeverDeaf, Hears
<1> QED
  BY <1>1, <1>2, <1>3, <1>4 DEF Inv

\* The end of a rate limit changes nothing yet.
LEMMA LimitOverKeepsInv ==
  ASSUME Inv, NEW c \in Clients, LimitOver(c)
  PROVE  Inv'
<1>1. UNCHANGED <<signed, screen, bound, resume, push>> /\ limited' = [limited EXCEPT ![c] = FALSE]
  BY DEF LimitOver
<1>2. limited \in [Clients -> BOOLEAN]
  BY DEF Inv, TypeOK
<1>3. limited' \in [Clients -> BOOLEAN] /\ \A d \in Clients : limited'[d] => limited[d]
  BY <1>1, <1>2
<1>4. TypeOK' /\ In' = In
  BY <1>1, <1>3 DEF Inv, TypeOK, In
<1>5. (\A d \in Clients : Alive(push, d))' /\ (\A d \in Clients : signed[d] = "new" => Fresh(d))'
  BY <1>1, <1>3 DEF Inv, Alive, Fresh
<1>6. (\A d \in In : limited[d] => resume[d])'
  BY <1>1, <1>3, <1>4 DEF Inv, In
<1>7. Fit(push)' /\ NoSlotIdle' /\ NeverDeaf'
  BY <1>1, <1>4 DEF Inv, NoSlotIdle, NeverDeaf, Hears
<1> QED
  BY <1>1, <1>4, <1>5, <1>6, <1>7 DEF Inv

\* A client that signs out is closed; its slot goes to the next in line.
LEMMA SignOutKeepsInv ==
  ASSUME Inv, NEW c \in Clients, SignOut(c), \A d \in Clients : push'.stray[d] <= MaxStray
  PROVE  Inv'
<1> DEFINE p == Close(push, c)
<1>1. /\ c \in In /\ signed' = [signed EXCEPT ![c] = "out"]
      /\ screen' = IF c = screen THEN Nobody ELSE screen
      /\ resume' = [resume EXCEPT ![c] = FALSE]
      /\ push' = AfterTask(p)
      /\ UNCHANGED <<bound, limited>>
  BY DEF SignOut, Run
<1>2. /\ Fit(p) /\ p.holders = push.holders \ {c}
      /\ ToSet(p.waiters) = ToSet(push.waiters) \ {c}
      /\ \A d \in Clients \ {c} : Alike(push, p, d)
  BY CloseIs DEF Inv
<1> HIDE DEF p
<1>3. /\ signed \in [Clients -> {"new", "in", "out"}] /\ screen \in In \cup {Nobody}
      /\ resume \in [Clients -> BOOLEAN]
  BY DEF Inv, TypeOK
<1>4. /\ In' = In \ {c} /\ signed' \in [Clients -> {"new", "in", "out"}]
      /\ resume' \in [Clients -> BOOLEAN]
      /\ \A d \in Clients \ {c} : signed'[d] = signed[d] /\ resume'[d] = resume[d]
      /\ signed'[c] = "out"
  BY <1>1, <1>3 DEF In
<1>5. Settled(p, push') /\ Busy(push')
  <2>1. push.holders \subseteq p.holders => Busy(p)
    <3>1. Busy(push)
      BY DEF Inv, NoSlotIdle, Busy
    <3> QED
      BY <1>2, <3>1, BusyStill
  <2> QED
    BY <1>1, <1>2, <2>1, AfterTaskIs
<1>6. Fit(push')
  BY <1>5 DEF Settled
<1>7. TypeOK'
  <2>1. /\ push' \in Push /\ IsInjective(push'.waiters)
        /\ ToSet(push'.waiters) \cap push'.holders = {}
    BY <1>6, FitIsPush
  <2>2. screen' \in In' \cup {Nobody}
    BY <1>1, <1>3, <1>4
  <2> QED
    BY <1>1, <1>4, <2>1, <2>2 DEF Inv, TypeOK
<1>8. IsFiniteSet({d \in Clients : signed[d] # "new"})'
  <2>1. {d \in Clients : signed'[d] # "new"} = {d \in Clients : signed[d] # "new"}
    BY <1>1, <1>3 DEF In
  <2> QED
    BY <2>1 DEF Inv
<1>9. ASSUME NEW d \in Clients
      PROVE  Alive(push, d)'
  <2>1. CASE d = c
    BY <1>4, <2>1 DEF Alive
  <2>2. CASE d # c
    <3>1. Alive(p, d)
      BY <1>2, <2>2 DEF Inv, Alive, Alike
    <3>2. Alive(push', d)
      BY <1>5, <3>1 DEF Settled
    <3> QED
      BY <1>4, <2>2, <3>2 DEF Alive
  <2> QED
    BY <2>1, <2>2
<1>10. ASSUME NEW d \in Clients, signed'[d] = "new"
       PROVE  Fresh(d)'
  <2>1. d # c /\ signed[d] = "new"
    BY <1>4, <1>10
  <2>2. Fresh(d) /\ Alike(push, p, d) /\ Alike(p, push', d)
    BY <1>2, <1>5, <2>1 DEF Inv, Settled
  <2> QED
    BY <1>1, <2>2 DEF Fresh, Alike
<1>11. \A d \in In' : limited'[d] => resume'[d]
  BY <1>1, <1>4 DEF Inv, In
<1>12. ASSUME NEW d \in In', bound'[d] # "none"
       PROVE  Hears(d)'
  <2>1. d \in Clients \ {c} /\ d \in In
    BY <1>4 DEF In
  <2>2. Hears(d) /\ Alike(push, p, d) /\ resume'[d] = resume[d]
    BY <1>1, <1>2, <1>4, <1>12, <2>1 DEF Inv, NeverDeaf
  <2>3. Lively(p, d) \/ resume'[d]
    BY <2>2 DEF Hears, Lively, Alike
  <2>4. Lively(p, d) => Lively(push', d)
    BY <1>5, <2>1 DEF Settled, In
  <2> QED
    BY <2>3, <2>4 DEF Hears, Lively
<1>13. NoSlotIdle' /\ Fit(push)'
  BY <1>5, <1>6 DEF NoSlotIdle, Busy
<1>14. NeverDeaf'
  BY <1>12 DEF NeverDeaf
<1> QED
  BY <1>7, <1>8, <1>9, <1>10, <1>11, <1>13, <1>14 DEF Inv

-----------------------------------------------------------------------------
\* What every unbinding keeps, a run of them keeps.
LEMMA UnbindEach ==
  ASSUME NEW S, NEW T, NEW start \in S, NEW w \in Seq(T),
         \A b \in S, c \in T : Unbind(b, c) \in S
  PROVE  Each(Unbind, start, w) \in S
<1> DEFINE g == [x \in S \X T |-> Unbind(x[1], x[2])]
           Def(f) == [i \in 0 .. Len(w) |-> IF i = 0 THEN start ELSE Unbind(f[i - 1], w[i])]
           after == CHOOSE f : f = Def(f)
<1>1. Each(Unbind, start, w) = after[Len(w)]
  BY DEF Each
<1>2. g \in [S \X T -> S] /\ \A b \in S, c \in T : g[<<b, c>>] = Unbind(b, c)
  OBVIOUS
<1>3. \E f : f = Def(f)
  <2> HIDE DEF g
  <2>1. PICK f \in [0 .. Len(w) -> S] :
               f[0] = start /\ \A i \in 1 .. Len(w) : f[i] = g[<<f[i - 1], w[i]>>]
    <3>1. Stages(S, start, w, g) # {}
      BY <1>2, Recurrence
    <3> QED
      BY <3>1 DEF Stages
  <2>2. ASSUME NEW i \in 1 .. Len(w)
        PROVE  f[i] = Unbind(f[i - 1], w[i])
    <3>1. f[i - 1] \in S /\ w[i] \in T
      OBVIOUS
    <3> QED
      BY <1>2, <2>1, <3>1
  <2>3. \A i \in 0 .. Len(w) : f[i] = Def(f)[i]
    BY <2>1, <2>2
  <2>4. f = Def(f)
    BY <2>3
  <2> QED
    BY <2>4
<1>4. after = Def(after)
  <2> HIDE DEF Def
  <2> QED
    BY <1>3
<1> HIDE DEF after
<1>5. after[0] = start /\ \A i \in 1 .. Len(w) : after[i] = Unbind(after[i - 1], w[i])
  <2>1. \A i \in 0 .. Len(w) : after[i] = Def(after)[i]
    BY <1>4
  <2> QED
    BY <2>1
<1>6. after[Len(w)] \in S
  <2> DEFINE A == {i \in 0 .. Len(w) : after[i] \in S}
  <2>1. 0 \in A
    BY <1>5
  <2>2. ASSUME NEW i \in 1 .. Len(w), i - 1 \in A
        PROVE  i \in A
    <3>1. w[i] \in T
      OBVIOUS
    <3> QED
      BY <1>5, <2>2, <3>1
  <2>3. Len(w) \in Nat /\ Len(w) \in 0 .. Len(w)
    OBVIOUS
  <2> HIDE DEF A
  <2>4. \A i \in 1 .. Len(w) : i - 1 \in A => i \in A
    BY <2>2
  <2>5. \A i \in 0 .. Len(w) : i \in A
    BY <2>1, <2>3, <2>4, Climb
  <2> QED
    BY <2>3, <2>5 DEF A
<1> QED
  BY <1>1, <1>6

\* What every visit keeps, a run of them keeps.
LEMMA VisitEach ==
  ASSUME NEW S, NEW T, NEW start \in S, NEW w \in Seq(T),
         \A b \in S, c \in T : Visit(b, c) \in S
  PROVE  Each(Visit, start, w) \in S
<1> DEFINE g == [x \in S \X T |-> Visit(x[1], x[2])]
           Def(f) == [i \in 0 .. Len(w) |-> IF i = 0 THEN start ELSE Visit(f[i - 1], w[i])]
           after == CHOOSE f : f = Def(f)
<1>1. Each(Visit, start, w) = after[Len(w)]
  BY DEF Each
<1>2. g \in [S \X T -> S] /\ \A b \in S, c \in T : g[<<b, c>>] = Visit(b, c)
  OBVIOUS
<1>3. \E f : f = Def(f)
  <2> HIDE DEF g
  <2>1. PICK f \in [0 .. Len(w) -> S] :
               f[0] = start /\ \A i \in 1 .. Len(w) : f[i] = g[<<f[i - 1], w[i]>>]
    <3>1. Stages(S, start, w, g) # {}
      BY <1>2, Recurrence
    <3> QED
      BY <3>1 DEF Stages
  <2>2. ASSUME NEW i \in 1 .. Len(w)
        PROVE  f[i] = Visit(f[i - 1], w[i])
    <3>1. f[i - 1] \in S /\ w[i] \in T
      OBVIOUS
    <3> QED
      BY <1>2, <2>1, <3>1
  <2>3. \A i \in 0 .. Len(w) : f[i] = Def(f)[i]
    BY <2>1, <2>2
  <2>4. f = Def(f)
    BY <2>3
  <2> QED
    BY <2>4
<1>4. after = Def(after)
  <2> HIDE DEF Def
  <2> QED
    BY <1>3
<1> HIDE DEF after
<1>5. after[0] = start /\ \A i \in 1 .. Len(w) : after[i] = Visit(after[i - 1], w[i])
  <2>1. \A i \in 0 .. Len(w) : after[i] = Def(after)[i]
    BY <1>4
  <2> QED
    BY <2>1
<1>6. after[Len(w)] \in S
  <2> DEFINE A == {i \in 0 .. Len(w) : after[i] \in S}
  <2>1. 0 \in A
    BY <1>5
  <2>2. ASSUME NEW i \in 1 .. Len(w), i - 1 \in A
        PROVE  i \in A
    <3>1. w[i] \in T
      OBVIOUS
    <3> QED
      BY <1>5, <2>2, <3>1
  <2>3. Len(w) \in Nat /\ Len(w) \in 0 .. Len(w)
    OBVIOUS
  <2> HIDE DEF A
  <2>4. \A i \in 1 .. Len(w) : i - 1 \in A => i \in A
    BY <2>2
  <2>5. \A i \in 0 .. Len(w) : i \in A
    BY <2>1, <2>3, <2>4, Climb
  <2> QED
    BY <2>3, <2>5 DEF A
<1> QED
  BY <1>1, <1>6

\* A finite set as a sequence.
LEMMA SetToSeqIs ==
  ASSUME NEW S, IsFiniteSet(S)
  PROVE  SetToSeq(S) \in Seq(S)
<1>1. ExistsBijection(1 .. Cardinality(S), S) /\ Cardinality(S) \in Nat
  BY FS_CardinalityType
<1>2. \E f \in [1 .. Cardinality(S) -> S] : IsInjective(f)
  BY <1>1, Zenon DEF ExistsBijection, Bijection, Injection
<1>3. SetToSeq(S) \in [1 .. Cardinality(S) -> S]
  BY <1>2 DEF SetToSeq
<1> QED
  BY <1>1, <1>3

-----------------------------------------------------------------------------
\* A client that is not signed in gains nothing.
Quieter(p, q, c) ==
  /\ c \in q.holders => c \in p.holders
  /\ q.attempt[c] # "none" => p.attempt[c] # "none"
  /\ q.timer[c] => p.timer[c]
  /\ q.poll[c] => p.poll[c]
  /\ q.stray[c] = p.stray[c]

\* The tab and its bindings in the middle of reconcilePushBindings().
Midway ==
  {b \in [push : FitTabs, bound : [Clients -> {"none", "active", "background"}]] :
     /\ \A c \in Clients : Alive(b.push, c)
     /\ \A c \in In : b.bound[c] # "none" => Lively(b.push, c) \/ resume[c]
     /\ \A c \in Clients \ In : Quieter(push, b.push, c)
                                /\ (b.bound[c] # "none" => bound[c] # "none")}

\* While it takes slots away, and once it gives them out.
Taking == {b \in Midway : /\ b.push.holders \subseteq push.holders
                          /\ ToSet(b.push.waiters) \subseteq ToSet(push.waiters)}
Giving == {b \in Midway : \A c \in ToSet(b.push.waiters) : c \in ToSet(push.waiters) \/ Full(b.push)}

\* Unbinding closes one client and forgets its binding.
LEMMA UnbindTakes ==
  ASSUME NEW b \in Taking, NEW c \in Clients
  PROVE  Unbind(b, c) \in Taking
<1> DEFINE p == b.push
           q == Close(p, c)
           new == [b.bound EXCEPT ![c] = "none"]
<1>1. /\ b.bound \in [Clients -> {"none", "active", "background"}] /\ Fit(p) /\ b \in Midway
      /\ p.holders \subseteq push.holders /\ ToSet(p.waiters) \subseteq ToSet(push.waiters)
  BY DEF Taking, Midway, FitTabs
<1>2. /\ Fit(q) /\ q.holders = p.holders \ {c} /\ ToSet(q.waiters) = ToSet(p.waiters) \ {c}
      /\ q.attempt[c] = "none" /\ ~q.timer[c] /\ ~q.poll[c] /\ q.stray[c] = p.stray[c]
      /\ \A d \in Clients \ {c} : Alike(p, q, d)
  BY <1>1, CloseIs
<1>3. Unbind(b, c) = [push |-> q, bound |-> new]
  BY DEF Unbind
<1>4. /\ new \in [Clients -> {"none", "active", "background"}] /\ new[c] = "none"
      /\ \A d \in Clients \ {c} : new[d] = b.bound[d]
  BY <1>1
<1>5. /\ \A d \in Clients : Alive(p, d)
      /\ \A d \in In : b.bound[d] # "none" => Lively(p, d) \/ resume[d]
      /\ \A d \in Clients \ In : Quieter(push, p, d) /\ (b.bound[d] # "none" => bound[d] # "none")
  BY <1>1 DEF Midway
<1> HIDE DEF p, q, new
<1>6. \A d \in Clients : Alive(q, d)
  BY <1>2, <1>5 DEF Alive, Alike
<1>7. \A d \in In : new[d] # "none" => Lively(q, d) \/ resume[d]
  BY <1>2, <1>4, <1>5 DEF Lively, Alike, In
<1>8. ASSUME NEW d \in Clients \ In
      PROVE  Quieter(push, q, d) /\ (new[d] # "none" => bound[d] # "none")
  <2>1. CASE d = c
    BY <1>2, <1>4, <1>5, <2>1 DEF Quieter
  <2>2. CASE d # c
    BY <1>2, <1>4, <1>5, <2>2 DEF Quieter, Alike
  <2> QED
    BY <2>1, <2>2
<1>9. q \in FitTabs
  BY <1>2 DEF FitTabs, Fit
<1>10. [push |-> q, bound |-> new] \in Midway
  BY <1>4, <1>6, <1>7, <1>8, <1>9 DEF Midway
<1> QED
  BY <1>1, <1>2, <1>3, <1>10 DEF Taking

\* Binding sets a signed-in client up; it waits only if no slot is free.
LEMMA BindGives ==
  ASSUME NEW b \in Giving, NEW c \in In
  PROVE  Bind(b, c) \in Giving
<1> DEFINE p == b.push
           q == Setup(p, c)
           new == [b.bound EXCEPT ![c] = Role(c)]
<1>1. /\ b.bound \in [Clients -> {"none", "active", "background"}] /\ Fit(p) /\ b \in Midway
      /\ \A d \in ToSet(p.waiters) : d \in ToSet(push.waiters) \/ Full(p)
  BY DEF Giving, Midway, FitTabs
<1>2. c \in Clients /\ signed[c] = "in"
  BY DEF In
<1>3. Connected(p, q, c)
  BY <1>1, <1>2, SetupIs
<1>4. Bind(b, c) = [push |-> q, bound |-> new]
  BY DEF Bind
<1>5. /\ new \in [Clients -> {"none", "active", "background"}]
      /\ \A d \in Clients \ {c} : new[d] = b.bound[d]
  BY <1>1 DEF Role
<1>6. /\ \A d \in Clients : Alive(p, d)
      /\ \A d \in In : b.bound[d] # "none" => Lively(p, d) \/ resume[d]
      /\ \A d \in Clients \ In : Quieter(push, p, d) /\ (b.bound[d] # "none" => bound[d] # "none")
  BY <1>1 DEF Midway
<1> HIDE DEF p, q, new
<1>7. /\ Fit(q) /\ p.holders \subseteq q.holders /\ Alive(q, c) /\ Lively(q, c)
      /\ \A d \in ToSet(q.waiters) : d \in ToSet(p.waiters) \/ Full(p)
      /\ \A d \in Clients \ {c} : Alike(p, q, d)
  BY <1>2, <1>3 DEF Connected
<1>8. \A d \in Clients : Alive(q, d)
  BY <1>6, <1>7 DEF Alive, Alike
<1>9. \A d \in In : new[d] # "none" => Lively(q, d) \/ resume[d]
  BY <1>5, <1>6, <1>7 DEF Lively, Alike, In
<1>10. \A d \in Clients \ In : Quieter(push, q, d) /\ (new[d] # "none" => bound[d] # "none")
  BY <1>5, <1>6, <1>7 DEF Quieter, Alike
<1>11. q \in FitTabs
  BY <1>7 DEF FitTabs, Fit
<1>12. [push |-> q, bound |-> new] \in Midway
  BY <1>5, <1>8, <1>9, <1>10, <1>11 DEF Midway
<1>13. Full(p) => Full(q)
  BY <1>7, StaysFull
<1> QED
  BY <1>1, <1>4, <1>7, <1>12, <1>13 DEF Giving

\* A role that only changes its name.
LEMMA RenameGives ==
  ASSUME NEW b \in Giving, NEW c \in In, b.bound[c] # "none"
  PROVE  [b EXCEPT !.bound[c] = Role(c)] \in Giving
<1> DEFINE new == [b.bound EXCEPT ![c] = Role(c)]
           x == [b EXCEPT !.bound[c] = Role(c)]
<1>1. /\ b \in [push : FitTabs, bound : [Clients -> {"none", "active", "background"}]]
      /\ b \in Midway
  BY DEF Giving, Midway
<1>2. x.push = b.push /\ x.bound = new /\ x = [push |-> b.push, bound |-> new]
  BY <1>1
<1>3. /\ new \in [Clients -> {"none", "active", "background"}]
      /\ \A d \in Clients \ {c} : new[d] = b.bound[d]
  BY <1>1 DEF Role
<1> HIDE DEF new, x
<1>4. x \in [push : FitTabs, bound : [Clients -> {"none", "active", "background"}]]
  BY <1>1, <1>2, <1>3
<1>5. \A d \in In : new[d] # "none" => Lively(b.push, d) \/ resume[d]
  BY <1>1, <1>3 DEF Midway, In
<1>6. \A d \in Clients \ In : Quieter(push, b.push, d) /\ (new[d] # "none" => bound[d] # "none")
  BY <1>1, <1>3 DEF Midway
<1>7. x \in Midway
  BY <1>1, <1>2, <1>4, <1>5, <1>6 DEF Midway
<1> QED
  BY <1>2, <1>7 DEF Giving, x

\* The visits after the first only give.
LEMMA VisitGives ==
  ASSUME NEW b \in Giving, NEW c \in In \ {screen}, screen # Nobody
  PROVE  Visit(b, c) \in Giving
<1>1. CASE b.bound[c] = "none"
  BY <1>1, BindGives DEF Visit
<1>2. CASE b.bound[c] # "none"
  <2>1. Role(c) = "background"
    BY DEF Role
  <2>2. Visit(b, c) = [b EXCEPT !.bound[c] = Role(c)]
    BY <1>2, <2>1 DEF Visit
  <2> QED
    BY <1>2, <2>2, RenameGives
<1> QED
  BY <1>1, <1>2

\* What only took, may give.
LEMMA TakingGives == Taking \subseteq Giving
BY DEF Taking, Giving

\* The first visit, of the account on screen, may take before it gives.
LEMMA FirstVisitGives ==
  ASSUME Inv, screen # Nobody, NEW b \in Taking
  PROVE  Visit(b, screen) \in Giving
<1> DEFINE displaced == {d \in Clients : b.bound[d] = "active"}
           c == screen
<1>1. c \in In /\ c \in Clients /\ b \in Giving
  BY TakingGives DEF Inv, TypeOK, In
<1>2. CASE b.bound[c] = "none"
  BY <1>1, <1>2, BindGives DEF Visit
<1>3. CASE b.bound[c] # "none" /\ Role(c) = "active" /\ b.bound[c] # "active" /\ c \notin b.push.holders
  <2>1. Visit(b, c) = Bind(Unbind(Each(Unbind, b, SetToSeq(displaced)), c), c)
    BY <1>3 DEF Visit
  <2>2. displaced \subseteq {d \in Clients : signed[d] # "new"}
    <3> SUFFICES ASSUME NEW d \in Clients, b.bound[d] = "active"
                 PROVE  signed[d] # "new"
      OBVIOUS
    <3>1. CASE d \in In
      BY <3>1 DEF In
    <3>2. CASE d \notin In
      <4>1. bound[d] # "none"
        BY <3>2 DEF Taking, Midway
      <4> QED
        BY <4>1 DEF Inv, Fresh
    <3> QED
      BY <3>1, <3>2
  <2>3. IsFiniteSet(displaced)
    BY <2>2, FS_Subset DEF Inv
  <2> HIDE DEF displaced
  <2>4. SetToSeq(displaced) \in Seq(displaced)
    BY <2>3, SetToSeqIs
  <2>5. \A x \in Taking, d \in displaced : Unbind(x, d) \in Taking
    BY UnbindTakes DEF displaced
  <2>6. Each(Unbind, b, SetToSeq(displaced)) \in Taking
    BY <2>4, <2>5, UnbindEach
  <2>7. Unbind(Each(Unbind, b, SetToSeq(displaced)), c) \in Giving
    BY <1>1, <2>6, UnbindTakes, TakingGives
  <2> QED
    BY <1>1, <2>1, <2>7, BindGives
<1>4. CASE /\ b.bound[c] # "none"
           /\ ~(Role(c) = "active" /\ b.bound[c] # "active" /\ c \notin b.push.holders)
  <2>1. Visit(b, c) = [b EXCEPT !.bound[c] = Role(c)]
    BY <1>4 DEF Visit
  <2> QED
    BY <1>1, <1>4, <2>1, RenameGives
<1> QED
  BY <1>2, <1>3, <1>4

\* A finite set in any order.
LEMMA SetToSeqsIs ==
  ASSUME NEW S, IsFiniteSet(S), NEW w \in SetToSeqs(S)
  PROVE  w \in Seq(S)
<1>1. Cardinality(S) \in Nat
  BY FS_CardinalityType
<1>2. w \in [1 .. Cardinality(S) -> S]
  BY DEF SetToSeqs
<1> QED
  BY <1>1, <1>2

\* reconcilePushBindings() takes first and gives then.
LEMMA ReconcileIs ==
  ASSUME Inv, Reconcile
  PROVE  \E b \in Giving : push' = AfterTask(b.push) /\ bound' = b.bound
<1> DEFINE gone == {c \in Clients : bound[c] # "none" /\ Role(c) = "none"}
           start == [push |-> push, bound |-> bound]
           left == Each(Unbind, start, SetToSeq(gone))
           done(others) == IF screen = Nobody THEN left
                           ELSE Each(Visit, Visit(left, screen), others)
<1>1. PICK others \in SetToSeqs(In \ {screen}) :
             push' = AfterTask(done(others).push) /\ bound' = done(others).bound
  BY DEF Reconcile, Run
<1>2. /\ IsFiniteSet({c \in Clients : signed[c] # "new"})
      /\ bound \in [Clients -> {"none", "active", "background"}] /\ Fit(push)
  BY DEF Inv, TypeOK
<1>3. IsFiniteSet(In \ {screen})
  <2>1. In \ {screen} \subseteq {c \in Clients : signed[c] # "new"}
    BY DEF In
  <2> QED
    BY <1>2, <2>1, FS_Subset
<1>4. IsFiniteSet(gone) /\ gone \subseteq Clients
  <2>1. gone \subseteq {c \in Clients : signed[c] # "new"}
    BY DEF Inv, Fresh
  <2> QED
    BY <1>2, <2>1, FS_Subset
<1>5. start \in Taking
  <2>1. start \in [push : FitTabs, bound : [Clients -> {"none", "active", "background"}]]
    BY <1>2 DEF FitTabs, Fit
  <2>2. /\ start.push = push /\ start.bound = bound
        /\ \A c \in Clients : Alive(push, c) /\ Quieter(push, push, c)
    BY DEF Inv, Quieter
  <2>3. \A c \in In : bound[c] # "none" => Lively(push, c) \/ resume[c]
    BY DEF Inv, NeverDeaf, Hears, Lively
  <2>4. start \in Midway
    BY <2>1, <2>2, <2>3 DEF Midway
  <2> QED
    BY <2>2, <2>4 DEF Taking
<1> HIDE DEF gone, start
<1>6. left \in Taking
  <2>1. SetToSeq(gone) \in Seq(gone)
    BY <1>4, SetToSeqIs
  <2>2. \A x \in Taking, c \in gone : Unbind(x, c) \in Taking
    BY <1>4, UnbindTakes
  <2> QED
    BY <1>5, <2>1, <2>2, UnbindEach
<1> HIDE DEF left
<1>7. ASSUME screen = Nobody
      PROVE  done(others) \in Giving
  BY <1>6, <1>7, TakingGives
<1>8. ASSUME screen # Nobody
      PROVE  done(others) \in Giving
  <2>1. others \in Seq(In \ {screen})
    BY <1>3, SetToSeqsIs
  <2>2. \A b \in Giving, c \in In \ {screen} : Visit(b, c) \in Giving
    BY <1>8, VisitGives
  <2>3. Visit(left, screen) \in Giving
    BY <1>6, <1>8, FirstVisitGives
  <2>4. Each(Visit, Visit(left, screen), others) \in Giving
    BY <2>1, <2>2, <2>3, VisitEach
  <2> QED
    BY <1>8, <2>4
<1>9. done(others) \in Giving
  BY <1>7, <1>8
<1> HIDE DEF done
<1> QED
  BY <1>1, <1>9

\* The bindings follow the clients and the screen, and no client loses by it.
LEMMA ReconcileKeepsInv ==
  ASSUME Inv, Reconcile, \A d \in Clients : push'.stray[d] <= MaxStray
  PROVE  Inv'
<1>1. PICK b \in Giving : push' = AfterTask(b.push) /\ bound' = b.bound
  BY ReconcileIs
<1> DEFINE p == b.push
<1>2. UNCHANGED <<signed, screen, limited, resume>>
  BY DEF Reconcile
<1>3. /\ b.bound \in [Clients -> {"none", "active", "background"}] /\ Fit(p)
      /\ \A d \in ToSet(p.waiters) : d \in ToSet(push.waiters) \/ Full(p)
      /\ \A d \in Clients : Alive(p, d)
      /\ \A d \in In : b.bound[d] # "none" => Lively(p, d) \/ resume[d]
      /\ \A d \in Clients \ In : Quieter(push, p, d) /\ (b.bound[d] # "none" => bound[d] # "none")
  BY DEF Giving, Midway, FitTabs
<1>4. push' = AfterTask(p)
  BY <1>1
<1> HIDE DEF p
<1>5. ASSUME push.holders \subseteq p.holders
      PROVE  Busy(p)
  <2>1. \A d \in ToSet(push.waiters) : push.waiters # <<>>
    BY DEF ToSet
  <2>2. \A d \in ToSet(push.waiters) : Full(push)
    BY <2>1 DEF Inv, NoSlotIdle
  <2>3. Full(push) => Full(p)
    BY <1>3, <1>5, StaysFull
  <2>4. \A d \in ToSet(p.waiters) : Full(p)
    BY <1>3, <2>2, <2>3
  <2> QED
    BY <1>3, <2>4, EmptyLine DEF Fit
<1>6. Settled(p, push') /\ Busy(push')
  BY <1>3, <1>4, <1>5, AfterTaskIs
<1>7. Fit(push')
  BY <1>6 DEF Settled
<1>8. TypeOK'
  <2>1. /\ push' \in Push /\ IsInjective(push'.waiters)
        /\ ToSet(push'.waiters) \cap push'.holders = {}
    BY <1>7, FitIsPush
  <2> QED
    BY <1>1, <1>2, <1>3, <2>1 DEF Inv, TypeOK, In
<1>9. (\A d \in Clients : Alive(push, d))'
  <2>1. \A d \in Clients : Alive(push', d)
    BY <1>3, <1>6 DEF Settled
  <2> QED
    BY <1>2, <2>1 DEF Alive
<1>10. ASSUME NEW d \in Clients, signed[d] = "new"
       PROVE  Fresh(d)'
  <2>1. Fresh(d) /\ d \in Clients \ In
    BY <1>10 DEF Inv, In
  <2>2. Quieter(push, p, d) /\ (b.bound[d] # "none" => bound[d] # "none")
    BY <1>3, <2>1
  <2>3. Alike(p, push', d)
    BY <1>6, <1>10 DEF Settled
  <2> QED
    BY <1>1, <1>2, <2>1, <2>2, <2>3 DEF Fresh, Quieter, Alike
<1>11. ASSUME NEW d \in In, b.bound[d] # "none"
       PROVE  Hears(d)'
  <2>1. Lively(p, d) \/ resume[d]
    BY <1>3, <1>11
  <2>2. Lively(p, d) => Lively(push', d)
    BY <1>6 DEF Settled, In
  <2> QED
    BY <1>2, <2>1, <2>2 DEF Hears, Lively
<1>12. NeverDeaf' /\ NoSlotIdle' /\ Fit(push)'
  BY <1>1, <1>2, <1>6, <1>7, <1>11 DEF NeverDeaf, NoSlotIdle, Busy, In
<1>13. IsFiniteSet({d \in Clients : signed[d] # "new"})' /\ (\A d \in In : limited[d] => resume[d])'
  BY <1>2 DEF Inv, In
<1>14. (\A d \in Clients : signed[d] = "new" => Fresh(d))'
  BY <1>2, <1>10
<1> QED
  BY <1>8, <1>9, <1>12, <1>13, <1>14 DEF Inv

-----------------------------------------------------------------------------
\* The tab starts in order.
LEMMA InitHasInv == Init => Inv
<1> SUFFICES ASSUME Init
             PROVE  Inv
  OBVIOUS
<1>1. TypeOK
  BY PushAssumption DEF Init, TypeOK, Push, In, IsInjective, ToSet
<1>2. Fit(push)
  <2>1. push \in Tabs
    BY DEF Init, Tabs
  <2>2. IsFiniteSet(push.holders) /\ Cardinality(push.holders) = 0
    BY FS_EmptySet DEF Init
  <2>3. \A c \in Clients : push.attempt[c] = "none"
    BY DEF Init
  <2> QED
    BY <1>1, <2>1, <2>2, <2>3, PushAssumption DEF Fit, TypeOK
<1>3. \A c \in Clients : signed[c] = "new" /\ Fresh(c) /\ Alive(push, c)
  BY DEF Init, Fresh, Alive
<1>4. IsFiniteSet({c \in Clients : signed[c] # "new"})
  <2>1. {c \in Clients : signed[c] # "new"} = {}
    BY <1>3
  <2> QED
    BY <2>1, FS_EmptySet
<1>5. NoSlotIdle /\ NeverDeaf /\ \A c \in In : limited[c] => resume[c]
  BY DEF Init, NoSlotIdle, NeverDeaf, In
<1> QED
  BY <1>1, <1>2, <1>3, <1>4, <1>5 DEF Inv

\* Every step keeps it so.
LEMMA NextKeepsInv == Inv /\ [Next]_vars => Inv'
<1> SUFFICES ASSUME Inv, [Next]_vars
             PROVE  Inv'
  OBVIOUS
<1>1. CASE UNCHANGED vars
  <2>1. UNCHANGED <<signed, screen, bound, limited, resume, push>>
    BY <1>1 DEF vars
  <2>2. TypeOK' /\ NoSlotIdle' /\ NeverDeaf' /\ Fit(push)'
    BY <2>1 DEF Inv, TypeOK, NoSlotIdle, NeverDeaf, Hears, In
  <2>3. (\A c \in Clients : Alive(push, c))' /\ (\A c \in Clients : signed[c] = "new" => Fresh(c))'
    BY <2>1 DEF Inv, Alive, Fresh
  <2> QED
    BY <2>1, <2>2, <2>3 DEF Inv, In
<1>2. CASE Next
  <2>1. \A d \in Clients : push'.stray[d] <= MaxStray
    BY <1>2 DEF Next
  <2>2. CASE Reconcile
    BY <2>1, <2>2, ReconcileKeepsInv
  <2>4. CASE SwitchAway
    BY <2>4, SwitchAwayKeepsInv
  <2>3. ASSUME NEW c \in Clients, Step(c)
        PROVE  Inv'
    <3>1. CASE SignIn(c)
      BY <3>1, SignInKeepsInv
    <3>2. CASE SwitchTo(c)
      BY <3>2, SwitchToKeepsInv
    <3>3. CASE SignOut(c)
      BY <2>1, <3>3, SignOutKeepsInv
    <3>4. CASE Opened(c)
      BY <2>1, <3>4, OpenedKeepsInv
    <3>5. CASE Failed(c)
      BY <2>1, <3>5, FailedKeepsInv
    <3>6. CASE StreamEnds(c)
      BY <2>1, <3>6, StreamOverKeepsInv DEF StreamEnds, Run
    <3>7. CASE GoesStale(c)
      BY <2>1, <3>7, StreamOverKeepsInv DEF GoesStale, Run
    <3>8. CASE Shown(c)
      BY <2>1, <3>8, StreamOverKeepsInv DEF Shown, Run
    <3>9. CASE Online(c)
      BY <2>1, <3>9, OnlineKeepsInv
    <3>10. CASE TimerFires(c)
      BY <2>1, <3>10, TimerFiresKeepsInv
    <3>11. CASE StrayFires(c)
      BY <2>1, <3>11, StrayFiresKeepsInv
    <3>12. CASE RateLimited(c)
      BY <2>1, <3>12, RateLimitedKeepsInv
    <3>13. CASE LimitOver(c)
      BY <3>13, LimitOverKeepsInv
    <3>14. CASE Resume(c)
      BY <2>1, <3>14, ResumeKeepsInv
    <3> QED
      BY <2>3, <3>1, <3>2, <3>3, <3>4, <3>5, <3>6, <3>7, <3>8, <3>9, <3>10, <3>11, <3>12,
         <3>13, <3>14 DEF Step
  <2> QED
    BY <1>2, <2>2, <2>3, <2>4 DEF Next
<1> QED
  BY <1>1, <1>2

\* The invariant holds throughout.
THEOREM Invariance == Spec => []Inv
<1>1. Init => Inv
  BY InitHasInv
<1>2. Inv /\ [Next]_vars => Inv'
  BY NextKeepsInv
<1> QED
  BY <1>1, <1>2, PTL DEF Spec

\* The state is typed.
THEOREM TypeCorrect == Spec => []TypeOK
<1>1. Inv => TypeOK
  BY DEF Inv
<1> QED
  BY <1>1, Invariance, PTL

\* No more streams than slots, and no slot for a client that gave up.
THEOREM Budget == Spec => []WithinBudget
<1>1. Inv => WithinBudget
  BY DEF Inv, Fit, WithinBudget, Alive, In
<1> QED
  BY <1>1, Invariance, PTL

\* Nobody waits while a slot is free.
THEOREM SlotsBusy == Spec => []NoSlotIdle
<1>1. Inv => NoSlotIdle
  BY DEF Inv
<1> QED
  BY <1>1, Invariance, PTL

\* A bound client hears of changes, or will.
THEOREM BoundHears == Spec => []NeverDeaf
<1>1. Inv => NeverDeaf
  BY DEF Inv
<1> QED
  BY <1>1, Invariance, PTL

-----------------------------------------------------------------------------
\* A client that is not signed in stays down unless it is touched.
LEMMA QuietStaysDown ==
  ASSUME NEW p, Fit(p), push' = AfterTask(p), NEW c \in Clients, signed[c] # "in",
         Quieter(push, p, c), Down(c)
  PROVE  Down(c)'
<1>1. Alike(p, push', c)
  BY AfterTaskIs DEF Settled
<1> QED
  BY <1>1 DEF Down, Quieter, Alike

\* Nothing another client does brings it up.
LEMMA OthersLeaveDown ==
  ASSUME NEW d \in Clients, Handled(d), NEW c \in Clients, c # d, signed[c] # "in", Down(c)
  PROVE  Down(c)'
<1>1. PICK p : Fit(p) /\ push' = AfterTask(p) /\ Alike(push, p, c)
  BY DEF Handled
<1>2. Quieter(push, p, c)
  BY <1>1 DEF Alike, Quieter
<1> QED
  BY <1>1, <1>2, QuietStaysDown

\* Signing out closes the client before anybody is promoted, and leaves the rest down.
LEMMA SignOutTakesDown ==
  ASSUME Inv, NEW d \in Clients, SignOut(d), NEW c \in Clients,
         c = d \/ (signed[c] # "in" /\ Down(c))
  PROVE  Down(c)'
<1> DEFINE p == Close(push, d)
<1>1. push' = AfterTask(p) /\ signed[d] = "in"
  BY DEF SignOut, Run, In
<1>2. /\ Fit(p) /\ p.holders = push.holders \ {d}
      /\ ToSet(p.waiters) = ToSet(push.waiters) \ {d}
      /\ p.attempt[d] = "none" /\ ~p.timer[d] /\ ~p.poll[d]
      /\ \A e \in Clients \ {d} : Alike(push, p, e)
  BY CloseIs DEF Inv
<1> HIDE DEF p
<1>3. CASE c = d
  <2>1. Alike(p, push', c)
    BY <1>1, <1>2, <1>3, AfterTaskIs DEF Settled
  <2> QED
    BY <1>2, <1>3, <2>1 DEF Down, Alike
<1>4. CASE c # d
  <2>1. Quieter(push, p, c)
    BY <1>2, <1>4 DEF Alike, Quieter
  <2> QED
    BY <1>1, <1>2, <1>4, <2>1, QuietStaysDown
<1> QED
  BY <1>3, <1>4

\* A rate limit takes down, too.
LEMMA RateLimitTakesDown ==
  ASSUME Inv, NEW d \in Clients, RateLimited(d), signed[d] # "in", Down(d)
  PROVE  Down(d)'
<1> DEFINE p == Close(push, d)
<1>1. push' = AfterTask(p)
  BY DEF RateLimited, Run
<1>2. /\ Fit(p) /\ p.holders = push.holders \ {d}
      /\ p.attempt[d] = "none" /\ ~p.timer[d] /\ ~p.poll[d] /\ p.stray[d] = push.stray[d]
  BY CloseIs DEF Inv
<1> HIDE DEF p
<1>3. Quieter(push, p, d)
  BY <1>2 DEF Quieter
<1> QED
  BY <1>1, <1>2, <1>3, QuietStaysDown

\* Only forgotten timers bring a signed-out client up.
LEMMA StepStaysDown ==
  ASSUME Inv, [Next]_vars, NEW c \in Clients,
         signed'[c] = "out", signed[c] = "in" \/ Down(c), push.stray[c] = 0
  PROVE  Down(c)'
<1>1. CASE UNCHANGED push /\ UNCHANGED signed
  BY <1>1 DEF Down
<1>2. CASE Reconcile
  <2>1. signed[c] # "in" /\ Down(c)
    BY <1>2 DEF Reconcile
  <2>2. PICK b \in Giving : push' = AfterTask(b.push)
    BY <1>2, ReconcileIs
  <2>3. Fit(b.push) /\ Quieter(push, b.push, c)
    BY <2>1 DEF Giving, Midway, FitTabs, In
  <2> QED
    BY <2>1, <2>2, <2>3, QuietStaysDown
<1>3. ASSUME NEW d \in Clients, Step(d), \A e \in Clients : push'.stray[e] <= MaxStray
      PROVE  Down(c)'
  <2>1. signed \in [Clients -> {"new", "in", "out"}]
    BY DEF Inv, TypeOK
  <2>2. CASE SignOut(d)
    <3>1. c = d \/ signed'[c] = signed[c]
      BY <2>1, <2>2 DEF SignOut
    <3> QED
      BY <2>2, <3>1, SignOutTakesDown
  <2>3. CASE SignIn(d)
    <3>1. UNCHANGED push /\ signed[c] # "in"
      BY <2>1, <2>3 DEF SignIn
    <3> QED
      BY <3>1 DEF Down
  <2>4. CASE ~SignOut(d) /\ ~SignIn(d)
    <3>1. UNCHANGED signed
      BY <1>3, <2>4 DEF Step, SwitchTo, Opened, Failed, StreamEnds, GoesStale, Shown, Online,
                        TimerFires, StrayFires, RateLimited, LimitOver, Resume, Quietly
    <3>2. signed[c] # "in" /\ Down(c)
      BY <3>1
    <3>3. CASE SwitchTo(d) \/ LimitOver(d)
      BY <3>2, <3>3 DEF SwitchTo, LimitOver, Down
    <3>4. CASE RateLimited(d) /\ c = d
      BY <3>2, <3>4, RateLimitTakesDown
    <3>5. CASE Resume(d)
      <4>1. CASE c = d
        BY <3>2, <3>5, <4>1 DEF Resume, In, Down
      <4>2. CASE c # d
        <5>1. CASE UNCHANGED push
          BY <3>2, <5>1 DEF Down
        <5>2. CASE Handled(d)
          BY <3>2, <4>2, <5>2, OthersLeaveDown
        <5> QED
          BY <1>3, <3>5, <5>1, <5>2, ResumeKeepsInv
      <4> QED
        BY <4>1, <4>2
    <3>6. CASE \/ Opened(d) \/ Failed(d) \/ StreamEnds(d) \/ GoesStale(d) \/ Shown(d)
               \/ Online(d) \/ TimerFires(d) \/ StrayFires(d)
      <4>1. c # d
        BY <3>2, <3>6 DEF Opened, Failed, StreamEnds, GoesStale, Shown, Online, TimerFires,
                          StrayFires, Down, In
      <4>2. Handled(d)
        <5>1. CASE Opened(d)
          BY <1>3, <5>1, OpenedKeepsInv
        <5>2. CASE Failed(d)
          BY <1>3, <5>2, FailedKeepsInv
        <5>3. CASE StreamEnds(d)
          BY <1>3, <5>3, StreamOverKeepsInv DEF StreamEnds, Run
        <5>4. CASE GoesStale(d)
          BY <1>3, <5>4, StreamOverKeepsInv DEF GoesStale, Run
        <5>5. CASE Shown(d)
          BY <1>3, <5>5, StreamOverKeepsInv DEF Shown, Run
        <5>6. CASE Online(d)
          BY <1>3, <5>6, OnlineKeepsInv
        <5>7. CASE TimerFires(d)
          BY <1>3, <5>7, TimerFiresKeepsInv
        <5>8. CASE StrayFires(d)
          BY <1>3, <5>8, StrayFiresKeepsInv
        <5> QED
          BY <3>6, <5>1, <5>2, <5>3, <5>4, <5>5, <5>6, <5>7, <5>8
      <4> QED
        BY <3>2, <4>1, <4>2, OthersLeaveDown
    <3>7. CASE RateLimited(d) /\ c # d
      <4>1. Handled(d)
        BY <1>3, <3>7, RateLimitedKeepsInv
      <4> QED
        BY <3>2, <3>7, <4>1, OthersLeaveDown
    <3> QED
      BY <1>3, <2>4, <3>3, <3>4, <3>5, <3>6, <3>7 DEF Step
  <2> QED
    BY <2>2, <2>3, <2>4
<1> QED
  BY <1>1, <1>2, <1>3 DEF Next, SwitchAway, vars

\* Once signed out a client stays down, unless a forgotten timer was pending.
THEOREM OutStaysDown == Spec => StaysDown
<1>1. Inv /\ [Next]_vars
        => [\A c \in Clients :
              signed'[c] = "out" /\ (signed[c] = "in" \/ Down(c)) /\ push.stray[c] = 0
                => Down(c)']_vars
  BY StepStaysDown
<1> QED
  BY <1>1, Invariance, PTL DEF Spec, StaysDown

=============================================================================
