--------------------------- MODULE StepUpsProofs ---------------------------
(***************************************************************************)
(* Proofs about StepUps, for any accounts, requests, limits and lengths of *)
(* the window and the day.                                                 *)
(*                                                                         *)
(* An account's entry counts what the mail server refused and what is in   *)
(* flight, short of what attempts of an earlier window gave back.  Without *)
(* an entry there is nothing to count.                                     *)
(***************************************************************************)
EXTENDS StepUps, FiniteSetTheorems, TLAPS

NothingCounted(a) ==
  /\ wrong[a] = Zero /\ lent[a] = Zero
  /\ InWindow(a) = {} /\ InDay(a) = {}

Counted(a) ==
  /\ attempts[a].failures <= wrong[a].window + Cardinality(InWindow(a))
  /\ wrong[a].window + Cardinality(InWindow(a)) <= attempts[a].failures + lent[a].window
  /\ attempts[a].daily <= wrong[a].day + Cardinality(InDay(a))
  /\ wrong[a].day + Cardinality(InDay(a)) <= attempts[a].daily + lent[a].day

Limited(a) ==
  /\ wrong[a].window + Cardinality(InWindow(a)) <= MaxFailures + lent[a].window
  /\ wrong[a].day + Cardinality(InDay(a)) <= MaxDaily + lent[a].day

Sound(a) ==
  /\ IF attempts[a] = NoEntry THEN NothingCounted(a) ELSE Counted(a)
  /\ Limited(a)

IInv == TypeOK /\ \A a \in Accounts : Sound(a)

-----------------------------------------------------------------------------
(* Types.                                                                  *)

(* What lives of an entry is an entry or nothing, and a failure is counted *)
(* on top of it.                                                           *)
LEMMA LiveTyped ==
  ASSUME NEW e \in Entry \cup {NoEntry}, NEW t \in Nat
  PROVE  LET l == Live(e, t)
             k == Recorded(e, t)
         IN  /\ l \in Entry \cup {NoEntry} /\ k \in Entry
             /\ k.failures = IF l = NoEntry THEN 1 ELSE l.failures + 1
             /\ k.daily = IF l = NoEntry THEN 1 ELSE l.daily + 1
<1>1. Live(e, t) \in Entry \cup {NoEntry}
  BY NoEntryAssumption DEF Live, Entry
<1>2. CASE Live(e, t) = NoEntry
  <2> DEFINE first == [failures |-> 1, windowStart |-> t, daily |-> 1, dayStart |-> t]
  <2>1. first \in Entry /\ first.failures = 1 /\ first.daily = 1
    BY DEF Entry
  <2>2. Recorded(e, t) = first
    BY <1>2 DEF Recorded
  <2> HIDE DEF first
  <2>3. QED
    BY <1>1, <1>2, <2>1, <2>2
<1>3. CASE Live(e, t) # NoEntry
  <2>1. Recorded(e, t) = WithCounts(Live(e, t), Live(e, t).failures + 1, Live(e, t).daily + 1)
    BY <1>3 DEF Recorded
  <2>2. Live(e, t) \in Entry
    BY <1>1, <1>3
  <2>3. QED
    BY <1>1, <1>3, <2>1, <2>2 DEF WithCounts, Entry
<1>4. QED
  BY <1>2, <1>3

(* An attempt that told nothing about the credential is taken back.        *)
LEMMA SettledOther ==
  ASSUME TypeOK, NEW a \in Accounts
  PROVE  LET m == Settle(attempts, a, "other") IN
         /\ m \in [Accounts -> Entry \cup {NoEntry}]
         /\ \A b \in Accounts \ {a} : m[b] = attempts[b]
         /\ attempts[a] = NoEntry => m[a] = NoEntry
         /\ attempts[a] # NoEntry =>
              /\ m[a] # NoEntry
              /\ m[a].failures = LessOne(attempts[a].failures)
              /\ m[a].daily = LessOne(attempts[a].daily)
<1>1. CASE attempts[a] = NoEntry
  BY <1>1 DEF Settle, SettledEntry, TypeOK
<1>2. CASE attempts[a] # NoEntry
  <2> DEFINE k == WithCounts(attempts[a], LessOne(attempts[a].failures), LessOne(attempts[a].daily))
  <2>1. Settle(attempts, a, "other") = [attempts EXCEPT ![a] = k]
    BY <1>2 DEF Settle, SettledEntry
  <2>2. /\ k \in Entry
        /\ k.failures = LessOne(attempts[a].failures) /\ k.daily = LessOne(attempts[a].daily)
    BY <1>2 DEF WithCounts, LessOne, Entry, TypeOK
  <2>3. k # NoEntry
    BY <2>2, NoEntryAssumption
  <2> HIDE DEF k
  <2>4. QED
    BY <1>2, <2>1, <2>2, <2>3 DEF TypeOK
<1>3. QED
  BY <1>1, <1>2

(* Every step keeps the variables in their types.                          *)
LEMMA TypeNext ==
  ASSUME TypeOK, [Next]_vars
  PROVE  TypeOK'
<1> USE DEF TypeOK
<1>1. \A c, d \in BOOLEAN, r \in Requests : flight[r] # Idle => Aged(r, c, d) \in StepUp
  BY DEF Aged, StepUp
<1>2. \A c, d \in BOOLEAN, tally \in Tally : TallyAfter(tally, c, d) \in Tally
  BY DEF TallyAfter, Tally
<1>3. \A a, b \in Accounts, c \in BOOLEAN :
        ResetDay(a, b, c) \in BOOLEAN /\ ResetWindow(a, b, c) \in BOOLEAN
  BY DEF ResetDay, ResetWindow, NewDay, NewWindow, DayOver, WindowOver
<1>4. \A a \in Accounts, c \in BOOLEAN : AgedFlight(a, c) \in [Requests -> StepUp \cup {Idle}]
  <2>1. \A r \in Requests : flight[r] # Idle => flight[r].account \in Accounts
    BY DEF StepUp
  <2>2. QED
    BY <1>1, <1>3, <2>1 DEF AgedFlight
<1>5. \A a \in Accounts, c \in BOOLEAN :
        BeginHistory(a, c) => wrong' \in [Accounts -> Tally] /\ lent' \in [Accounts -> Tally]
  BY <1>2, <1>3 DEF BeginHistory
<1>6. ASSUME NEW r \in Requests, NEW a \in Accounts, Begin(r, a) PROVE TypeOK'
  <2>1. attempts' \in [Accounts -> Entry \cup {NoEntry}]
    BY <1>6, LiveTyped DEF Begin, BeginCounted
  <2>2. flight' \in [Requests -> StepUp \cup {Idle}]
    BY <1>6, <1>4 DEF Begin, StepUp
  <2>3. QED
    BY <1>6, <1>5, <2>1, <2>2 DEF Begin
<1>7. ASSUME NEW a \in Accounts, Refuse(a) PROVE TypeOK'
  <2>1. attempts' \in [Accounts -> Entry \cup {NoEntry}]
    BY <1>7, LiveTyped DEF Refuse, BeginRefused
  <2>2. QED
    BY <1>7, <1>4, <1>5, <2>1 DEF Refuse
<1>8. ASSUME NEW r \in Requests, Success(r) PROVE TypeOK'
  <2>1. flight[r].account \in Accounts
    BY <1>8 DEF Success, StepUp
  <2>2. flight' \in [Requests -> StepUp \cup {Idle}]
    BY <1>8, <1>1, <2>1 DEF Success, Of
  <2>3. QED
    BY <1>8, <2>1, <2>2 DEF Success, Settle, SettledEntry, Zero, Tally
<1>9. ASSUME NEW r \in Requests, WrongCredential(r) PROVE TypeOK'
  BY <1>9 DEF WrongCredential, Settle, SettledEntry, Tally, StepUp
<1>10. ASSUME NEW r \in Requests, OtherFailure(r) PROVE TypeOK'
  <2>1. flight[r].account \in Accounts
    BY <1>10 DEF OtherFailure, StepUp
  <2>2. attempts' \in [Accounts -> Entry \cup {NoEntry}]
    BY <1>10, <2>1, SettledOther DEF OtherFailure
  <2>3. lent' \in [Accounts -> Tally]
    BY <1>10, <2>1 DEF OtherFailure, Tally
  <2>4. QED
    BY <1>10, <2>2, <2>3 DEF OtherFailure
<1>11. CASE Tick
  BY <1>11 DEF Tick
<1>12. CASE UNCHANGED vars
  BY <1>12 DEF vars
<1>13. QED
  BY <1>6, <1>7, <1>8, <1>9, <1>10, <1>11, <1>12 DEF Next

-----------------------------------------------------------------------------
(* Counting requests in flight.                                            *)

(* The requests counted in an account's window, or day, are finitely many. *)
LEMMA Finite ==
  ASSUME NEW a
  PROVE  /\ IsFiniteSet(InWindow(a)) /\ Cardinality(InWindow(a)) \in Nat
         /\ IsFiniteSet(InDay(a)) /\ Cardinality(InDay(a)) \in Nat
<1>1. InWindow(a) \subseteq Requests /\ InDay(a) \subseteq Requests
  BY DEF InWindow, InDay
<1>2. QED
  BY <1>1, RequestsAssumption, FS_Subset, FS_CardinalityType

(* One request more, or one less.                                          *)
LEMMA OneRequest ==
  ASSUME NEW S, IsFiniteSet(S), NEW r
  PROVE  /\ r \notin S => Cardinality(S \cup {r}) = Cardinality(S) + 1
         /\ r \in S => Cardinality(S \ {r}) = Cardinality(S) - 1
         /\ r \notin S => S \ {r} = S
         /\ Cardinality({r}) = 1 /\ Cardinality({}) = 0
<1>1. Cardinality({}) = 0 /\ IsFiniteSet({})
  BY FS_EmptySet
<1>2. Cardinality({r}) = 1
  BY FS_Singleton
<1>3. QED
  BY <1>1, <1>2, FS_AddElement, FS_RemoveElement

(* A request that is settled leaves the counts of its account.             *)
LEMMA Settling ==
  ASSUME TypeOK, NEW r \in Requests, flight[r] # Idle, flight' = [flight EXCEPT ![r] = Idle],
         NEW a \in Accounts
  PROVE  /\ InWindow(a)' = InWindow(a) \ {r} /\ InDay(a)' = InDay(a) \ {r}
         /\ r \in InWindow(a) <=> flight[r].account = a /\ flight[r].inWindow
         /\ r \in InDay(a) <=> flight[r].account = a /\ flight[r].inDay
BY DEF TypeOK, InWindow, InDay, Of

(* When a window or day starts again, what was in flight no longer counts  *)
(* in it.                                                                  *)
LEMMA Aging ==
  ASSUME TypeOK, NEW r \in Requests, flight[r] # Idle, NEW c \in BOOLEAN, NEW d \in BOOLEAN
  PROVE  /\ Aged(r, c, d) # Idle /\ Aged(r, c, d).account = flight[r].account
         /\ Aged(r, c, d).inWindow <=> flight[r].inWindow /\ ~ c
         /\ Aged(r, c, d).inDay <=> flight[r].inDay /\ ~ d
<1>1. flight[r] \in StepUp
  BY DEF TypeOK
<1>2. /\ Aged(r, c, d) \in StepUp /\ Aged(r, c, d).account = flight[r].account
      /\ Aged(r, c, d).inWindow = (flight[r].inWindow /\ ~ c)
      /\ Aged(r, c, d).inDay = (flight[r].inDay /\ ~ d)
  BY <1>1 DEF Aged, StepUp
<1>3. QED
  BY <1>2, IdleAssumption

(* What an attempt that begins, or is refused, leaves of the history.      *)
LEMMA HistoryKept ==
  ASSUME TypeOK, NEW c \in Accounts, NEW counted \in BOOLEAN, BeginHistory(c, counted),
         NEW a \in Accounts
  PROVE  LET w == ResetWindow(c, a, counted)
             d == ResetDay(c, a, counted)
         IN  /\ w \in BOOLEAN /\ d \in BOOLEAN
             /\ wrong'[a].window = IF w THEN 0 ELSE wrong[a].window
             /\ wrong'[a].day = IF d THEN 0 ELSE wrong[a].day
             /\ lent'[a].window = IF w THEN 0 ELSE lent[a].window
             /\ lent'[a].day = IF d THEN 0 ELSE lent[a].day
             /\ (w /\ d => wrong'[a] = Zero /\ lent'[a] = Zero)
<1>1. ResetWindow(c, a, counted) \in BOOLEAN /\ ResetDay(c, a, counted) \in BOOLEAN
  BY DEF ResetDay, ResetWindow, NewDay, NewWindow, DayOver, WindowOver
<1>2. /\ wrong'[a] = TallyAfter(wrong[a], ResetWindow(c, a, counted), ResetDay(c, a, counted))
      /\ lent'[a] = TallyAfter(lent[a], ResetWindow(c, a, counted), ResetDay(c, a, counted))
  BY DEF BeginHistory
<1>3. QED
  BY <1>1, <1>2 DEF TallyAfter, Zero

(* What it leaves of the requests in flight.                               *)
LEMMA FlightKept ==
  ASSUME TypeOK, NEW c \in Accounts, NEW counted \in BOOLEAN, NEW a \in Accounts
  PROVE  LET w == ResetWindow(c, a, counted)
             d == ResetDay(c, a, counted)
             f == AgedFlight(c, counted)
         IN  \A r \in Requests :
               /\ f[r] = Idle <=> flight[r] = Idle
               /\ f[r] # Idle => f[r].account = flight[r].account
               /\ f[r] # Idle /\ f[r].account = a /\ f[r].inWindow
                    <=> r \in InWindow(a) /\ ~ w
               /\ f[r] # Idle /\ f[r].account = a /\ f[r].inDay
                    <=> r \in InDay(a) /\ ~ d
<1> SUFFICES ASSUME NEW r \in Requests
             PROVE  LET w == ResetWindow(c, a, counted)
                        d == ResetDay(c, a, counted)
                        f == AgedFlight(c, counted)
                    IN  /\ f[r] = Idle <=> flight[r] = Idle
                        /\ f[r] # Idle => f[r].account = flight[r].account
                        /\ f[r] # Idle /\ f[r].account = a /\ f[r].inWindow
                             <=> r \in InWindow(a) /\ ~ w
                        /\ f[r] # Idle /\ f[r].account = a /\ f[r].inDay
                             <=> r \in InDay(a) /\ ~ d
  OBVIOUS
<1>1. CASE flight[r] = Idle
  BY <1>1 DEF AgedFlight, InWindow, InDay, Of
<1>2. CASE flight[r] # Idle
  <2> DEFINE b == flight[r].account
             w == ResetWindow(c, b, counted)
             d == ResetDay(c, b, counted)
  <2>1. AgedFlight(c, counted)[r] = Aged(r, w, d)
    BY <1>2 DEF AgedFlight
  <2>2. w \in BOOLEAN /\ d \in BOOLEAN
    BY DEF ResetDay, ResetWindow, NewDay, NewWindow, DayOver, WindowOver
  <2>3. /\ Aged(r, w, d) # Idle /\ Aged(r, w, d).account = flight[r].account
        /\ Aged(r, w, d).inWindow <=> flight[r].inWindow /\ ~ w
        /\ Aged(r, w, d).inDay <=> flight[r].inDay /\ ~ d
    BY <1>2, <2>2, Aging
  <2>4. QED
    BY <1>2, <2>1, <2>3 DEF InWindow, InDay, Of
<1>3. QED
  BY <1>1, <1>2

(* An attempt that may begin finds the live counts below the limits.       *)
LEMMA LiveCounts ==
  ASSUME TypeOK, NEW a \in Accounts
  PROVE  LET l == Live(attempts[a], now)
             w == NewWindow(a, TRUE)
             d == NewDay(a, TRUE)
         IN  /\ l = NoEntry <=> d
             /\ d => w
             /\ l # NoEntry => /\ l.failures = IF w THEN 0 ELSE attempts[a].failures
                              /\ l.daily = attempts[a].daily
             /\ ~ Locked(attempts[a], now) /\ l # NoEntry =>
                  l.failures < MaxFailures /\ l.daily < MaxDaily
<1>1. attempts[a] \in Entry \cup {NoEntry} /\ now \in Nat
  BY DEF TypeOK
<1>2. Live(attempts[a], now) \in Entry \cup {NoEntry}
  BY <1>1, LiveTyped
<1>3. /\ Live(attempts[a], now) = NoEntry <=> NewDay(a, TRUE)
      /\ NewDay(a, TRUE) => NewWindow(a, TRUE)
      /\ Live(attempts[a], now) # NoEntry =>
           /\ Live(attempts[a], now).failures = IF NewWindow(a, TRUE) THEN 0 ELSE attempts[a].failures
           /\ Live(attempts[a], now).daily = attempts[a].daily
  <2>1. CASE NewDay(a, TRUE)
    BY <1>1, <2>1 DEF Live, NewDay, NewWindow
  <2>2. CASE ~ NewDay(a, TRUE) /\ ~ NewWindow(a, TRUE)
    BY <1>1, <2>2 DEF Live, NewDay, NewWindow
  <2>3. CASE ~ NewDay(a, TRUE) /\ NewWindow(a, TRUE)
    <3>1. attempts[a] \in Entry
      BY <1>1, <2>3 DEF NewDay
    <3>2. Live(attempts[a], now) = [failures |-> 0, windowStart |-> now,
                                    daily |-> attempts[a].daily, dayStart |-> attempts[a].dayStart]
      BY <2>3 DEF Live, NewDay, NewWindow
    <3>3. Live(attempts[a], now) \in Entry
      BY <1>1, <3>1, <3>2 DEF Entry
    <3>4. Live(attempts[a], now) # NoEntry
      BY <3>3, NoEntryAssumption
    <3>5. Live(attempts[a], now).failures = 0 /\ Live(attempts[a], now).daily = attempts[a].daily
      BY <3>2
    <3>6. QED
      BY <2>3, <3>4, <3>5
  <2>4. QED
    BY <2>1, <2>2, <2>3
<1>4. ASSUME ~ Locked(attempts[a], now), Live(attempts[a], now) # NoEntry
      PROVE  Live(attempts[a], now).failures < MaxFailures /\ Live(attempts[a], now).daily < MaxDaily
  <2>1. Live(attempts[a], now).failures \in Nat /\ Live(attempts[a], now).daily \in Nat
    BY <1>2, <1>4 DEF Entry
  <2>2. ~ (Live(attempts[a], now).failures >= MaxFailures \/ Live(attempts[a], now).daily >= MaxDaily)
    BY <1>4 DEF Locked
  <2>3. QED
    BY <2>1, <2>2, LimitsAssumption
<1>5. QED
  BY <1>3, <1>4

-----------------------------------------------------------------------------
(* The invariant.                                                          *)

(* Nothing counted is sound.                                               *)
LEMMA NothingSound ==
  ASSUME NEW a, attempts'[a] = NoEntry, wrong'[a] = Zero, lent'[a] = Zero,
         InWindow(a)' = {}, InDay(a)' = {}
  PROVE  Sound(a)'
<1>1. Cardinality(InWindow(a))' = 0 /\ Cardinality(InDay(a))' = 0
  BY FS_EmptySet
<1>2. wrong'[a].window = 0 /\ wrong'[a].day = 0 /\ lent'[a].window = 0 /\ lent'[a].day = 0
  BY DEF Zero
<1>3. Limited(a)'
  BY <1>1, <1>2, LimitsAssumption DEF Limited
<1>4. QED
  BY <1>3 DEF Sound, NothingCounted

(* An attempt that begins is counted in its own account's entry, window    *)
(* and day, and leaves the other accounts' as they are or drops them.      *)
LEMMA BeginSound ==
  ASSUME TypeOK, NEW a \in Accounts, Sound(a),
         NEW r \in Requests, NEW c \in Accounts, Begin(r, c)
  PROVE  Sound(a)'
<1> DEFINE w == ResetWindow(c, a, TRUE)
           d == ResetDay(c, a, TRUE)
<1>1. /\ w \in BOOLEAN /\ d \in BOOLEAN
      /\ wrong'[a].window = IF w THEN 0 ELSE wrong[a].window
      /\ wrong'[a].day = IF d THEN 0 ELSE wrong[a].day
      /\ lent'[a].window = IF w THEN 0 ELSE lent[a].window
      /\ lent'[a].day = IF d THEN 0 ELSE lent[a].day
      /\ w /\ d => wrong'[a] = Zero /\ lent'[a] = Zero
  BY HistoryKept DEF Begin
<1>2. \A x \in Requests \ {r} : flight'[x] = AgedFlight(c, TRUE)[x]
  BY DEF Begin, AgedFlight
<1>3. flight'[r] = [account |-> c, inWindow |-> TRUE, inDay |-> TRUE] /\ flight'[r] # Idle
  <2>1. [account |-> c, inWindow |-> TRUE, inDay |-> TRUE] \in StepUp
    BY DEF StepUp
  <2>2. r \in DOMAIN AgedFlight(c, TRUE)
    BY DEF AgedFlight
  <2>3. QED
    BY <2>1, <2>2, IdleAssumption DEF Begin
<1>4. r \notin InWindow(a) /\ r \notin InDay(a)
  BY DEF Begin, InWindow, InDay, Of
<1>5. /\ InWindow(a)' = (IF w THEN {} ELSE InWindow(a)) \cup (IF a = c THEN {r} ELSE {})
      /\ InDay(a)' = (IF d THEN {} ELSE InDay(a)) \cup (IF a = c THEN {r} ELSE {})
  <2>1. \A x \in Requests \ {r} : /\ x \in InWindow(a)' <=> x \in InWindow(a) /\ ~ w
                                  /\ x \in InDay(a)' <=> x \in InDay(a) /\ ~ d
    <3>1. \A x \in Requests :
            /\ AgedFlight(c, TRUE)[x] # Idle /\ AgedFlight(c, TRUE)[x].account = a
               /\ AgedFlight(c, TRUE)[x].inWindow <=> x \in InWindow(a) /\ ~ w
            /\ AgedFlight(c, TRUE)[x] # Idle /\ AgedFlight(c, TRUE)[x].account = a
               /\ AgedFlight(c, TRUE)[x].inDay <=> x \in InDay(a) /\ ~ d
      BY FlightKept
    <3> HIDE DEF w, d
    <3>2. \A x \in Requests :
            /\ x \in InWindow(a)' <=> flight'[x] # Idle /\ flight'[x].account = a /\ flight'[x].inWindow
            /\ x \in InDay(a)' <=> flight'[x] # Idle /\ flight'[x].account = a /\ flight'[x].inDay
      BY DEF InWindow, InDay, Of
    <3>3. QED
      BY <1>2, <3>1, <3>2
  <2>2. (r \in InWindow(a)' <=> a = c) /\ (r \in InDay(a)' <=> a = c)
    BY <1>3 DEF InWindow, InDay, Of
  <2>3. InWindow(a) \subseteq Requests /\ InDay(a) \subseteq Requests
        /\ InWindow(a)' \subseteq Requests /\ InDay(a)' \subseteq Requests
    BY DEF InWindow, InDay
  <2> HIDE DEF w, d
  <2>4. QED
    BY <1>4, <2>1, <2>2, <2>3
<1>6. CASE a = c
  <2>1. w = NewWindow(a, TRUE) /\ d = NewDay(a, TRUE)
    BY <1>6 DEF ResetWindow, ResetDay
  <2>2. /\ attempts'[a] \in Entry
        /\ attempts'[a].failures = IF w THEN 1 ELSE attempts[a].failures + 1
        /\ attempts'[a].daily = IF d THEN 1 ELSE attempts[a].daily + 1
    <3>1. attempts'[a] = Recorded(attempts[a], now)
      BY <1>6 DEF Begin, BeginCounted
    <3>2. attempts[a] \in Entry \cup {NoEntry} /\ now \in Nat
      BY DEF TypeOK
    <3>3. /\ Recorded(attempts[a], now) \in Entry
          /\ Recorded(attempts[a], now).failures
               = IF Live(attempts[a], now) = NoEntry THEN 1 ELSE Live(attempts[a], now).failures + 1
          /\ Recorded(attempts[a], now).daily
               = IF Live(attempts[a], now) = NoEntry THEN 1 ELSE Live(attempts[a], now).daily + 1
      BY <3>2, LiveTyped
    <3>4. /\ Live(attempts[a], now) = NoEntry <=> NewDay(a, TRUE)
          /\ NewDay(a, TRUE) => NewWindow(a, TRUE)
          /\ Live(attempts[a], now) # NoEntry =>
               /\ Live(attempts[a], now).failures = IF NewWindow(a, TRUE) THEN 0 ELSE attempts[a].failures
               /\ Live(attempts[a], now).daily = attempts[a].daily
      BY LiveCounts
    <3>5. (NewWindow(a, TRUE) <=> w) /\ (NewDay(a, TRUE) <=> d)
      BY <2>1
    <3> HIDE DEF w, d
    <3>6. CASE d
      BY <3>1, <3>3, <3>4, <3>5, <3>6
    <3>7. CASE ~ d
      <4>1. /\ attempts'[a] \in Entry
            /\ attempts'[a].failures = Live(attempts[a], now).failures + 1
            /\ attempts'[a].daily = Live(attempts[a], now).daily + 1
        BY <3>1, <3>3, <3>4, <3>5, <3>7
      <4>2. Live(attempts[a], now).daily = attempts[a].daily
        BY <3>4, <3>5, <3>7
      <4>3. Live(attempts[a], now).failures = IF w THEN 0 ELSE attempts[a].failures
        BY <3>4, <3>5, <3>7
      <4>4. QED
        BY <3>7, <4>1, <4>2, <4>3
    <3>8. QED
      BY <3>6, <3>7
  <2>3. /\ Cardinality(InWindow(a))' = IF w THEN 1 ELSE Cardinality(InWindow(a)) + 1
        /\ Cardinality(InDay(a))' = IF d THEN 1 ELSE Cardinality(InDay(a)) + 1
    <3> HIDE DEF w, d
    <3>1. InWindow(a)' = (IF w THEN {r} ELSE InWindow(a) \cup {r})
          /\ InDay(a)' = (IF d THEN {r} ELSE InDay(a) \cup {r})
      BY <1>5, <1>6
    <3>2. /\ Cardinality(InWindow(a) \cup {r}) = Cardinality(InWindow(a)) + 1
          /\ Cardinality(InDay(a) \cup {r}) = Cardinality(InDay(a)) + 1
          /\ Cardinality({r}) = 1
      BY <1>4, Finite, OneRequest
    <3>3. QED
      BY <3>1, <3>2
  <2>4. /\ ~ w => attempts[a].failures < MaxFailures
        /\ ~ d => attempts[a].daily < MaxDaily
    BY <1>6, <2>1, LiveCounts DEF Begin
  <2>5. ~ d => attempts[a] # NoEntry
    BY <2>1 DEF NewDay
  <2>6. attempts'[a] # NoEntry
    BY <2>2, NoEntryAssumption
  <2>7. d => w
    BY <2>1 DEF NewWindow
  <2>8. /\ wrong[a].window \in Nat /\ wrong[a].day \in Nat
        /\ lent[a].window \in Nat /\ lent[a].day \in Nat
        /\ ~ d => attempts[a].failures \in Nat /\ attempts[a].daily \in Nat
    BY <2>5 DEF TypeOK, Tally, Entry
  <2>9. ~ d => Counted(a)
    BY <2>5 DEF Sound
  <2> HIDE DEF w, d
  <2>10. Counted(a)'
    BY <1>1, <2>2, <2>3, <2>7, <2>8, <2>9, Finite DEF Counted
  <2>11. Limited(a)'
    BY <1>1, <2>3, <2>4, <2>7, <2>8, <2>9, Finite, LimitsAssumption DEF Counted, Limited
  <2>12. QED
    BY <2>6, <2>10, <2>11 DEF Sound
<1>7. CASE a # c
  <2>1. w = NewDay(a, TRUE) /\ d = w
    BY <1>7 DEF ResetWindow, ResetDay
  <2>2. attempts'[a] = IF d THEN NoEntry ELSE attempts[a]
    BY <1>7, <2>1 DEF Begin, BeginCounted, NewDay
  <2> HIDE DEF w, d
  <2>3. CASE d
    <3>1. InWindow(a)' = {} /\ InDay(a)' = {} /\ attempts'[a] = NoEntry
          /\ wrong'[a] = Zero /\ lent'[a] = Zero
      BY <1>1, <1>5, <1>7, <2>1, <2>2, <2>3
    <3>2. QED
      BY <3>1, NothingSound
  <2>4. CASE ~ d
    <3>1. InWindow(a)' = InWindow(a) /\ InDay(a)' = InDay(a) /\ attempts'[a] = attempts[a]
      BY <1>5, <1>7, <2>1, <2>2, <2>4
    <3>2. ~ NewDay(a, TRUE)
      BY <2>1, <2>4
    <3>3. attempts[a] # NoEntry
      BY <3>2 DEF NewDay
    <3>4. QED
      BY <1>1, <2>1, <2>4, <3>1, <3>3 DEF Sound, Counted, Limited
  <2>5. QED
    BY <1>1, <2>3, <2>4
<1>8. QED
  BY <1>6, <1>7

(* Unchanged counts stay sound.                                            *)
LEMMA SameSound ==
  ASSUME NEW a, Sound(a), attempts'[a] = attempts[a], wrong'[a] = wrong[a], lent'[a] = lent[a],
         InWindow(a)' = InWindow(a), InDay(a)' = InDay(a)
  PROVE  Sound(a)'
BY DEF Sound, NothingCounted, Counted, Limited

(* An attempt that is refused only lets the account's window start again.  *)
LEMMA RefuseSound ==
  ASSUME TypeOK, NEW a \in Accounts, Sound(a), NEW c \in Accounts, Refuse(c)
  PROVE  Sound(a)'
<1> DEFINE w == ResetWindow(c, a, FALSE)
           d == ResetDay(c, a, FALSE)
<1>1. /\ w \in BOOLEAN /\ d \in BOOLEAN
      /\ wrong'[a].window = IF w THEN 0 ELSE wrong[a].window
      /\ wrong'[a].day = IF d THEN 0 ELSE wrong[a].day
      /\ lent'[a].window = IF w THEN 0 ELSE lent[a].window
      /\ lent'[a].day = IF d THEN 0 ELSE lent[a].day
      /\ w /\ d => wrong'[a] = Zero /\ lent'[a] = Zero
  BY HistoryKept DEF Refuse
<1>2. /\ InWindow(a)' = (IF w THEN {} ELSE InWindow(a))
      /\ InDay(a)' = (IF d THEN {} ELSE InDay(a))
  <2>1. \A x \in Requests :
          /\ AgedFlight(c, FALSE)[x] # Idle /\ AgedFlight(c, FALSE)[x].account = a
             /\ AgedFlight(c, FALSE)[x].inWindow <=> x \in InWindow(a) /\ ~ w
          /\ AgedFlight(c, FALSE)[x] # Idle /\ AgedFlight(c, FALSE)[x].account = a
             /\ AgedFlight(c, FALSE)[x].inDay <=> x \in InDay(a) /\ ~ d
    BY FlightKept
  <2> HIDE DEF w, d
  <2>2. \A x \in Requests :
          /\ x \in InWindow(a)' <=> flight'[x] # Idle /\ flight'[x].account = a /\ flight'[x].inWindow
          /\ x \in InDay(a)' <=> flight'[x] # Idle /\ flight'[x].account = a /\ flight'[x].inDay
    BY DEF InWindow, InDay, Of
  <2>3. InWindow(a) \subseteq Requests /\ InDay(a) \subseteq Requests
        /\ InWindow(a)' \subseteq Requests /\ InDay(a)' \subseteq Requests
    BY DEF InWindow, InDay
  <2>4. flight' = AgedFlight(c, FALSE)
    BY DEF Refuse
  <2>5. QED
    BY <2>1, <2>2, <2>3, <2>4
<1>3. CASE a = c
  <2>1. (w <=> NewWindow(a, TRUE)) /\ (d <=> NewDay(a, TRUE))
    BY <1>3 DEF ResetWindow, ResetDay
  <2>2. attempts'[a] = Live(attempts[a], now) /\ attempts'[a] # NoEntry
    BY <1>3 DEF Refuse, BeginRefused, Locked, TypeOK
  <2>3. /\ Live(attempts[a], now) = NoEntry <=> NewDay(a, TRUE)
        /\ Live(attempts[a], now) # NoEntry =>
             /\ Live(attempts[a], now).failures = IF NewWindow(a, TRUE) THEN 0 ELSE attempts[a].failures
             /\ Live(attempts[a], now).daily = attempts[a].daily
    BY LiveCounts
  <2> HIDE DEF w, d
  <2>4. ~ d /\ attempts'[a].failures = (IF w THEN 0 ELSE attempts[a].failures)
        /\ attempts'[a].daily = attempts[a].daily
    BY <2>1, <2>2, <2>3
  <2>5. attempts[a] # NoEntry
    BY <2>1, <2>4 DEF NewDay
  <2>6. CASE w
    <3>1. Cardinality(InWindow(a))' = 0
      BY <1>2, <2>6, FS_EmptySet
    <3>2. Counted(a)' /\ Limited(a)'
      BY <1>1, <1>2, <2>4, <2>5, <2>6, <3>1, LimitsAssumption DEF Sound, Counted, Limited
    <3>3. QED
      BY <2>2, <3>2 DEF Sound
  <2>7. CASE ~ w
    BY <1>1, <1>2, <2>2, <2>4, <2>5, <2>7 DEF Sound, Counted, Limited
  <2>8. QED
    BY <1>1, <2>6, <2>7
<1>4. CASE a # c
  <2>1. (w <=> attempts[a] = NoEntry) /\ (d <=> attempts[a] = NoEntry)
    BY <1>4 DEF ResetWindow, ResetDay, NewDay
  <2>2. attempts'[a] = attempts[a]
    BY <1>4 DEF Refuse, BeginRefused, TypeOK
  <2> HIDE DEF w, d
  <2>3. CASE attempts[a] = NoEntry
    BY <1>1, <1>2, <2>1, <2>2, <2>3, NothingSound
  <2>4. CASE attempts[a] # NoEntry
    <3>1. InWindow(a)' = InWindow(a) /\ InDay(a)' = InDay(a)
      BY <1>2, <2>1, <2>4
    <3>2. QED
      BY <1>1, <2>1, <2>2, <2>4, <3>1 DEF Sound, Counted, Limited
  <2>5. QED
    BY <2>3, <2>4
<1>5. QED
  BY <1>3, <1>4

(* A success leaves nothing counted for its account.                       *)
LEMMA SuccessSound ==
  ASSUME TypeOK, NEW a \in Accounts, Sound(a), NEW r \in Requests, Success(r)
  PROVE  Sound(a)'
<1> DEFINE c == flight[r].account
<1>1. c \in Accounts /\ flight[r] # Idle
  BY DEF Success, TypeOK, StepUp
<1>2. \A x \in Requests : flight'[x] = IF x = r THEN Idle
                                  ELSE IF Of(x, c) THEN Aged(x, TRUE, TRUE) ELSE flight[x]
  BY DEF Success
<1>3. CASE a = c
  <2>1. \A x \in Requests : x # r /\ Of(x, c) =>
          /\ Aged(x, TRUE, TRUE).account = c
          /\ ~ Aged(x, TRUE, TRUE).inWindow /\ ~ Aged(x, TRUE, TRUE).inDay
    BY Aging DEF Of
  <2>2. InWindow(a)' = {} /\ InDay(a)' = {}
    BY <1>2, <1>3, <2>1 DEF InWindow, InDay, Of
  <2>3. attempts'[a] = NoEntry /\ wrong'[a] = Zero /\ lent'[a] = Zero
    BY <1>1, <1>3 DEF Success, Settle, SettledEntry, TypeOK
  <2>4. QED
    BY <2>2, <2>3, NothingSound
<1>4. CASE a # c
  <2>1. \A x \in Requests : /\ x # r /\ ~ Of(x, c) => flight'[x] = flight[x]
                            /\ x # r /\ Of(x, c) => flight'[x].account = c
    BY <1>2, Aging DEF Of
  <2>2. InWindow(a)' = InWindow(a) /\ InDay(a)' = InDay(a)
    BY <1>1, <1>2, <1>4, <2>1 DEF InWindow, InDay, Of
  <2>3. attempts'[a] = attempts[a] /\ wrong'[a] = wrong[a] /\ lent'[a] = lent[a]
    BY <1>1, <1>4 DEF Success, Settle, TypeOK
  <2>4. QED
    BY <2>2, <2>3, SameSound
<1>5. QED
  BY <1>3, <1>4

(* A settled request leaves the counts it is in, and no other.             *)
LEMMA SettledCounts ==
  ASSUME TypeOK, NEW r \in Requests, flight[r] # Idle, flight' = [flight EXCEPT ![r] = Idle],
         NEW a \in Accounts
  PROVE  /\ flight[r].account # a => InWindow(a)' = InWindow(a) /\ InDay(a)' = InDay(a)
         /\ flight[r].account = a =>
              /\ Cardinality(InWindow(a))'
                   = IF flight[r].inWindow THEN Cardinality(InWindow(a)) - 1 ELSE Cardinality(InWindow(a))
              /\ Cardinality(InDay(a))'
                   = IF flight[r].inDay THEN Cardinality(InDay(a)) - 1 ELSE Cardinality(InDay(a))
<1>1. /\ r \in InWindow(a) => Cardinality(InWindow(a) \ {r}) = Cardinality(InWindow(a)) - 1
      /\ r \notin InWindow(a) => InWindow(a) \ {r} = InWindow(a)
      /\ r \in InDay(a) => Cardinality(InDay(a) \ {r}) = Cardinality(InDay(a)) - 1
      /\ r \notin InDay(a) => InDay(a) \ {r} = InDay(a)
  BY Finite, OneRequest
<1>2. /\ InWindow(a)' = InWindow(a) \ {r} /\ InDay(a)' = InDay(a) \ {r}
      /\ r \in InWindow(a) <=> flight[r].account = a /\ flight[r].inWindow
      /\ r \in InDay(a) <=> flight[r].account = a /\ flight[r].inDay
  BY Settling
<1>3. QED
  BY <1>1, <1>2

(* A refused credential moves from the requests in flight to the tally.    *)
LEMMA WrongSound ==
  ASSUME TypeOK, NEW a \in Accounts, Sound(a), NEW r \in Requests, WrongCredential(r)
  PROVE  Sound(a)'
<1> DEFINE c == flight[r].account
           inW == flight[r].inWindow
           inD == flight[r].inDay
<1>1. c \in Accounts /\ flight[r] # Idle /\ flight' = [flight EXCEPT ![r] = Idle]
  BY DEF WrongCredential, TypeOK, StepUp
<1>2. attempts'[a] = attempts[a] /\ lent'[a] = lent[a]
  BY DEF WrongCredential, Settle, SettledEntry, TypeOK
<1>3. CASE a # c
  <2>1. wrong'[a] = wrong[a] /\ InWindow(a)' = InWindow(a) /\ InDay(a)' = InDay(a)
    BY <1>1, <1>3, SettledCounts DEF WrongCredential, TypeOK
  <2>2. QED
    BY <1>2, <2>1, SameSound
<1>4. CASE a = c
  <2>1. /\ wrong'[a].window = IF inW THEN wrong[a].window + 1 ELSE wrong[a].window
        /\ wrong'[a].day = IF inD THEN wrong[a].day + 1 ELSE wrong[a].day
    BY <1>1, <1>4 DEF WrongCredential, TypeOK, Tally
  <2>2. /\ Cardinality(InWindow(a))' = IF inW THEN Cardinality(InWindow(a)) - 1 ELSE Cardinality(InWindow(a))
        /\ Cardinality(InDay(a))' = IF inD THEN Cardinality(InDay(a)) - 1 ELSE Cardinality(InDay(a))
    BY <1>1, <1>4, SettledCounts
  <2>3. /\ wrong[a].window \in Nat /\ wrong[a].day \in Nat
        /\ lent[a].window \in Nat /\ lent[a].day \in Nat
        /\ attempts[a] # NoEntry => attempts[a].failures \in Nat /\ attempts[a].daily \in Nat
    BY DEF TypeOK, Tally, Entry
  <2>4. CASE attempts[a] = NoEntry
    <3>1. r \notin InWindow(a) /\ r \notin InDay(a) /\ InWindow(a) = {} /\ InDay(a) = {}
          /\ wrong[a] = Zero /\ lent[a] = Zero
      BY <2>4 DEF Sound, NothingCounted
    <3>2. ~ inW /\ ~ inD
      BY <1>1, <1>4, <3>1, Settling
    <3>3. InWindow(a)' = {} /\ InDay(a)' = {}
      BY <1>1, <3>1, Settling
    <3>4. wrong'[a] = Zero
      BY <1>1, <1>4, <3>1, <3>2 DEF WrongCredential, TypeOK, Tally, Zero
    <3>5. QED
      BY <1>2, <2>4, <3>1, <3>3, <3>4, NothingSound
  <2>5. CASE attempts[a] # NoEntry
    <3> HIDE DEF inW, inD
    <3>1. Counted(a) /\ Limited(a)
      BY <2>5 DEF Sound
    <3>2. Counted(a)' /\ Limited(a)'
      BY <1>2, <2>1, <2>2, <2>3, <2>5, <3>1, Finite DEF Counted, Limited
    <3>3. QED
      BY <1>2, <2>5, <3>2 DEF Sound
  <2>6. QED
    BY <2>4, <2>5
<1>5. QED
  BY <1>3, <1>4

(* An attempt given back takes one from the counts: its own, or, from an   *)
(* earlier window, one that is then lent.                                  *)
LEMMA OtherSound ==
  ASSUME TypeOK, NEW a \in Accounts, Sound(a), NEW r \in Requests, OtherFailure(r)
  PROVE  Sound(a)'
<1> DEFINE c == flight[r].account
           inW == flight[r].inWindow
           inD == flight[r].inDay
<1>1. c \in Accounts /\ flight[r] # Idle /\ flight' = [flight EXCEPT ![r] = Idle]
  BY DEF OtherFailure, TypeOK, StepUp
<1>2. wrong'[a] = wrong[a] /\ attempts' = Settle(attempts, c, "other")
  BY DEF OtherFailure
<1>3. CASE a # c
  <2>1. lent'[a] = lent[a] /\ InWindow(a)' = InWindow(a) /\ InDay(a)' = InDay(a)
    BY <1>1, <1>3, SettledCounts DEF OtherFailure, TypeOK
  <2>2. attempts'[a] = attempts[a]
    BY <1>1, <1>2, <1>3 DEF Settle, TypeOK
  <2>3. QED
    BY <1>2, <2>1, <2>2, SameSound
<1>4. CASE a = c /\ attempts[a] = NoEntry
  <2>1. InWindow(a) = {} /\ InDay(a) = {} /\ wrong[a] = Zero /\ lent[a] = Zero
    BY <1>4 DEF Sound, NothingCounted
  <2>2. InWindow(a)' = {} /\ InDay(a)' = {}
    BY <1>1, <2>1, Settling
  <2>3. lent'[a] = Zero
    BY <1>1, <1>4, <2>1 DEF OtherFailure, TypeOK, Tally, Zero
  <2>4. attempts'[a] = NoEntry
    BY <1>1, <1>2, <1>4, SettledOther
  <2>5. QED
    BY <1>2, <2>1, <2>2, <2>3, <2>4, NothingSound
<1>5. CASE a = c /\ attempts[a] # NoEntry
  <2>1. /\ lent'[a].window = IF inW THEN lent[a].window ELSE lent[a].window + 1
        /\ lent'[a].day = IF inD THEN lent[a].day ELSE lent[a].day + 1
    BY <1>1, <1>5 DEF OtherFailure, TypeOK, Tally
  <2>2. /\ Cardinality(InWindow(a))' = IF inW THEN Cardinality(InWindow(a)) - 1 ELSE Cardinality(InWindow(a))
        /\ Cardinality(InDay(a))' = IF inD THEN Cardinality(InDay(a)) - 1 ELSE Cardinality(InDay(a))
    BY <1>1, <1>5, SettledCounts
  <2>3. /\ attempts'[a] # NoEntry
        /\ attempts'[a].failures = LessOne(attempts[a].failures)
        /\ attempts'[a].daily = LessOne(attempts[a].daily)
    BY <1>1, <1>2, <1>5, SettledOther
  <2>4. /\ wrong[a].window \in Nat /\ wrong[a].day \in Nat
        /\ lent[a].window \in Nat /\ lent[a].day \in Nat
        /\ attempts[a].failures \in Nat /\ attempts[a].daily \in Nat
    BY <1>5 DEF TypeOK, Tally, Entry
  <2>5. Counted(a) /\ Limited(a)
    BY <1>5 DEF Sound
  <2>6. Cardinality(InWindow(a))' \in Nat /\ Cardinality(InDay(a))' \in Nat
    <3>1. InWindow(a)' \subseteq Requests /\ InDay(a)' \subseteq Requests
      BY DEF InWindow, InDay
    <3>2. QED
      BY <3>1, RequestsAssumption, FS_Subset, FS_CardinalityType
  <2> HIDE DEF inW, inD
  <2>7. /\ LessOne(attempts[a].failures) <= wrong[a].window + Cardinality(InWindow(a))'
        /\ wrong[a].window + Cardinality(InWindow(a))' <= LessOne(attempts[a].failures) + lent'[a].window
        /\ wrong[a].window + Cardinality(InWindow(a))' <= MaxFailures + lent'[a].window
    <3>1. lent'[a].window \in Nat /\ MaxFailures \in Nat /\ Cardinality(InWindow(a)) \in Nat
      BY <2>1, <2>4, Finite, LimitsAssumption
    <3>2. \/ Cardinality(InWindow(a))' = Cardinality(InWindow(a)) - 1 /\ lent'[a].window = lent[a].window
          \/ Cardinality(InWindow(a))' = Cardinality(InWindow(a)) /\ lent'[a].window = lent[a].window + 1
      BY <2>1, <2>2
    <3>3. /\ attempts[a].failures <= wrong[a].window + Cardinality(InWindow(a))
          /\ wrong[a].window + Cardinality(InWindow(a)) <= attempts[a].failures + lent[a].window
          /\ wrong[a].window + Cardinality(InWindow(a)) <= MaxFailures + lent[a].window
      BY <2>5 DEF Counted, Limited
    <3> DEFINE k == Cardinality(InWindow(a))
               kk == (Cardinality(InWindow(a)))'
               f == attempts[a].failures
               w == wrong[a].window
               l == lent[a].window
               ll == lent'[a].window
    <3>4. f \in Nat /\ w \in Nat /\ l \in Nat /\ ll \in Nat /\ k \in Nat /\ kk \in Nat
      BY <2>4, <2>6, <3>1
    <3>5. (kk = k - 1 /\ ll = l) \/ (kk = k /\ ll = l + 1)
      BY <3>2
    <3>6. f <= w + k /\ w + k <= f + l /\ w + k <= MaxFailures + l
      BY <3>3
    <3> HIDE DEF k, kk, f, w, l, ll
    <3>7. LessOne(f) <= w + kk /\ w + kk <= LessOne(f) + ll /\ w + kk <= MaxFailures + ll
      BY <3>1, <3>4, <3>5, <3>6 DEF LessOne
    <3>8. QED
      BY <3>7 DEF k, kk, f, w, l, ll
  <2>8. /\ LessOne(attempts[a].daily) <= wrong[a].day + Cardinality(InDay(a))'
        /\ wrong[a].day + Cardinality(InDay(a))' <= LessOne(attempts[a].daily) + lent'[a].day
        /\ wrong[a].day + Cardinality(InDay(a))' <= MaxDaily + lent'[a].day
    <3>1. lent'[a].day \in Nat /\ MaxDaily \in Nat /\ Cardinality(InDay(a)) \in Nat
      BY <2>1, <2>4, Finite, LimitsAssumption
    <3>2. \/ Cardinality(InDay(a))' = Cardinality(InDay(a)) - 1 /\ lent'[a].day = lent[a].day
          \/ Cardinality(InDay(a))' = Cardinality(InDay(a)) /\ lent'[a].day = lent[a].day + 1
      BY <2>1, <2>2
    <3>3. /\ attempts[a].daily <= wrong[a].day + Cardinality(InDay(a))
          /\ wrong[a].day + Cardinality(InDay(a)) <= attempts[a].daily + lent[a].day
          /\ wrong[a].day + Cardinality(InDay(a)) <= MaxDaily + lent[a].day
      BY <2>5 DEF Counted, Limited
    <3> DEFINE k == Cardinality(InDay(a))
               kk == (Cardinality(InDay(a)))'
               f == attempts[a].daily
               w == wrong[a].day
               l == lent[a].day
               ll == lent'[a].day
    <3>4. f \in Nat /\ w \in Nat /\ l \in Nat /\ ll \in Nat /\ k \in Nat /\ kk \in Nat
      BY <2>4, <2>6, <3>1
    <3>5. (kk = k - 1 /\ ll = l) \/ (kk = k /\ ll = l + 1)
      BY <3>2
    <3>6. f <= w + k /\ w + k <= f + l /\ w + k <= MaxDaily + l
      BY <3>3
    <3> HIDE DEF k, kk, f, w, l, ll
    <3>7. LessOne(f) <= w + kk /\ w + kk <= LessOne(f) + ll /\ w + kk <= MaxDaily + ll
      BY <3>1, <3>4, <3>5, <3>6 DEF LessOne
    <3>8. QED
      BY <3>7 DEF k, kk, f, w, l, ll
  <2>9. QED
    BY <1>2, <2>3, <2>7, <2>8 DEF Sound, Counted, Limited
<1>6. QED
  BY <1>3, <1>4, <1>5

-----------------------------------------------------------------------------
(* Before any attempt nothing is counted.                                  *)
LEMMA Initially == Init => IInv
<1> SUFFICES ASSUME Init PROVE IInv
  OBVIOUS
<1>1. TypeOK
  BY DEF Init, TypeOK, Zero, Tally
<1>2. ASSUME NEW a \in Accounts PROVE Sound(a)
  <2>1. InWindow(a) = {} /\ InDay(a) = {}
    BY DEF Init, InWindow, InDay, Of
  <2>2. Cardinality(InWindow(a)) = 0 /\ Cardinality(InDay(a)) = 0
    BY <2>1, FS_EmptySet
  <2>3. attempts[a] = NoEntry /\ wrong[a] = Zero /\ lent[a] = Zero
    BY DEF Init
  <2>4. QED
    BY <2>1, <2>2, <2>3, LimitsAssumption DEF Sound, NothingCounted, Limited, Zero
<1>3. QED
  BY <1>1, <1>2 DEF IInv

(* The counts are sound however step-ups overlap with each other and with  *)
(* the end of a window or a day.                                           *)
THEOREM Invariance == Spec => []IInv
<1>1. IInv /\ [Next]_vars => IInv'
  <2> SUFFICES ASSUME IInv, [Next]_vars PROVE IInv'
    OBVIOUS
  <2>1. TypeOK /\ TypeOK'
    BY TypeNext DEF IInv
  <2>2. ASSUME NEW a \in Accounts PROVE Sound(a)'
    <3>1. Sound(a)
      BY DEF IInv
    <3>2. CASE Tick \/ UNCHANGED vars
      BY <3>1, <3>2 DEF Tick, vars, Sound, NothingCounted, Counted, Limited, InWindow, InDay, Of
    <3>3. QED
      BY <2>1, <3>1, <3>2, BeginSound, RefuseSound, SuccessSound, WrongSound, OtherSound DEF Next
  <2>3. QED
    BY <2>1, <2>2 DEF IInv
<1>2. QED
  BY <1>1, Initially, PTL DEF Spec

(* The Map holds entries whose counts never fall below zero.               *)
THEOREM TypeCorrect == Spec => []TypeOK
<1>1. IInv => TypeOK
  BY DEF IInv
<1>2. QED
  BY <1>1, Invariance, PTL

(* However many requests run in parallel, the credentials refused and yet  *)
(* to be refused for an account stay within the limits, but for what late  *)
(* answers of an earlier window gave back.                                 *)
THEOREM Limits == Spec => []WithinLimits
<1>1. IInv => WithinLimits
  BY DEF IInv, Sound, Limited, WithinLimits
<1>2. QED
  BY <1>1, Invariance, PTL

(* Only refused credentials and requests in flight lock an account.        *)
THEOREM Mistakes == Spec => []LockedByMistakesOnly
<1>1. IInv => LockedByMistakesOnly
  BY DEF IInv, Sound, Counted, LockedByMistakesOnly
<1>2. QED
  BY <1>1, Invariance, PTL
=============================================================================
