---------------------------- MODULE PairAttempts ----------------------------
(***************************************************************************)
(* lib/auth/pair-attempts.ts: failed password step-ups for "Link mobile    *)
(* app", per mail account, so that the webmail's own address is not banned *)
(* by the mail server.  Operators on the Map `m` of entries at a time `t`; *)
(* module StepUps runs them under concurrent requests, module Pairing      *)
(* within the route that uses them.                                        *)
(***************************************************************************)
EXTENDS Integers

CONSTANTS
  Accounts,      \* limiter keys: an account on its server
  MaxFailures,   \* MAX_FAILURES
  MaxDaily,      \* MAX_DAILY_FAILURES
  WindowLength,  \* WINDOW_MS
  DayLength,     \* DAY_MS
  NoEntry        \* absent from the Map

ASSUME LimitsAssumption ==
  /\ MaxFailures \in Nat \ {0}
  /\ MaxDaily \in Nat \ {0}
  /\ WindowLength \in Nat \ {0}
  /\ DayLength \in Nat \ {0}

Entry == [failures : Nat, windowStart : Nat, daily : Nat, dayStart : Nat]
ASSUME NoEntryAssumption == NoEntry \notin Entry

DayOver(e, t) == t - e.dayStart >= DayLength
WindowOver(e, t) == t - e.windowStart >= WindowLength

(* live: an entry whose day ran out is dropped, a window that ran out      *)
(* starts again.                                                           *)
Live(e, t) ==
  IF e = NoEntry THEN NoEntry
  ELSE IF DayOver(e, t) THEN NoEntry
  ELSE IF WindowOver(e, t) THEN [failures |-> 0, windowStart |-> t, daily |-> e.daily, dayStart |-> e.dayStart]
  ELSE e

(* isPairStepUpLocked, after live.                                         *)
Locked(e, t) ==
  LET l == Live(e, t) IN l # NoEntry /\ (l.failures >= MaxFailures \/ l.daily >= MaxDaily)

WithCounts(e, failures, daily) ==
  [failures |-> failures, windowStart |-> e.windowStart, daily |-> daily, dayStart |-> e.dayStart]

(* Mutant: only the window is counted.                                     *)
RecordedInWindow(e, t) ==
  LET l == Live(e, t) IN
  IF l = NoEntry THEN [failures |-> 1, windowStart |-> t, daily |-> 1, dayStart |-> t]
  ELSE WithCounts(l, l.failures + 1, l.daily)

(* recordPairStepUpFailure, for the account itself.                        *)
Recorded(e, t) ==
  LET l == Live(e, t) IN
  IF l = NoEntry THEN [failures |-> 1, windowStart |-> t, daily |-> 1, dayStart |-> t]
  ELSE WithCounts(l, l.failures + 1, l.daily + 1)

(* beginPairStepUp of a locked account: only live's own clean-up happens.  *)
BeginRefused(m, a, t) == [m EXCEPT ![a] = Live(@, t)]

(* beginPairStepUp of one that is not: the attempt counts as a failure from *)
(* now on, and entries whose day ran out are dropped.                       *)
BeginCounted(m, a, t) ==
  [b \in Accounts |-> IF b = a THEN Recorded(m[a], t)
                      ELSE IF m[b] # NoEntry /\ DayOver(m[b], t) THEN NoEntry
                      ELSE m[b]]

LessOne(n) == IF n > 0 THEN n - 1 ELSE 0

(* Mutant: an attempt that told nothing about the credential stays counted. *)
SettleKeeping(m, a, outcome) ==
  [m EXCEPT ![a] = IF outcome = "success" THEN NoEntry ELSE @]

(* settlePairStepUp.                                                       *)
SettledEntry(e, outcome) ==
  IF outcome = "success" THEN NoEntry
  ELSE IF outcome = "other" /\ e # NoEntry
       THEN WithCounts(e, LessOne(e.failures), LessOne(e.daily))
  ELSE e

Settle(m, a, outcome) == [m EXCEPT ![a] = SettledEntry(@, outcome)]

=============================================================================
