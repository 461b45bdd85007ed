------------------------------ MODULE StepUps ------------------------------
(***************************************************************************)
(* Password step-ups for "Link mobile app" under concurrent requests       *)
(* (app/api/auth/pair/create/route.ts).  The mail server is asked between  *)
(* beginPairStepUp and settlePairStepUp, so other requests of the account, *)
(* from any tab or browser, begin and settle in between, and the window or *)
(* the day may run out.                                                    *)
(***************************************************************************)
EXTENDS PairAttempts, FiniteSets

CONSTANTS
  Requests,  \* requests that may be in flight together
  MaxTime,   \* bound: the clock
  Idle       \* a request that is not in flight

ASSUME RequestsAssumption == IsFiniteSet(Requests) /\ MaxTime \in Nat

(* A step-up waiting for the mail server, and whether the window and the   *)
(* day it was counted in are still the entry's.                            *)
StepUp == [account : Accounts, inWindow : BOOLEAN, inDay : BOOLEAN]
ASSUME IdleAssumption == Idle \notin StepUp

VARIABLES
  attempts,  \* the Map
  flight,    \* the requests waiting for the mail server
  wrong,     \* history: credentials refused in the entry's window, and day
  lent,      \* history: attempts of an earlier window, or day, given back from it
  now

vars == <<attempts, flight, wrong, lent, now>>

Tally == [window : Nat, day : Nat]
Zero == [window |-> 0, day |-> 0]

Init ==
  /\ attempts = [a \in Accounts |-> NoEntry]
  /\ flight = [r \in Requests |-> Idle]
  /\ wrong = [a \in Accounts |-> Zero]
  /\ lent = [a \in Accounts |-> Zero]
  /\ now = 0

Of(r, a) == flight[r] # Idle /\ flight[r].account = a

(* The history of the entries that live, or the sweep of the Map, resets.  *)
NewDay(a, swept) == attempts[a] = NoEntry \/ (swept /\ DayOver(attempts[a], now))
NewWindow(a, swept) == NewDay(a, swept) \/ (swept /\ WindowOver(attempts[a], now))

Aged(r, resetWindow, resetDay) ==
  [flight[r] EXCEPT !.inWindow = @ /\ ~ resetWindow, !.inDay = @ /\ ~ resetDay]

TallyAfter(tally, resetWindow, resetDay) ==
  [window |-> IF resetWindow THEN 0 ELSE tally.window,
   day |-> IF resetDay THEN 0 ELSE tally.day]

(* Of the accounts other than a, a counted attempt only drops those whose  *)
(* day ran out.                                                            *)
ResetDay(a, b, counted) == IF b = a THEN NewDay(b, TRUE) ELSE NewDay(b, counted)
ResetWindow(a, b, counted) == IF b = a THEN NewWindow(b, TRUE) ELSE NewDay(b, counted)

BeginHistory(a, counted) ==
  /\ wrong' = [b \in Accounts |-> TallyAfter(wrong[b], ResetWindow(a, b, counted), ResetDay(a, b, counted))]
  /\ lent' = [b \in Accounts |-> TallyAfter(lent[b], ResetWindow(a, b, counted), ResetDay(a, b, counted))]

AgedFlight(a, counted) ==
  [r \in Requests |->
     IF flight[r] = Idle THEN Idle
     ELSE Aged(r, ResetWindow(a, flight[r].account, counted), ResetDay(a, flight[r].account, counted))]

(* The route counts the attempt and asks the mail server.                  *)
Begin(r, a) ==
  /\ flight[r] = Idle
  /\ ~ Locked(attempts[a], now)
  /\ attempts' = BeginCounted(attempts, a, now)
  /\ flight' = [AgedFlight(a, TRUE) EXCEPT ![r] = [account |-> a, inWindow |-> TRUE, inDay |-> TRUE]]
  /\ BeginHistory(a, TRUE)
  /\ UNCHANGED now

(* 429: too many attempts.                                                 *)
Refuse(a) ==
  /\ Locked(attempts[a], now)
  /\ attempts' = BeginRefused(attempts, a, now)
  /\ flight' = AgedFlight(a, FALSE)
  /\ BeginHistory(a, FALSE)
  /\ UNCHANGED now

(* The mail server's verdict.  A success forgets the account's entry, with *)
(* the attempts others have counted in it.                                 *)
Success(r) ==
  /\ flight[r] # Idle
  /\ LET a == flight[r].account IN
     /\ attempts' = Settle(attempts, a, "success")
     /\ flight' = [x \in Requests |->
          IF x = r THEN Idle ELSE IF Of(x, a) THEN Aged(x, TRUE, TRUE) ELSE flight[x]]
     /\ wrong' = [wrong EXCEPT ![a] = Zero]
     /\ lent' = [lent EXCEPT ![a] = Zero]
  /\ UNCHANGED now

WrongCredential(r) ==
  /\ flight[r] # Idle
  /\ LET a == flight[r].account IN
     /\ attempts' = Settle(attempts, a, "wrong_credential")
     /\ wrong' = [wrong EXCEPT ![a].window = IF flight[r].inWindow THEN @ + 1 ELSE @,
                               ![a].day = IF flight[r].inDay THEN @ + 1 ELSE @]
  /\ flight' = [flight EXCEPT ![r] = Idle]
  /\ UNCHANGED <<lent, now>>

(* The mail server could not be asked, or pairing is unavailable.          *)
OtherFailure(r) ==
  /\ flight[r] # Idle
  /\ LET a == flight[r].account
         known == attempts[a] # NoEntry
     IN
     /\ attempts' = Settle(attempts, a, "other")
     /\ lent' = [lent EXCEPT ![a].window = IF known /\ ~ flight[r].inWindow THEN @ + 1 ELSE @,
                             ![a].day = IF known /\ ~ flight[r].inDay THEN @ + 1 ELSE @]
  /\ flight' = [flight EXCEPT ![r] = Idle]
  /\ UNCHANGED <<wrong, now>>

Tick == now < MaxTime /\ now' = now + 1 /\ UNCHANGED <<attempts, flight, wrong, lent>>

Next ==
  \/ \E r \in Requests, a \in Accounts : Begin(r, a)
  \/ \E a \in Accounts : Refuse(a)
  \/ \E r \in Requests : Success(r) \/ WrongCredential(r) \/ OtherFailure(r)
  \/ Tick

Spec == Init /\ [][Next]_vars

-----------------------------------------------------------------------------
(* Properties.                                                             *)

TypeOK ==
  /\ attempts \in [Accounts -> Entry \cup {NoEntry}]
  /\ flight \in [Requests -> StepUp \cup {Idle}]
  /\ wrong \in [Accounts -> Tally]
  /\ lent \in [Accounts -> Tally]
  /\ now \in Nat

InWindow(a) == {r \in Requests : Of(r, a) /\ flight[r].inWindow}
InDay(a) == {r \in Requests : Of(r, a) /\ flight[r].inDay}

(* The credentials the mail server has refused, or may yet refuse, for an  *)
(* account in its window and in its day stay within the limits however     *)
(* many requests run in parallel ("otherwise parallel requests would all   *)
(* pass the check before the first one failed").  An attempt of an earlier *)
(* window that is given back late is taken from the wrong window, so each  *)
(* of those lets one more through: that is the slack, and all of it.       *)
WithinLimits ==
  \A a \in Accounts :
    /\ wrong[a].window + Cardinality(InWindow(a)) <= MaxFailures + lent[a].window
    /\ wrong[a].day + Cardinality(InDay(a)) <= MaxDaily + lent[a].day

(* Nobody is locked out by a mail server that does not answer: what counts *)
(* against an account are refused credentials and requests in flight.      *)
LockedByMistakesOnly ==
  \A a \in Accounts : attempts[a] # NoEntry =>
    /\ attempts[a].failures <= wrong[a].window + Cardinality(InWindow(a))
    /\ attempts[a].daily <= wrong[a].day + Cardinality(InDay(a))
=============================================================================
