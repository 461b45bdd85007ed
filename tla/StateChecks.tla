----------------------------- MODULE StateChecks -----------------------------
(***************************************************************************)
(* How one client (lib/jmap/client.ts) learns that the server's data       *)
(* changed: events of its stream, and checks that compare the server's     *)
(* state with the one last seen by a poll (pollingStates).  Where streams  *)
(* come from is in PushStreams; here a client has one, tries to get one,   *)
(* or has none.                                                            *)
(*                                                                         *)
(* The states of all data types travel together and are one number.  Told  *)
(* of a change, the views fetch again, so they then show everything up to  *)
(* that moment.                                                            *)
(***************************************************************************)
EXTENDS Integers

CONSTANTS
  Shared,      \* whether the client sees shared accounts: it always polls
  MaxChanges,  \* bound: changes at the server
  Primes,      \* bound: baseline requests under way at a time
  None, Asked

ASSUME ChecksAssumption ==
  /\ Shared \in BOOLEAN /\ MaxChanges \in Nat /\ None # Asked
  /\ {None, Asked} \cap (0 .. MaxChanges) = {}

VARIABLES
  bound,     \* stateChangeCallback is set
  stream,    \* "off", "trying" (an attempt or a timer), "open"
  interval,  \* a polling interval runs, slow or fast
  server,    \* the server's state
  sent,      \* the newest state sent on the open stream, or 0
  seen,      \* what the views show
  base,      \* pollingStates
  check,     \* checkForStateChanges under way (stateCheckInFlight): its answer
  prime,     \* fetchCurrentStates under way
  lost       \* history: the newest state that no one will tell of

vars == <<bound, stream, interval, server, sent, seen, base, check, prime, lost>>
requests == <<check, prime>>

State == 0 .. MaxChanges
Request == State \cup {None, Asked}

-----------------------------------------------------------------------------
(* fetchCurrentStates is sent if `yes`.                                    *)
MayPrime(yes) ==
  IF yes THEN \E i \in Primes : prime[i] = None /\ prime' = [prime EXCEPT ![i] = Asked]
  ELSE UNCHANGED prime

(* setupPushNotifications, with a slot for a stream or without.            *)
Setup ==
  \E slot \in BOOLEAN :
    /\ stream' = IF slot THEN "trying" ELSE "off"
    /\ interval' = (~slot \/ Shared)
    /\ MayPrime(~slot \/ Shared)

(* closePushNotifications, but for the callback; requests under way are    *)
(* not cancelled.                                                          *)
Close == stream' = "off" /\ interval' = FALSE /\ base' = None

(* The views load when the login gets its binding.                         *)
Bind ==
  /\ ~bound
  /\ bound' = TRUE /\ seen' = server
  /\ Setup
  /\ UNCHANGED <<server, sent, base, check>>

Unbind ==
  /\ bound
  /\ bound' = FALSE
  /\ Close
  /\ UNCHANGED <<server, sent, seen, requests>>

(* setRateLimited keeps the callback, and sets up again when the limit is  *)
(* over; nothing loads then.                                               *)
Paused == bound /\ stream = "off" /\ ~interval

Pause ==
  /\ bound /\ ~Paused
  /\ Close
  /\ UNCHANGED <<bound, server, sent, seen, requests>>

Resume ==
  /\ Paused
  /\ Setup
  /\ UNCHANGED <<bound, server, sent, seen, base, check>>

Open ==
  /\ stream = "trying"
  /\ stream' = "open" /\ sent' = 0
  /\ UNCHANGED <<bound, interval, server, seen, base, requests>>

(* The stream ends or goes stale; what was on its way is gone.             *)
Break ==
  /\ stream = "open"
  /\ stream' = "trying"
  /\ UNCHANGED <<bound, interval, server, sent, seen, base, requests>>

(* fallbackToPolling *)
Fallback ==
  /\ stream = "trying"
  /\ stream' = "off" /\ interval' = TRUE
  /\ MayPrime(TRUE)
  /\ UNCHANGED <<bound, server, sent, seen, base, check>>

(* onlineHandler after a fallback, whose interval goes on; or a promotion, *)
(* which ends the slow poll but for shared accounts.                       *)
TryAgain ==
  /\ bound /\ stream = "off" /\ interval
  /\ stream' = "trying"
  /\ \E promoted \in BOOLEAN :
       /\ interval' = (~promoted \/ Shared)
       /\ MayPrime(promoted /\ Shared)
  /\ UNCHANGED <<bound, server, sent, seen, base, check>>

(* onlineHandler where no slot is free: the slow poll runs, and the        *)
(* baseline is asked for again unless that poll ran already.               *)
Queue ==
  /\ bound /\ stream = "off" /\ interval
  /\ \E started \in BOOLEAN : MayPrime(started)
  /\ UNCHANGED <<bound, stream, interval, server, sent, seen, base, check>>

-----------------------------------------------------------------------------
Change ==
  /\ server < MaxChanges
  /\ server' = server + 1
  /\ sent' = IF stream = "open" THEN server + 1 ELSE sent
  /\ UNCHANGED <<bound, stream, interval, seen, base, requests>>

Event ==
  /\ stream = "open" /\ sent > seen
  /\ seen' = server
  /\ UNCHANGED <<bound, stream, interval, server, sent, base, requests>>

(* checkForStateChanges: one at a time.                                    *)
Check ==
  /\ check = None
  /\ check' = Asked
  /\ UNCHANGED <<bound, stream, interval, server, sent, seen, base, prime>>
Tick == interval /\ Check
Shown == bound /\ ~Paused /\ Check

Answer ==
  /\ \/ check = Asked /\ check' = server /\ UNCHANGED prime
     \/ \E i \in Primes : /\ prime[i] = Asked
                          /\ prime' = [prime EXCEPT ![i] = server] /\ UNCHANGED check
  /\ UNCHANGED <<bound, stream, interval, server, sent, seen, base>>

(* Mutant: an open stream is left to tell.                                 *)
NewsUnstreamed(s) == stream # "open" /\ base \notin {None, s}

(* An answer is news only where there is a baseline.                       *)
News(s) == base \notin {None, s}

CheckLands ==
  /\ check \in State
  /\ base' = check /\ check' = None
  /\ seen' = IF bound /\ News(check) THEN server ELSE seen
  /\ UNCHANGED <<bound, stream, interval, server, sent, prime, lost>>

PrimeLands ==
  \E i \in Primes :
    /\ prime[i] \in State
    /\ base' = prime[i]
    /\ prime' = [prime EXCEPT ![i] = None]
    /\ UNCHANGED <<bound, stream, interval, server, sent, seen, check>>

CheckFails ==
  /\ check # None
  /\ check' = None
  /\ UNCHANGED <<bound, stream, interval, server, sent, seen, base, prime, lost>>

PrimeFails ==
  \E i \in Primes :
    /\ prime[i] # None
    /\ prime' = [prime EXCEPT ![i] = None]
    /\ UNCHANGED <<bound, stream, interval, server, sent, seen, base, check>>

-----------------------------------------------------------------------------
Init ==
  /\ bound = FALSE /\ stream = "off" /\ interval = FALSE
  /\ server = 0 /\ sent = 0 /\ seen = 0 /\ base = None
  /\ check = None /\ prime = [i \in Primes |-> None] /\ lost = 0

(* Somebody will tell: the stream, or the next tick.                       *)
Hope == (stream = "open" /\ sent > seen) \/ (interval /\ base \notin {None, server})
Behind == bound /\ seen < server

(* A change made when nobody was there to notice, or one that was to be    *)
(* told and now is not.  A check is no excuse.                             *)
Note ==
  lost' = IF (Behind /\ ~Hope)' /\ (Hope \/ ~Behind \/ server' # server) THEN server' ELSE lost

Next ==
  \/ /\ \/ Bind \/ Unbind \/ Pause \/ Resume \/ Open \/ Break \/ Fallback \/ TryAgain \/ Queue
        \/ Change \/ Event \/ Tick \/ Shown \/ Answer
        \/ PrimeLands \/ PrimeFails
     /\ Note
  \/ CheckLands \/ CheckFails

Spec == Init /\ [][Next]_vars

(* An interval ticks, an open stream delivers, and of the checks a client  *)
(* makes again and again one is answered at last, and its answer taken.    *)
CheckAnswered == check = Asked /\ Answer /\ check' # Asked
FairSpec ==
  /\ Spec
  /\ WF_vars(Tick /\ Note) /\ WF_vars(Event /\ Note)
  /\ SF_vars(CheckAnswered /\ Note) /\ SF_vars(CheckLands)

(* The same, with limits that end, a server that can be reached and a user  *)
(* who comes back to the tab again and again.                              *)
ReturningSpec ==
  FairSpec /\ WF_vars(Resume /\ Note) /\ WF_vars(Open /\ Note) /\ SF_vars(Shown /\ Note)

-----------------------------------------------------------------------------
(* Properties.                                                             *)

(* The variables have their types; nothing is newer than the server, and   *)
(* only a bound client has a stream or an interval.                        *)
TypeOK ==
  /\ bound \in BOOLEAN /\ stream \in {"off", "trying", "open"} /\ interval \in BOOLEAN
  /\ server \in State /\ {sent, seen, lost} \subseteq 0 .. server
  /\ {base, check} \cup {prime[i] : i \in Primes} \subseteq (0 .. server) \cup {None, Asked}
  /\ base # Asked
  /\ ~bound => stream = "off" /\ ~interval

(* What the views show catches up with every change that a stream or a     *)
(* baseline with an interval was there to notice, whatever checks,         *)
(* baselines, failures and new bindings overlap.                           *)
ToldAtLast ==
  \A n \in 1 .. MaxChanges :
    (bound /\ server >= n) ~> (seen >= n \/ lost >= n \/ ~bound)

(* The views of a bound client catch up with every change.                 *)
EveryChangeTold ==
  \A n \in 1 .. MaxChanges : (bound /\ server >= n) ~> (seen >= n \/ ~bound)
=============================================================================
