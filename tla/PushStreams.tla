----------------------------- MODULE PushStreams -----------------------------
(***************************************************************************)
(* The live updates of one tab (lib/jmap/client.ts, lib/push-bindings.ts). *)
(* Every login has a client of its own, and an open event stream pins one  *)
(* of the few sockets the browser allows, so a tab has MaxStreams slots:   *)
(* a client without one polls slowly and waits to be promoted.  The        *)
(* bindings follow the signed-in clients and the account on screen.        *)
(*                                                                         *)
(* Time is left out: a timer may fire at any moment once it is set, and a  *)
(* stream may at any moment have been silent for too long.  Every server   *)
(* offers an event stream; without one a client only polls.  A microtask   *)
(* runs right after the handler that queued it, so a handler and the       *)
(* promotion it queued are one step (AfterTask).                           *)
(***************************************************************************)
EXTENDS Integers, FiniteSets, FiniteSetsExt, SequencesExt

CONSTANTS
  Clients,     \* clients, each for one login
  Shared,      \* those that see shared accounts, of which no stream tells
  Throttled,   \* those whose server limits the rate of requests
  MaxStreams,  \* MAX_SSE_STREAMS
  MaxStray,    \* bound: forgotten reconnect timers of a client at a time
  Nobody

ASSUME PushAssumption ==
  /\ Shared \subseteq Clients /\ Throttled \subseteq Clients
  /\ MaxStreams \in Nat \ {0} /\ MaxStray \in Nat
  /\ Nobody \notin Clients

VARIABLES
  signed,   \* "new", "in" (connected), "out" (disconnect was called)
  screen,   \* the client of the account shown, Nobody while `client` is null
  bound,    \* the bindings: "none", "active" or "background"
  limited,  \* isRateLimited
  resume,   \* rateLimitTimeout: sets push up again when the limit is over
  push      \* the live updates of the tab's clients, see Push

vars == <<signed, screen, bound, limited, resume, push>>

(* attempt: the state of sseAbortController's fetch; "ended" is a stream   *)
(* the server closed, whose controller is kept.  timer: what               *)
(* sseReconnectTimeout names, while it has not fired; stray: reconnect     *)
(* timers that are set but no longer named.  poll and slow: the two        *)
(* polling intervals.  hears: the browser listeners that close removes;    *)
(* overheard: older ones nothing names any more.                           *)
Push == [holders : SUBSET Clients, waiters : Seq(Clients),
         wanted : [Clients -> BOOLEAN],
         attempt : [Clients -> {"none", "connecting", "open", "ended"}],
         timer : [Clients -> BOOLEAN], stray : [Clients -> 0 .. MaxStray],
         poll : [Clients -> BOOLEAN], slow : [Clients -> BOOLEAN],
         hears : [Clients -> BOOLEAN], overheard : [Clients -> BOOLEAN]]

In == {c \in Clients : signed[c] = "in"}

(* What the bindings should be: none at all while nobody is shown.         *)
Role(c) ==
  IF screen = Nobody \/ c \notin In THEN "none"
  ELSE IF c = screen THEN "active" ELSE "background"
Reconciled == \A c \in Clients : bound[c] = Role(c)

-----------------------------------------------------------------------------
(* The handlers' parts, as functions of the tab's state.                   *)

(* A loop over a sequence, as a recursive function.                        *)
Each(Op(_, _), start, seq) ==
  LET after[i \in 0 .. Len(seq)] == IF i = 0 THEN start ELSE Op(after[i - 1], seq[i])
  IN  after[Len(seq)]

Full(p) == Cardinality(p.holders) >= MaxStreams

(* releaseSSESlot *)
Release(p, c) == [p EXCEPT !.holders = @ \ {c}, !.waiters = RemoveFirst(@, c)]

(* Mutant: the reconnect timer is not cleared.                             *)
CloseKeepingTimer(p, c) ==
  [Release(p, c) EXCEPT !.wanted[c] = FALSE, !.poll[c] = FALSE, !.slow[c] = FALSE,
                        !.attempt[c] = "none", !.hears[c] = FALSE]

(* closePushNotifications *)
Close(p, c) ==
  [Release(p, c) EXCEPT !.wanted[c] = FALSE, !.poll[c] = FALSE, !.slow[c] = FALSE,
                        !.attempt[c] = "none", !.timer[c] = FALSE, !.hears[c] = FALSE]

(* scheduleSSEReconnect: a timer that is still set is forgotten, not       *)
(* cleared.                                                                *)
Schedule(p, c) ==
  IF signed[c] = "in"
  THEN [p EXCEPT !.timer[c] = TRUE, !.stray[c] = @ + (IF p.timer[c] THEN 1 ELSE 0)]
  ELSE p

(* startPollingFallback and fallbackToPolling *)
Poll(p, c) == [p EXCEPT !.poll[c] = @ \/ (signed[c] = "in" /\ ~limited[c])]
FallbackKeepingSlot(p, c) == Poll([p EXCEPT !.attempt[c] = "none"], c)  \* mutant
Fallback(p, c) == Poll([Release(p, c) EXCEPT !.attempt[c] = "none"], c)

(* connectSSE past its two early returns: whatever the client had open or  *)
(* pending makes way for the new attempt.                                  *)
Attempt(p, c) ==
  [p EXCEPT !.wanted[c] = TRUE, !.holders = @ \cup {c}, !.waiters = RemoveFirst(@, c),
            !.attempt[c] = "connecting", !.timer[c] = FALSE]

(* Mutant: waiting without polling.                                        *)
WaitDeaf(p, c) ==
  [p EXCEPT !.wanted[c] = TRUE, !.waiters = IF Contains(@, c) THEN @ ELSE Append(@, c)]

(* connectSSE without a slot to have: wait in line, on the slow poll.      *)
Wait(p, c) ==
  [p EXCEPT !.wanted[c] = TRUE, !.slow[c] = TRUE,
            !.waiters = IF Contains(@, c) THEN @ ELSE Append(@, c)]

ConnectSSE(p, c) ==
  IF limited[c] THEN Schedule([p EXCEPT !.wanted[c] = TRUE], c)
  ELSE IF c \notin p.holders /\ Full(p) THEN Wait(p, c)
  ELSE Attempt(p, c)

(* setupPushNotifications: the listeners of an earlier setup are not       *)
(* removed.                                                                *)
Setup(p, c) ==
  [ConnectSSE(p, c) EXCEPT !.slow[c] = @ \/ c \in Shared,
                           !.overheard[c] = @ \/ p.hears[c], !.hears[c] = TRUE]

(* promoteSSEWaiters, run by every step that gave up a slot.               *)
Promote(p, c) ==
  IF Full(p) THEN p
  ELSE LET q == [p EXCEPT !.waiters = RemoveFirst(@, c)]
       IN  IF q.wanted[c] /\ signed[c] = "in"
           THEN [ConnectSSE([q EXCEPT !.slow[c] = FALSE], c) EXCEPT !.slow[c] = @ \/ c \in Shared]
           ELSE q

(* Mutant: only the first in line is looked at.                            *)
AfterTaskFirstOnly(p) ==
  IF push.holders \subseteq p.holders \/ p.waiters = <<>> THEN p ELSE Promote(p, Head(p.waiters))
AfterTask(p) ==
  IF push.holders \subseteq p.holders THEN p ELSE Each(Promote, p, p.waiters)

Run(p) == push' = AfterTask(p)

-----------------------------------------------------------------------------
(* Signing in and out, and the bindings that follow.                       *)

SignIn(c) ==
  /\ signed[c] = "new"
  /\ signed' = [signed EXCEPT ![c] = "in"]
  /\ screen' \in {c, screen}
  /\ UNCHANGED <<bound, limited, resume, push>>

SwitchTo(c) ==
  /\ c \in In \ {screen}
  /\ screen' = c
  /\ UNCHANGED <<signed, bound, limited, resume, push>>

(* A switch to an account not connected yet shows nobody until it ends.    *)
SwitchAway ==
  /\ screen # Nobody
  /\ \E c \in Clients : signed[c] = "new"
  /\ screen' = Nobody
  /\ UNCHANGED <<signed, bound, limited, resume, push>>

(* disconnect; of the account shown, nobody is until the next one is.      *)
SignOut(c) ==
  /\ c \in In
  /\ signed' = [signed EXCEPT ![c] = "out"]
  /\ screen' = IF c = screen THEN Nobody ELSE screen
  /\ resume' = [resume EXCEPT ![c] = FALSE]
  /\ Run(Close(push, c))
  /\ UNCHANGED <<bound, limited>>

(* releasePushBindings unbinds every client while nobody is shown, and      *)
(* reconcilePushBindings those that are gone; then it visits the others,   *)
(* the one on screen first.  A client that lost its binding to that one is *)
(* bound again when its turn comes.                                        *)
Unbind(b, c) == [push |-> Close(b.push, c), bound |-> [b.bound EXCEPT ![c] = "none"]]
Bind(b, c) == [push |-> Setup(b.push, c), bound |-> [b.bound EXCEPT ![c] = Role(c)]]

Visit(b, c) ==
  IF b.bound[c] = "none" THEN Bind(b, c)
  ELSE IF Role(c) = "active" /\ b.bound[c] # "active" /\ c \notin b.push.holders
  THEN LET displaced == {d \in Clients : b.bound[d] = "active"}
       IN  Bind(Unbind(Each(Unbind, b, SetToSeq(displaced)), c), c)
  ELSE [b EXCEPT !.bound[c] = Role(c)]

Reconcile ==
  /\ ~Reconciled
  /\ \E others \in SetToSeqs(In \ {screen}) :
       LET gone == {c \in Clients : bound[c] # "none" /\ Role(c) = "none"}
           left == Each(Unbind, [push |-> push, bound |-> bound], SetToSeq(gone))
           done == IF screen = Nobody THEN left ELSE Each(Visit, Visit(left, screen), others)
       IN  Run(done.push) /\ bound' = done.bound
  /\ UNCHANGED <<signed, screen, limited, resume>>

-----------------------------------------------------------------------------
(* The stream of a client.                                                 *)

Quietly == UNCHANGED <<signed, screen, bound, limited, resume>>

(* The fetch is answered with a stream; or refused, lost or timed out.     *)
Opened(c) ==
  /\ push.attempt[c] = "connecting"
  /\ Run([push EXCEPT !.attempt[c] = "open"])
  /\ Quietly

Failed(c) ==
  /\ push.attempt[c] = "connecting"
  /\ Run(Fallback(push, c))
  /\ Quietly

(* The server closes the stream, or the connection breaks.                 *)
StreamEnds(c) ==
  /\ push.attempt[c] = "open"
  /\ Run(Schedule([push EXCEPT !.attempt[c] = "ended"], c))
  /\ Quietly

(* The ping monitor finds the stream silent for 90 seconds.                *)
GoesStale(c) ==
  /\ push.attempt[c] = "open"
  /\ Run(Schedule([push EXCEPT !.attempt[c] = "none"], c))
  /\ Quietly

(* recycleStaleSSE, when the tab is shown again.                           *)
Shown(c) ==
  /\ push.hears[c] \/ push.overheard[c]
  /\ c \in In /\ push.attempt[c] # "none"
  /\ Run(Schedule([push EXCEPT !.attempt[c] = "none"], c))
  /\ Quietly

(* onlineHandler *)
Online(c) ==
  /\ push.hears[c] \/ push.overheard[c]
  /\ c \in In /\ push.attempt[c] = "none"
  /\ Run(ConnectSSE(push, c))
  /\ Quietly

(* A reconnect timer fires, still named or not; connectSSE does not look   *)
(* whether the client was closed meanwhile.                                *)
Reconnect(p, c) == IF limited[c] THEN Schedule(p, c) ELSE ConnectSSE(p, c)

TimerFires(c) ==
  /\ push.timer[c]
  /\ Run(Reconnect([push EXCEPT !.timer[c] = FALSE], c))
  /\ Quietly

StrayFires(c) ==
  /\ push.stray[c] > 0
  /\ Run(Reconnect([push EXCEPT !.stray[c] = @ - 1], c))
  /\ Quietly

-----------------------------------------------------------------------------
(* Rate limits.                                                            *)

(* setRateLimited: some request of the client, its stream's included, is   *)
(* answered 429.                                                           *)
RateLimited(c) ==
  /\ c \in Throttled /\ (c \in In \/ push.attempt[c] = "connecting")
  /\ limited' = [limited EXCEPT ![c] = TRUE]
  /\ resume' = [resume EXCEPT ![c] = TRUE]
  /\ Run(Close(push, c))
  /\ UNCHANGED <<signed, screen, bound>>

(* rateLimitedUntil passes.                                                *)
LimitOver(c) ==
  /\ limited[c]
  /\ limited' = [limited EXCEPT ![c] = FALSE]
  /\ UNCHANGED <<signed, screen, bound, resume, push>>

Resume(c) ==
  /\ resume[c] /\ ~limited[c]
  /\ resume' = [resume EXCEPT ![c] = FALSE]
  /\ IF c \in In /\ bound[c] # "none" THEN Run(Setup(push, c)) ELSE UNCHANGED push
  /\ UNCHANGED <<signed, screen, bound, limited>>

-----------------------------------------------------------------------------
Init ==
  /\ signed = [c \in Clients |-> "new"]
  /\ screen = Nobody
  /\ bound = [c \in Clients |-> "none"]
  /\ limited = [c \in Clients |-> FALSE]
  /\ resume = [c \in Clients |-> FALSE]
  /\ push = [holders |-> {}, waiters |-> <<>>,
             wanted |-> [c \in Clients |-> FALSE], attempt |-> [c \in Clients |-> "none"],
             timer |-> [c \in Clients |-> FALSE], stray |-> [c \in Clients |-> 0],
             poll |-> [c \in Clients |-> FALSE], slow |-> [c \in Clients |-> FALSE],
             hears |-> [c \in Clients |-> FALSE], overheard |-> [c \in Clients |-> FALSE]]

Step(c) ==
  \/ SignIn(c) \/ SwitchTo(c) \/ SignOut(c)
  \/ Opened(c) \/ Failed(c) \/ StreamEnds(c) \/ GoesStale(c)
  \/ Shown(c) \/ Online(c) \/ TimerFires(c) \/ StrayFires(c)
  \/ RateLimited(c) \/ LimitOver(c) \/ Resume(c)

(* The bound on forgotten timers is taken here, for all actions.           *)
Next ==
  /\ (\E c \in Clients : Step(c)) \/ SwitchAway \/ Reconcile
  /\ \A c \in Clients : push'.stray[c] <= MaxStray

Spec == Init /\ [][Next]_vars

-----------------------------------------------------------------------------
(* Properties.                                                             *)

(* The variables have their types; a client waits in line once at most,    *)
(* and never with a slot.                                                  *)
TypeOK ==
  /\ signed \in [Clients -> {"new", "in", "out"}]
  /\ screen \in In \cup {Nobody}
  /\ bound \in [Clients -> {"none", "active", "background"}]
  /\ limited \in [Clients -> BOOLEAN] /\ resume \in [Clients -> BOOLEAN]
  /\ push \in Push
  /\ IsInjective(push.waiters) /\ ToSet(push.waiters) \cap push.holders = {}

(* No more than MaxStreams streams are open or being opened, and only by   *)
(* clients that hold a slot: whatever reconnects, rate limits, promotions  *)
(* and switches overlap, the tab keeps sockets for its requests.  And no    *)
(* slot is taken by a client that gave up: a signed-in holder has a stream, *)
(* an attempt, or a timer that will make one.                              *)
WithinBudget ==
  /\ Cardinality(push.holders) <= MaxStreams
  /\ \A c \in Clients : push.attempt[c] # "none" => c \in push.holders
  /\ \A c \in push.holders \cap In :
       push.attempt[c] \in {"connecting", "open"} \/ push.timer[c] \/ push.stray[c] > 0

(* While a client waits for a slot, none is free: every way of giving one  *)
(* up promotes.                                                            *)
NoSlotIdle == push.waiters # <<>> => Full(push)

(* A bound client always hears of changes, or will: by its stream or an    *)
(* attempt at it, a poll, a reconnect timer or the end of its rate limit.  *)
Hears(c) ==
  \/ push.attempt[c] \in {"connecting", "open"} \/ push.timer[c] \/ push.stray[c] > 0
  \/ push.poll[c] \/ push.slow[c] \/ resume[c]
NeverDeaf == \A c \in In : bound[c] # "none" => Hears(c)

(* Once signed out a client stays down: no stream, slot or timer of its    *)
(* own comes back, unless a forgotten timer was pending.                   *)
Down(c) == c \notin push.holders /\ push.attempt[c] = "none" /\ ~push.timer[c] /\ ~push.poll[c]
StaysDown ==
  [][\A c \in Clients :
       signed'[c] = "out" /\ (signed[c] = "in" \/ Down(c)) /\ push.stray[c] = 0
         => Down(c)']_vars

(* The same without the exception: what the code promises of a sign-out.   *)
SignedOutStaysDown ==
  [][\A c \in Clients : signed'[c] = "out" /\ (signed[c] = "in" \/ Down(c)) => Down(c)']_vars

(* The account on screen does not wait for a slot that a login in the      *)
(* background holds.                                                       *)
ScreenFirst ==
  Reconciled => \A c \in ToSet(push.waiters) : bound[c] # "active"
=============================================================================
