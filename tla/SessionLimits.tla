--------------------------- MODULE SessionLimits ---------------------------
(***************************************************************************)
(* The organisation's idle timeout and maximum session length, in the tabs *)
(* of one browser: the clock of each tab (lib/session-policy/              *)
(* session-timer.ts), the activity tabs tell each other                    *)
(* (activity-channel.ts), and the guard that ends the session               *)
(* (components/session/session-timeout-guard.tsx).                         *)
(*                                                                         *)
(* A message, a timer or a storage event reaches a tab when that tab's     *)
(* event loop gets to it: a background tab may be frozen and the laptop    *)
(* may sleep, so the clock ticks whatever is due.  Activity that the       *)
(* throttle drops is activity that does not happen here.                   *)
(***************************************************************************)
EXTENDS Integers

CONSTANTS
  Tabs,
  Composers,  \* the tabs in which a message is being written
  Policies,   \* the limits an administrator may set
  MaxTime,    \* bound: the clock
  None        \* nothing recorded in localStorage

(* 0 is "off"; `warn` is how long before a limit the warning shows.        *)
Limits == [idle : Nat, max : Nat, warn : Nat]
NoLimits == [idle |-> 0, max |-> 0, warn |-> 0]

ASSUME PoliciesAssumption == Policies \subseteq Limits
ASSUME TabsAssumption == Composers \subseteq Tabs /\ None \notin Nat /\ MaxTime \in Nat

VARIABLES
  tabs,     \* per tab: the guard and its clock
  wire,     \* per tab: activity times other tabs posted, not delivered yet
  stored,   \* LAST_ACTIVITY_KEY in localStorage
  told,     \* the tabs that a full sign-out in another tab was announced to
  policy,   \* the limits now in force
  session,  \* whether the browser is signed in, and since when
  now,
  lastUse,  \* history: the last use of the webmail that counted, in any tab
  unaware   \* history: the tabs whose clocks cannot know of the last use

vars == <<tabs, wire, stored, told, policy, session, now, lastUse, unaware>>

(* `page`: "loading" until the limits are known; "ending" while an expired *)
(* session saves its drafts, "leaving" while it signs out; "login" after,  *)
(* or "stuck" when the sign-out failed: only its dialog is left.           *)
(* `mount` is what its first clock starts from: the activity recorded when *)
(* the page loaded or, when there was none (`loadOnly`), the load itself.  *)
(* `last` is meaningful while there is a clock, `mount` before the first.  *)
Tab ==
  [page : {"closed", "loading", "ready", "ending", "leaving", "stuck", "login"},
   limits : Limits, clock : {"off", "running", "expired"}, last : Nat,
   mount : Nat, started : BOOLEAN, loadOnly : BOOLEAN,
   unsaved : BOOLEAN, said : BOOLEAN]

Blank(page) ==
  [page |-> page, limits |-> NoLimits, clock |-> "off", last |-> 0, mount |-> 0,
   started |-> FALSE, loadOnly |-> FALSE, unsaved |-> FALSE, said |-> FALSE]

Loaded ==
  [Blank("loading") EXCEPT !.mount = IF stored = None THEN now ELSE stored,
                           !.loadOnly = (stored = None)]

Init ==
  /\ stored = None
  /\ tabs = [t \in Tabs |-> Blank("closed")]
  /\ wire = [t \in Tabs |-> {}]
  /\ told = {}
  /\ policy \in Policies
  /\ session = [in |-> TRUE, since |-> 0]
  /\ now = 0
  /\ lastUse = 0
  /\ unaware = {}

Later(a, b) == IF a >= b THEN a ELSE b

-----------------------------------------------------------------------------
(* The clock.                                                              *)

Limited(limits) == limits.idle > 0 \/ limits.max > 0

(* target: which limit comes first for a tab `c`, and when.                *)
IdleFirst(c) ==
  c.limits.idle > 0 /\ (c.limits.max = 0 \/ c.last + c.limits.idle < session.since + c.limits.max)
Deadline(c) == IF IdleFirst(c) THEN c.last + c.limits.idle ELSE session.since + c.limits.max

Running(c) == c.page = "ready" /\ c.clock = "running"
Overdue(c) == now >= Deadline(c)
IdleWarning(c) == IdleFirst(c) /\ now >= Deadline(c) - c.limits.warn

(* endSession: the sign-out starts; of the page only its drafts matter.    *)
Ending(c) == [Blank("ending") EXCEPT !.unsaved = c.unsaved]
Expired(c) == [Ending(c) EXCEPT !.clock = "expired", !.limits = c.limits]

(* Mutant: the maximum length only warns.                                  *)
EvaluatedIdleOnly(c) == IF Running(c) /\ IdleFirst(c) /\ Overdue(c) THEN Expired(c) ELSE c

(* evaluate.                                                               *)
Evaluated(c) == IF Running(c) /\ Overdue(c) THEN Expired(c) ELSE c

(* Mutant: the activity counts before the clock is looked at.              *)
RecordedFirst(c, at) == Evaluated([c EXCEPT !.last = Later(@, at)])

(* record: a deadline that already passed ends the session first.          *)
Recorded(c, at) ==
  IF Overdue(c) THEN Expired(c) ELSE [c EXCEPT !.last = Later(@, at)]

(* The guard's effect when the limits of the signed-in accounts are known. *)
ClockStart(c) ==
  Later(IF ~ c.started THEN c.mount ELSE IF stored = None THEN now ELSE stored, session.since)

WithLimits(c, limits) ==
  LET known == [c EXCEPT !.page = "ready", !.limits = limits] IN
  IF ~ Limited(limits) THEN [known EXCEPT !.clock = "off", !.last = 0]
  ELSE IF c.clock = "running" THEN Evaluated(known)
  ELSE Evaluated([known EXCEPT !.clock = "running", !.last = ClockStart(c),
                               !.mount = 0, !.started = TRUE,
                               !.loadOnly = IF c.started THEN stored = None ELSE @])

-----------------------------------------------------------------------------
(* The tabs.                                                               *)

(* The login page, with what was left unsaved in this tab.                 *)
AtLogin(c) == [Blank("login") EXCEPT !.unsaved = c.unsaved, !.said = c.said]

(* A sign-out that failed leaves of the page what it would have left.       *)
Stuck(c) == [AtLogin(c) EXCEPT !.page = "stuck"]

Listening(t) == tabs[t].page \in {"loading", "ready"}

(* channel.post: localStorage, and a message to every other open tab.      *)
Post(t, at) ==
  /\ stored' = at
  /\ wire' = [u \in Tabs |-> IF u # t /\ Listening(u) THEN wire[u] \cup {at} ELSE wire[u]]

(* A use counts; `without` are the tabs whose clocks will not know of it.  *)
Used(at, without) ==
  /\ lastUse' = Later(lastUse, at)
  /\ unaware' = (IF at > lastUse THEN {} ELSE unaware) \cup without

(* Reading localStorage tells a tab of the last use, unless "Stay", pressed *)
(* after the deadline, posted the old time again.                           *)
ReadBy(t) == IF stored = lastUse THEN unaware \ {t} ELSE unaware \cup {t}

(* A page load, or a reload, while the browser is signed in.               *)
Open(t) ==
  /\ session.in
  /\ tabs' = [tabs EXCEPT ![t] = Loaded]
  /\ wire' = [wire EXCEPT ![t] = {}]
  /\ told' = told \ {t}
  /\ unaware' = ReadBy(t)
  /\ UNCHANGED <<stored, policy, session, now, lastUse>>

Close(t) ==
  /\ tabs[t].page \notin {"closed", "login"}
  /\ tabs' = [tabs EXCEPT ![t] = Blank("closed")]
  /\ wire' = [wire EXCEPT ![t] = {}]
  /\ told' = told \ {t}
  /\ unaware' = unaware \ {t}
  /\ UNCHANGED <<stored, policy, session, now, lastUse>>

(* collectLimits answers; the clock starts, goes on, or is taken away.     *)
LimitsKnown(t) ==
  /\ tabs[t].page = "loading" \/ (tabs[t].page = "ready" /\ tabs[t].limits # policy)
  /\ tabs' = [tabs EXCEPT ![t] = WithLimits(@, policy)]
  /\ unaware' = IF tabs[t].started /\ tabs[t].clock = "off" THEN ReadBy(t) ELSE unaware
  /\ UNCHANGED <<wire, stored, told, policy, session, now, lastUse>>

(* onActivity: input in a tab, which may be typing a message.              *)
Activity(t) ==
  LET c == tabs[t]
      typed == [c EXCEPT !.unsaved = @ \/ t \in Composers]
  IN
  /\ c.page = "ready"
  /\ ~ (Running(c) /\ ~ Overdue(c) /\ IdleWarning(c))
  /\ IF Running(c) /\ Overdue(c)
     THEN /\ tabs' = [tabs EXCEPT ![t] = Expired(typed)]
          /\ UNCHANGED <<wire, stored, lastUse, unaware>>
     ELSE /\ tabs' = [tabs EXCEPT ![t] = IF Running(c) THEN Recorded(typed, now) ELSE typed]
          /\ Post(t, now)
          /\ Used(now, IF c.started THEN {} ELSE {t})
  /\ UNCHANGED <<told, policy, session, now>>

(* "Stay signed in".  Mutant: the other tabs are not told.                 *)
StayAlone(t) ==
  LET c == tabs[t] IN
  /\ Running(c) /\ IdleWarning(c)
  /\ tabs' = [tabs EXCEPT ![t] = Recorded(c, now)]
  /\ Used(IF Overdue(c) THEN c.last ELSE now, {})
  /\ UNCHANGED <<wire, stored, told, policy, session, now>>

Stay(t) ==
  LET c == tabs[t] IN
  /\ Running(c) /\ IdleWarning(c)
  /\ tabs' = [tabs EXCEPT ![t] = Recorded(c, now)]
  /\ Post(t, IF Overdue(c) THEN c.last ELSE now)
  /\ Used(IF Overdue(c) THEN c.last ELSE now, {})
  /\ UNCHANGED <<told, policy, session, now>>

(* remoteActivity: what another tab posted arrives.                        *)
Deliver(t) ==
  \E at \in wire[t] :
    /\ wire' = [wire EXCEPT ![t] = @ \ {at}]
    /\ tabs' = [tabs EXCEPT ![t] = IF Running(@) THEN Recorded(@, at) ELSE @]
    /\ unaware' = IF Running(tabs[t]) \/ at < lastUse THEN unaware ELSE unaware \cup {t}
    /\ UNCHANGED <<stored, told, policy, session, now, lastUse>>

(* The timer, or `check` when the tab becomes visible.                     *)
TimerDue(t) ==
  /\ Running(tabs[t]) /\ Overdue(tabs[t])
  /\ tabs' = [tabs EXCEPT ![t] = Evaluated(@)]
  /\ UNCHANGED <<wire, stored, told, policy, session, now, lastUse, unaware>>

(* flushComposers: the drafts are saved, or the login page will say so.    *)
FlushDrafts(t) ==
  LET c == tabs[t] IN
  /\ c.page = "ending"
  /\ \E saved \in BOOLEAN :
       /\ saved => session.in
       /\ tabs' = [tabs EXCEPT ![t] =
            [Blank("leaving") EXCEPT !.unsaved = c.unsaved /\ ~ saved, !.said = c.unsaved /\ ~ saved]]
  /\ wire' = [wire EXCEPT ![t] = {}]
  /\ UNCHANGED <<stored, told, policy, session, now, lastUse, unaware>>

(* logoutAll: the cookies go, the other tabs are told, the page leaves.    *)
SignOut(t) ==
  /\ tabs[t].page = "leaving"
  /\ session' = [session EXCEPT !.in = FALSE]
  /\ tabs' = [tabs EXCEPT ![t] = AtLogin(@)]
  /\ told' = (told \cup {u \in Tabs : tabs[u].page \notin {"closed", "login"}}) \ {t}
  /\ UNCHANGED <<wire, stored, policy, now, lastUse, unaware>>

(* logoutAll rejects: a settings edit is pending and cannot be saved, and   *)
(* the cookies' DELETE, sent before it, fails on the same network.  The     *)
(* guard counts the session as ending from then on (endingRef).            *)
SignOutFails(t) ==
  /\ tabs[t].page = "leaving"
  /\ tabs' = [tabs EXCEPT ![t] = Stuck(@)]
  /\ UNCHANGED <<wire, stored, told, policy, session, now, lastUse, unaware>>

(* onSignedOutElsewhere.                                                   *)
LeaveForLogin(t) ==
  /\ t \in told
  /\ tabs' = [tabs EXCEPT ![t] = AtLogin(@)]
  /\ told' = told \ {t}
  /\ wire' = [wire EXCEPT ![t] = {}]
  /\ UNCHANGED <<stored, policy, session, now, lastUse, unaware>>

(* Bound: no session starts when no time is left.                          *)
SignIn(t) ==
  /\ ~ session.in /\ now < MaxTime
  /\ tabs[t].page \in {"login", "closed"}
  /\ session' = [in |-> TRUE, since |-> now]
  /\ tabs' = [tabs EXCEPT ![t] = Loaded]
  /\ wire' = [wire EXCEPT ![t] = {}]
  /\ Used(now, {})
  /\ UNCHANGED <<stored, told, policy, now>>

SetPolicy ==
  \E p \in Policies \ {policy} :
    policy' = p /\ UNCHANGED <<tabs, wire, stored, told, session, now, lastUse, unaware>>

Tick ==
  /\ now < MaxTime
  /\ now' = now + 1
  /\ UNCHANGED <<tabs, wire, stored, told, policy, session, lastUse, unaware>>

Next ==
  \/ \E t \in Tabs :
       \/ Open(t) \/ Close(t) \/ LimitsKnown(t)
       \/ Activity(t) \/ Stay(t) \/ Deliver(t) \/ TimerDue(t)
       \/ FlushDrafts(t) \/ SignOut(t) \/ SignOutFails(t)
       \/ LeaveForLogin(t) \/ SignIn(t)
  \/ SetPolicy
  \/ Tick

Spec == Init /\ [][Next]_vars

(* What a tab does by itself goes on: timers, answers, and the sign-out.   *)
Work(t) ==
  LimitsKnown(t) \/ TimerDue(t) \/ FlushDrafts(t) \/ SignOut(t) \/ SignOutFails(t)
Fairness(t) == WF_vars(Work(t))

-----------------------------------------------------------------------------
(* Properties.                                                             *)

TypeOK ==
  /\ tabs \in [Tabs -> Tab]
  /\ wire \in [Tabs -> SUBSET Nat]
  /\ stored \in Nat \cup {None}
  /\ told \subseteq Tabs
  /\ policy \in Policies
  /\ session \in [in : BOOLEAN, since : Nat]
  /\ {now, lastUse} \subseteq Nat
  /\ unaware \subseteq Tabs
  /\ \A t \in Tabs : Running(tabs[t]) => Limited(tabs[t].limits)

(* Once the idle time has run out since the last use of the webmail in any *)
(* tab, nothing brings the session back: not the input that wakes the      *)
(* laptop, not another tab's answer, not a reload ("activity that arrives  *)
(* after the deadline can't bring the session back").  The exception is a  *)
(* page for which nothing had been recorded: it counts from its load.      *)
RanOut ==
  \A t \in Tabs : tabs[t].page = "ready" =>
    /\ Limited(tabs[t].limits) /\ ~ tabs[t].loadOnly
    /\ \/ tabs[t].limits.idle > 0 /\ now >= lastUse + tabs[t].limits.idle
       \/ tabs[t].limits.max > 0 /\ now >= session.since + tabs[t].limits.max

NothingRevives == [][RanOut /\ session.since' = session.since => lastUse' = lastUse]_vars

(* A tab ends the session for idleness only if nobody used the webmail for *)
(* the idle time in any tab, or the use has not reached this tab yet, or   *)
(* it was before the page's first clock ran, which does not look back at   *)
(* it: limits turned on while a page is open count from its load.  A page  *)
(* that has not seen its session's sign-out yet counts by that session.    *)
IdleExpiry(t) ==
  /\ tabs'[t].clock = "expired" /\ tabs[t].clock # "expired"
  /\ LET c == tabs'[t] IN c.limits.max = 0 \/ now < session.since + c.limits.max

IdleMeansIdle ==
  [][\A t \in Tabs : IdleExpiry(t) =>
       \/ now >= lastUse + tabs'[t].limits.idle
       \/ lastUse \in wire[t]
       \/ t \in unaware'
       \/ t \in told]_vars

(* A deadline that passed ends the session of the whole browser, even if a *)
(* draft cannot be saved, unless the page is gone or the limits changed, or *)
(* the sign-out itself fails: then nothing tries it again.                 *)
DeadlineEnds(t) ==
  (Running(tabs[t]) /\ Overdue(tabs[t])) ~>
    \/ ~ session.in
    \/ tabs[t].page \in {"closed", "loading", "login"}
    \/ tabs[t].page = "stuck"
    \/ Running(tabs[t]) /\ ~ Overdue(tabs[t])
    \/ tabs[t].page = "ready" /\ tabs[t].clock = "off"

(* "the open and minimised composers save their drafts and every account   *)
(* signs out, with the reason on the login page": no draft is lost with    *)
(* nothing said about it.                                                  *)
DraftsSavedOrSaid ==
  \A t \in Tabs : tabs[t].page = "login" /\ tabs[t].unsaved => tabs[t].said
=============================================================================
