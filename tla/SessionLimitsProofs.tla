------------------------ MODULE SessionLimitsProofs ------------------------
(***************************************************************************)
(* Proofs about SessionLimits, for any set of tabs and any limits: its     *)
(* types, that nothing brings a session back whose idle time or maximum    *)
(* length has run out (NothingRevives), and that a tab ends the session    *)
(* for idleness only when nobody used the webmail, or it could not know    *)
(* (IdleMeansIdle).                                                        *)
(*                                                                         *)
(* Both rest on what a tab's clock knows of the last use.  It is never     *)
(* ahead of it (NotAhead), so the tab's deadline is never later than the   *)
(* one the last use gives; and when it is behind (Aware), the news is on   *)
(* its way to the tab, or the tab is one the code cannot tell.             *)
(***************************************************************************)
EXTENDS SessionLimits, TLAPS

-----------------------------------------------------------------------------
(* The inductive invariant, for one tab `c`.                               *)

Alive(c) == c.page \in {"loading", "ready"}

(* A clock runs just in the pages whose limits are known and are limits.   *)
ClockFits(c) ==
  /\ c.page = "ready" => c.clock = IF Limited(c.limits) THEN "running" ELSE "off"
  /\ c.clock = "running" => c.page = "ready" /\ c.started
  /\ c.page = "loading" => ~ c.started /\ c.clock = "off"

NotAhead(c, use) ==
  Alive(c) /\ ~ c.loadOnly =>
    /\ ~ c.started => c.mount <= use
    /\ c.clock = "running" => c.last <= use

(* A clock that counts from `at` has the last use, or will, or cannot.     *)
Knows(at, use, inbox, excused) == at >= use \/ use \in inbox \/ excused

Aware(c, since, use, inbox, excused) ==
  /\ Alive(c) /\ ~ c.started => Knows(Later(c.mount, since), use, inbox, excused)
  /\ c.clock = "running" => Knows(c.last, use, inbox, excused)

TabInv(t) ==
  /\ ClockFits(tabs[t])
  /\ NotAhead(tabs[t], lastUse)
  /\ Aware(tabs[t], session.since, lastUse, wire[t], t \in unaware \/ t \in told)
  /\ \A at \in wire[t] : at <= lastUse
  /\ ~ session.in /\ Alive(tabs[t]) => t \in told

(* No recorded use is later than the last, and the session is not either.  *)
Times ==
  /\ session.since <= lastUse
  /\ lastUse <= now
  /\ stored # None => stored <= lastUse

LimitsInv == TypeOK /\ Times /\ \A t \in Tabs : TabInv(t)

-----------------------------------------------------------------------------
(* What the operators of the clock return.                                 *)

(* Later is the greater of two times.                                      *)
LEMMA LaterMax ==
  ASSUME NEW a \in Nat, NEW b \in Nat
  PROVE  /\ Later(a, b) \in Nat
         /\ Later(a, b) >= a
         /\ Later(a, b) >= b
         /\ \A n \in Nat : a <= n /\ b <= n => Later(a, b) <= n
         /\ a <= b => Later(a, b) = b
         /\ b <= a => Later(a, b) = a
BY DEF Later

(* An empty tab, in each of its pages (the guard before it mounts).        *)
LEMMA BlankTab ==
  ASSUME NEW page \in {"closed", "loading", "ready", "ending", "leaving", "stuck", "login"}
  PROVE  /\ Blank(page) \in Tab
         /\ Blank(page).page = page
         /\ Blank(page).clock = "off"
         /\ ~ Blank(page).started
BY DEF Blank, Tab, NoLimits, Limits

(* What a page load leaves (useAuthStore and getLastActivity).             *)
LEMMA LoadedTab ==
  ASSUME TypeOK
  PROVE  /\ Loaded \in Tab
         /\ Loaded.page = "loading"
         /\ Loaded.clock = "off"
         /\ ~ Loaded.started
         /\ Loaded.loadOnly <=> stored = None
         /\ Loaded.mount = IF stored = None THEN now ELSE stored
BY DEF Loaded, Blank, Tab, NoLimits, Limits, TypeOK

(* A session that expired in a tab (endSession).                           *)
LEMMA ExpiredTab ==
  ASSUME NEW c \in Tab
  PROVE  /\ Expired(c) \in Tab
         /\ Expired(c).page = "ending"
         /\ Expired(c).clock = "expired"
         /\ Expired(c).limits = c.limits
BY DEF Expired, Ending, Blank, Tab, NoLimits, Limits

(* A tab at the login page, and one that is about to sign out.             *)
LEMMA LeftTab ==
  ASSUME NEW c \in Tab
  PROVE  /\ AtLogin(c) \in Tab
         /\ AtLogin(c).page = "login"
         /\ AtLogin(c).clock = "off"
BY DEF AtLogin, Blank, Tab, NoLimits, Limits

(* A tab whose sign-out failed.                                            *)
LEMMA StuckTab ==
  ASSUME NEW c \in Tab
  PROVE  /\ Stuck(c) \in Tab
         /\ Stuck(c).page = "stuck"
         /\ Stuck(c).clock = "off"
BY LeftTab DEF Stuck, Tab

(* A closed clock, whatever the page: nothing is asked of the tab.         *)
LEMMA GoneTab ==
  ASSUME NEW c, c.page \in {"closed", "ending", "leaving", "stuck", "login"},
         c.clock # "running", NEW since, NEW use, NEW inbox, NEW excused
  PROVE  /\ ClockFits(c)
         /\ NotAhead(c, use)
         /\ Aware(c, since, use, inbox, excused)
         /\ ~ Alive(c)
BY DEF ClockFits, NotAhead, Aware, Alive

(* Activity that reaches a clock (record): it moves it on, or ends it.     *)
LEMMA RecordedTab ==
  ASSUME NEW c \in Tab, NEW at \in Nat
  PROVE  /\ Recorded(c, at) \in Tab
         /\ \/ Overdue(c) /\ Recorded(c, at) = Expired(c)
            \/ /\ ~ Overdue(c)
               /\ Recorded(c, at) = [c EXCEPT !.last = Later(c.last, at)]
<1>1. c.last \in Nat
  BY DEF Tab
<1>2. Later(c.last, at) \in Nat
  BY <1>1, LaterMax
<1>3. [c EXCEPT !.last = Later(c.last, at)] \in Tab
  BY <1>2 DEF Tab
<1> QED BY <1>3, ExpiredTab DEF Recorded

(* A look at the clock (evaluate): it goes on, or ends.                    *)
LEMMA EvaluatedTab ==
  ASSUME NEW c \in Tab
  PROVE  /\ Evaluated(c) \in Tab
         /\ \/ Running(c) /\ Overdue(c) /\ Evaluated(c) = Expired(c)
            \/ Evaluated(c) = c
BY ExpiredTab DEF Evaluated

(* A tab whose limits were known keeps its clock (setPolicy).              *)
GoesOn(c, limits) == [c EXCEPT !.page = "ready", !.limits = limits]

(* A tab whose clock starts with its limits (createSessionTimer).          *)
Starts(c, limits) ==
  [c EXCEPT !.page = "ready", !.limits = limits, !.clock = "running",
            !.last = ClockStart(c), !.mount = 0, !.started = TRUE,
            !.loadOnly = IF c.started THEN stored = None ELSE c.loadOnly]

Stops(c, limits) == [c EXCEPT !.page = "ready", !.limits = limits, !.clock = "off", !.last = 0]

(* The fields of a tab whose limits became known, in the three cases.      *)
LEMMA LimitFields ==
  ASSUME NEW c \in Tab, NEW limits \in Limits
  PROVE  /\ LET g == GoesOn(c, limits) IN
              /\ g.page = "ready" /\ g.limits = limits /\ g.clock = c.clock /\ g.last = c.last
              /\ g.mount = c.mount /\ g.started = c.started /\ g.loadOnly = c.loadOnly
         /\ LET s == Starts(c, limits) IN
              /\ s.page = "ready" /\ s.limits = limits /\ s.clock = "running"
              /\ s.last = ClockStart(c) /\ s.started
              /\ s.loadOnly <=> IF c.started THEN stored = None ELSE c.loadOnly
         /\ LET p == Stops(c, limits) IN
              /\ p.page = "ready" /\ p.limits = limits /\ p.clock = "off"
              /\ p.mount = c.mount /\ p.started = c.started /\ p.loadOnly = c.loadOnly
<1>1. LET g == GoesOn(c, limits) IN
        /\ g.page = "ready" /\ g.limits = limits /\ g.clock = c.clock /\ g.last = c.last
        /\ g.mount = c.mount /\ g.started = c.started /\ g.loadOnly = c.loadOnly
  BY DEF GoesOn, Tab
<1>2. LET s == Starts(c, limits) IN
        /\ s.page = "ready" /\ s.limits = limits /\ s.clock = "running"
        /\ s.last = ClockStart(c) /\ s.started
        /\ s.loadOnly <=> IF c.started THEN stored = None ELSE c.loadOnly
  BY DEF Starts, Tab
<1>3. LET p == Stops(c, limits) IN
        /\ p.page = "ready" /\ p.limits = limits /\ p.clock = "off"
        /\ p.mount = c.mount /\ p.started = c.started /\ p.loadOnly = c.loadOnly
  BY DEF Stops, Tab
<1> QED BY <1>1, <1>2, <1>3

(* A clock starts from a time.                                             *)
LEMMA ClockStartType ==
  ASSUME TypeOK, NEW c \in Tab
  PROVE  ClockStart(c) \in Nat
<1> DEFINE from == IF ~ c.started THEN c.mount ELSE IF stored = None THEN now ELSE stored
<1>1. from \in Nat /\ session.since \in Nat
  BY DEF TypeOK, Tab
<1> QED BY <1>1, LaterMax DEF ClockStart

(* The limits that become known take the clock away, leave it, or start it *)
(* (the guard's effect).                                                   *)
LEMMA WithLimitsTab ==
  ASSUME TypeOK, NEW c \in Tab, NEW limits \in Limits
  PROVE  /\ WithLimits(c, limits) \in Tab
         /\ \/ ~ Limited(limits) /\ WithLimits(c, limits) = Stops(c, limits)
            \/ /\ Limited(limits) /\ c.clock = "running"
               /\ WithLimits(c, limits) = Evaluated(GoesOn(c, limits))
            \/ /\ Limited(limits) /\ c.clock # "running"
               /\ WithLimits(c, limits) = Evaluated(Starts(c, limits))
         /\ GoesOn(c, limits) \in Tab
         /\ Starts(c, limits) \in Tab
         /\ Stops(c, limits) \in Tab
<1>1. GoesOn(c, limits) \in Tab
  BY DEF GoesOn, Tab
<1>2. Stops(c, limits) \in Tab
  BY DEF Stops, Tab
<1>3. ClockStart(c) \in Nat
  BY ClockStartType
<1>4. Starts(c, limits) \in Tab
  BY <1>3 DEF Starts, Tab
<1>5. \/ ~ Limited(limits) /\ WithLimits(c, limits) = Stops(c, limits)
      \/ /\ Limited(limits) /\ c.clock = "running"
         /\ WithLimits(c, limits) = Evaluated(GoesOn(c, limits))
      \/ /\ Limited(limits) /\ c.clock # "running"
         /\ WithLimits(c, limits) = Evaluated(Starts(c, limits))
  <2>1. CASE ~ Limited(limits)
    BY <2>1 DEF WithLimits, Stops, Tab
  <2>2. CASE Limited(limits) /\ c.clock = "running"
    BY <2>2 DEF WithLimits, GoesOn
  <2>3. CASE Limited(limits) /\ c.clock # "running"
    BY <2>3 DEF WithLimits, Starts, Tab
  <2> QED BY <2>1, <2>2, <2>3
<1> QED BY <1>1, <1>2, <1>4, <1>5, EvaluatedTab
-----------------------------------------------------------------------------
(* The types.                                                              *)

(* What TypeOK says of the values that do not belong to a tab.             *)
LEMMA Shapes ==
  ASSUME TypeOK
  PROVE  /\ now \in Nat /\ lastUse \in Nat
         /\ session.since \in Nat /\ session.in \in BOOLEAN
         /\ stored \in Nat \cup {None}
         /\ policy \in Limits
         /\ \A t \in Tabs : tabs[t] \in Tab /\ wire[t] \subseteq Nat
BY PoliciesAssumption DEF TypeOK

(* A running clock has a limit to watch.                                   *)
Watches(c) == Running(c) => Limited(c.limits)

(* A page that is not ready has no clock to watch a limit with.            *)
LEMMA GoneWatches ==
  ASSUME NEW c, c.page # "ready" \/ c.clock # "running"
  PROVE  Watches(c)
BY DEF Watches, Running

(* One tab's new state keeps the types of all tabs.                        *)
LEMMA TabChanged ==
  ASSUME TypeOK, NEW t \in Tabs, NEW c \in Tab, Watches(c),
         tabs' = [tabs EXCEPT ![t] = c]
  PROVE  /\ tabs' \in [Tabs -> Tab]
         /\ \A u \in Tabs : Running(tabs'[u]) => Limited(tabs'[u].limits)
         /\ tabs'[t] = c
         /\ \A u \in Tabs \ {t} : tabs'[u] = tabs[u]
<1>1. /\ tabs' \in [Tabs -> Tab]
      /\ tabs'[t] = c
      /\ \A u \in Tabs \ {t} : tabs'[u] = tabs[u]
  BY DEF TypeOK
<1>2. \A u \in Tabs : Running(tabs'[u]) => Limited(tabs'[u].limits)
  BY <1>1 DEF TypeOK, Watches
<1> QED BY <1>1, <1>2

(* What a use changes: the last use, and who cannot know of it.            *)
LEMMA UsedChanges ==
  ASSUME TypeOK, NEW at \in Nat, NEW without \in SUBSET Tabs, Used(at, without)
  PROVE  /\ lastUse' = Later(lastUse, at)
         /\ lastUse' \in Nat
         /\ lastUse' >= lastUse /\ lastUse' >= at
         /\ at <= lastUse => lastUse' = lastUse
         /\ at > lastUse => lastUse' = at
         /\ without \subseteq unaware'
         /\ lastUse' = lastUse => unaware \subseteq unaware'
         /\ unaware' \subseteq Tabs
<1>1. lastUse \in Nat /\ unaware \subseteq Tabs
  BY DEF TypeOK
<1>2. lastUse' = Later(lastUse, at) /\ unaware' = (IF at > lastUse THEN {} ELSE unaware) \cup without
  BY DEF Used
<1> QED BY <1>1, <1>2, LaterMax

(* What a tab posts reaches storage and the tabs that listen.              *)
LEMMA PostChanges ==
  ASSUME TypeOK, NEW t \in Tabs, NEW at \in Nat, Post(t, at)
  PROVE  /\ stored' = at
         /\ wire' \in [Tabs -> SUBSET Nat]
         /\ wire'[t] = wire[t]
         /\ \A u \in Tabs : wire[u] \subseteq wire'[u] /\ wire'[u] \subseteq wire[u] \cup {at}
         /\ \A u \in Tabs \ {t} : Alive(tabs[u]) => at \in wire'[u]
BY DEF Post, TypeOK, Listening, Alive

(* `typed`, `clocked`: what input does to a tab (onActivity).              *)
Typed(t) == [tabs[t] EXCEPT !.unsaved = tabs[t].unsaved \/ t \in Composers]
LateInput(t) == Running(tabs[t]) /\ Overdue(tabs[t])

(* Typing leaves the clock of a tab alone.                                 *)
LEMMA TypedTab ==
  ASSUME TypeOK, NEW t \in Tabs
  PROVE  /\ Typed(t) \in Tab
         /\ Typed(t).page = tabs[t].page /\ Typed(t).limits = tabs[t].limits
         /\ Typed(t).clock = tabs[t].clock /\ Typed(t).last = tabs[t].last
         /\ Typed(t).mount = tabs[t].mount /\ Typed(t).started = tabs[t].started
         /\ Typed(t).loadOnly = tabs[t].loadOnly
         /\ Overdue(Typed(t)) <=> Overdue(tabs[t])
<1>1. /\ Typed(t) \in Tab
      /\ Typed(t).page = tabs[t].page /\ Typed(t).limits = tabs[t].limits
      /\ Typed(t).clock = tabs[t].clock /\ Typed(t).last = tabs[t].last
      /\ Typed(t).mount = tabs[t].mount /\ Typed(t).started = tabs[t].started
      /\ Typed(t).loadOnly = tabs[t].loadOnly
  BY Shapes DEF Typed, Tab
<1> QED BY <1>1 DEF Overdue, Deadline, IdleFirst

(* Input in a tab, by what it finds: a deadline that passed, a clock that  *)
(* runs, or none (onActivity, activity).                                   *)
LEMMA ActivitySteps ==
  ASSUME TypeOK, NEW t \in Tabs, Activity(t)
  PROVE  /\ tabs[t].page = "ready"
         /\ UNCHANGED <<told, policy, session, now>>
         /\ \/ /\ LateInput(t)
               /\ tabs' = [tabs EXCEPT ![t] = Expired(Typed(t))]
               /\ UNCHANGED <<wire, stored, lastUse, unaware>>
            \/ /\ Running(tabs[t]) /\ ~ Overdue(tabs[t])
               /\ tabs' = [tabs EXCEPT ![t] = [Typed(t) EXCEPT !.last = Later(tabs[t].last, now)]]
               /\ Post(t, now)
               /\ Used(now, IF tabs[t].started THEN {} ELSE {t})
            \/ /\ ~ Running(tabs[t])
               /\ tabs' = [tabs EXCEPT ![t] = Typed(t)]
               /\ Post(t, now)
               /\ Used(now, IF tabs[t].started THEN {} ELSE {t})
<1>1. CASE LateInput(t)
  BY <1>1 DEF Activity, LateInput, Typed
<1>2. CASE Running(tabs[t]) /\ ~ LateInput(t)
  <2>1. /\ tabs' = [tabs EXCEPT ![t] = Recorded(Typed(t), now)]
        /\ Post(t, now) /\ Used(now, IF tabs[t].started THEN {} ELSE {t})
    BY <1>2 DEF Activity, LateInput, Typed
  <2>2. Recorded(Typed(t), now) = [Typed(t) EXCEPT !.last = Later(tabs[t].last, now)]
    BY <1>2, TypedTab, RecordedTab, Shapes DEF LateInput
  <2> QED BY <1>2, <2>1, <2>2 DEF Activity, LateInput
<1>3. CASE ~ Running(tabs[t])
  BY <1>3 DEF Activity, Typed
<1> QED BY <1>1, <1>2, <1>3 DEF LateInput

(* The limits that become known are those in force (collectLimits).        *)
LEMMA LimitsKnownStep ==
  ASSUME TypeOK, NEW t \in Tabs, LimitsKnown(t)
  PROVE  /\ tabs[t].page \in {"loading", "ready"}
         /\ tabs' = [tabs EXCEPT ![t] = WithLimits(tabs[t], policy)]
         /\ unaware' = IF tabs[t].started /\ tabs[t].clock = "off" THEN ReadBy(t) ELSE unaware
         /\ UNCHANGED <<wire, stored, told, policy, session, now, lastUse>>
BY DEF LimitsKnown

(* A clock that is left running watches limits.                            *)
LEMMA WithLimitsWatches ==
  ASSUME TypeOK, NEW c \in Tab, NEW limits \in Limits
  PROVE  Watches(WithLimits(c, limits))
<1>1. \A d \in Tab : d.limits = limits /\ Limited(limits) => Watches(Evaluated(d))
  BY EvaluatedTab, ExpiredTab DEF Watches, Running
<1>2. /\ GoesOn(c, limits) \in Tab /\ GoesOn(c, limits).limits = limits
      /\ Starts(c, limits) \in Tab /\ Starts(c, limits).limits = limits
      /\ Stops(c, limits).clock = "off"
  BY WithLimitsTab, LimitFields
<1> QED BY <1>1, <1>2, WithLimitsTab, GoneWatches

(* Activity in a running tab leaves its limits alone.                      *)
LEMMA RecordedWatches ==
  ASSUME NEW c \in Tab, NEW at \in Nat, Running(c) => Limited(c.limits)
  PROVE  Watches(Recorded(c, at))
<1>1. c.last \in Nat /\ Later(c.last, at) \in Nat
  BY LaterMax DEF Tab
<1>2. /\ [c EXCEPT !.last = Later(c.last, at)].page = c.page
      /\ [c EXCEPT !.last = Later(c.last, at)].clock = c.clock
      /\ [c EXCEPT !.last = Later(c.last, at)].limits = c.limits
  BY DEF Tab
<1> QED BY <1>2, RecordedTab, ExpiredTab DEF Watches, Running

(* Every step keeps the types.                                             *)
LEMMA TypeStep ==
  ASSUME TypeOK, [Next]_vars
  PROVE  TypeOK'
<1> USE Shapes
<1>1. ASSUME NEW t \in Tabs, Open(t) PROVE TypeOK'
  <2>1. /\ tabs' = [tabs EXCEPT ![t] = Loaded]
        /\ wire' \in [Tabs -> SUBSET Nat] /\ told' \subseteq Tabs /\ unaware' \subseteq Tabs
        /\ UNCHANGED <<stored, policy, session, now, lastUse>>
    BY <1>1 DEF Open, ReadBy, TypeOK
  <2> QED BY <2>1, TabChanged, LoadedTab, GoneWatches DEF TypeOK
<1>2. ASSUME NEW t \in Tabs, Close(t) PROVE TypeOK'
  <2>1. /\ tabs' = [tabs EXCEPT ![t] = Blank("closed")]
        /\ wire' \in [Tabs -> SUBSET Nat] /\ told' \subseteq Tabs /\ unaware' \subseteq Tabs
        /\ UNCHANGED <<stored, policy, session, now, lastUse>>
    BY <1>2 DEF Close, TypeOK
  <2> QED BY <2>1, TabChanged, BlankTab, GoneWatches DEF TypeOK
<1>3. ASSUME NEW t \in Tabs, LimitsKnown(t) PROVE TypeOK'
  <2>1. unaware' \subseteq Tabs
    BY <1>3, LimitsKnownStep DEF ReadBy, TypeOK
  <2> QED BY <1>3, <2>1, LimitsKnownStep, WithLimitsTab, WithLimitsWatches, TabChanged DEF TypeOK
<1>4. ASSUME NEW t \in Tabs, Activity(t) PROVE TypeOK'
  <2> DEFINE without == IF tabs[t].started THEN {} ELSE {t}
  <2>0. UNCHANGED <<told, policy, session, now>>
    BY <1>4, ActivitySteps
  <2>5. without \in SUBSET Tabs
    OBVIOUS
  <2>6. Post(t, now) /\ Used(now, without) =>
          /\ wire' \in [Tabs -> SUBSET Nat] /\ stored' \in Nat
          /\ lastUse' \in Nat /\ unaware' \subseteq Tabs
    <3> HIDE DEF without
    <3> QED BY <2>5, PostChanges, UsedChanges
  <2>1. CASE /\ tabs' = [tabs EXCEPT ![t] = Expired(Typed(t))]
             /\ UNCHANGED <<wire, stored, lastUse, unaware>>
    <3>1. Expired(Typed(t)) \in Tab /\ Watches(Expired(Typed(t)))
      BY TypedTab, ExpiredTab, GoneWatches
    <3> QED BY <2>0, <2>1, <3>1, TabChanged DEF TypeOK
  <2>2. CASE /\ Running(tabs[t])
             /\ tabs' = [tabs EXCEPT ![t] = [Typed(t) EXCEPT !.last = Later(tabs[t].last, now)]]
             /\ Post(t, now) /\ Used(now, without)
    <3>1. tabs[t].last \in Nat /\ Later(tabs[t].last, now) \in Nat
      BY LaterMax DEF Tab
    <3> DEFINE c == [Typed(t) EXCEPT !.last = Later(tabs[t].last, now)]
    <3>2. c \in Tab /\ c.limits = Typed(t).limits
      BY <3>1, TypedTab DEF Tab
    <3>3. Watches(c)
      BY <2>2, <3>2, TypedTab DEF Watches, TypeOK
    <3> HIDE DEF c
    <3>4. tabs' = [tabs EXCEPT ![t] = c]
      BY <2>2 DEF c
    <3> QED BY <2>0, <2>2, <2>6, <3>2, <3>3, <3>4, TabChanged DEF TypeOK
  <2>3. CASE /\ ~ Running(tabs[t])
             /\ tabs' = [tabs EXCEPT ![t] = Typed(t)]
             /\ Post(t, now) /\ Used(now, without)
    <3>1. Watches(Typed(t))
      BY <2>3, TypedTab DEF Watches, Running
    <3> QED BY <2>0, <2>3, <2>6, <3>1, TypedTab, TabChanged DEF TypeOK
  <2> QED BY <1>4, <2>1, <2>2, <2>3, ActivitySteps
<1>5. ASSUME NEW t \in Tabs, Stay(t) PROVE TypeOK'
  <2> DEFINE at == IF Overdue(tabs[t]) THEN tabs[t].last ELSE now
  <2>1. at \in Nat
    BY DEF Tab
  <2>2. Watches(Recorded(tabs[t], now)) /\ Recorded(tabs[t], now) \in Tab
    BY RecordedWatches, RecordedTab DEF TypeOK
  <2>3. /\ tabs' = [tabs EXCEPT ![t] = Recorded(tabs[t], now)]
        /\ Post(t, at) /\ Used(at, {})
        /\ UNCHANGED <<told, policy, session, now>>
    BY <1>5 DEF Stay
  <2> HIDE DEF at
  <2>4. /\ wire' \in [Tabs -> SUBSET Nat] /\ stored' \in Nat
        /\ lastUse' \in Nat /\ unaware' \subseteq Tabs
    BY <2>1, <2>3, PostChanges, UsedChanges
  <2> QED BY <2>2, <2>3, <2>4, TabChanged DEF TypeOK
<1>6. ASSUME NEW t \in Tabs, Deliver(t) PROVE TypeOK'
  <2>1. PICK at \in wire[t] :
          /\ wire' = [wire EXCEPT ![t] = wire[t] \ {at}]
          /\ tabs' = [tabs EXCEPT ![t] = IF Running(tabs[t]) THEN Recorded(tabs[t], at) ELSE tabs[t]]
          /\ unaware' = IF Running(tabs[t]) \/ at < lastUse THEN unaware ELSE unaware \cup {t}
          /\ UNCHANGED <<stored, told, policy, session, now, lastUse>>
    BY <1>6 DEF Deliver
  <2>2. at \in Nat
    OBVIOUS
  <2>3. Watches(Recorded(tabs[t], at)) /\ Recorded(tabs[t], at) \in Tab
    BY <2>2, RecordedWatches, RecordedTab DEF TypeOK
  <2>4. Watches(tabs[t])
    BY DEF TypeOK, Watches
  <2>5. wire' \in [Tabs -> SUBSET Nat] /\ unaware' \subseteq Tabs
    BY <2>1 DEF TypeOK
  <2> QED BY <2>1, <2>3, <2>4, <2>5, TabChanged DEF TypeOK
<1>7. ASSUME NEW t \in Tabs, TimerDue(t) PROVE TypeOK'
  <2>1. Watches(Evaluated(tabs[t])) /\ Evaluated(tabs[t]) \in Tab
    BY EvaluatedTab, ExpiredTab DEF TypeOK, Watches, Running
  <2> QED BY <1>7, <2>1, TabChanged DEF TimerDue, TypeOK
<1>8. ASSUME NEW t \in Tabs, FlushDrafts(t) PROVE TypeOK'
  <2>1. PICK saved \in BOOLEAN :
          tabs' = [tabs EXCEPT ![t] = [Blank("leaving") EXCEPT
                     !.unsaved = tabs[t].unsaved /\ ~ saved, !.said = tabs[t].unsaved /\ ~ saved]]
    BY <1>8 DEF FlushDrafts
  <2> DEFINE c == [Blank("leaving") EXCEPT
                     !.unsaved = tabs[t].unsaved /\ ~ saved, !.said = tabs[t].unsaved /\ ~ saved]
  <2>2. c \in Tab /\ c.page = "leaving"
    BY BlankTab DEF Tab
  <2> HIDE DEF c
  <2>3. tabs' = [tabs EXCEPT ![t] = c]
    BY <2>1 DEF c
  <2>4. wire' \in [Tabs -> SUBSET Nat]
    BY <1>8 DEF FlushDrafts, TypeOK
  <2> QED BY <1>8, <2>2, <2>3, <2>4, TabChanged, GoneWatches DEF FlushDrafts, TypeOK
<1>9. ASSUME NEW t \in Tabs, SignOut(t) PROVE TypeOK'
  <2>1. session' \in [in : BOOLEAN, since : Nat] /\ told' \subseteq Tabs
    BY <1>9 DEF SignOut, TypeOK
  <2>2. tabs' = [tabs EXCEPT ![t] = AtLogin(tabs[t])]
    BY <1>9 DEF SignOut
  <2> QED BY <1>9, <2>1, <2>2, TabChanged, LeftTab, GoneWatches DEF SignOut, TypeOK
<1>10. ASSUME NEW t \in Tabs, LeaveForLogin(t) PROVE TypeOK'
  <2>1. /\ tabs' = [tabs EXCEPT ![t] = AtLogin(tabs[t])]
        /\ wire' \in [Tabs -> SUBSET Nat] /\ told' \subseteq Tabs
    BY <1>10 DEF LeaveForLogin, TypeOK
  <2> QED BY <1>10, <2>1, TabChanged, LeftTab, GoneWatches DEF LeaveForLogin, TypeOK
<1>11. ASSUME NEW t \in Tabs, SignIn(t) PROVE TypeOK'
  <2>1. /\ tabs' = [tabs EXCEPT ![t] = Loaded]
        /\ wire' \in [Tabs -> SUBSET Nat] /\ session' \in [in : BOOLEAN, since : Nat]
        /\ Used(now, {}) /\ UNCHANGED <<stored, told, policy, now>>
    BY <1>11 DEF SignIn, TypeOK
  <2> QED BY <2>1, TabChanged, LoadedTab, GoneWatches, UsedChanges DEF TypeOK
<1>12. CASE SetPolicy
  BY <1>12 DEF SetPolicy, TypeOK
<1>13. CASE Tick
  BY <1>13 DEF Tick, TypeOK
<1>14. CASE UNCHANGED vars
  BY <1>14 DEF vars, TypeOK
<1>15. ASSUME NEW t \in Tabs, SignOutFails(t) PROVE TypeOK'
  <2>1. tabs' = [tabs EXCEPT ![t] = Stuck(tabs[t])]
    BY <1>15 DEF SignOutFails
  <2> QED BY <1>15, <2>1, TabChanged, StuckTab, GoneWatches DEF SignOutFails, TypeOK
<1> QED
  BY <1>1, <1>2, <1>3, <1>4, <1>5, <1>6, <1>7, <1>8, <1>9, <1>10, <1>11, <1>12, <1>13, <1>14,
     <1>15
  DEF Next

-----------------------------------------------------------------------------
(* The invariant.                                                          *)

(* At the start no page is open.                                           *)
LEMMA InitInv ==
  ASSUME Init
  PROVE  LimitsInv
<1>1. TypeOK
  BY PoliciesAssumption, BlankTab DEF Init, TypeOK, Running
<1>2. Times
  BY DEF Init, Times
<1>3. ASSUME NEW t \in Tabs PROVE TabInv(t)
  BY BlankTab, GoneTab DEF Init, TabInv
<1> QED BY <1>1, <1>2, <1>3 DEF LimitsInv

(* A tab that a step leaves alone: the news of a use is in its inbox.      *)
LEMMA Untouched ==
  ASSUME LimitsInv, TypeOK', NEW u \in Tabs,
         tabs'[u] = tabs[u], session'.since = session.since, lastUse' >= lastUse,
         \A at \in wire'[u] : at <= lastUse',
         Alive(tabs[u]) =>
           \/ lastUse' \in wire'[u]
           \/ /\ lastUse' = lastUse /\ wire[u] \subseteq wire'[u]
              /\ u \in unaware \/ u \in told => u \in unaware' \/ u \in told',
         ~ session'.in /\ Alive(tabs[u]) => u \in told'
  PROVE  TabInv(u)'
<1> DEFINE c == tabs[u]
<1>1. /\ TypeOK /\ c \in Tab /\ c.last \in Nat /\ c.mount \in Nat
      /\ lastUse \in Nat /\ lastUse' \in Nat
  BY Shapes DEF LimitsInv, TypeOK, Tab
<1>2. /\ ClockFits(c) /\ NotAhead(c, lastUse)
      /\ Aware(c, session.since, lastUse, wire[u], u \in unaware \/ u \in told)
  BY DEF LimitsInv, TabInv
<1> HIDE DEF c
<1>3. NotAhead(c, lastUse')
  BY <1>1, <1>2 DEF NotAhead
<1>4. Alive(c) \/ c.clock # "running"
  BY <1>2 DEF ClockFits, Alive
<1>5. Aware(c, session.since, lastUse', wire'[u], u \in unaware' \/ u \in told')
  BY <1>2, <1>4 DEF Aware, Knows, c
<1> QED BY <1>2, <1>3, <1>5 DEF TabInv, c

(* A tab that leaves the webmail.                                          *)
LEMMA Gone ==
  ASSUME NEW t \in Tabs, tabs'[t].page \in {"closed", "ending", "leaving", "stuck", "login"},
         tabs'[t].clock # "running", \A at \in wire'[t] : at <= lastUse'
  PROVE  TabInv(t)'
<1> DEFINE c == tabs'[t]
<1>1. /\ ClockFits(c) /\ NotAhead(c, lastUse') /\ ~ Alive(c)
      /\ Aware(c, session'.since, lastUse', wire'[t], t \in unaware' \/ t \in told')
  BY GoneTab
<1> QED BY <1>1 DEF TabInv

(* A page load reads the last use from storage, or cannot know of it.      *)
LEMMA OpenInv ==
  ASSUME LimitsInv, TypeOK', NEW t \in Tabs, Open(t)
  PROVE  LimitsInv'
<1>1. TypeOK /\ Times /\ \A u \in Tabs : TabInv(u)
  BY DEF LimitsInv
<1>2. /\ session.in /\ tabs'[t] = Loaded /\ wire'[t] = {}
      /\ unaware' = ReadBy(t)
      /\ UNCHANGED <<stored, policy, session, now, lastUse>>
      /\ \A u \in Tabs \ {t} :
           tabs'[u] = tabs[u] /\ wire'[u] = wire[u] /\ (u \in told' <=> u \in told)
  BY <1>1 DEF Open, TypeOK
<1>3. ASSUME NEW u \in Tabs \ {t} PROVE TabInv(u)'
  BY <1>1, <1>2, Untouched, Shapes DEF ReadBy, TabInv
<1> DEFINE c == Loaded
<1>4. /\ c.page = "loading" /\ c.clock = "off" /\ ~ c.started
      /\ c.loadOnly <=> stored = None
      /\ c.mount = IF stored = None THEN now ELSE stored
  BY <1>1, LoadedTab
<1>5. /\ lastUse \in Nat /\ now \in Nat /\ session.since \in Nat
      /\ stored \in Nat \cup {None} /\ lastUse # None
  BY <1>1, Shapes, TabsAssumption
<1> HIDE DEF c
<1>6. ClockFits(c) /\ NotAhead(c, lastUse)
  BY <1>1, <1>4 DEF ClockFits, NotAhead, Times
<1>7. c.mount = lastUse \/ t \in unaware'
  BY <1>2, <1>4, <1>5 DEF ReadBy
<1>8. Later(c.mount, session.since) >= c.mount
  BY <1>4, <1>5, LaterMax
<1>9. Aware(c, session.since, lastUse, {}, t \in unaware' \/ t \in told')
  BY <1>4, <1>7, <1>8 DEF Aware, Knows
<1>10. TabInv(t)'
  BY <1>2, <1>6, <1>9 DEF TabInv, c
<1> QED BY <1>1, <1>2, <1>3, <1>10 DEF LimitsInv, Times

(* Where the clock of a tab starts: not ahead of the last use, and with    *)
(* the last use unless the tab cannot know of it.                          *)
LEMMA StartKnows ==
  ASSUME LimitsInv, NEW t \in Tabs, LimitsKnown(t), tabs[t].clock # "running"
  PROVE  /\ Knows(ClockStart(tabs[t]), lastUse, wire[t], t \in unaware' \/ t \in told)
         /\ ~ tabs[t].started /\ ~ tabs[t].loadOnly => ClockStart(tabs[t]) <= lastUse
         /\ tabs[t].started /\ stored # None => ClockStart(tabs[t]) <= lastUse
<1> DEFINE c == tabs[t]
<1>1. /\ TypeOK /\ Times /\ ClockFits(c) /\ NotAhead(c, lastUse)
      /\ Aware(c, session.since, lastUse, wire[t], t \in unaware \/ t \in told)
  BY DEF LimitsInv, TabInv
<1>2. /\ Alive(c)
      /\ unaware' = IF c.started /\ c.clock = "off" THEN ReadBy(t) ELSE unaware
  BY <1>1, LimitsKnownStep DEF Alive
<1>3. /\ c \in Tab /\ c.mount \in Nat /\ lastUse \in Nat /\ now \in Nat
      /\ session.since \in Nat /\ stored \in Nat \cup {None} /\ lastUse # None
  BY <1>1, Shapes, TabsAssumption DEF Tab
<1>4. c.clock = "off"
  BY <1>1, <1>2 DEF ClockFits, Alive
<1> HIDE DEF c
<1>5. CASE c.started
  <2> DEFINE from == IF stored = None THEN now ELSE stored
  <2>1. ClockStart(c) = Later(from, session.since) /\ from \in Nat
    BY <1>3, <1>5 DEF ClockStart
  <2>2. stored # None => from <= lastUse /\ session.since <= lastUse
    BY <1>1 DEF Times
  <2>3. from = lastUse \/ t \in unaware'
    BY <1>2, <1>3, <1>4, <1>5 DEF ReadBy
  <2> HIDE DEF from
  <2>4. ClockStart(c) >= from /\ stored # None => ClockStart(c) <= lastUse
    BY <1>3, <2>1, <2>2, LaterMax
  <2>5. ClockStart(c) >= from
    BY <1>3, <2>1, LaterMax
  <2> QED BY <1>5, <2>3, <2>4, <2>5 DEF Knows, c
<1>6. CASE ~ c.started
  <2>1. ClockStart(c) = Later(c.mount, session.since)
    BY <1>6 DEF ClockStart
  <2>2. Knows(ClockStart(c), lastUse, wire[t], t \in unaware' \/ t \in told)
    BY <1>1, <1>2, <1>6, <2>1 DEF Aware
  <2>3. ~ c.loadOnly => ClockStart(c) <= lastUse
    BY <1>1, <1>2, <1>3, <1>6, <2>1, LaterMax DEF NotAhead, Times
  <2> QED BY <1>6, <2>2, <2>3 DEF c
<1> QED BY <1>5, <1>6

(* Limits that become known keep the invariant.                            *)
LEMMA LimitsKnownInv ==
  ASSUME LimitsInv, TypeOK', NEW t \in Tabs, LimitsKnown(t)
  PROVE  LimitsInv'
<1> DEFINE c == tabs[t]
           d == tabs'[t]
<1>1. TypeOK /\ Times /\ \A u \in Tabs : TabInv(u)
  BY DEF LimitsInv
<1>2. /\ d = WithLimits(c, policy) /\ Alive(c)
      /\ unaware' = IF c.started /\ c.clock = "off" THEN ReadBy(t) ELSE unaware
      /\ UNCHANGED <<wire, stored, told, policy, session, now, lastUse>>
      /\ \A u \in Tabs \ {t} : tabs'[u] = tabs[u]
  BY <1>1, LimitsKnownStep DEF TypeOK, Alive
<1>3. ASSUME NEW u \in Tabs \ {t} PROVE TabInv(u)'
  BY <1>1, <1>2, Untouched, Shapes DEF ReadBy, TabInv
<1>4. /\ ClockFits(c) /\ NotAhead(c, lastUse) /\ (\A at \in wire[t] : at <= lastUse)
      /\ Aware(c, session.since, lastUse, wire[t], t \in unaware \/ t \in told)
      /\ ~ session.in => t \in told
  BY <1>1, <1>2 DEF TabInv
<1>5. c \in Tab /\ policy \in Limits
  BY <1>1, Shapes
<1> SUFFICES TabInv(t)'
  BY <1>1, <1>2, <1>3 DEF LimitsInv, Times
<1>6. CASE d.page = "ending" /\ d.clock = "expired"
  BY <1>2, <1>4, <1>6, Gone
<1>7. ASSUME ClockFits(d), NotAhead(d, lastUse), d.page = "ready",
             Aware(d, session.since, lastUse, wire[t], t \in unaware' \/ t \in told)
      PROVE  TabInv(t)'
  BY <1>2, <1>4, <1>7 DEF TabInv
<1>8. CASE ~ Limited(policy) /\ d = Stops(c, policy)
  <2>1. /\ d.page = "ready" /\ d.limits = policy /\ d.clock = "off"
        /\ d.mount = c.mount /\ d.started = c.started /\ d.loadOnly = c.loadOnly
    BY <1>5, <1>8, LimitFields
  <2> HIDE DEF c, d
  <2>2. ClockFits(d) /\ NotAhead(d, lastUse)
    BY <1>2, <1>4, <1>8, <2>1 DEF ClockFits, NotAhead
  <2>3. Aware(d, session.since, lastUse, wire[t], t \in unaware' \/ t \in told)
    BY <1>2, <1>4, <2>1 DEF Aware
  <2> QED BY <1>7, <2>1, <2>2, <2>3
<1>9. CASE Limited(policy) /\ c.clock = "running" /\ d = Evaluated(GoesOn(c, policy))
  <2>1. CASE d = Expired(GoesOn(c, policy))
    BY <1>1, <1>5, <1>6, <2>1, WithLimitsTab, ExpiredTab
  <2>2. CASE d = GoesOn(c, policy)
    <3>1. /\ d.page = "ready" /\ d.limits = policy /\ d.clock = "running" /\ d.last = c.last
          /\ d.mount = c.mount /\ d.started = c.started /\ d.loadOnly = c.loadOnly
      BY <1>5, <1>9, <2>2, LimitFields
    <3> HIDE DEF c, d
    <3>2. ClockFits(d) /\ NotAhead(d, lastUse)
      BY <1>2, <1>4, <1>9, <3>1 DEF ClockFits, NotAhead
    <3>3. Aware(d, session.since, lastUse, wire[t], t \in unaware' \/ t \in told)
      BY <1>2, <1>4, <1>9, <3>1 DEF Aware, ClockFits
    <3> QED BY <1>7, <3>1, <3>2, <3>3
  <2> QED BY <1>1, <1>5, <1>9, <2>1, <2>2, WithLimitsTab, EvaluatedTab
<1>10. CASE Limited(policy) /\ c.clock # "running" /\ d = Evaluated(Starts(c, policy))
  <2>1. CASE d = Expired(Starts(c, policy))
    BY <1>1, <1>5, <1>6, <2>1, WithLimitsTab, ExpiredTab
  <2>2. CASE d = Starts(c, policy)
    <3>1. /\ d.page = "ready" /\ d.limits = policy /\ d.clock = "running"
          /\ d.last = ClockStart(c) /\ d.started
          /\ d.loadOnly <=> IF c.started THEN stored = None ELSE c.loadOnly
      BY <1>5, <2>2, LimitFields
    <3>2. /\ Knows(ClockStart(c), lastUse, wire[t], t \in unaware' \/ t \in told)
          /\ ~ c.started /\ ~ c.loadOnly => ClockStart(c) <= lastUse
          /\ c.started /\ stored # None => ClockStart(c) <= lastUse
      BY <1>10, StartKnows
    <3> HIDE DEF c, d
    <3>3. ClockFits(d) /\ NotAhead(d, lastUse)
      BY <1>10, <3>1, <3>2 DEF ClockFits, NotAhead
    <3>4. Aware(d, session.since, lastUse, wire[t], t \in unaware' \/ t \in told)
      BY <3>1, <3>2 DEF Aware
    <3> QED BY <1>7, <3>1, <3>3, <3>4
  <2> QED BY <1>1, <1>5, <1>10, <2>1, <2>2, WithLimitsTab, EvaluatedTab
<1> QED BY <1>1, <1>2, <1>5, <1>8, <1>9, <1>10, WithLimitsTab

(* A use that a tab posts: the others have the news, or it is no news.     *)
LEMMA UsePosted ==
  ASSUME LimitsInv, TypeOK', NEW t \in Tabs, NEW at \in Nat, NEW without \in SUBSET Tabs,
         Post(t, at), Used(at, without), at <= now,
         UNCHANGED <<told, session, now>>,
         \A u \in Tabs \ {t} : tabs'[u] = tabs[u]
  PROVE  /\ Times'
         /\ \A u \in Tabs \ {t} : TabInv(u)'
         /\ wire'[t] = wire[t] /\ \A x \in wire'[t] : x <= lastUse'
<1>1. /\ TypeOK /\ Times /\ \A u \in Tabs : TabInv(u)
  BY DEF LimitsInv
<1>2. /\ lastUse \in Nat /\ lastUse' \in Nat /\ now \in Nat /\ session.since \in Nat
      /\ \A u \in Tabs : wire[u] \subseteq Nat
  BY <1>1, Shapes, UsedChanges
<1>3. /\ lastUse' >= lastUse /\ lastUse' >= at
      /\ lastUse' = lastUse \/ lastUse' = at
      /\ lastUse' = lastUse => unaware \subseteq unaware'
  BY <1>1, <1>2, UsedChanges
<1>4. /\ stored' = at /\ wire'[t] = wire[t]
      /\ \A u \in Tabs : wire[u] \subseteq wire'[u] /\ wire'[u] \subseteq wire[u] \cup {at}
      /\ \A u \in Tabs \ {t} : Alive(tabs[u]) => at \in wire'[u]
  BY <1>1, PostChanges
<1>5. Times'
  BY <1>1, <1>2, <1>3, <1>4 DEF Times
<1>6. \A u \in Tabs : \A x \in wire'[u] : x <= lastUse'
  <2>1. ASSUME NEW u \in Tabs, NEW x \in wire[u] PROVE x <= lastUse'
    <3>1. x \in Nat /\ x <= lastUse
      BY <1>1, <1>2, <2>1 DEF TabInv
    <3> QED BY <1>2, <1>3, <3>1
  <2> QED BY <1>3, <1>4, <2>1
<1>7. ASSUME NEW u \in Tabs \ {t} PROVE TabInv(u)'
  <2>1. /\ u \in Tabs /\ tabs'[u] = tabs[u] /\ session'.since = session.since
        /\ \A x \in wire'[u] : x <= lastUse'
    BY <1>6
  <2>2. Alive(tabs[u]) =>
          \/ lastUse' \in wire'[u]
          \/ /\ lastUse' = lastUse /\ wire[u] \subseteq wire'[u]
             /\ u \in unaware \/ u \in told => u \in unaware' \/ u \in told'
    BY <1>3, <1>4
  <2>3. ~ session'.in /\ Alive(tabs[u]) => u \in told'
    BY <1>1 DEF TabInv
  <2> QED BY <1>3, <2>1, <2>2, <2>3, Untouched
<1> QED BY <1>4, <1>5, <1>6, <1>7

(* A clock that a use of now moves on is neither ahead nor behind.         *)
LEMMA ClockMoved ==
  ASSUME LimitsInv, TypeOK', NEW t \in Tabs, NEW d, Running(tabs[t]),
         d \in Tab, tabs'[t] = d, d.page = tabs[t].page, d.limits = tabs[t].limits,
         d.clock = tabs[t].clock, d.started = tabs[t].started, d.loadOnly = tabs[t].loadOnly,
         d.last = Later(tabs[t].last, now), lastUse' = now,
         UNCHANGED <<told, session, now>>, \A x \in wire'[t] : x <= lastUse'
  PROVE  TabInv(t)'
<1> DEFINE c == tabs[t]
<1>1. /\ TypeOK /\ Times /\ ClockFits(c) /\ NotAhead(c, lastUse)
      /\ ~ session.in /\ Alive(c) => t \in told
  BY DEF LimitsInv, TabInv
<1>2. /\ c.last \in Nat /\ now \in Nat /\ lastUse \in Nat
  BY <1>1, Shapes DEF Tab
<1> HIDE DEF c
<1>3. c.last <= now => d.last = now
  BY <1>2, LaterMax DEF c
<1>4. d.last >= now
  BY <1>2, LaterMax DEF c
<1>5. c.page = "ready" /\ c.clock = "running" /\ c.started
  BY <1>1 DEF Running, ClockFits, c
<1>6. ClockFits(d)
  BY <1>1 DEF ClockFits, c
<1>7. NotAhead(d, lastUse')
  BY <1>1, <1>2, <1>3, <1>5 DEF NotAhead, Times, Alive, c
<1>8. Aware(d, session'.since, lastUse', wire'[t], t \in unaware' \/ t \in told')
  BY <1>4, <1>5 DEF Aware, Knows, c
<1> QED BY <1>1, <1>6, <1>7, <1>8 DEF TabInv, Alive, c

(* Input keeps the invariant.                                              *)
LEMMA ActivityInv ==
  ASSUME LimitsInv, TypeOK', NEW t \in Tabs, Activity(t)
  PROVE  LimitsInv'
<1> DEFINE c == tabs[t]
           without == IF c.started THEN {} ELSE {t}
<1>1. /\ TypeOK /\ Times /\ \A u \in Tabs : TabInv(u)
  BY DEF LimitsInv
<1>2. /\ now \in Nat /\ lastUse \in Nat /\ lastUse <= now /\ c \in Tab
      /\ c.last \in Nat /\ c.mount \in Nat
      /\ wire[t] \subseteq Nat /\ session.since \in Nat /\ without \in SUBSET Tabs
  BY <1>1, Shapes DEF Times, Tab
<1>3. c.page = "ready" /\ UNCHANGED <<told, policy, session, now>>
  BY <1>1, ActivitySteps
<1>4. /\ ClockFits(c) /\ NotAhead(c, lastUse) /\ (\A x \in wire[t] : x <= lastUse)
      /\ ~ session.in => t \in told
  BY <1>1, <1>3 DEF TabInv, Alive
<1>5. /\ Typed(t) \in Tab
      /\ Typed(t).page = c.page /\ Typed(t).limits = c.limits
      /\ Typed(t).clock = c.clock /\ Typed(t).last = c.last
      /\ Typed(t).mount = c.mount /\ Typed(t).started = c.started
      /\ Typed(t).loadOnly = c.loadOnly
  BY <1>1, TypedTab
<1>6. CASE /\ tabs' = [tabs EXCEPT ![t] = Expired(Typed(t))]
           /\ UNCHANGED <<wire, stored, lastUse, unaware>>
  <2>1. tabs'[t] = Expired(Typed(t)) /\ \A u \in Tabs \ {t} : tabs'[u] = tabs[u]
    BY <1>1, <1>6 DEF TypeOK
  <2>2. TabInv(t)'
    BY <1>4, <1>5, <1>6, <2>1, ExpiredTab, Gone
  <2>3. ASSUME NEW u \in Tabs \ {t} PROVE TabInv(u)'
    BY <1>1, <1>2, <1>3, <1>6, <2>1, <2>3, Untouched DEF TabInv
  <2> QED BY <1>1, <1>3, <1>6, <2>2, <2>3 DEF LimitsInv, Times
<1>7. ASSUME NEW d \in Tab, tabs' = [tabs EXCEPT ![t] = d], Post(t, now), Used(now, without),
             TabInv(t)'
      PROVE  LimitsInv'
  <2>1. \A u \in Tabs \ {t} : tabs'[u] = tabs[u]
    BY <1>1, <1>7 DEF TypeOK
  <2> HIDE DEF without
  <2>2. Times' /\ \A u \in Tabs \ {t} : TabInv(u)'
    BY <1>2, <1>3, <1>7, <2>1, UsePosted
  <2> QED BY <1>7, <2>2 DEF LimitsInv
<1>8. Post(t, now) /\ Used(now, without) =>
        /\ wire'[t] = wire[t] /\ lastUse' = now /\ without \subseteq unaware'
        /\ \A x \in wire'[t] : x <= lastUse'
  <2> HIDE DEF without
  <2> SUFFICES ASSUME Post(t, now), Used(now, without)
               PROVE  /\ wire'[t] = wire[t] /\ lastUse' = now /\ without \subseteq unaware'
                      /\ \A x \in wire'[t] : x <= lastUse'
    OBVIOUS
  <2>1. wire'[t] = wire[t]
    BY <1>1, <1>2, PostChanges
  <2>2. lastUse' = Later(lastUse, now) /\ without \subseteq unaware'
    BY <1>1, <1>2, UsedChanges
  <2>3. lastUse' = now
    BY <1>2, <2>2, LaterMax
  <2>4. \A x \in wire[t] : x \in Nat /\ x <= lastUse
    BY <1>2, <1>4
  <2> QED BY <1>2, <2>1, <2>2, <2>3, <2>4
<1>9. CASE /\ Running(c)
           /\ tabs' = [tabs EXCEPT ![t] = [Typed(t) EXCEPT !.last = Later(c.last, now)]]
           /\ Post(t, now) /\ Used(now, without)
  <2> DEFINE d == [Typed(t) EXCEPT !.last = Later(c.last, now)]
  <2>1. Later(c.last, now) \in Nat
    BY <1>2, LaterMax
  <2>2. /\ d \in Tab /\ d.page = c.page /\ d.limits = c.limits /\ d.clock = c.clock
        /\ d.started = c.started /\ d.loadOnly = c.loadOnly /\ d.last = Later(c.last, now)
    BY <1>5, <2>1 DEF Tab
  <2>3. tabs' = [tabs EXCEPT ![t] = d]
    BY <1>9
  <2> HIDE DEF d, without
  <2>4. tabs'[t] = d
    BY <1>1, <2>3 DEF TypeOK
  <2>5. lastUse' = now /\ \A x \in wire'[t] : x <= lastUse'
    BY <1>8, <1>9
  <2>6. TabInv(t)'
    BY <1>3, <1>9, <2>2, <2>4, <2>5, ClockMoved
  <2> QED BY <1>7, <1>9, <2>2, <2>3, <2>6
<1>10. CASE /\ ~ Running(c) /\ tabs' = [tabs EXCEPT ![t] = Typed(t)]
            /\ Post(t, now) /\ Used(now, without)
  <2>1. tabs'[t] = Typed(t)
    BY <1>1, <1>10 DEF TypeOK
  <2>2. c.clock = "off"
    BY <1>3, <1>4, <1>10 DEF ClockFits, Running
  <2>3. ~ c.started => t \in unaware'
    BY <1>8, <1>10
  <2> DEFINE d == Typed(t)
  <2>4. /\ d.page = c.page /\ d.limits = c.limits /\ d.clock = c.clock
        /\ d.mount = c.mount /\ d.started = c.started /\ d.loadOnly = c.loadOnly
    BY <1>5
  <2>5. lastUse' = now /\ \A x \in wire'[t] : x <= lastUse'
    BY <1>8, <1>10
  <2> HIDE DEF d, c
  <2>6. ClockFits(d)
    BY <1>4, <2>4 DEF ClockFits
  <2>7. NotAhead(d, lastUse')
    BY <1>2, <1>4, <2>2, <2>4, <2>5 DEF NotAhead, Alive
  <2>8. Aware(d, session'.since, lastUse', wire'[t], t \in unaware' \/ t \in told')
    BY <2>2, <2>3, <2>4 DEF Aware, Knows
  <2>9. TabInv(t)'
    BY <1>3, <1>4, <2>1, <2>5, <2>6, <2>7, <2>8 DEF TabInv, d
  <2> QED BY <1>5, <1>7, <1>10, <2>9
<1> QED BY <1>1, <1>6, <1>9, <1>10, ActivitySteps

(* "Stay signed in" ends a session whose deadline passed, or is a use.     *)
LEMMA StaySteps ==
  ASSUME LimitsInv, NEW t \in Tabs, Stay(t)
  PROVE  /\ Running(tabs[t]) /\ UNCHANGED <<told, policy, session, now>>
         /\ \/ /\ Overdue(tabs[t]) /\ tabs[t].last <= now
               /\ tabs' = [tabs EXCEPT ![t] = Expired(tabs[t])]
               /\ Post(t, tabs[t].last) /\ Used(tabs[t].last, {})
            \/ /\ ~ Overdue(tabs[t])
               /\ tabs' = [tabs EXCEPT ![t] = [tabs[t] EXCEPT !.last = Later(tabs[t].last, now)]]
               /\ Post(t, now) /\ Used(now, {})
<1>1. /\ tabs[t] \in Tab /\ tabs[t].last \in Nat /\ now \in Nat
      /\ tabs[t].limits.idle \in Nat
  BY Shapes DEF LimitsInv, Tab, Limits
<1>2. /\ Running(tabs[t]) /\ IdleFirst(tabs[t]) /\ UNCHANGED <<told, policy, session, now>>
      /\ tabs' = [tabs EXCEPT ![t] = Recorded(tabs[t], now)]
      /\ Post(t, IF Overdue(tabs[t]) THEN tabs[t].last ELSE now)
      /\ Used(IF Overdue(tabs[t]) THEN tabs[t].last ELSE now, {})
  BY DEF Stay, IdleWarning
<1>3. Overdue(tabs[t]) => tabs[t].last <= now
  BY <1>1, <1>2 DEF Overdue, Deadline
<1>4. CASE Overdue(tabs[t])
  BY <1>1, <1>2, <1>3, <1>4, RecordedTab
<1>5. CASE ~ Overdue(tabs[t])
  BY <1>1, <1>2, <1>5, RecordedTab
<1> QED BY <1>4, <1>5

(* "Stay signed in" keeps the invariant.                                   *)
LEMMA StayInv ==
  ASSUME LimitsInv, TypeOK', NEW t \in Tabs, Stay(t)
  PROVE  LimitsInv'
<1> DEFINE c == tabs[t]
<1>1. /\ TypeOK /\ Times /\ \A u \in Tabs : TabInv(u)
  BY DEF LimitsInv
<1>2. /\ now \in Nat /\ lastUse \in Nat /\ lastUse <= now /\ c \in Tab /\ c.last \in Nat
  BY <1>1, Shapes DEF Times, Tab
<1>3. Running(c) /\ UNCHANGED <<told, policy, session, now>>
  BY StaySteps
<1>4. ASSUME NEW at \in Nat, at <= now, Post(t, at), Used(at, {}), NEW d,
             tabs' = [tabs EXCEPT ![t] = d]
      PROVE  /\ Times' /\ tabs'[t] = d
             /\ \A u \in Tabs \ {t} : TabInv(u)'
             /\ \A x \in wire'[t] : x <= lastUse'
  <2>1. tabs'[t] = d /\ \A u \in Tabs \ {t} : tabs'[u] = tabs[u]
    BY <1>1, <1>4 DEF TypeOK
  <2>2. {} \in SUBSET Tabs
    OBVIOUS
  <2> QED BY <1>3, <1>4, <2>1, <2>2, UsePosted
<1>5. CASE /\ c.last <= now /\ tabs' = [tabs EXCEPT ![t] = Expired(c)]
           /\ Post(t, c.last) /\ Used(c.last, {})
  <2>1. /\ Times' /\ tabs'[t] = Expired(c)
        /\ \A u \in Tabs \ {t} : TabInv(u)'
        /\ \A x \in wire'[t] : x <= lastUse'
    BY <1>2, <1>4, <1>5
  <2>2. TabInv(t)'
    BY <1>2, <2>1, ExpiredTab, Gone
  <2> QED BY <2>1, <2>2 DEF LimitsInv
<1>6. CASE /\ tabs' = [tabs EXCEPT ![t] = [c EXCEPT !.last = Later(c.last, now)]]
           /\ Post(t, now) /\ Used(now, {})
  <2> DEFINE d == [c EXCEPT !.last = Later(c.last, now)]
  <2>1. Later(c.last, now) \in Nat
    BY <1>2, LaterMax
  <2>2. /\ d \in Tab /\ d.page = c.page /\ d.limits = c.limits /\ d.clock = c.clock
        /\ d.started = c.started /\ d.loadOnly = c.loadOnly /\ d.last = Later(c.last, now)
    BY <1>2, <2>1 DEF Tab
  <2>3. tabs' = [tabs EXCEPT ![t] = d]
    BY <1>6
  <2> HIDE DEF d
  <2>7. now <= now /\ Post(t, now) /\ Used(now, {})
    BY <1>2, <1>6
  <2>4. /\ Times' /\ tabs'[t] = d
        /\ \A u \in Tabs \ {t} : TabInv(u)'
        /\ \A x \in wire'[t] : x <= lastUse'
    BY <1>2, <1>4, <2>3, <2>7
  <2>5. lastUse' = now
    BY <1>1, <1>2, <2>7, UsedChanges
  <2>6. TabInv(t)'
    BY <1>3, <2>2, <2>4, <2>5, ClockMoved
  <2> QED BY <2>4, <2>6 DEF LimitsInv
<1> QED BY <1>5, <1>6, StaySteps

(* The times another tab posted reach a clock one by one.                  *)
LEMMA DeliverSteps ==
  ASSUME LimitsInv, NEW t \in Tabs, Deliver(t)
  PROVE  \E at \in wire[t] :
           /\ at \in Nat /\ wire'[t] = wire[t] \ {at}
           /\ \A u \in Tabs \ {t} : wire'[u] = wire[u] /\ tabs'[u] = tabs[u]
           /\ unaware \subseteq unaware'
           /\ ~ Running(tabs[t]) /\ at = lastUse => t \in unaware'
           /\ UNCHANGED <<stored, told, policy, session, now, lastUse>>
           /\ \/ Running(tabs[t]) /\ Overdue(tabs[t]) /\ tabs'[t] = Expired(tabs[t])
              \/ /\ Running(tabs[t])
                 /\ tabs'[t] = [tabs[t] EXCEPT !.last = Later(tabs[t].last, at)]
              \/ ~ Running(tabs[t]) /\ tabs'[t] = tabs[t]
<1>1. /\ TypeOK /\ tabs[t] \in Tab /\ wire[t] \subseteq Nat /\ lastUse \in Nat
  BY Shapes DEF LimitsInv
<1>2. PICK at \in wire[t] :
        /\ wire' = [wire EXCEPT ![t] = wire[t] \ {at}]
        /\ tabs' = [tabs EXCEPT ![t] = IF Running(tabs[t]) THEN Recorded(tabs[t], at) ELSE tabs[t]]
        /\ unaware' = IF Running(tabs[t]) \/ at < lastUse THEN unaware ELSE unaware \cup {t}
        /\ UNCHANGED <<stored, told, policy, session, now, lastUse>>
  BY DEF Deliver
<1>3. /\ at \in Nat /\ wire'[t] = wire[t] \ {at}
      /\ \A u \in Tabs \ {t} : wire'[u] = wire[u] /\ tabs'[u] = tabs[u]
      /\ tabs'[t] = IF Running(tabs[t]) THEN Recorded(tabs[t], at) ELSE tabs[t]
  BY <1>1, <1>2 DEF TypeOK
<1>4. unaware \subseteq unaware' /\ (~ Running(tabs[t]) /\ at = lastUse => t \in unaware')
  BY <1>1, <1>2
<1>5. \/ Running(tabs[t]) /\ Overdue(tabs[t]) /\ tabs'[t] = Expired(tabs[t])
      \/ Running(tabs[t]) /\ tabs'[t] = [tabs[t] EXCEPT !.last = Later(tabs[t].last, at)]
      \/ ~ Running(tabs[t]) /\ tabs'[t] = tabs[t]
  <2>1. CASE Running(tabs[t]) /\ Overdue(tabs[t])
    BY <1>1, <1>3, <2>1, RecordedTab
  <2>2. CASE Running(tabs[t]) /\ ~ Overdue(tabs[t])
    BY <1>1, <1>3, <2>2, RecordedTab
  <2>3. CASE ~ Running(tabs[t])
    BY <1>3, <2>3
  <2> QED BY <2>1, <2>2, <2>3
<1> QED BY <1>2, <1>3, <1>4, <1>5

(* A delivered activity is no longer in the inbox: the clock has it.       *)
LEMMA DeliverInv ==
  ASSUME LimitsInv, TypeOK', NEW t \in Tabs, Deliver(t)
  PROVE  LimitsInv'
<1> DEFINE c == tabs[t]
           d == tabs'[t]
<1>1. /\ TypeOK /\ Times /\ \A u \in Tabs : TabInv(u)
  BY DEF LimitsInv
<1>2. PICK at \in wire[t] :
        /\ at \in Nat /\ wire'[t] = wire[t] \ {at}
        /\ \A u \in Tabs \ {t} : wire'[u] = wire[u] /\ tabs'[u] = tabs[u]
        /\ unaware \subseteq unaware'
        /\ ~ Running(c) /\ at = lastUse => t \in unaware'
        /\ UNCHANGED <<stored, told, policy, session, now, lastUse>>
        /\ \/ Running(c) /\ Overdue(c) /\ d = Expired(c)
           \/ Running(c) /\ d = [c EXCEPT !.last = Later(c.last, at)]
           \/ ~ Running(c) /\ d = c
  BY DeliverSteps
<1>3. ASSUME NEW u \in Tabs \ {t} PROVE TabInv(u)'
  BY <1>1, <1>2, Untouched, Shapes DEF TabInv
<1> SUFFICES TabInv(t)'
  BY <1>1, <1>2, <1>3 DEF LimitsInv, Times
<1>4. /\ c \in Tab /\ c.last \in Nat /\ lastUse \in Nat /\ wire[t] \subseteq Nat
      /\ ClockFits(c) /\ NotAhead(c, lastUse) /\ (\A x \in wire[t] : x <= lastUse)
      /\ Aware(c, session.since, lastUse, wire[t], t \in unaware \/ t \in told)
      /\ ~ session.in /\ Alive(c) => t \in told
  BY <1>1, Shapes DEF TabInv, Tab
<1>5. CASE d = Expired(c)
  BY <1>2, <1>4, <1>5, ExpiredTab, Gone
<1>6. CASE Running(c) /\ d = [c EXCEPT !.last = Later(c.last, at)]
  <2>1. Later(c.last, at) \in Nat /\ Later(c.last, at) >= c.last /\ Later(c.last, at) >= at
    BY <1>2, <1>4, LaterMax
  <2>2. c.last <= lastUse => Later(c.last, at) <= lastUse
    BY <1>2, <1>4, LaterMax
  <2>3. /\ d.page = c.page /\ d.limits = c.limits /\ d.clock = c.clock
        /\ d.started = c.started /\ d.loadOnly = c.loadOnly /\ d.last = Later(c.last, at)
    BY <1>4, <1>6, <2>1 DEF Tab
  <2>4. c.page = "ready" /\ c.clock = "running" /\ c.started
    BY <1>4, <1>6 DEF Running, ClockFits
  <2> HIDE DEF c, d
  <2>5. ClockFits(d)
    BY <1>4, <2>3 DEF ClockFits
  <2>6. NotAhead(d, lastUse)
    BY <1>4, <2>2, <2>3, <2>4 DEF NotAhead, Alive
  <2>7. Knows(c.last, lastUse, wire[t], t \in unaware \/ t \in told)
    BY <1>4, <2>4 DEF Aware
  <2>8. Knows(d.last, lastUse, wire'[t], t \in unaware' \/ t \in told')
    BY <1>2, <1>4, <2>1, <2>3, <2>7 DEF Knows
  <2>9. Aware(d, session.since, lastUse, wire'[t], t \in unaware' \/ t \in told')
    BY <2>3, <2>4, <2>8 DEF Aware
  <2> QED BY <1>2, <1>4, <2>3, <2>5, <2>6, <2>9 DEF TabInv, Alive, c, d
<1>7. CASE ~ Running(c) /\ d = c
  <2>1. c.clock # "running"
    BY <1>4, <1>7 DEF Running, ClockFits
  <2>2. Aware(c, session.since, lastUse, wire'[t], t \in unaware' \/ t \in told')
    BY <1>2, <1>4, <1>7, <2>1 DEF Aware, Knows
  <2> QED BY <1>2, <1>4, <1>7, <2>2 DEF TabInv
<1> QED BY <1>2, <1>5, <1>6, <1>7

(* A sign-in is a use; the pages of the session before have been told.     *)
LEMMA SignInInv ==
  ASSUME LimitsInv, TypeOK', NEW t \in Tabs, SignIn(t)
  PROVE  LimitsInv'
<1>1. /\ TypeOK /\ Times /\ \A u \in Tabs : TabInv(u)
  BY DEF LimitsInv
<1>2. /\ now \in Nat /\ lastUse \in Nat /\ lastUse <= now /\ session.since \in Nat
      /\ stored \in Nat \cup {None}
  BY <1>1, Shapes DEF Times
<1>3. /\ ~ session.in /\ session'.in /\ session'.since = now
      /\ tabs'[t] = Loaded /\ wire'[t] = {} /\ Used(now, {})
      /\ UNCHANGED <<stored, told, policy, now>>
      /\ \A u \in Tabs \ {t} : tabs'[u] = tabs[u] /\ wire'[u] = wire[u]
  BY <1>1 DEF SignIn, TypeOK
<1>4. lastUse' = now
  BY <1>1, <1>2, <1>3, UsedChanges
<1>5. Times'
  BY <1>1, <1>2, <1>3, <1>4 DEF Times
<1>6. ASSUME NEW u \in Tabs \ {t} PROVE TabInv(u)'
  <2> DEFINE c == tabs[u]
  <2>1. /\ ClockFits(c) /\ NotAhead(c, lastUse) /\ (\A x \in wire[u] : x <= lastUse)
        /\ Alive(c) => u \in told
    BY <1>1, <1>3 DEF TabInv
  <2>2. c \in Tab /\ c.last \in Nat /\ c.mount \in Nat /\ wire[u] \subseteq Nat
    BY <1>1, Shapes DEF Tab
  <2>3. tabs'[u] = c /\ wire'[u] = wire[u]
    BY <1>3
  <2>4. \A x \in wire[u] : x <= now
    <3>1. \A x \in wire[u] : x \in Nat /\ x <= lastUse
      BY <2>1, <2>2
    <3> QED BY <1>2, <3>1
  <2> HIDE DEF c
  <2>5. NotAhead(c, now)
    BY <1>2, <2>1, <2>2 DEF NotAhead
  <2>6. Aware(c, session'.since, now, wire'[u], u \in unaware' \/ u \in told')
    BY <1>3, <2>1 DEF Aware, Knows, ClockFits, Alive
  <2> QED BY <1>3, <1>4, <2>1, <2>3, <2>4, <2>5, <2>6 DEF TabInv
<1>7. TabInv(t)'
  <2> DEFINE c == Loaded
  <2>1. /\ c.page = "loading" /\ c.clock = "off" /\ ~ c.started
        /\ c.loadOnly <=> stored = None
        /\ c.mount = IF stored = None THEN now ELSE stored
    BY <1>1, LoadedTab
  <2> HIDE DEF c
  <2>2. ClockFits(c) /\ NotAhead(c, now)
    BY <1>1, <1>2, <2>1 DEF ClockFits, NotAhead, Times
  <2>3. c.mount \in Nat
    BY <1>2, <2>1
  <2>4. Later(c.mount, now) >= now
    BY <1>2, <2>3, LaterMax
  <2>5. Aware(c, now, now, {}, t \in unaware' \/ t \in told')
    BY <2>1, <2>4 DEF Aware, Knows
  <2> QED BY <1>3, <1>4, <2>2, <2>5 DEF TabInv, c
<1> QED BY <1>5, <1>6, <1>7 DEF LimitsInv

(* A step in which nobody uses the webmail and only one tab changes, and   *)
(* that tab leaves it.                                                     *)
LEMMA LeavingInv ==
  ASSUME LimitsInv, TypeOK', NEW t \in Tabs, NEW d,
         tabs' = [tabs EXCEPT ![t] = d],
         d.page \in {"closed", "ending", "leaving", "stuck", "login"}, d.clock # "running",
         \A u \in Tabs \ {t} :
           /\ wire'[u] = wire[u]
           /\ u \in unaware => u \in unaware'
           /\ u \in told => u \in told'
           /\ ~ session'.in /\ Alive(tabs[u]) => u \in told \/ u \in told',
         wire'[t] \subseteq wire[t], session'.since = session.since,
         UNCHANGED <<stored, now, lastUse>>
  PROVE  LimitsInv'
<1>1. /\ TypeOK /\ Times /\ \A u \in Tabs : TabInv(u)
  BY DEF LimitsInv
<1>2. tabs'[t] = d /\ \A u \in Tabs \ {t} : tabs'[u] = tabs[u]
  BY <1>1 DEF TypeOK
<1>3. \A u \in Tabs : \A x \in wire[u] : x <= lastUse
  BY <1>1 DEF TabInv
<1>4. TabInv(t)'
  BY <1>2, <1>3, Gone
<1>5. ASSUME NEW u \in Tabs \ {t} PROVE TabInv(u)'
  BY <1>1, <1>2, <1>3, <1>5, Untouched, Shapes
<1> QED BY <1>1, <1>4, <1>5 DEF LimitsInv, Times

(* Every step keeps the invariant.                                         *)
LEMMA InvStep ==
  ASSUME LimitsInv, [Next]_vars
  PROVE  LimitsInv'
<1>1. TypeOK /\ Times /\ (\A u \in Tabs : TabInv(u)) /\ TypeOK'
  BY TypeStep DEF LimitsInv
<1>2. \A u \in Tabs : ~ session.in /\ Alive(tabs[u]) => u \in told
  BY <1>1 DEF TabInv
<1>3. ASSUME NEW t \in Tabs, Open(t) PROVE LimitsInv'
  BY <1>1, <1>3, OpenInv
<1>4. ASSUME NEW t \in Tabs, Close(t) PROVE LimitsInv'
  <2> DEFINE d == Blank("closed")
  <2>1. d.page = "closed" /\ d.clock = "off"
    BY BlankTab
  <2>2. /\ tabs' = [tabs EXCEPT ![t] = d]
        /\ \A u \in Tabs \ {t} : /\ wire'[u] = wire[u] /\ (u \in unaware => u \in unaware')
                                 /\ u \in told => u \in told'
        /\ wire'[t] \subseteq wire[t]
        /\ UNCHANGED <<stored, session, now, lastUse>>
    BY <1>1, <1>4 DEF Close, TypeOK
  <2> HIDE DEF d
  <2> QED BY <1>1, <1>2, <2>1, <2>2, LeavingInv
<1>5. ASSUME NEW t \in Tabs, LimitsKnown(t) PROVE LimitsInv'
  BY <1>1, <1>5, LimitsKnownInv
<1>6. ASSUME NEW t \in Tabs, Activity(t) PROVE LimitsInv'
  BY <1>1, <1>6, ActivityInv
<1>7. ASSUME NEW t \in Tabs, Stay(t) PROVE LimitsInv'
  BY <1>1, <1>7, StayInv
<1>8. ASSUME NEW t \in Tabs, Deliver(t) PROVE LimitsInv'
  BY <1>1, <1>8, DeliverInv
<1>9. ASSUME NEW t \in Tabs, TimerDue(t) PROVE LimitsInv'
  <2> DEFINE d == Expired(tabs[t])
  <2>1. d.page = "ending" /\ d.clock = "expired"
    BY <1>1, Shapes, ExpiredTab
  <2>2. /\ tabs' = [tabs EXCEPT ![t] = d]
        /\ UNCHANGED <<wire, stored, told, session, now, lastUse, unaware>>
    BY <1>9 DEF TimerDue, Evaluated
  <2> HIDE DEF d
  <2> QED BY <1>1, <1>2, <2>1, <2>2, LeavingInv
<1>10. ASSUME NEW t \in Tabs, FlushDrafts(t) PROVE LimitsInv'
  <2>1. PICK saved \in BOOLEAN :
          tabs' = [tabs EXCEPT ![t] = [Blank("leaving") EXCEPT
                     !.unsaved = tabs[t].unsaved /\ ~ saved, !.said = tabs[t].unsaved /\ ~ saved]]
    BY <1>10 DEF FlushDrafts
  <2> DEFINE d == [Blank("leaving") EXCEPT
                     !.unsaved = tabs[t].unsaved /\ ~ saved, !.said = tabs[t].unsaved /\ ~ saved]
  <2>2. d.page = "leaving" /\ d.clock = "off"
    BY BlankTab DEF Tab
  <2>3. tabs' = [tabs EXCEPT ![t] = d]
    BY <2>1
  <2>4. /\ \A u \in Tabs \ {t} : wire'[u] = wire[u]
        /\ wire'[t] \subseteq wire[t]
        /\ UNCHANGED <<stored, told, session, now, lastUse, unaware>>
    BY <1>1, <1>10 DEF FlushDrafts, TypeOK
  <2> HIDE DEF d
  <2> QED BY <1>1, <1>2, <2>2, <2>3, <2>4, LeavingInv
<1>11. ASSUME NEW t \in Tabs, SignOut(t) PROVE LimitsInv'
  <2> DEFINE d == AtLogin(tabs[t])
  <2>1. d.page = "login" /\ d.clock = "off"
    BY <1>1, Shapes, LeftTab
  <2>2. /\ tabs' = [tabs EXCEPT ![t] = d]
        /\ told' = (told \cup {u \in Tabs : tabs[u].page \notin {"closed", "login"}}) \ {t}
        /\ session'.since = session.since
        /\ UNCHANGED <<wire, stored, now, lastUse, unaware>>
    BY <1>1, <1>11 DEF SignOut, TypeOK
  <2>3. \A u \in Tabs \ {t} : (u \in told => u \in told') /\ (Alive(tabs[u]) => u \in told')
    BY <2>2 DEF Alive
  <2> HIDE DEF d
  <2> QED BY <1>1, <2>1, <2>2, <2>3, LeavingInv
<1>17. ASSUME NEW t \in Tabs, SignOutFails(t) PROVE LimitsInv'
  <2>1. Stuck(tabs[t]).page = "stuck" /\ Stuck(tabs[t]).clock = "off"
    BY <1>1, Shapes, StuckTab
  <2>2. /\ tabs' = [tabs EXCEPT ![t] = Stuck(tabs[t])]
        /\ UNCHANGED <<wire, stored, told, session, now, lastUse, unaware>>
    BY <1>17 DEF SignOutFails
  <2> QED BY <1>1, <1>2, <2>1, <2>2, LeavingInv
<1>12. ASSUME NEW t \in Tabs, LeaveForLogin(t) PROVE LimitsInv'
  <2> DEFINE d == AtLogin(tabs[t])
  <2>1. d.page = "login" /\ d.clock = "off"
    BY <1>1, Shapes, LeftTab
  <2>2. /\ tabs' = [tabs EXCEPT ![t] = d]
        /\ \A u \in Tabs \ {t} : wire'[u] = wire[u] /\ (u \in told => u \in told')
        /\ wire'[t] \subseteq wire[t]
        /\ UNCHANGED <<stored, session, now, lastUse, unaware>>
    BY <1>1, <1>12 DEF LeaveForLogin, TypeOK
  <2> HIDE DEF d
  <2> QED BY <1>1, <1>2, <2>1, <2>2, LeavingInv
<1>13. ASSUME NEW t \in Tabs, SignIn(t) PROVE LimitsInv'
  BY <1>1, <1>13, SignInInv
<1>14. CASE SetPolicy
  BY <1>1, <1>14 DEF SetPolicy, LimitsInv, Times, TabInv
<1>15. CASE Tick
  <2>1. now \in Nat /\ lastUse \in Nat
    BY <1>1, Shapes
  <2> QED BY <1>1, <1>15, <2>1 DEF Tick, LimitsInv, Times, TabInv
<1>16. CASE UNCHANGED vars
  BY <1>1, <1>16 DEF vars, LimitsInv, Times, TabInv
<1> QED
  BY <1>3, <1>4, <1>5, <1>6, <1>7, <1>8, <1>9, <1>10, <1>11, <1>12, <1>13, <1>14, <1>15, <1>16,
     <1>17
  DEF Next

-----------------------------------------------------------------------------
(* What no deadline that passed takes back.                                *)

(* A tab whose limits ran out since the last use is past its own deadline: *)
(* its clock is not ahead of the last use.                                 *)
LEMMA OutMeansOverdue ==
  ASSUME LimitsInv, RanOut, NEW t \in Tabs, tabs[t].page = "ready"
  PROVE  Running(tabs[t]) /\ Overdue(tabs[t]) /\ tabs[t].last <= lastUse
<1> DEFINE c == tabs[t]
<1>1. /\ c.last \in Nat /\ lastUse \in Nat /\ now \in Nat /\ session.since \in Nat
      /\ c.limits.idle \in Nat /\ c.limits.max \in Nat
  BY Shapes DEF LimitsInv, Tab, Limits
<1>2. ClockFits(c) /\ NotAhead(c, lastUse)
  BY DEF LimitsInv, TabInv
<1>3. /\ c.page = "ready" /\ Limited(c.limits) /\ ~ c.loadOnly
      /\ \/ c.limits.idle > 0 /\ now >= lastUse + c.limits.idle
         \/ c.limits.max > 0 /\ now >= session.since + c.limits.max
  BY DEF RanOut
<1> HIDE DEF c
<1>4. Running(c) /\ c.last <= lastUse
  BY <1>2, <1>3 DEF ClockFits, NotAhead, Alive, Running
<1>5. now >= Deadline(c)
  BY <1>1, <1>3, <1>4 DEF Deadline, IdleFirst
<1> QED BY <1>4, <1>5 DEF Overdue, c

(* When every limit has run out no step in the session is a use of it.     *)
LEMMA RevivesStep ==
  ASSUME LimitsInv, [Next]_vars, RanOut, session'.since = session.since
  PROVE  lastUse' = lastUse
<1>1. TypeOK /\ Times /\ now \in Nat /\ lastUse \in Nat
  BY Shapes DEF LimitsInv
<1>2. ASSUME NEW t \in Tabs, Activity(t) PROVE lastUse' = lastUse
  <2>1. tabs[t].page = "ready"
    BY <1>1, <1>2, ActivitySteps
  <2>2. Running(tabs[t]) /\ Overdue(tabs[t])
    BY <2>1, OutMeansOverdue
  <2> QED BY <1>2, <2>2 DEF Activity
<1>3. ASSUME NEW t \in Tabs, Stay(t) PROVE lastUse' = lastUse
  <2>1. tabs[t].page = "ready"
    BY <1>3, StaySteps DEF Running
  <2>2. Overdue(tabs[t]) /\ tabs[t].last <= lastUse /\ tabs[t].last \in Nat
    BY <1>1, <2>1, OutMeansOverdue, Shapes DEF Tab
  <2>3. Used(tabs[t].last, {})
    BY <1>3, <2>2, StaySteps
  <2> QED BY <1>1, <2>2, <2>3, UsedChanges
<1>4. ASSUME NEW t \in Tabs, SignIn(t) PROVE lastUse' = lastUse
  <2>1. session'.since = now /\ Used(now, {})
    BY <1>4 DEF SignIn
  <2>2. now <= lastUse
    BY <1>1, <2>1 DEF Times
  <2> QED BY <1>1, <2>1, <2>2, UsedChanges
<1>5. ASSUME NEW t \in Tabs,
             \/ Open(t) \/ Close(t) \/ LimitsKnown(t) \/ Deliver(t) \/ TimerDue(t)
             \/ FlushDrafts(t) \/ SignOut(t) \/ SignOutFails(t) \/ LeaveForLogin(t)
      PROVE  lastUse' = lastUse
  BY <1>5 DEF Open, Close, LimitsKnown, Deliver, TimerDue, FlushDrafts, SignOut, SignOutFails,
              LeaveForLogin
<1>6. SetPolicy \/ Tick \/ UNCHANGED vars => lastUse' = lastUse
  BY DEF SetPolicy, Tick, vars
<1> QED BY <1>2, <1>3, <1>4, <1>5, <1>6 DEF Next

-----------------------------------------------------------------------------
(* What an expiry for idleness means.                                      *)

(* A clock `c` that ends the session before the maximum length has counted *)
(* the whole idle time.                                                    *)
LEMMA IdleElapsed ==
  ASSUME LimitsInv, NEW c \in Tab, Limited(c.limits), Overdue(c),
         c.limits.max = 0 \/ now < session.since + c.limits.max
  PROVE  now >= c.last + c.limits.idle
<1>1. /\ c.last \in Nat /\ now \in Nat /\ session.since \in Nat
      /\ c.limits.idle \in Nat /\ c.limits.max \in Nat
  BY Shapes DEF LimitsInv, Tab, Limits
<1> QED BY <1>1 DEF Overdue, Deadline, IdleFirst, Limited

(* Such a clock, if it knows of the last use, has counted from it.         *)
LEMMA IdleKnown ==
  ASSUME LimitsInv, NEW t \in Tabs, NEW c \in Tab, Limited(c.limits), Overdue(c),
         tabs'[t] = Expired(c), IdleExpiry(t), NEW excused,
         Knows(c.last, lastUse, wire[t], excused)
  PROVE  \/ now >= lastUse + tabs'[t].limits.idle
         \/ lastUse \in wire[t]
         \/ excused
<1>1. tabs'[t].limits = c.limits
  BY ExpiredTab
<1>2. now >= c.last + c.limits.idle
  BY <1>1, IdleElapsed DEF IdleExpiry
<1>3. /\ c.last \in Nat /\ now \in Nat /\ lastUse \in Nat /\ c.limits.idle \in Nat
  BY Shapes DEF LimitsInv, Tab, Limits
<1> QED BY <1>1, <1>2, <1>3 DEF Knows

(* A tab whose clock expires for idleness knows of the last use, or the    *)
(* news is on its way, or the code cannot tell it.                         *)
LEMMA IdleStep ==
  ASSUME LimitsInv, [Next]_vars, NEW u \in Tabs, IdleExpiry(u)
  PROVE  \/ now >= lastUse + tabs'[u].limits.idle
         \/ lastUse \in wire[u]
         \/ u \in unaware'
         \/ u \in told
<1> DEFINE c == tabs[u]
<1>1. /\ TypeOK /\ Times /\ ClockFits(c) /\ c \in Tab /\ policy \in Limits
      /\ lastUse \in Nat /\ c.last \in Nat
      /\ Aware(c, session.since, lastUse, wire[u], u \in unaware \/ u \in told)
  BY Shapes DEF LimitsInv, TabInv, Tab
<1>2. tabs'[u].clock = "expired" /\ c.clock # "expired"
  BY DEF IdleExpiry
<1>3. Running(c) => Limited(c.limits) /\ Knows(c.last, lastUse, wire[u], u \in unaware \/ u \in told)
  BY <1>1 DEF Running, Aware, TypeOK
<1>5. ASSUME Running(c), Overdue(c), tabs'[u] = Expired(c),
             unaware \subseteq unaware' \/ lastUse < c.last
      PROVE  \/ now >= lastUse + tabs'[u].limits.idle
             \/ lastUse \in wire[u] \/ u \in unaware' \/ u \in told
  <2>1. CASE unaware \subseteq unaware'
    BY <1>1, <1>3, <1>5, <2>1, IdleKnown
  <2>2. CASE lastUse < c.last
    <3>1. Knows(c.last, lastUse, wire[u], FALSE)
      BY <1>1, <2>2 DEF Knows
    <3> QED BY <1>1, <1>3, <1>5, <3>1, IdleKnown
  <2> QED BY <1>5, <2>1, <2>2
<1>6. ASSUME NEW t \in Tabs, Activity(t)
      PROVE  \/ now >= lastUse + tabs'[u].limits.idle
             \/ lastUse \in wire[u] \/ u \in unaware' \/ u \in told
  <2>1. CASE LateInput(t) /\ tabs' = [tabs EXCEPT ![t] = Expired(Typed(t))] /\ unaware' = unaware
    <3>1. u = t /\ tabs'[u] = Expired(Typed(u))
      BY <1>1, <1>2, <2>1 DEF TypeOK
    <3>2. /\ Typed(u) \in Tab /\ Typed(u).limits = c.limits /\ Typed(u).last = c.last
          /\ Overdue(Typed(u))
      BY <1>1, <2>1, <3>1, TypedTab DEF LateInput
    <3>3. Running(c)
      BY <2>1, <3>1 DEF LateInput
    <3> QED BY <1>3, <2>1, <3>1, <3>2, <3>3, IdleKnown
  <2>2. CASE /\ Running(tabs[t])
             /\ tabs' = [tabs EXCEPT ![t] = [Typed(t) EXCEPT !.last = Later(tabs[t].last, now)]]
    <3>1. tabs[t].last \in Nat /\ now \in Nat
      BY <1>1, Shapes DEF Tab
    <3>2. tabs'[t].clock = Typed(t).clock /\ (u # t => tabs'[u] = tabs[u])
      BY <1>1, <2>2, TypedTab DEF TypeOK, Tab
    <3> QED BY <1>1, <1>2, <3>2, TypedTab
  <2>3. CASE tabs' = [tabs EXCEPT ![t] = Typed(t)]
    BY <1>1, <1>2, <2>3, TypedTab DEF TypeOK
  <2> QED BY <1>1, <1>6, <2>1, <2>2, <2>3, ActivitySteps
<1>7. ASSUME NEW t \in Tabs, Stay(t)
      PROVE  \/ now >= lastUse + tabs'[u].limits.idle
             \/ lastUse \in wire[u] \/ u \in unaware' \/ u \in told
  <2>0. tabs[t] \in Tab /\ tabs[t].last \in Nat /\ now \in Nat
    BY <1>1, Shapes DEF Tab
  <2>1. CASE /\ Overdue(tabs[t]) /\ tabs' = [tabs EXCEPT ![t] = Expired(tabs[t])]
             /\ Used(tabs[t].last, {})
    <3>1. u = t /\ tabs'[u] = Expired(c)
      BY <1>1, <1>2, <2>1 DEF TypeOK
    <3>2. unaware \subseteq unaware' \/ lastUse < c.last
      BY <1>1, <2>1, <3>1 DEF Used
    <3> QED BY <1>5, <1>7, <2>1, <3>1, <3>2, StaySteps
  <2>2. CASE tabs' = [tabs EXCEPT ![t] = [tabs[t] EXCEPT !.last = Later(tabs[t].last, now)]]
    <3>1. tabs'[t].clock = tabs[t].clock /\ (u # t => tabs'[u] = tabs[u])
      BY <1>1, <2>0, <2>2 DEF TypeOK, Tab
    <3> QED BY <1>2, <3>1
  <2> QED BY <1>7, <2>1, <2>2, StaySteps
<1>8. ASSUME NEW t \in Tabs, Deliver(t)
      PROVE  \/ now >= lastUse + tabs'[u].limits.idle
             \/ lastUse \in wire[u] \/ u \in unaware' \/ u \in told
  <2>1. PICK at \in wire[t] :
          /\ at \in Nat /\ unaware \subseteq unaware'
          /\ \A v \in Tabs \ {t} : tabs'[v] = tabs[v]
          /\ \/ Running(tabs[t]) /\ Overdue(tabs[t]) /\ tabs'[t] = Expired(tabs[t])
             \/ Running(tabs[t]) /\ tabs'[t] = [tabs[t] EXCEPT !.last = Later(tabs[t].last, at)]
             \/ ~ Running(tabs[t]) /\ tabs'[t] = tabs[t]
    BY <1>8, DeliverSteps
  <2>2. CASE Running(tabs[t]) /\ Overdue(tabs[t]) /\ tabs'[t] = Expired(tabs[t])
    BY <1>2, <1>5, <2>1, <2>2
  <2>3. CASE tabs'[t] = [tabs[t] EXCEPT !.last = Later(tabs[t].last, at)]
    <3>1. tabs'[t].clock = tabs[t].clock
      BY <1>1, <2>3, Shapes DEF Tab
    <3> QED BY <1>2, <2>1, <3>1
  <2> QED BY <1>2, <2>1, <2>2, <2>3
<1>9. ASSUME NEW t \in Tabs, TimerDue(t)
      PROVE  \/ now >= lastUse + tabs'[u].limits.idle
             \/ lastUse \in wire[u] \/ u \in unaware' \/ u \in told
  <2>1. /\ Running(tabs[t]) /\ Overdue(tabs[t]) /\ unaware' = unaware
        /\ tabs' = [tabs EXCEPT ![t] = Expired(tabs[t])]
    BY <1>9 DEF TimerDue, Evaluated
  <2>2. u = t /\ tabs'[u] = Expired(c)
    BY <1>1, <1>2, <2>1 DEF TypeOK
  <2> QED BY <1>5, <2>1, <2>2
<1>10. ASSUME NEW t \in Tabs, LimitsKnown(t)
      PROVE  \/ now >= lastUse + tabs'[u].limits.idle
             \/ lastUse \in wire[u] \/ u \in unaware' \/ u \in told
  <2>1. /\ tabs' = [tabs EXCEPT ![t] = WithLimits(tabs[t], policy)]
        /\ unaware' = IF tabs[t].started /\ tabs[t].clock = "off" THEN ReadBy(t) ELSE unaware
    BY <1>1, <1>10, LimitsKnownStep
  <2>2. u = t /\ tabs'[u] = WithLimits(c, policy)
    BY <1>1, <1>2, <2>1 DEF TypeOK
  <2>3. CASE WithLimits(c, policy) = Stops(c, policy)
    BY <1>1, <1>2, <2>2, <2>3, LimitFields
  <2>4. CASE /\ Limited(policy) /\ c.clock = "running"
             /\ WithLimits(c, policy) = Evaluated(GoesOn(c, policy))
    <3> DEFINE g == GoesOn(c, policy)
    <3>1. c \in Tab /\ policy \in Limits
      BY <1>1
    <3>2. g \in Tab
      BY <1>1, <3>1, WithLimitsTab
    <3>3. g.limits = policy /\ g.last = c.last /\ g.clock = c.clock
      BY <3>1, LimitFields
    <3>4. g \in Tab /\ g.limits = policy /\ g.last = c.last /\ g.clock = c.clock
      BY <3>2, <3>3
    <3> HIDE DEF g
    <3>5. Overdue(g) /\ tabs'[u] = Expired(g)
      BY <1>2, <2>2, <2>4, <3>4, EvaluatedTab DEF g
    <3>6. Knows(c.last, lastUse, wire[u], u \in unaware \/ u \in told) /\ unaware' = unaware
      BY <1>1, <2>1, <2>2, <2>4 DEF Aware
    <3> QED BY <2>4, <3>4, <3>5, <3>6, IdleKnown
  <2>5. CASE /\ Limited(policy) /\ c.clock # "running"
             /\ WithLimits(c, policy) = Evaluated(Starts(c, policy))
    <3> DEFINE s == Starts(c, policy)
    <3>1. s \in Tab /\ s.limits = policy /\ s.last = ClockStart(c) /\ s.clock = "running"
      BY <1>1, WithLimitsTab, LimitFields
    <3> HIDE DEF s
    <3>2. Overdue(s) /\ tabs'[u] = Expired(s)
      BY <1>2, <2>2, <2>5, <3>1, EvaluatedTab DEF s
    <3>3. Knows(ClockStart(c), lastUse, wire[u], u \in unaware' \/ u \in told)
      BY <1>10, <2>2, <2>5, StartKnows
    <3> QED BY <2>5, <3>1, <3>2, <3>3, IdleKnown
  <2> QED BY <1>1, <2>3, <2>4, <2>5, WithLimitsTab
<1>11. ASSUME NEW t \in Tabs, Open(t) \/ Close(t) \/ LeaveForLogin(t) \/ SignOut(t) \/ SignIn(t)
      PROVE  FALSE
  <2>1. \/ tabs' = [tabs EXCEPT ![t] = Loaded]
        \/ tabs' = [tabs EXCEPT ![t] = Blank("closed")]
        \/ tabs' = [tabs EXCEPT ![t] = AtLogin(tabs[t])]
    BY <1>11 DEF Open, Close, LeaveForLogin, SignOut, SignIn
  <2>2. \/ tabs'[t] = Loaded \/ tabs'[t] = Blank("closed") \/ tabs'[t] = AtLogin(tabs[t])
    BY <1>1, <2>1 DEF TypeOK
  <2>3. u # t => tabs'[u] = tabs[u]
    BY <1>1, <2>1 DEF TypeOK
  <2>4. tabs[t] \in Tab
    BY <1>1 DEF TypeOK
  <2>5. Loaded.clock = "off" /\ Blank("closed").clock = "off" /\ AtLogin(tabs[t]).clock = "off"
    BY <1>1, <2>4, LoadedTab, BlankTab, LeftTab
  <2> QED BY <1>2, <2>2, <2>3, <2>5
<1>12. ASSUME NEW t \in Tabs, FlushDrafts(t) PROVE FALSE
  <2>1. PICK saved \in BOOLEAN :
          tabs' = [tabs EXCEPT ![t] = [Blank("leaving") EXCEPT
                     !.unsaved = tabs[t].unsaved /\ ~ saved, !.said = tabs[t].unsaved /\ ~ saved]]
    BY <1>12 DEF FlushDrafts
  <2>2. tabs'[t].clock = Blank("leaving").clock /\ (u # t => tabs'[u] = tabs[u])
    BY <1>1, <2>1, BlankTab DEF TypeOK, Tab
  <2> QED BY <1>2, <2>2, BlankTab
<1>14. ASSUME NEW t \in Tabs, SignOutFails(t) PROVE FALSE
  <2>1. tabs' = [tabs EXCEPT ![t] = Stuck(tabs[t])]
    BY <1>14 DEF SignOutFails
  <2>2. tabs'[t].clock = "off" /\ (u # t => tabs'[u] = tabs[u])
    BY <1>1, <2>1, StuckTab DEF TypeOK
  <2> QED BY <1>2, <2>2
<1>13. CASE SetPolicy \/ Tick \/ UNCHANGED vars
  BY <1>2, <1>13 DEF SetPolicy, Tick, vars
<1> QED BY <1>6, <1>7, <1>8, <1>9, <1>10, <1>11, <1>12, <1>13, <1>14 DEF Next

-----------------------------------------------------------------------------
(* The theorems.                                                           *)

(* The clocks, and what they know of the last use, in every reachable      *)
(* state (session-timer.ts, activity-channel.ts).                          *)
THEOREM Invariance == Spec => []LimitsInv
<1>1. Init => LimitsInv
  BY InitInv
<1>2. LimitsInv /\ [Next]_vars => LimitsInv'
  BY InvStep
<1> QED BY <1>1, <1>2, PTL DEF Spec

(* The types of SessionLimits; a running clock always has a limit.         *)
THEOREM TypeCorrect == Spec => []TypeOK
<1>1. LimitsInv => TypeOK
  BY DEF LimitsInv
<1> QED BY <1>1, Invariance, PTL

(* Once the idle time or the maximum length has run out since the last use *)
(* of the webmail in any tab, no input, no "Stay signed in", no message of *)
(* another tab and no reload counts as a use of that session (record and   *)
(* evaluate look at the deadline before they take an activity).            *)
THEOREM OutStaysOut == Spec => NothingRevives
<1>1. LimitsInv /\ [Next]_vars => (RanOut /\ session.since' = session.since => lastUse' = lastUse)
  BY RevivesStep
<1>2. LimitsInv /\ [Next]_vars => [RanOut /\ session.since' = session.since => lastUse' = lastUse]_vars
  BY <1>1
<1> QED BY <1>2, Invariance, PTL DEF Spec, NothingRevives

(* A tab ends the session for idleness only if nobody used the webmail for *)
(* the idle time, or the use cannot have reached the tab's clock.          *)
THEOREM IdleIsIdle == Spec => IdleMeansIdle
<1> DEFINE Known == \A t \in Tabs : IdleExpiry(t) =>
                      \/ now >= lastUse + tabs'[t].limits.idle
                      \/ lastUse \in wire[t]
                      \/ t \in unaware'
                      \/ t \in told
<1>1. LimitsInv /\ [Next]_vars => [Known]_vars
  BY IdleStep
<1> QED BY <1>1, Invariance, PTL DEF Spec, IdleMeansIdle
=============================================================================
