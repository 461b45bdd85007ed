------------------------ MODULE AccountSwitchProofs ------------------------
(***************************************************************************)
(* Overlapping account switches keep every account's data apart and lose   *)
(* no mail, for any number of accounts and of switches (SwitchSpec); and   *)
(* so do sign-outs, removals and sign-ins beside no switch (Spec, where    *)
(* Overlapping is FALSE), which leave no snapshot of an account whose      *)
(* sign-out went past its flush.  Emptied stores are filled again, unless  *)
(* the newest switch has thrown at its flush.                              *)
(***************************************************************************)
EXTENDS AccountSwitch, TLAPS

(* A switch that is still connecting found no client when it started, and  *)
(* only a switch that did flushes the settings a second time.              *)
PhasePath ==
  \A i \in Calls : switches[i] # None =>
    /\ (switches[i].phase = "connect" => switches[i].path = "network")
    /\ (switches[i].phase = "flush" => switches[i].path = "seamless")

(* What may still be written to the stores is the active account's.        *)
FetchesOwn ==
  page # "left" => \A f \in fetches : f.epoch = "current" => f.owner = active

(* Nothing is in the stores, or will be before a client is bound.          *)
Emptied ==
  client = None /\ stores.mail = {} /\ \A f \in fetches : f.epoch = "past"

(* The newest switch, while it connects, finds the stores as it emptied    *)
(* them.                                                                   *)
NetworkEmptied ==
  (/\ page # "left"
   /\ generation > 0
   /\ switches[generation].path = "network"
   /\ switches[generation].phase \in {"connect", "verify"}) => Emptied

(* Until its identities have come, what the newest switch bound is shown.   *)
BoundShown ==
  (generation > 0 /\ switches[generation].phase = "identities")
    => active = switches[generation].target

Inv ==
  /\ TypeOK
  /\ PhasePath
  /\ FetchesOwn
  /\ NetworkEmptied
  /\ OnlyActiveMailShown
  /\ SnapshotsHoldOwnMail
  /\ ClientMatchesActive
  /\ BoundShown

(* Stores marked as emptied are empty, and what StoresRefilled says.       *)
MarkedEmptied == (cleared /\ page # "left") => Emptied

SwitchInv == Inv /\ StoresRefilled /\ MarkedEmptied

(* A call is a record once it has been made.                               *)
LEMMA CallRecords ==
  ASSUME TypeOK, NEW i \in Calls, switches[i] # None
  PROVE  /\ switches[i] \in Switch
         /\ switches[i].target \in Accounts
         /\ switches[i].prev \in Accounts \cup {None}
         /\ switches[i].path \in {"network", "seamless"}
         /\ switches[i].phase \in Phases
         /\ i <= generation /\ generation \in Calls
<1>1. switches[i] \in Switch
  BY DEF TypeOK
<1>2. i <= generation
  BY DEF TypeOK
<1>3. generation \in Calls
  BY <1>2, BoundAssumption DEF TypeOK, Calls
<1> QED
  BY <1>1, <1>2, <1>3 DEF Switch

(* What GoTo does to the calls.                                            *)
LEMMA GoToFields ==
  ASSUME TypeOK, NEW i \in Calls, switches[i] # None, NEW phase \in Phases, GoTo(i, phase)
  PROVE  /\ switches' \in [Calls -> Switch \cup {None}]
         /\ switches'[i] # None
         /\ switches'[i].phase = phase
         /\ switches'[i].path = switches[i].path
         /\ switches'[i].target = switches[i].target
         /\ \A j \in Calls : j # i => switches'[j] = switches[j]
<1>1. switches[i] \in Switch /\ switches \in [Calls -> Switch \cup {None}]
  BY CallRecords DEF TypeOK
<1>2. switches' = [switches EXCEPT ![i].phase = phase]
  BY DEF GoTo
<1>3. switches'[i] = [switches[i] EXCEPT !.phase = phase]
  BY <1>1, <1>2
<1>4. [switches[i] EXCEPT !.phase = phase] \in Switch
  BY <1>1 DEF Switch
<1>5. switches' \in [Calls -> Switch \cup {None}]
  BY <1>1, <1>2, <1>4
<1>6. switches'[i] # None
  BY <1>3, <1>4, NoSwitchAssumption
<1>7. /\ switches'[i].phase = phase
      /\ switches'[i].path = switches[i].path
      /\ switches'[i].target = switches[i].target
  BY <1>1, <1>3 DEF Switch
<1>8. \A j \in Calls : j # i => switches'[j] = switches[j]
  BY <1>1, <1>2
<1> QED
  BY <1>5, <1>6, <1>7, <1>8

(* Steps that only take a switch to its next phase keep the invariant.     *)
LEMMA PhaseStep ==
  ASSUME Inv, NEW i \in Calls, switches[i] # None, page # "left",
         NEW phase \in {"verify", "flush", "done", "threw"}, GoTo(i, phase),
         UNCHANGED <<accounts, screen, cleared, generation, page>>,
         clients' \subseteq Accounts,
         phase = "flush" => switches[i].path = "seamless",
         i = generation => \/ phase = "verify" /\ switches[i].phase = "connect"
                           \/ phase = "flush" /\ switches[i].phase = "verify"
                           \/ phase = "threw"
  PROVE  Inv'
<1>t. TypeOK /\ PhasePath /\ FetchesOwn /\ NetworkEmptied /\ OnlyActiveMailShown
      /\ SnapshotsHoldOwnMail /\ ClientMatchesActive /\ BoundShown
  BY DEF Inv
<1>u. /\ accounts' = accounts /\ active' = active /\ client' = client
      /\ stores' = stores /\ fetches' = fetches /\ cache' = cache
      /\ cleared' = cleared /\ generation' = generation /\ page' = page
  BY DEF screen
<1>g. /\ switches' \in [Calls -> Switch \cup {None}]
      /\ switches'[i] # None
      /\ switches'[i].phase = phase
      /\ switches'[i].path = switches[i].path
      /\ switches'[i].target = switches[i].target
      /\ \A j \in Calls : j # i => switches'[j] = switches[j]
  BY <1>t, GoToFields DEF Phases, Ended
<1>r. /\ switches[i].path \in {"network", "seamless"}
      /\ switches[i].phase \in Phases
      /\ generation \in Calls /\ generation > 0
      /\ switches[i].phase = "connect" => switches[i].path = "network"
      /\ switches[i].phase = "flush" => switches[i].path = "seamless"
  BY <1>t, CallRecords DEF PhasePath, Calls
<1>1. TypeOK'
  <2>1. \A j \in Calls : switches'[j] # None <=> j <= generation
    BY <1>t, <1>g DEF TypeOK
  <2> QED
    BY <1>t, <1>u, <1>g, <2>1 DEF TypeOK
<1>2. PhasePath'
  BY <1>t, <1>g, <1>r DEF PhasePath
<1>3. FetchesOwn'
  BY <1>t, <1>u DEF FetchesOwn
<1>4. NetworkEmptied'
  <2>1. CASE i = generation
    BY <2>1, <1>t, <1>u, <1>g, <1>r DEF NetworkEmptied, Emptied
  <2>2. CASE i # generation
    BY <2>2, <1>t, <1>u, <1>g, <1>r DEF NetworkEmptied, Emptied
  <2> QED
    BY <2>1, <2>2
<1>5. OnlyActiveMailShown' /\ SnapshotsHoldOwnMail' /\ ClientMatchesActive'
  BY <1>t, <1>u DEF OnlyActiveMailShown, SnapshotsHoldOwnMail, ClientMatchesActive
<1>6. BoundShown'
  <2>1. CASE i = generation
    BY <2>1, <1>u, <1>g DEF BoundShown
  <2>2. CASE i # generation
    BY <2>2, <1>t, <1>u, <1>g, <1>r DEF BoundShown
  <2> QED
    BY <2>1, <2>2
<1> QED
  BY <1>1, <1>2, <1>3, <1>4, <1>5, <1>6 DEF Inv

(* What a new call of switchAccount does to the calls.                     *)
LEMMA NewCallFields ==
  ASSUME TypeOK, PhasePath, generation < MaxSwitches, NEW t \in Accounts,
         NEW path \in {"network", "seamless"}, NEW phase \in {"connect", "verify", "failed"},
         phase = "connect" => path = "network",
         NewCall(t, path, phase)
  PROVE  /\ generation' \in 0 .. MaxSwitches /\ generation' > 0
         /\ switches' \in [Calls -> Switch \cup {None}]
         /\ switches'[generation'].phase = phase
         /\ switches'[generation'].path = path
         /\ switches'[generation'].target = t
         /\ \A j \in Calls : switches'[j] # None <=> j <= generation'
         /\ PhasePath'
<1> DEFINE call == [target |-> t, prev |-> active, path |-> path, phase |-> phase]
           g == generation + 1
<1>1. /\ g \in Calls /\ g > 0 /\ generation' = g /\ g \in 0 .. MaxSwitches
      /\ generation \in 0 .. MaxSwitches
  BY BoundAssumption DEF TypeOK, NewCall, Calls
<1>2. switches \in [Calls -> Switch \cup {None}] /\ switches' = [switches EXCEPT ![g] = call]
  BY DEF TypeOK, NewCall
<1>3. call \in Switch
  BY DEF TypeOK, Switch, Phases, Ended
<1>4. switches' \in [Calls -> Switch \cup {None}]
  BY <1>1, <1>2, <1>3
<1>5. switches'[g] = call /\ \A j \in Calls : j # g => switches'[j] = switches[j]
  BY <1>1, <1>2
<1>6. switches'[g] # None
  BY <1>3, <1>5, NoSwitchAssumption
<1>7. \A j \in Calls : switches[j] # None <=> j <= generation
  BY DEF TypeOK
<1>8. ASSUME NEW j \in Calls
      PROVE  switches'[j] # None <=> j <= g
  <2>1. j \in Int
    BY DEF Calls
  <2>2. CASE j = g
    BY <2>1, <2>2, <1>6
  <2>3. CASE j # g
    BY <2>1, <2>3, <1>1, <1>5, <1>7
  <2> QED
    BY <2>2, <2>3
<1>9. PhasePath'
  <2>1. call.phase = phase /\ call.path = path
    OBVIOUS
  <2>2. phase # "flush"
    OBVIOUS
  <2> HIDE DEF call, g
  <2> SUFFICES ASSUME NEW j \in Calls, switches'[j] # None
               PROVE  /\ (switches'[j].phase = "connect" => switches'[j].path = "network")
                      /\ (switches'[j].phase = "flush" => switches'[j].path = "seamless")
    BY DEF PhasePath
  <2>3. CASE j = g
    BY <2>1, <2>2, <2>3, <1>5
  <2>4. CASE j # g
    BY <2>4, <1>5 DEF PhasePath
  <2> QED
    BY <2>3, <2>4
<1>10. call.phase = phase /\ call.path = path /\ call.target = t
  OBVIOUS
<1> HIDE DEF call, g
<1> QED
  BY <1>1, <1>4, <1>5, <1>8, <1>9, <1>10

(* A snapshot taken by a switch holds the outgoing account's own data.     *)
LEMMA SnapshotOwn ==
  ASSUME TypeOK, OnlyActiveMailShown, SnapshotsHoldOwnMail, page # "left"
  PROVE  /\ SwitchSnapshot \in [Accounts -> Stores \cup {None}]
         /\ \A a \in Accounts : SwitchSnapshot[a] # None => SwitchSnapshot[a].mail \subseteq {a}
<1>1. /\ cache \in [Accounts -> Stores \cup {None}] /\ stores \in Stores
      /\ active \in Accounts \cup {None}
      /\ stores.mail \subseteq {active}
      /\ \A a \in Accounts : cache[a] # None => cache[a].mail \subseteq {a}
  BY DEF TypeOK, OnlyActiveMailShown, SnapshotsHoldOwnMail
<1>2. CASE SwitchSnapshot = cache
  BY <1>1, <1>2
<1>3. CASE active \in Accounts /\ SwitchSnapshot = [cache EXCEPT ![active] = stores]
  <2>1. SwitchSnapshot[active] = stores
    BY <1>1, <1>3
  <2>2. \A a \in Accounts : a # active => SwitchSnapshot[a] = cache[a]
    BY <1>1, <1>3
  <2>3. SwitchSnapshot \in [Accounts -> Stores \cup {None}]
    BY <1>1, <1>3
  <2> QED
    BY <1>1, <2>1, <2>2, <2>3
<1> QED
  BY <1>1, <1>2, <1>3 DEF SwitchSnapshot

(* Bumping the epoch leaves no fetch that may write.                       *)
LEMMA PastFetches ==
  ASSUME NEW fs \in SUBSET Fetch
  PROVE  Past(fs) \in SUBSET Fetch /\ \A f \in Past(fs) : f.epoch = "past"
BY DEF Past, Fetch

(* Steps that start a switch.                                              *)
LEMMA AwaitingInv ==
  ASSUME Inv, NEW t \in Accounts, SwitchToAwaiting(t)
  PROVE  Inv'
<1>t. TypeOK /\ PhasePath /\ SnapshotsHoldOwnMail
  BY DEF Inv
<1>a. /\ generation < MaxSwitches /\ NewCall(t, "network", "failed") /\ page' = "left"
      /\ UNCHANGED <<accounts, clients, screen, cleared>>
  BY DEF SwitchToAwaiting, MaySwitchTo
<1>u. /\ accounts' = accounts /\ clients' = clients /\ active' = active /\ client' = client
      /\ stores' = stores /\ fetches' = fetches /\ cache' = cache /\ cleared' = cleared
  BY <1>a DEF screen
<1>n. /\ generation' \in 0 .. MaxSwitches
      /\ switches' \in [Calls -> Switch \cup {None}]
      /\ switches'[generation'].phase = "failed"
      /\ \A j \in Calls : switches'[j] # None <=> j <= generation'
      /\ PhasePath'
  BY <1>t, <1>a, NewCallFields
<1>1. TypeOK'
  BY <1>t, <1>a, <1>u, <1>n DEF TypeOK
<1>2. SnapshotsHoldOwnMail'
  BY <1>t, <1>u DEF SnapshotsHoldOwnMail
<1>3. BoundShown'
  BY <1>n DEF BoundShown
<1>4. FetchesOwn' /\ NetworkEmptied' /\ OnlyActiveMailShown' /\ ClientMatchesActive'
  BY <1>a DEF FetchesOwn, NetworkEmptied, OnlyActiveMailShown, ClientMatchesActive
<1> QED
  BY <1>1, <1>2, <1>3, <1>4, <1>n DEF Inv

\* A switch to a connected account starts: the stores stay as they are.
LEMMA SeamlessInv ==
  ASSUME Inv, NEW t \in Accounts, SwitchSeamless(t)
  PROVE  Inv'
<1>t. TypeOK /\ PhasePath /\ FetchesOwn /\ OnlyActiveMailShown
      /\ SnapshotsHoldOwnMail /\ ClientMatchesActive
  BY DEF Inv
<1>a. /\ generation < MaxSwitches /\ NewCall(t, "seamless", "verify") /\ page = "mail"
      /\ UNCHANGED <<accounts, clients, screen, cleared, page>>
  BY DEF SwitchSeamless, MaySwitchTo
<1>u. /\ accounts' = accounts /\ clients' = clients /\ active' = active /\ client' = client
      /\ stores' = stores /\ fetches' = fetches /\ cache' = cache /\ cleared' = cleared
      /\ page' = page
  BY <1>a DEF screen
<1>n. /\ generation' \in 0 .. MaxSwitches /\ generation' > 0
      /\ switches' \in [Calls -> Switch \cup {None}]
      /\ switches'[generation'].phase = "verify"
      /\ switches'[generation'].path = "seamless"
      /\ \A j \in Calls : switches'[j] # None <=> j <= generation'
      /\ PhasePath'
  BY <1>t, <1>a, NewCallFields
<1>1. TypeOK'
  BY <1>t, <1>a, <1>u, <1>n DEF TypeOK
<1>2. FetchesOwn' /\ OnlyActiveMailShown' /\ SnapshotsHoldOwnMail' /\ ClientMatchesActive'
  BY <1>t, <1>u DEF FetchesOwn, OnlyActiveMailShown, SnapshotsHoldOwnMail, ClientMatchesActive
<1>3. BoundShown' /\ NetworkEmptied'
  BY <1>n DEF BoundShown, NetworkEmptied
<1> QED
  BY <1>1, <1>2, <1>3, <1>n DEF Inv

\* A switch to an account not connected starts: its predecessor's data is saved
\* under its own name, once, and the stores are emptied.
LEMMA NetworkInv ==
  ASSUME Inv, NEW t \in Accounts, SwitchNetwork(t)
  PROVE  Inv'
<1>t. TypeOK /\ PhasePath /\ OnlyActiveMailShown /\ SnapshotsHoldOwnMail
  BY DEF Inv
<1>a. /\ generation < MaxSwitches /\ NewCall(t, "network", "connect") /\ page = "mail"
      /\ client' = None /\ cache' = SwitchSnapshot /\ stores' = EmptyStores
      /\ fetches' = Past(fetches) /\ cleared' = TRUE
      /\ accounts' = accounts /\ clients' = clients /\ active' = active /\ page' = page
  BY DEF SwitchNetwork, MaySwitchTo
<1>n. /\ generation' \in 0 .. MaxSwitches /\ generation' > 0
      /\ switches' \in [Calls -> Switch \cup {None}]
      /\ switches'[generation'].phase = "connect"
      /\ switches'[generation'].path = "network"
      /\ \A j \in Calls : switches'[j] # None <=> j <= generation'
      /\ PhasePath'
  BY <1>t, <1>a, NewCallFields
<1>s. /\ cache' \in [Accounts -> Stores \cup {None}]
      /\ \A a \in Accounts : cache'[a] # None => cache'[a].mail \subseteq {a}
  BY <1>t, <1>a, SnapshotOwn
<1>f. fetches' \in SUBSET Fetch /\ \A f \in fetches' : f.epoch = "past"
  BY <1>t, <1>a, PastFetches DEF TypeOK
<1>e. stores' \in Stores /\ stores'.mail = {}
  BY <1>a DEF EmptyStores, Stores
<1>1. TypeOK'
  BY <1>t, <1>a, <1>n, <1>s, <1>f, <1>e DEF TypeOK
<1>2. FetchesOwn'
  BY <1>f DEF FetchesOwn
<1>3. OnlyActiveMailShown' /\ SnapshotsHoldOwnMail' /\ ClientMatchesActive'
  BY <1>a, <1>s, <1>e DEF OnlyActiveMailShown, SnapshotsHoldOwnMail, ClientMatchesActive
<1>4. BoundShown' /\ NetworkEmptied'
  BY <1>a, <1>n, <1>e, <1>f DEF BoundShown, NetworkEmptied, Emptied
<1> QED
  BY <1>1, <1>2, <1>3, <1>4, <1>n DEF Inv

(* restoreAccount into emptied stores shows a's data and nobody else's.    *)
LEMMA RestoreFields ==
  ASSUME NEW a \in Accounts,
         NEW saved \in [Accounts -> Stores \cup {None}],
         \A b \in Accounts : saved[b] # None => saved[b].mail \subseteq {b},
         NEW st \in Stores, st.mail = {},
         NEW fs \in SUBSET Fetch, \A f \in fs : f.epoch = "past",
         Restore(a, saved, st, fs)
  PROVE  /\ cache' \in [Accounts -> Stores \cup {None}]
         /\ SnapshotsHoldOwnMail'
         /\ stores' \in Stores /\ stores'.mail \subseteq {a}
         /\ fetches' \in SUBSET Fetch /\ \A f \in fetches' : f.epoch = "past"
         /\ cleared' = FALSE /\ active' = a /\ client' = a
<1>1. /\ cache' = saved /\ cleared' = FALSE /\ active' = a /\ client' = a
      /\ stores' = IF saved[a] # None THEN saved[a] ELSE st
      /\ fetches' = IF saved[a] # None THEN Past(fs) ELSE fs
  BY DEF Restore
<1>2. stores' \in Stores /\ stores'.mail \subseteq {a}
  BY <1>1
<1>3. fetches' \in SUBSET Fetch /\ \A f \in fetches' : f.epoch = "past"
  BY <1>1, PastFetches
<1>4. SnapshotsHoldOwnMail'
  BY <1>1 DEF SnapshotsHoldOwnMail
<1> QED
  BY <1>1, <1>2, <1>3, <1>4

\* What both paths do when they bind their target, given snapshots that hold their
\* owners' data and stores that are empty or the target's.
LEMMA BindInv ==
  ASSUME Inv, NEW i \in Calls, switches[i] # None, page # "left",
         NEW saved \in [Accounts -> Stores \cup {None}],
         \A b \in Accounts : saved[b] # None => saved[b].mail \subseteq {b},
         NEW st \in Stores, st.mail = {},
         NEW fs \in SUBSET Fetch, \A f \in fs : f.epoch = "past",
         Bind(i, saved, st, fs)
  PROVE  Inv'
<1> DEFINE t == switches[i].target
           phase == IF saved[t] # None THEN "done" ELSE "identities"
<1>t. TypeOK /\ PhasePath
  BY DEF Inv
<1>a. /\ i = generation /\ Restore(t, saved, st, fs) /\ GoTo(i, phase)
      /\ accounts' = accounts /\ clients' = clients /\ generation' = generation /\ page' = page
  BY DEF Bind, Superseded
<1>b. t \in Accounts
  BY <1>t, CallRecords
<1>p. phase \in {"done", "identities"}
  OBVIOUS
<1> HIDE DEF t, phase
<1>r. /\ cache' \in [Accounts -> Stores \cup {None}]
      /\ SnapshotsHoldOwnMail'
      /\ stores' \in Stores /\ stores'.mail \subseteq {t}
      /\ fetches' \in SUBSET Fetch /\ \A f \in fetches' : f.epoch = "past"
      /\ cleared' = FALSE /\ active' = t /\ client' = t
  BY <1>a, <1>b, RestoreFields
<1>g. /\ switches' \in [Calls -> Switch \cup {None}]
      /\ switches'[i] # None
      /\ switches'[i].phase = phase
      /\ switches'[i].target = t
      /\ \A j \in Calls : j # i => switches'[j] = switches[j]
  BY <1>t, <1>a, <1>p, GoToFields DEF Phases, Ended, t
<1>1. TypeOK'
  <2>1. \A j \in Calls : switches'[j] # None <=> j <= generation
    BY <1>t, <1>g DEF TypeOK
  <2> QED
    BY <1>t, <1>a, <1>b, <1>r, <1>g, <2>1 DEF TypeOK
<1>2. PhasePath'
  BY <1>t, <1>g, <1>p DEF PhasePath
<1>3. FetchesOwn' /\ OnlyActiveMailShown' /\ ClientMatchesActive'
  BY <1>r DEF FetchesOwn, OnlyActiveMailShown, ClientMatchesActive
<1>4. NetworkEmptied' /\ BoundShown'
  BY <1>a, <1>g, <1>p, <1>r DEF NetworkEmptied, BoundShown
<1> QED
  BY <1>1, <1>2, <1>3, <1>4, <1>r DEF Inv

\* The network path binds to stores it emptied before, and finds them so.
LEMMA BindNetworkInv ==
  ASSUME Inv, NEW i \in Calls, BindNetwork(i)
  PROVE  Inv'
<1>t. TypeOK /\ NetworkEmptied /\ SnapshotsHoldOwnMail
  BY DEF Inv
<1>a. /\ page # "left" /\ switches[i] # None /\ switches[i].phase = "verify"
      /\ switches[i].path = "network"
      /\ i = generation /\ Bind(i, cache, stores, fetches)
  BY DEF BindNetwork, At, Bind, Superseded
<1>2. stores.mail = {} /\ \A f \in fetches : f.epoch = "past"
  BY <1>t, <1>a DEF NetworkEmptied, Emptied, Calls
<1>3. cache \in [Accounts -> Stores \cup {None}] /\ stores \in Stores /\ fetches \in SUBSET Fetch
  BY <1>t DEF TypeOK
<1>4. \A b \in Accounts : cache[b] # None => cache[b].mail \subseteq {b}
  BY <1>t DEF SnapshotsHoldOwnMail
<1> QED
  BY <1>a, <1>2, <1>3, <1>4, BindInv

\* The seamless path saves and empties the stores in the step that binds.
LEMMA BindSeamlessInv ==
  ASSUME Inv, NEW i \in Calls, BindSeamless(i)
  PROVE  Inv'
<1>t. TypeOK /\ OnlyActiveMailShown /\ SnapshotsHoldOwnMail
  BY DEF Inv
<1>a. /\ page # "left" /\ switches[i] # None
      /\ Bind(i, SwitchSnapshot, EmptyStores, Past(fetches))
  BY DEF BindSeamless, At
<1>1. /\ SwitchSnapshot \in [Accounts -> Stores \cup {None}]
      /\ \A b \in Accounts : SwitchSnapshot[b] # None => SwitchSnapshot[b].mail \subseteq {b}
  BY <1>t, <1>a, SnapshotOwn
<1>2. Past(fetches) \in SUBSET Fetch /\ \A f \in Past(fetches) : f.epoch = "past"
  BY <1>t, PastFetches DEF TypeOK
<1>3. EmptyStores \in Stores /\ EmptyStores.mail = {}
  BY DEF EmptyStores, Stores
<1> QED
  BY <1>a, <1>1, <1>2, <1>3, BindInv

\* No session to resume: the account is dropped, and the one shown before comes
\* back, or the page is left.
LEMMA RefusedInv ==
  ASSUME Inv, NEW i \in Calls, SwitchRefused(i)
  PROVE  Inv'
<1> DEFINE t == switches[i].target
           prev == switches[i].prev
           left == accounts \ {t}
           evicted == [cache EXCEPT ![t] = None]
<1>t. TypeOK /\ PhasePath /\ NetworkEmptied /\ SnapshotsHoldOwnMail
  BY DEF Inv
<1>a. /\ page # "left" /\ switches[i] # None /\ switches[i].phase = "connect"
      /\ i = generation /\ accounts' = left /\ GoTo(i, "failed")
      /\ clients' = clients /\ generation' = generation
  BY DEF SwitchRefused, At, Superseded
<1>b. \/ /\ prev \in clients \cap left
         /\ Restore(prev, evicted, stores, fetches) /\ page' = page
      \/ /\ page' = "left" /\ cache' = evicted
         /\ UNCHANGED <<active, client, stores, fetches, cleared>>
  BY DEF SwitchRefused
<1>r. switches[i].path = "network"
  BY <1>t, <1>a DEF PhasePath
<1>d. stores.mail = {} /\ \A f \in fetches : f.epoch = "past"
  BY <1>t, <1>a, <1>r DEF NetworkEmptied, Emptied, Calls
<1>e. cache \in [Accounts -> Stores \cup {None}] /\ stores \in Stores /\ fetches \in SUBSET Fetch
  BY <1>t DEF TypeOK
<1>f. /\ evicted \in [Accounts -> Stores \cup {None}]
      /\ \A b \in Accounts : evicted[b] # None => evicted[b].mail \subseteq {b}
  BY <1>t, <1>e DEF SnapshotsHoldOwnMail
<1>g. /\ switches' \in [Calls -> Switch \cup {None}]
      /\ switches'[i] # None /\ switches'[i].phase = "failed"
      /\ \A j \in Calls : j # i => switches'[j] = switches[j]
  BY <1>t, <1>a, GoToFields DEF Phases, Ended
<1>h. accounts' \subseteq Accounts /\ clients' \subseteq Accounts
  BY <1>t, <1>a DEF TypeOK
<1>i. \A j \in Calls : switches'[j] # None <=> j <= generation'
  BY <1>t, <1>a, <1>g DEF TypeOK
<1>j. PhasePath'
  BY <1>t, <1>g DEF PhasePath
<1>k. BoundShown' /\ NetworkEmptied'
  BY <1>a, <1>g DEF BoundShown, NetworkEmptied
<1>l. generation' \in 0 .. MaxSwitches
  BY <1>t, <1>a DEF TypeOK
<1> HIDE DEF t, prev, left, evicted
<1>1. CASE /\ prev \in clients \cap left
           /\ Restore(prev, evicted, stores, fetches) /\ page' = page
  <2>1. prev \in Accounts
    BY <1>1, <1>t DEF TypeOK
  <2>2. /\ cache' \in [Accounts -> Stores \cup {None}]
        /\ SnapshotsHoldOwnMail'
        /\ stores' \in Stores /\ stores'.mail \subseteq {prev}
        /\ fetches' \in SUBSET Fetch /\ \A f \in fetches' : f.epoch = "past"
        /\ cleared' = FALSE /\ active' = prev /\ client' = prev
    BY <1>1, <1>d, <1>e, <1>f, <2>1, RestoreFields
  <2>3. page' \in {"mail", "login", "left"}
    BY <1>1, <1>t DEF TypeOK
  <2>4. TypeOK'
    BY <1>g, <1>h, <1>i, <1>l, <2>1, <2>2, <2>3 DEF TypeOK
  <2>5. FetchesOwn' /\ OnlyActiveMailShown' /\ ClientMatchesActive'
    BY <2>2 DEF FetchesOwn, OnlyActiveMailShown, ClientMatchesActive
  <2> QED
    BY <1>j, <1>k, <2>2, <2>4, <2>5 DEF Inv
<1>2. CASE /\ page' = "left" /\ cache' = evicted
           /\ UNCHANGED <<active, client, stores, fetches, cleared>>
  <2>1. TypeOK'
    BY <1>2, <1>t, <1>f, <1>g, <1>h, <1>i, <1>l DEF TypeOK
  <2>2. FetchesOwn' /\ OnlyActiveMailShown' /\ ClientMatchesActive'
    BY <1>2 DEF FetchesOwn, OnlyActiveMailShown, ClientMatchesActive
  <2>3. SnapshotsHoldOwnMail'
    BY <1>2, <1>f DEF SnapshotsHoldOwnMail
  <2> QED
    BY <1>j, <1>k, <2>1, <2>2, <2>3 DEF Inv
<1> QED
  BY <1>b, <1>1, <1>2

\* The session is somebody else's: its client is dropped and the page is left.
LEMMA RejectedInv ==
  ASSUME Inv, NEW i \in Calls, SwitchRejected(i)
  PROVE  Inv'
<1>t. TypeOK /\ PhasePath /\ SnapshotsHoldOwnMail
  BY DEF Inv
<1>a. /\ switches[i] # None /\ i = generation /\ GoTo(i, "failed")
      /\ clients' = clients \ {switches[i].target}
      /\ active' = switches[i].prev /\ page' = "left"
      /\ UNCHANGED <<accounts, client, stores, fetches, cache, cleared, generation>>
  BY DEF SwitchRejected, At, Superseded
<1>b. active' \in Accounts \cup {None}
  BY <1>t, <1>a, CallRecords
<1>g. /\ switches' \in [Calls -> Switch \cup {None}]
      /\ switches'[i] # None /\ switches'[i].phase = "failed"
      /\ \A j \in Calls : j # i => switches'[j] = switches[j]
  BY <1>t, <1>a, GoToFields DEF Phases, Ended
<1>i. \A j \in Calls : switches'[j] # None <=> j <= generation'
  BY <1>t, <1>a, <1>g DEF TypeOK
<1>1. TypeOK'
  BY <1>t, <1>a, <1>b, <1>g, <1>i DEF TypeOK
<1>2. PhasePath'
  BY <1>t, <1>g DEF PhasePath
<1>3. FetchesOwn' /\ NetworkEmptied' /\ OnlyActiveMailShown' /\ ClientMatchesActive'
  BY <1>a DEF FetchesOwn, NetworkEmptied, OnlyActiveMailShown, ClientMatchesActive
<1>4. SnapshotsHoldOwnMail'
  BY <1>t, <1>a DEF SnapshotsHoldOwnMail
<1>5. BoundShown'
  BY <1>a, <1>g DEF BoundShown
<1> QED
  BY <1>1, <1>2, <1>3, <1>4, <1>5 DEF Inv

(* A late answer with identities changes them; the features it then loads  *)
(* are the active account's, since only the newest switch loads them.      *)
LEMMA IdentitiesInv ==
  ASSUME Inv, NEW i \in Calls, SwitchIdentities(i)
  PROVE  Inv'
<1> DEFINE t == switches[i].target
           ids == IF t \in clients THEN t ELSE None
<1>t. TypeOK /\ PhasePath /\ FetchesOwn /\ NetworkEmptied /\ OnlyActiveMailShown
      /\ SnapshotsHoldOwnMail /\ ClientMatchesActive /\ BoundShown
  BY DEF Inv
<1>a. /\ page # "left" /\ switches[i] # None /\ switches[i].phase = "identities"
      /\ stores' = [stores EXCEPT !.ids = ids]
      /\ fetches' = IF i # generation THEN fetches ELSE StartFetch(fetches, t)
      /\ GoTo(i, "done")
      /\ accounts' = accounts /\ clients' = clients /\ active' = active /\ client' = client
      /\ cache' = cache /\ cleared' = cleared /\ generation' = generation /\ page' = page
  BY DEF SwitchIdentities, At, Superseded
<1>b. t \in Accounts /\ generation \in Calls /\ generation > 0
  BY <1>t, <1>a, CallRecords DEF Calls
<1>c. ids \in Accounts \cup {None}
  BY <1>b
<1>d. stores \in Stores
  BY <1>t DEF TypeOK
<1>g. /\ switches' \in [Calls -> Switch \cup {None}]
      /\ switches'[i] # None /\ switches'[i].phase = "done"
      /\ switches'[i].target = t
      /\ \A j \in Calls : j # i => switches'[j] = switches[j]
  BY <1>t, <1>a, GoToFields DEF Phases, Ended
<1>n. i = generation => t = active
  BY <1>t, <1>a, <1>b DEF BoundShown
<1> HIDE DEF t, ids
<1>e. stores' \in Stores /\ stores'.mail = stores.mail
  BY <1>a, <1>c, <1>d DEF Stores
<1>f. /\ fetches' \in SUBSET Fetch
      /\ \A f \in fetches' : f \notin fetches => i = generation /\ f.owner = active
  <2>1. fetches \in SUBSET Fetch
    BY <1>t DEF TypeOK
  <2> QED
    BY <2>1, <1>a, <1>b, <1>n DEF StartFetch, Fetch
<1>i. \A j \in Calls : switches'[j] # None <=> j <= generation'
  BY <1>t, <1>a, <1>g DEF TypeOK
<1>1. TypeOK'
  BY <1>t, <1>a, <1>e, <1>f, <1>g, <1>i DEF TypeOK
<1>2. PhasePath'
  BY <1>t, <1>g DEF PhasePath
<1>3. FetchesOwn'
  <2> SUFFICES ASSUME NEW f \in fetches', f.epoch = "current"
               PROVE  f.owner = active
    BY <1>a DEF FetchesOwn
  <2>1. CASE f \in fetches
    BY <2>1, <1>t, <1>a DEF FetchesOwn
  <2>2. CASE f \notin fetches
    BY <2>2, <1>f, <1>n
  <2> QED
    BY <2>1, <2>2
<1>4. OnlyActiveMailShown' /\ SnapshotsHoldOwnMail' /\ ClientMatchesActive'
  BY <1>t, <1>a, <1>e DEF OnlyActiveMailShown, SnapshotsHoldOwnMail, ClientMatchesActive
<1>5. NetworkEmptied' /\ BoundShown'
  <2>1. CASE i = generation
    BY <2>1, <1>a, <1>g, <1>n DEF NetworkEmptied, BoundShown
  <2>2. CASE i # generation
    <3>1. switches'[generation] = switches[generation] /\ fetches' = fetches
      BY <2>2, <1>a, <1>b, <1>g
    <3> QED
      BY <3>1, <1>t, <1>a, <1>e DEF NetworkEmptied, Emptied, BoundShown
  <2> QED
    BY <2>1, <2>2
<1> QED
  BY <1>1, <1>2, <1>3, <1>4, <1>5 DEF Inv

\* A fetch begins for the active account, in the current epoch.
LEMMA FetchStartInv ==
  ASSUME Inv, FetchStart
  PROVE  Inv'
<1>t. TypeOK /\ PhasePath /\ FetchesOwn /\ NetworkEmptied /\ OnlyActiveMailShown
      /\ SnapshotsHoldOwnMail /\ ClientMatchesActive /\ BoundShown
  BY DEF Inv
<1>a. /\ page = "mail" /\ client \in clients /\ fetches' = StartFetch(fetches, client)
      /\ accounts' = accounts /\ clients' = clients /\ active' = active /\ client' = client
      /\ stores' = stores /\ cache' = cache /\ page' = page
      /\ switches' = switches /\ generation' = generation /\ cleared' = cleared
  BY DEF FetchStart, calls
<1>b. client \in Accounts /\ client = active
  BY <1>t, <1>a, AccountsAssumption DEF TypeOK, ClientMatchesActive
<1>c. client # None
  BY <1>b, AccountsAssumption
<1>f. fetches' \in SUBSET Fetch
  BY <1>t, <1>a, <1>b DEF TypeOK, StartFetch, Fetch
<1>1. TypeOK'
  BY <1>t, <1>a, <1>f DEF TypeOK
<1>2. FetchesOwn'
  BY <1>t, <1>a, <1>b DEF FetchesOwn, StartFetch
<1>3. /\ PhasePath' /\ NetworkEmptied' /\ OnlyActiveMailShown' /\ SnapshotsHoldOwnMail'
      /\ ClientMatchesActive' /\ BoundShown'
  BY <1>t, <1>a, <1>c DEF PhasePath, NetworkEmptied, Emptied, OnlyActiveMailShown, SnapshotsHoldOwnMail,
                    ClientMatchesActive, BoundShown
<1> QED
  BY <1>1, <1>2, <1>3 DEF Inv

\* A fetch of the current epoch writes the active account's data; one of a past
\* epoch writes nothing.
LEMMA FetchLandInv ==
  ASSUME Inv, NEW f \in fetches, FetchLand(f)
  PROVE  Inv'
<1>t. TypeOK /\ PhasePath /\ FetchesOwn /\ NetworkEmptied /\ OnlyActiveMailShown
      /\ SnapshotsHoldOwnMail /\ ClientMatchesActive /\ BoundShown
  BY DEF Inv
<1>a. /\ page # "left" /\ fetches' = fetches \ {f}
      /\ stores' = IF f.epoch = "current" THEN [stores EXCEPT !.mail = @ \cup {f.owner}] ELSE stores
      /\ accounts' = accounts /\ clients' = clients /\ active' = active /\ client' = client
      /\ cache' = cache /\ page' = page
      /\ switches' = switches /\ generation' = generation /\ cleared' = cleared
  BY DEF FetchLand, calls
<1>b. stores \in Stores /\ f \in Fetch /\ f.owner \in Accounts
  BY <1>t DEF TypeOK, Fetch
<1>c. f.epoch = "current" => f.owner = active
  BY <1>t, <1>a DEF FetchesOwn
<1>d. /\ stores' \in Stores
      /\ \/ stores' = stores
         \/ stores'.mail = stores.mail \cup {active} /\ f.epoch = "current"
  <2>1. CASE f.epoch = "current"
    BY <2>1, <1>a, <1>b, <1>c DEF Stores
  <2>2. CASE f.epoch # "current"
    BY <2>2, <1>a, <1>b
  <2> QED
    BY <2>1, <2>2
<1>1. TypeOK'
  BY <1>t, <1>a, <1>d DEF TypeOK
<1>2. FetchesOwn'
  BY <1>t, <1>a DEF FetchesOwn
<1>3. OnlyActiveMailShown'
  BY <1>t, <1>a, <1>d DEF OnlyActiveMailShown
<1>4. NetworkEmptied'
  BY <1>t, <1>a, <1>d DEF NetworkEmptied, Emptied
<1>5. /\ PhasePath' /\ SnapshotsHoldOwnMail'
      /\ ClientMatchesActive' /\ BoundShown'
  BY <1>t, <1>a DEF PhasePath, SnapshotsHoldOwnMail, ClientMatchesActive, BoundShown
<1> QED
  BY <1>1, <1>2, <1>3, <1>4, <1>5 DEF Inv

-----------------------------------------------------------------------------

\* An account is shown with its own data, and no switch is under way.
LEMMA InitInv == Init => SwitchInv
<1> SUFFICES ASSUME Init
             PROVE  SwitchInv
  OBVIOUS
<1>i. /\ active \in Accounts /\ client = active /\ accounts = Accounts
      /\ clients \subseteq Accounts
      /\ stores = [mail |-> {active}, ids |-> active] /\ fetches = {}
      /\ cache = [a \in Accounts |-> None] /\ cleared = FALSE
      /\ switches = [i \in Calls |-> None] /\ generation = 0 /\ page = "mail"
  BY DEF Init
<1>1. TypeOK
  <2>1. \A i \in Calls : switches[i] # None <=> i <= generation
    BY <1>i DEF Calls
  <2>2. stores \in Stores
    BY <1>i DEF Stores
  <2>3. generation \in 0 .. MaxSwitches
    BY <1>i, BoundAssumption
  <2> QED
    BY <1>i, <2>1, <2>2, <2>3 DEF TypeOK
<1>2. /\ PhasePath /\ FetchesOwn /\ NetworkEmptied /\ OnlyActiveMailShown /\ SnapshotsHoldOwnMail
      /\ ClientMatchesActive /\ BoundShown /\ StoresRefilled /\ MarkedEmptied
  BY <1>i DEF PhasePath, FetchesOwn, NetworkEmptied, OnlyActiveMailShown, SnapshotsHoldOwnMail,
              ClientMatchesActive, BoundShown, StoresRefilled, MarkedEmptied
<1> QED
  BY <1>1, <1>2 DEF Inv, SwitchInv

\* Every step of a switch already under way.
LEMMA SwitchStepInv ==
  ASSUME Inv, NEW i \in Calls, SwitchStep(i)
  PROVE  Inv'
<1>t. TypeOK /\ PhasePath
  BY DEF Inv
<1>1. CASE SwitchConnected(i)
  <2>1. /\ page # "left" /\ switches[i] # None /\ switches[i].phase = "connect"
        /\ clients' = clients \cup {switches[i].target} /\ GoTo(i, "verify")
        /\ UNCHANGED <<accounts, screen, cleared, generation, page>>
    BY <1>1 DEF SwitchConnected, At
  <2>2. clients' \subseteq Accounts
    BY <2>1, <1>t, CallRecords DEF TypeOK
  <2> QED
    BY <2>1, <2>2, PhaseStep
<1>2. CASE SwitchBroken(i)
  <2>1. /\ page # "left" /\ switches[i] # None /\ switches[i].phase = "connect"
        /\ clients' = clients /\ GoTo(i, "verify")
        /\ UNCHANGED <<accounts, screen, cleared, generation, page>>
    BY <1>2 DEF SwitchBroken, At
  <2>2. clients' \subseteq Accounts
    BY <2>1, <1>t DEF TypeOK
  <2> QED
    BY <2>1, <2>2, PhaseStep
<1>3. CASE SwitchGivesUp(i)
  <2>1. /\ page # "left" /\ switches[i] # None /\ i # generation
        /\ clients' = clients /\ GoTo(i, "done")
        /\ UNCHANGED <<accounts, screen, cleared, generation, page>>
    BY <1>3 DEF SwitchGivesUp, At, Superseded
  <2>2. clients' \subseteq Accounts
    BY <2>1, <1>t DEF TypeOK
  <2> QED
    BY <2>1, <2>2, PhaseStep
<1>4. CASE SwitchVerified(i)
  <2>1. /\ page # "left" /\ switches[i] # None /\ switches[i].phase = "verify"
        /\ switches[i].path = "seamless" /\ clients' = clients /\ GoTo(i, "flush")
        /\ UNCHANGED <<accounts, screen, cleared, generation, page>>
    BY <1>4 DEF SwitchVerified, At
  <2>2. clients' \subseteq Accounts
    BY <2>1, <1>t DEF TypeOK
  <2> QED
    BY <2>1, <2>2, PhaseStep
<1>5. CASE SwitchThrows(i)
  <2>1. /\ page # "left" /\ switches[i] # None
        /\ clients' = clients /\ GoTo(i, "threw")
        /\ UNCHANGED <<accounts, screen, cleared, generation, page>>
    BY <1>5 DEF SwitchThrows, At
  <2>2. clients' \subseteq Accounts
    BY <2>1, <1>t DEF TypeOK
  <2> QED
    BY <2>1, <2>2, PhaseStep
<1> QED
  BY <1>1, <1>2, <1>3, <1>4, <1>5, RefusedInv, RejectedInv, BindNetworkInv, BindSeamlessInv,
     IdentitiesInv DEF SwitchStep

(* Inv is inductive for overlapping switches.                              *)
LEMMA NextInv == Inv /\ [SwitchNext]_vars => Inv'
<1> SUFFICES ASSUME Inv, [SwitchNext]_vars
             PROVE  Inv'
  OBVIOUS
<1>1. CASE \E t \in Accounts : SwitchToAwaiting(t) \/ SwitchSeamless(t) \/ SwitchNetwork(t)
  BY <1>1, AwaitingInv, SeamlessInv, NetworkInv
<1>2. CASE \E i \in Calls : SwitchStep(i)
  BY <1>2, SwitchStepInv
<1>3. CASE FetchStart
  BY <1>3, FetchStartInv
<1>4. CASE \E f \in fetches : FetchLand(f)
  BY <1>4, FetchLandInv
<1>5. CASE UNCHANGED vars
  <2>1. /\ accounts' = accounts /\ clients' = clients /\ active' = active /\ client' = client
        /\ stores' = stores /\ fetches' = fetches /\ cache' = cache /\ page' = page
        /\ switches' = switches /\ generation' = generation /\ cleared' = cleared
    BY <1>5 DEF vars, screen, calls
  <2> QED
    BY <2>1 DEF Inv, TypeOK, PhasePath, FetchesOwn, NetworkEmptied, OnlyActiveMailShown,
                SnapshotsHoldOwnMail, ClientMatchesActive, BoundShown, Emptied
<1> QED
  BY <1>1, <1>2, <1>3, <1>4, <1>5 DEF SwitchNext

(* A step over emptied stores binds a target and fills them, or leaves them *)
(* empty, with the newest switch still to bind or thrown.                  *)
LEMMA EmptiedStep ==
  ASSUME SwitchInv, [SwitchNext]_vars
  PROVE  StoresRefilled' /\ MarkedEmptied'
<1>t. TypeOK /\ PhasePath /\ StoresRefilled /\ MarkedEmptied /\ BoundShown
  BY DEF SwitchInv, Inv
<1>c. cleared \in BOOLEAN
  BY <1>t DEF TypeOK
<1>1. ASSUME NEW t \in Accounts, SwitchToAwaiting(t)
      PROVE  StoresRefilled' /\ MarkedEmptied'
  BY <1>1 DEF SwitchToAwaiting, StoresRefilled, MarkedEmptied
<1>2. ASSUME NEW t \in Accounts, SwitchSeamless(t)
      PROVE  StoresRefilled' /\ MarkedEmptied'
  <2>1. /\ generation < MaxSwitches /\ NewCall(t, "seamless", "verify")
        /\ UNCHANGED <<client, stores, fetches, cleared, page>>
    BY <1>2 DEF SwitchSeamless, MaySwitchTo, screen
  <2>2. generation' > 0 /\ switches'[generation'].phase = "verify"
    BY <2>1, <1>t, NewCallFields
  <2> QED
    BY <2>1, <2>2, <1>t DEF StoresRefilled, MarkedEmptied, Emptied
<1>3. ASSUME NEW t \in Accounts, SwitchNetwork(t)
      PROVE  StoresRefilled' /\ MarkedEmptied'
  <2>1. /\ generation < MaxSwitches /\ NewCall(t, "network", "connect")
        /\ client' = None /\ stores' = EmptyStores /\ fetches' = Past(fetches)
    BY <1>3 DEF SwitchNetwork, MaySwitchTo
  <2>2. generation' > 0 /\ switches'[generation'].phase = "connect"
    BY <2>1, <1>t, NewCallFields
  <2>3. stores'.mail = {} /\ \A f \in fetches' : f.epoch = "past"
    BY <2>1, <1>t, PastFetches DEF EmptyStores, TypeOK
  <2> QED
    BY <2>1, <2>2, <2>3 DEF StoresRefilled, MarkedEmptied, Emptied
<1>4. ASSUME NEW i \in Calls, SwitchStep(i)
      PROVE  StoresRefilled' /\ MarkedEmptied'
  <2>1. CASE page' = "left" \/ cleared' = FALSE
    BY <2>1 DEF StoresRefilled, MarkedEmptied
  <2>2. CASE page' # "left" /\ cleared' # FALSE
    <3>1. /\ UNCHANGED <<client, cleared, page, generation>> /\ switches[i] # None
          /\ \/ /\ SwitchIdentities(i) /\ stores' = [stores EXCEPT !.ids = stores'.ids]
                /\ fetches' = IF i # generation THEN fetches ELSE fetches'
                /\ GoTo(i, "done") /\ switches[i].phase = "identities"
             \/ /\ UNCHANGED <<stores, fetches>>
                /\ \E phase \in Phases :
                     GoTo(i, phase) /\ (i = generation => phase \in {"verify", "flush", "threw"})
      <4>1. CASE SwitchIdentities(i)
        <5>1. stores \in [mail : SUBSET Accounts, ids : Accounts \cup {None}]
          BY <1>t DEF TypeOK, Stores
        <5> QED
          BY <4>1, <5>1 DEF SwitchIdentities, At, Superseded
      <4>2. CASE \/ SwitchConnected(i) \/ SwitchBroken(i) \/ SwitchGivesUp(i) \/ SwitchVerified(i)
                 \/ SwitchThrows(i)
        BY <4>2 DEF SwitchConnected, SwitchBroken, SwitchGivesUp, SwitchVerified, SwitchThrows,
           At, Superseded, screen, Phases, Ended
      <4>3. CASE SwitchRefused(i) \/ SwitchRejected(i) \/ BindNetwork(i) \/ BindSeamless(i)
        BY <4>3, <2>2 DEF SwitchRefused, SwitchRejected, BindNetwork, BindSeamless, Bind, Restore
      <4> QED
        BY <1>4, <4>1, <4>2, <4>3 DEF SwitchStep
    <3>2. /\ client = None /\ stores.mail = {} /\ generation > 0 /\ generation \in Calls
          /\ switches[generation].phase \in {"connect", "verify", "flush", "threw"}
          /\ \A f \in fetches : f.epoch = "past"
      BY <2>2, <3>1, <1>t, <1>c, CallRecords DEF StoresRefilled, MarkedEmptied, Emptied
    <3>3. stores'.mail = {} /\ fetches' = fetches
      <4>1. stores \in [mail : SUBSET Accounts, ids : Accounts \cup {None}]
        BY <1>t DEF TypeOK, Stores
      <4> QED
        BY <3>1, <3>2, <4>1
    <3>4. switches'[generation].phase \in {"connect", "verify", "flush", "threw"}
      <4>1. CASE i = generation
        <5>1. \E phase \in Phases : GoTo(i, phase) /\ phase \in {"verify", "flush", "threw"}
          BY <3>1, <3>2, <4>1
        <5> QED
          BY <5>1, <3>1, <4>1, <1>t, GoToFields
      <4>2. CASE i # generation
        <5>1. \E phase \in Phases : GoTo(i, phase)
          BY <3>1 DEF Phases, Ended
        <5> QED
          BY <5>1, <3>1, <3>2, <4>2, <1>t, GoToFields
      <4> QED
        BY <4>1, <4>2
    <3> QED
      BY <3>1, <3>2, <3>3, <3>4 DEF StoresRefilled, MarkedEmptied, Emptied
  <2> QED
    BY <2>1, <2>2
<1>5. CASE FetchStart
  <2>1. client \in Accounts /\ page # "left" /\ UNCHANGED <<client, cleared, page>>
    BY <1>5, <1>t DEF FetchStart, TypeOK, calls
  <2> QED
    BY <2>1, <1>t, AccountsAssumption DEF StoresRefilled, MarkedEmptied
<1>6. ASSUME NEW f \in fetches, FetchLand(f)
      PROVE  StoresRefilled' /\ MarkedEmptied'
  <2>1. /\ UNCHANGED <<client, cleared, page, switches, generation>> /\ fetches' \subseteq fetches
        /\ f.epoch # "current" => stores' = stores
    BY <1>6 DEF FetchLand, calls
  <2>2. cleared /\ page # "left" => f.epoch # "current"
    BY <1>t DEF MarkedEmptied, Emptied
  <2> QED
    BY <2>1, <2>2, <1>t DEF StoresRefilled, MarkedEmptied, Emptied
<1>7. CASE UNCHANGED vars
  BY <1>7, <1>t DEF vars, screen, calls, StoresRefilled, MarkedEmptied, Emptied
<1> QED
  BY <1>1, <1>2, <1>3, <1>4, <1>5, <1>6, <1>7 DEF SwitchNext
\* However switches and fetches overlap, the invariant holds.
THEOREM Invariance == SwitchSpec => []Inv
<1>1. Init => Inv
  BY InitInv DEF SwitchInv
<1> QED
  BY <1>1, NextInv, PTL DEF SwitchSpec

(* The stores only ever hold the data of the account on screen, however    *)
(* switches and the fetches they started overlap.                          *)
THEOREM OnlyActiveShown == SwitchSpec => []OnlyActiveMailShown
<1>1. Inv => OnlyActiveMailShown
  BY DEF Inv
<1> QED
  BY <1>1, Invariance, PTL

(* No snapshot ever holds another account's mail.                          *)
THEOREM OwnSnapshots == SwitchSpec => []SnapshotsHoldOwnMail
<1>1. Inv => SnapshotsHoldOwnMail
  BY DEF Inv
<1> QED
  BY <1>1, Invariance, PTL

(* The client in use is the active account's.                              *)
THEOREM MatchingClient == SwitchSpec => []ClientMatchesActive
<1>1. Inv => ClientMatchesActive
  BY DEF Inv
<1> QED
  BY <1>1, Invariance, PTL

(* However switches and fetches overlap, accounts do not mix.              *)
THEOREM KeptApart == SwitchSpec => []AccountsKeptApart
<1>1. Inv => AccountsKeptApart
  BY DEF Inv, AccountsKeptApart
<1> QED
  BY <1>1, Invariance, PTL

(* Once the newest switch has bound its target, no older one undoes that.  *)
LEMMA LastClickStep == Inv /\ LastClickWins /\ [SwitchNext]_vars => LastClickWins'
<1> SUFFICES ASSUME Inv, LastClickWins, [SwitchNext]_vars
             PROVE  LastClickWins'
  OBVIOUS
<1>t. TypeOK /\ TypeOK' /\ BoundShown'
  BY NextInv DEF Inv
<1>1. ASSUME NEW t \in Accounts, SwitchToAwaiting(t) \/ SwitchSeamless(t) \/ SwitchNetwork(t)
      PROVE  LastClickWins'
  <2>1. \E path \in {"network", "seamless"}, phase \in {"connect", "verify", "failed"} :
          /\ NewCall(t, path, phase) /\ generation < MaxSwitches
          /\ phase = "connect" => path = "network"
    BY <1>1 DEF SwitchToAwaiting, SwitchSeamless, SwitchNetwork, MaySwitchTo
  <2>2. switches'[generation'].phase \in {"connect", "verify", "failed"}
    BY <2>1, <1>t, NewCallFields DEF Inv
  <2> QED
    BY <2>2 DEF LastClickWins
<1>2. ASSUME NEW i \in Calls, SwitchStep(i)
      PROVE  LastClickWins'
  <2>1. /\ generation' = generation /\ switches[i] # None
        /\ switches[i].phase \in {"connect", "verify", "flush", "identities"}
        /\ \E phase \in Phases : GoTo(i, phase)
    BY <1>2 DEF SwitchStep, SwitchConnected, SwitchBroken, SwitchRefused, SwitchGivesUp, SwitchVerified,
         SwitchRejected, BindNetwork, BindSeamless, Bind, SwitchIdentities, SwitchThrows, At, Phases, Ended
  <2>2. generation \in Calls /\ generation > 0
    BY <2>1, <1>t, CallRecords DEF Calls
  <2>3. CASE i # generation
    <3>1. active' = active
      BY <1>2, <2>3 DEF SwitchStep, SwitchConnected, SwitchBroken, SwitchRefused, SwitchGivesUp,
           SwitchVerified, SwitchRejected, BindNetwork, BindSeamless, Bind, SwitchIdentities, SwitchThrows,
           Superseded, screen
    <3>2. switches'[generation] = switches[generation]
      BY <2>1, <2>2, <2>3, <1>t, GoToFields
    <3> QED
      BY <3>1, <3>2, <2>1 DEF LastClickWins
  <2>4. CASE i = generation
    <3>1. CASE SwitchIdentities(i)
      <4>1. active = switches[i].target /\ active' = active /\ GoTo(i, "done")
        BY <3>1, <2>1, <2>2, <2>4 DEF SwitchIdentities, At, LastClickWins
      <4>2. switches'[i].target = switches[i].target
        BY <4>1, <2>1, <1>t, GoToFields DEF Phases, Ended
      <4> QED
        BY <4>1, <4>2, <2>1, <2>4 DEF LastClickWins
    <3>2. CASE BindNetwork(i) \/ BindSeamless(i)
      <4>1. active' = switches[i].target
        BY <3>2 DEF BindNetwork, BindSeamless, Bind, Restore
      <4>2. switches'[i].target = switches[i].target
        BY <2>1, <1>t, GoToFields
      <4> QED
        BY <4>1, <4>2, <2>1, <2>4 DEF LastClickWins
    <3>3. CASE ~ (SwitchIdentities(i) \/ BindNetwork(i) \/ BindSeamless(i))
      <4>1. \E phase \in {"verify", "flush", "failed", "threw"} : GoTo(i, phase)
        BY <1>2, <2>4, <3>3 DEF SwitchStep, SwitchConnected, SwitchBroken, SwitchRefused, SwitchGivesUp,
             SwitchVerified, SwitchRejected, SwitchThrows, Superseded
      <4>2. switches'[i].phase \in {"verify", "flush", "failed", "threw"}
        BY <4>1, <2>1, <1>t, GoToFields DEF Phases, Ended
      <4> QED
        BY <4>2, <2>1, <2>4 DEF LastClickWins
    <3> QED
      BY <3>1, <3>2, <3>3
  <2> QED
    BY <2>3, <2>4
<1>3. CASE UNCHANGED <<active, switches, generation>>
  BY <1>3 DEF LastClickWins
<1> QED
  BY <1>1, <1>2, <1>3 DEF SwitchNext, FetchStart, FetchLand, calls, vars, screen

(* Only the last click is applied, however late older switches come back.  *)
THEOREM LastClick == SwitchSpec => []LastClickWins
<1>1. Init => LastClickWins
  BY DEF Init, LastClickWins
<1> QED
  BY <1>1, Invariance, LastClickStep, PTL DEF SwitchSpec

(* Stores marked as emptied are empty, nobody is bound to them, and their  *)
(* newest switch is going to fill them or has thrown at its flush: however *)
(* switches overlap, no account is shown over stores that the next switch  *)
(* would not save.                                                         *)
THEOREM Refilled == SwitchSpec => []StoresRefilled
<1>1. SwitchInv /\ [SwitchNext]_vars => SwitchInv'
  BY NextInv, EmptiedStep DEF SwitchInv
<1>2. SwitchInv => StoresRefilled
  BY DEF SwitchInv
<1> QED
  BY <1>1, <1>2, InitInv, PTL DEF SwitchSpec

-----------------------------------------------------------------------------
(* No switch loses mail: what it saves of the account on screen is no less *)
(* than what is saved of it already.                                       *)
HasMail(a) == cache[a] # None /\ cache[a].mail # {}

StoresBehind ==
  (page # "left" /\ ~ cleared /\ active # None /\ HasMail(active)) => stores.mail # {}

MailKept == \A a \in accounts' : HasMail(a) => HasMail(a)'

\* A snapshot taken by a switch replaces none with mail by one without.
LEMMA SnapshotKeepsMail ==
  ASSUME TypeOK, StoresBehind, page # "left", NEW a \in Accounts, HasMail(a)
  PROVE  SwitchSnapshot[a] # None /\ SwitchSnapshot[a].mail # {}
<1>1. stores # None /\ cache \in [Accounts -> Stores \cup {None}]
  BY NoneAssumption DEF TypeOK
<1>2. CASE ~ cleared /\ active = a
  BY <1>1, <1>2, AccountsAssumption DEF SwitchSnapshot, StoresBehind
<1>3. CASE cleared \/ active # a
  BY <1>1, <1>3 DEF SwitchSnapshot, HasMail
<1> QED
  BY <1>2, <1>3

\* What is restored is what was saved.
LEMMA RestoredBehind ==
  ASSUME NEW a \in Accounts, NEW saved, NEW st, NEW fs, Restore(a, saved, st, fs)
  PROVE  cache' = saved /\ StoresBehind'
  BY DEF Restore, StoresBehind, HasMail

\* A switch or fetch keeps the mail of every account that stays.
LEMMA MailStep == Inv /\ StoresBehind /\ [SwitchNext]_vars => StoresBehind' /\ MailKept
<1> SUFFICES ASSUME Inv, StoresBehind, [SwitchNext]_vars
             PROVE  StoresBehind' /\ MailKept
  OBVIOUS
<1>t. TypeOK /\ accounts' \subseteq Accounts /\ cache \in [Accounts -> Stores \cup {None}]
  <2>1. TypeOK /\ TypeOK'
    BY NextInv DEF Inv
  <2> QED
    BY <2>1 DEF TypeOK
<1>1. ASSUME NEW t \in Accounts, SwitchToAwaiting(t) \/ SwitchSeamless(t) \/ SwitchNetwork(t)
      PROVE  StoresBehind' /\ MailKept
  <2>1. CASE SwitchToAwaiting(t) \/ SwitchSeamless(t)
    BY <2>1 DEF SwitchToAwaiting, SwitchSeamless, MaySwitchTo, screen, StoresBehind, MailKept, HasMail
  <2>2. CASE SwitchNetwork(t)
    <3>1. page # "left" /\ cache' = SwitchSnapshot /\ cleared' = TRUE
      BY <2>2 DEF SwitchNetwork, MaySwitchTo
    <3> QED
      BY <3>1, <1>t, SnapshotKeepsMail DEF StoresBehind, MailKept, HasMail
  <2> QED
    BY <1>1, <2>1, <2>2
<1>2. ASSUME NEW i \in Calls, SwitchStep(i)
      PROVE  StoresBehind' /\ MailKept
  <2>0. switches[i] # None => switches[i].target \in Accounts
    BY <1>t, CallRecords
  <2>1. CASE \/ SwitchConnected(i) \/ SwitchBroken(i) \/ SwitchGivesUp(i) \/ SwitchVerified(i)
             \/ SwitchThrows(i)
    BY <2>1 DEF SwitchConnected, SwitchBroken, SwitchGivesUp, SwitchVerified, SwitchThrows, screen,
         StoresBehind, MailKept, HasMail
  <2>2. CASE SwitchRejected(i)
    BY <2>2 DEF SwitchRejected, StoresBehind, MailKept, HasMail
  <2>3. CASE SwitchIdentities(i)
    <3>1. stores'.mail = stores.mail /\ UNCHANGED <<active, cache, cleared, page>>
      BY <2>3, <1>t DEF SwitchIdentities, TypeOK, Stores
    <3> QED
      BY <3>1 DEF StoresBehind, MailKept, HasMail
  <2>4. CASE SwitchRefused(i)
    <3> DEFINE t == switches[i].target
               evicted == [cache EXCEPT ![t] = None]
    <3>1. /\ t \in Accounts /\ accounts' = accounts \ {t} /\ cache' = evicted
          /\ page' = "left" \/ \E a \in clients : Restore(a, evicted, stores, fetches)
      BY <2>0, <2>4 DEF SwitchRefused, At, Restore
    <3>2. StoresBehind'
      BY <3>1, <1>t, RestoredBehind DEF StoresBehind, TypeOK
    <3> QED
      BY <3>1, <3>2, <1>t DEF MailKept, HasMail
  <2>5. CASE BindNetwork(i)
    <3>1. Restore(switches[i].target, cache, stores, fetches)
      BY <2>5 DEF BindNetwork, Bind
    <3>2. switches[i] # None
      BY <2>5 DEF BindNetwork, At
    <3> QED
      BY <3>1, <3>2, <2>0, RestoredBehind DEF MailKept, HasMail
  <2>6. CASE BindSeamless(i)
    <3>1. Restore(switches[i].target, SwitchSnapshot, EmptyStores, Past(fetches))
      BY <2>6 DEF BindSeamless, Bind
    <3>2. switches[i] # None /\ page # "left"
      BY <2>6 DEF BindSeamless, At
    <3>3. cache' = SwitchSnapshot /\ StoresBehind'
      BY <3>1, <3>2, <2>0, RestoredBehind
    <3> QED
      BY <3>2, <3>3, <1>t, SnapshotKeepsMail DEF MailKept, HasMail
  <2> QED
    BY <1>2, <2>1, <2>2, <2>3, <2>4, <2>5, <2>6 DEF SwitchStep
<1>3. CASE FetchStart
  BY <1>3 DEF FetchStart, calls, StoresBehind, MailKept, HasMail
<1>4. ASSUME NEW f \in fetches, FetchLand(f)
      PROVE  StoresBehind' /\ MailKept
  <2>1. UNCHANGED <<active, cache, cleared, page>> /\ stores.mail \subseteq stores'.mail
    BY <1>4, <1>t DEF FetchLand, calls, TypeOK, Stores
  <2> QED
    BY <2>1 DEF StoresBehind, MailKept, HasMail
<1>5. CASE UNCHANGED vars
  BY <1>5 DEF vars, screen, calls, StoresBehind, MailKept, HasMail
<1> QED
  BY <1>1, <1>2, <1>3, <1>4, <1>5 DEF SwitchNext

(* However switches overlap, no account that stays loses the mail it had.  *)
THEOREM MailStays == SwitchSpec => MailNotLost
<1>1. Init => StoresBehind
  BY DEF Init, StoresBehind, HasMail
<1>2. StoresBehind /\ Inv /\ [SwitchNext]_vars =>
        [\A a \in accounts' :
           (cache[a] # None /\ cache[a].mail # {}) => (cache'[a] # None /\ cache'[a].mail # {})]_vars
  BY MailStep DEF MailKept, HasMail
<1> QED
  BY <1>1, <1>2, MailStep, Invariance, PTL DEF SwitchSpec, MailNotLost

-----------------------------------------------------------------------------
(* Sign-outs, removals, refused renewals and sign-ins, one after another   *)
(* and beside no switch (~ Overlapping), with fetches, identity requests   *)
(* and renewals that overlap everything.                                   *)

SignOutTypeOK ==
  /\ signOut \in [phase : {"idle", "hooks", "hooks all", "flush", "cleanup"},
                  account : Accounts \cup {None}, refused : Accounts \cup {None}]
  /\ signIn \in [phase : {"idle", "connecting", "loading"}, account : Accounts \cup {None}]
  /\ idLoads \subseteq Accounts /\ halted \subseteq Accounts
  /\ signIn # NoSignIn => signIn.phase # "idle" /\ signIn.account \in Accounts

OneAtATime ==
  /\ signOut # NoSignOut => ~ Switching /\ signIn = NoSignIn
  /\ signIn # NoSignIn => ~ Switching

(* Who signs out is on screen, and nobody follows before it is forgotten.  *)
SignOutOfActive ==
  page # "left" /\ signOut # NoSignOut =>
    signOut.phase # "idle" /\ signOut.account = active /\ active \in Accounts

(* The account on screen is registered, but between logout()'s teardown    *)
(* and what it shows next - which is never, if it has thrown at its flush. *)
ShownListed == page # "left" /\ signOut.phase # "flush" => active \in accounts \cup halted

(* So is the account that the newest switch is about to show.              *)
TargetListed ==
  (/\ page # "left" /\ generation > 0
   /\ switches[generation].phase \in {"connect", "verify", "flush", "identities"})
    => switches[generation].target \in accounts

(* A sign-in stays on the login page, and once it has put another account  *)
(* away nothing of that comes back before the new one is shown.            *)
PutAway ==
  (page # "left" /\ signIn # NoSignIn) =>
    /\ page = "login"
    /\ (signIn.phase = "loading" /\ signIn.account # active)
         => (stores.mail = {} /\ \A f \in fetches : f.epoch # "current")

Beside == SignOutTypeOK /\ OneAtATime /\ SignOutOfActive /\ ShownListed /\ TargetListed /\ PutAway
          /\ SignedOutForgotten

FullInv == Inv /\ Beside

\* While no switch is under way, none is about to bind.
LEMMA NoSwitch ==
  ASSUME TypeOK, ~ Switching
  PROVE  generation > 0 =>
           switches[generation].phase \notin {"connect", "verify", "flush", "identities"}
<1>1. generation > 0 => generation \in Calls /\ switches[generation] # None
  BY BoundAssumption DEF TypeOK, Calls
<1> QED
  BY <1>1 DEF Switching, Running, Ended

\* A step beside the switches keeps the invariant of the switches, if it leaves
\* nobody else's data where the account on screen may find it.
LEMMA BesideInv ==
  ASSUME Inv, ~ Switching, page # "left", UNCHANGED calls,
         accounts' \subseteq Accounts, clients' \subseteq Accounts,
         active' \in Accounts \cup {None}, client' \in Accounts \cup {None},
         page' # "left" => client' \in {active', None},
         stores' \in Stores, fetches' \subseteq Fetch,
         cache' \in [Accounts -> Stores \cup {None}], page' \in {"mail", "login", "left"},
         page' # "left" => stores'.mail \subseteq {active'},
         page' # "left" => \A f \in fetches' : f.epoch = "current" => f.owner = active',
         \A a \in Accounts : cache'[a] # None => cache'[a].mail \subseteq {a}
  PROVE  Inv'
<1>0. /\ switches' = switches /\ generation' = generation /\ cleared' = cleared
      /\ TypeOK /\ PhasePath
  BY DEF Inv, calls
<1>1. generation > 0 => switches[generation].phase \notin {"connect", "verify", "flush", "identities"}
  BY <1>0, NoSwitch
<1>3. TypeOK'
  BY <1>0 DEF TypeOK
<1>4. PhasePath' /\ NetworkEmptied' /\ BoundShown'
  BY <1>0, <1>1 DEF PhasePath, NetworkEmptied, BoundShown
<1>5. FetchesOwn' /\ OnlyActiveMailShown' /\ SnapshotsHoldOwnMail' /\ ClientMatchesActive'
  BY <1>0 DEF FetchesOwn, OnlyActiveMailShown, SnapshotsHoldOwnMail, ClientMatchesActive
<1> QED
  BY <1>3, <1>4, <1>5 DEF Inv

\* What the steps below start from.
LEMMA Facts ==
  ASSUME FullInv, page # "left"
  PROVE  /\ accounts \subseteq Accounts /\ clients \subseteq Accounts
         /\ active \in Accounts \cup {None} /\ client \in {active, None}
         /\ stores \in Stores /\ fetches \subseteq Fetch
         /\ cache \in [Accounts -> Stores \cup {None}] /\ page \in {"mail", "login"}
         /\ stores.mail \subseteq {active}
         /\ \A f \in fetches : f.epoch = "current" => f.owner = active
         /\ \A a \in Accounts : cache[a] # None => cache[a].mail \subseteq {a}
         /\ SignOutTypeOK /\ SignedOutForgotten
  BY DEF FullInv, Inv, TypeOK, FetchesOwn, OnlyActiveMailShown, SnapshotsHoldOwnMail, ClientMatchesActive,
         Beside

\* Steps of a switch that bind nothing: they move on, or give up.
LEMMA MoveOnBeside ==
  ASSUME FullInv, NEW i \in Calls, SwitchStep(i), UNCHANGED <<accounts, active, cache, rest>>,
         page' # "left" => page' = page
  PROVE  Beside'
<1>1. /\ switches[i] # None /\ page # "left" /\ generation' = generation
      /\ switches[i].phase \in {"connect", "verify", "flush", "identities"}
      /\ \E phase \in Phases : GoTo(i, phase)
  BY DEF SwitchStep, SwitchConnected, SwitchBroken, SwitchRefused, SwitchGivesUp, SwitchVerified,
         SwitchRejected, BindNetwork, BindSeamless, Bind, SwitchIdentities, SwitchThrows, At, Phases, Ended
<1>2. TypeOK /\ Switching /\ generation \in Calls
  BY <1>1, CallRecords DEF FullInv, Inv, Switching, Running, Ended
<1>3. signOut = NoSignOut /\ signIn = NoSignIn
  BY <1>2 DEF FullInv, Beside, OneAtATime
<1>4. signOut' = signOut /\ signIn' = signIn /\ idLoads' = idLoads /\ halted' = halted
  BY DEF rest
<1>5. SignOutTypeOK' /\ OneAtATime' /\ SignOutOfActive' /\ PutAway'
  BY <1>3, <1>4 DEF FullInv, Beside, SignOutTypeOK, OneAtATime, SignOutOfActive, PutAway
<1>6. ShownListed' /\ SignedOutForgotten'
  BY <1>1, <1>3, <1>4 DEF FullInv, Beside, ShownListed, SignedOutForgotten
<1>7. TargetListed'
  <2>1. switches'[generation].target = switches[generation].target
    BY <1>1, <1>2, GoToFields
  <2>2. CASE i = generation
    BY <2>1, <2>2, <1>1 DEF FullInv, Beside, TargetListed
  <2>3. CASE i # generation
    BY <2>3, <1>1, <1>2, GoToFields DEF FullInv, Beside, TargetListed
  <2> QED
    BY <2>2, <2>3
<1> QED
  BY <1>5, <1>6, <1>7 DEF Beside

\* Steps of the newest switch that show an account, which is registered.
LEMMA ShowBeside ==
  ASSUME FullInv, NEW i \in Calls, i = generation, generation' = generation, Switching, page # "left",
         NEW phase \in {"done", "identities", "failed"}, switches[i] # None, GoTo(i, phase),
         UNCHANGED rest, accounts' \subseteq Accounts,
         \A a \in Accounts \ (accounts' \cup halted') : cache'[a] = None,
         page' # "left" => active' \in accounts' /\ (phase = "identities" => switches[i].target = active')
  PROVE  Beside'
<1>3. signOut = NoSignOut /\ signIn = NoSignIn
  BY DEF FullInv, Beside, OneAtATime
<1>4. signOut' = signOut /\ signIn' = signIn /\ idLoads' = idLoads /\ halted' = halted
  BY DEF rest
<1>5. SignOutTypeOK' /\ OneAtATime' /\ SignOutOfActive' /\ PutAway'
  BY <1>3, <1>4 DEF FullInv, Beside, SignOutTypeOK, OneAtATime, SignOutOfActive, PutAway
<1>6. ShownListed' /\ SignedOutForgotten'
  BY <1>3, <1>4 DEF ShownListed, SignedOutForgotten
<1>7. TargetListed'
  <2>1. switches'[i].target = switches[i].target /\ switches'[i].phase = phase
    BY GoToFields DEF FullInv, Inv, Phases, Ended
  <2> QED
    BY <2>1 DEF TargetListed
<1> QED
  BY <1>5, <1>6, <1>7 DEF Beside

\* What a switch saves while it has an account on screen is of a registered one.
LEMMA SnapshotListed ==
  ASSUME FullInv, page # "left", signOut = NoSignOut
  PROVE  \A a \in Accounts \ (accounts \cup halted) : SwitchSnapshot[a] = None
<1>1. active \in accounts \cup halted
  BY DEF FullInv, Beside, ShownListed, NoSignOut
<1>2. \A a \in Accounts \ (accounts \cup halted) : cache[a] = None
  BY DEF FullInv, Beside, SignedOutForgotten
<1>3. cache \in [Accounts -> Stores \cup {None}]
  BY Facts
<1> QED
  BY <1>1, <1>2, <1>3 DEF SwitchSnapshot

\* Switches and fetches leave the rest as it should be.
LEMMA SwitchBeside ==
  ASSUME FullInv, ~ Overlapping, SwitchNext
  PROVE  Beside'
<1>f. TypeOK /\ Beside
  BY DEF FullInv, Inv
<1>1. ASSUME NEW t \in Accounts, SwitchToAwaiting(t) \/ SwitchSeamless(t) \/ SwitchNetwork(t)
      PROVE  Beside'
  <2>1. /\ signOut = NoSignOut /\ signIn = NoSignIn /\ page # "left" /\ t \in accounts
        /\ UNCHANGED <<accounts, active, rest>>
        /\ page' # "left" => page' = page
    BY <1>1 DEF SwitchToAwaiting, SwitchSeamless, SwitchNetwork, MaySwitchTo, screen
  <2>2. signOut' = signOut /\ signIn' = signIn /\ idLoads' = idLoads /\ halted' = halted
    BY <2>1 DEF rest
  <2>3. SignOutTypeOK' /\ OneAtATime' /\ SignOutOfActive' /\ PutAway'
    BY <2>1, <2>2, <1>f DEF Beside, SignOutTypeOK, OneAtATime, SignOutOfActive, PutAway
  <2>4. ShownListed'
    BY <2>1, <2>2, <1>f DEF Beside, ShownListed
  <2>5. SignedOutForgotten'
    <3>1. cache' = cache \/ cache' = SwitchSnapshot
      BY <1>1 DEF SwitchToAwaiting, SwitchSeamless, SwitchNetwork, screen
    <3> QED
      BY <2>1, <2>2, <3>1, <1>f, SnapshotListed DEF Beside, SignedOutForgotten
  <2>6. TargetListed'
    <3>1. \E path \in {"network", "seamless"}, phase \in {"connect", "verify", "failed"} :
            /\ NewCall(t, path, phase) /\ generation < MaxSwitches
            /\ phase = "connect" => path = "network"
      BY <1>1 DEF SwitchToAwaiting, SwitchSeamless, SwitchNetwork, MaySwitchTo
    <3>2. switches'[generation'].target = t
      BY <3>1, NewCallFields DEF FullInv, Inv
    <3> QED
      BY <3>2, <2>1 DEF TargetListed
  <2> QED
    BY <2>3, <2>4, <2>5, <2>6 DEF Beside
<1>2. ASSUME NEW i \in Calls, SwitchStep(i)
      PROVE  Beside'
  <2>0. /\ switches[i] # None /\ page # "left"
        /\ switches[i].phase \in {"connect", "verify", "flush", "identities"}
    BY <1>2 DEF SwitchStep, SwitchConnected, SwitchBroken, SwitchRefused, SwitchGivesUp, SwitchVerified,
       SwitchRejected, BindNetwork, BindSeamless, Bind, SwitchIdentities, SwitchThrows, At
  <2>r. switches[i].target \in Accounts /\ Switching /\ i \in Calls /\ i > 0
    BY <2>0, <1>f, CallRecords DEF Switching, Running, Ended, Calls
  <2>l. i = generation => switches[i].target \in accounts
    BY <2>0, <2>r, <1>f DEF Beside, TargetListed
  <2>s. signOut = NoSignOut
    BY <2>r, <1>f DEF Beside, OneAtATime
  <2>c. \A a \in Accounts \ (accounts \cup halted) : cache[a] = None
    BY <1>f DEF Beside, SignedOutForgotten
  <2>t. cache \in [Accounts -> Stores \cup {None}] /\ accounts \subseteq Accounts
    BY <1>f DEF TypeOK
  <2>1. CASE \/ SwitchConnected(i) \/ SwitchBroken(i) \/ SwitchGivesUp(i) \/ SwitchVerified(i)
             \/ SwitchIdentities(i) \/ SwitchThrows(i)
    <3>1. UNCHANGED <<accounts, active, cache, page, rest>>
      BY <2>1 DEF SwitchConnected, SwitchBroken, SwitchGivesUp, SwitchVerified, SwitchIdentities,
         SwitchThrows, screen
    <3> QED
      BY <1>2, <3>1, MoveOnBeside
  <2>2. CASE SwitchRejected(i)
    <3>1. /\ i = generation /\ generation' = generation /\ GoTo(i, "failed") /\ page' = "left"
          /\ UNCHANGED <<accounts, cache, rest>>
      BY <2>2 DEF SwitchRejected, Superseded
    <3>2. halted' = halted
      BY <3>1 DEF rest
    <3> QED
      BY <3>1, <3>2, <2>0, <2>r, <2>c, <2>t, ShowBeside
  <2>3. CASE SwitchRefused(i)
    <3> DEFINE t == switches[i].target
               evicted == [cache EXCEPT ![t] = None]
    <3>1. /\ i = generation /\ generation' = generation /\ GoTo(i, "failed")
          /\ accounts' = accounts \ {t} /\ cache' = evicted /\ UNCHANGED rest
          /\ page' # "left" => active' \in accounts'
      BY <2>3 DEF SwitchRefused, Superseded, Restore
    <3>2. \A a \in Accounts \ (accounts' \cup halted') : cache'[a] = None
      BY <3>1, <2>c, <2>t, <2>r DEF rest
    <3>3. accounts' \subseteq Accounts
      BY <3>1, <2>t
    <3> QED
      BY <3>1, <3>2, <3>3, <2>0, <2>r, ShowBeside
  <2>4. CASE BindNetwork(i) \/ BindSeamless(i)
    <3>1. /\ i = generation /\ generation' = generation
          /\ \E phase \in {"done", "identities"} : GoTo(i, phase)
          /\ cache' = cache \/ cache' = SwitchSnapshot
          /\ active' = switches[i].target /\ UNCHANGED <<accounts, page, rest>>
      BY <2>4 DEF BindNetwork, BindSeamless, Bind, Superseded, Restore
    <3>2. \A a \in Accounts \ (accounts' \cup halted') : cache'[a] = None
      BY <3>1, <2>0, <2>c, <2>s, SnapshotListed DEF rest
    <3> QED
      BY <3>1, <3>2, <2>0, <2>r, <2>l, <2>t, ShowBeside
  <2> QED
    BY <1>2, <2>1, <2>2, <2>3, <2>4 DEF SwitchStep
<1>3. ASSUME UNCHANGED <<accounts, active, cache, page, calls, rest>>,
             signIn # NoSignIn => fetches' \subseteq fetches,
             (\A f \in fetches : f.epoch # "current") => stores' = stores
      PROVE  Beside'
  <2>1. /\ signOut' = signOut /\ signIn' = signIn /\ idLoads' = idLoads /\ halted' = halted
        /\ switches' = switches /\ generation' = generation
    BY <1>3 DEF rest, calls
  <2>2. SignOutTypeOK' /\ OneAtATime' /\ SignOutOfActive' /\ ShownListed' /\ TargetListed'
        /\ SignedOutForgotten'
    BY <1>3, <2>1, <1>f DEF Beside, SignOutTypeOK, OneAtATime, Switching, Running, SignOutOfActive,
       ShownListed, TargetListed, SignedOutForgotten
  <2>3. PutAway'
    BY <1>3, <2>1, <1>f DEF Beside, PutAway
  <2> QED
    BY <2>2, <2>3 DEF Beside
<1>4. CASE FetchStart
  <2>1. signIn = NoSignIn
    BY <1>4, <1>f DEF FetchStart, Beside, PutAway
  <2> QED
    BY <1>3, <1>4, <2>1 DEF FetchStart
<1>5. CASE \E f \in fetches : FetchLand(f)
  BY <1>3, <1>5 DEF FetchLand
<1> QED
  BY <1>1, <1>2, <1>4, <1>5 DEF SwitchNext

\* With no switch under way, what is left to show of a step beside switches.
LEMMA QuietBeside ==
  ASSUME TypeOK, ~ Switching, UNCHANGED calls, SignOutTypeOK',
         signOut' = NoSignOut \/ signIn' = NoSignIn,
         SignOutOfActive', ShownListed', PutAway', SignedOutForgotten'
  PROVE  Beside'
<1>1. switches' = switches /\ generation' = generation
  BY DEF calls
<1>2. OneAtATime'
  BY <1>1 DEF OneAtATime, Switching, Running
<1>3. TargetListed'
  BY <1>1, NoSwitch DEF TargetListed
<1> QED
  BY <1>2, <1>3 DEF Beside

\* logout() and logoutAll() begin.
LEMMA BeginBeside ==
  ASSUME FullInv, ~ Overlapping, page # "left", NEW phase \in {"hooks", "hooks all"},
         NEW refused \in Accounts \cup {None}, BeginSignOut(phase, refused),
         UNCHANGED <<accounts, clients, screen, calls, page, signIn, idLoads, halted>>
  PROVE  FullInv'
<1>f. TypeOK /\ Beside
  BY DEF FullInv, Inv
<1>1. ~ Switching /\ signOut = NoSignOut /\ signIn = NoSignIn
  BY DEF BeginSignOut, Interfere, Quiet
<1>2. signOut' = [phase |-> phase, account |-> active, refused |-> refused]
  BY DEF BeginSignOut
<1>3. /\ accounts' = accounts /\ clients' = clients /\ active' = active /\ client' = client
      /\ stores' = stores /\ fetches' = fetches /\ cache' = cache /\ page' = page
      /\ signIn' = signIn /\ idLoads' = idLoads /\ halted' = halted
  BY DEF screen
<1>4. Inv'
  BY <1>1, <1>3, Facts, BesideInv DEF FullInv
<1>a. active \in Accounts
  BY <1>1, <1>f DEF Beside, ShownListed, SignOutTypeOK, NoSignOut, TypeOK
<1>5. SignOutTypeOK' /\ SignOutOfActive'
  BY <1>1, <1>2, <1>3, <1>a, Facts DEF SignOutTypeOK, SignOutOfActive
<1>6. ShownListed' /\ PutAway' /\ SignedOutForgotten'
  BY <1>1, <1>2, <1>3, <1>f DEF Beside, ShownListed, PutAway, SignedOutForgotten, NoSignOut
<1> QED
  BY <1>1, <1>3, <1>4, <1>5, <1>6, <1>f, QuietBeside DEF FullInv

\* The teardown of logout(): the account is forgotten, and still on screen.
LEMMA TeardownBeside ==
  ASSUME FullInv, LogoutTeardown \/ LogoutAllTeardown
  PROVE  FullInv'
<1>f. TypeOK /\ Beside /\ page # "left" /\ signOut # NoSignOut
  <2>1. signOut.phase # "idle" /\ page # "left"
    BY DEF LogoutTeardown, LogoutAllTeardown
  <2>2. NoSignOut.phase = "idle"
    BY DEF NoSignOut
  <2> QED
    BY <2>1, <2>2 DEF FullInv, Inv
<1>1. ~ Switching /\ signIn = NoSignIn /\ signOut.account = active
      /\ active \in accounts \cup halted
  <2>1. signOut.phase # "flush"
    BY DEF LogoutTeardown, LogoutAllTeardown
  <2> QED
    BY <2>1, <1>f DEF Beside, OneAtATime, SignOutOfActive, ShownListed
<1>2. /\ client' = None /\ signIn' = signIn /\ idLoads' = idLoads /\ UNCHANGED calls
      /\ active' = active /\ stores' = stores /\ fetches' = fetches /\ page' = page
  BY DEF LogoutTeardown, LogoutAllTeardown
<1>t. /\ accounts \subseteq Accounts /\ clients \subseteq Accounts
      /\ cache \in [Accounts -> Stores \cup {None}] /\ active # None
      /\ SignOutTypeOK /\ SignedOutForgotten
  <2>1. accounts \cup halted \subseteq Accounts
    BY <1>f, Facts DEF SignOutTypeOK
  <2>2. active \in Accounts
    BY <2>1, <1>1
  <2> QED
    BY <2>2, <1>f, Facts, AccountsAssumption
<1>3. CASE LogoutTeardown
  <2>1. /\ clients' = clients \ {active} /\ accounts' = accounts \ {active}
        /\ cache' = [cache EXCEPT ![active] = None]
        /\ signOut' = [signOut EXCEPT !.phase = "flush"] /\ halted' = halted \ {active}
    BY <1>3, <1>1, <1>t DEF LogoutTeardown
  <2>2. Inv'
    BY <2>1, <1>f, <1>1, <1>2, <1>t, Facts, BesideInv DEF FullInv
  <2>3. SignOutTypeOK' /\ SignOutOfActive' /\ ShownListed' /\ PutAway'
    BY <2>1, <1>1, <1>2, <1>t DEF SignOutTypeOK, SignOutOfActive, ShownListed, PutAway
  <2>4. SignedOutForgotten'
    BY <2>1, <1>t DEF SignedOutForgotten
  <2> QED
    BY <2>2, <2>3, <2>4, <1>1, <1>2, <1>f, QuietBeside DEF FullInv
<1>4. CASE LogoutAllTeardown
  <2>1. /\ clients' = {} /\ accounts' = accounts
        /\ cache' = [a \in Accounts |-> None]
        /\ signOut' = [signOut EXCEPT !.phase = "cleanup"] /\ halted' = halted
    BY <1>4 DEF LogoutAllTeardown
  <2>2. Inv'
    BY <2>1, <1>f, <1>1, <1>2, <1>t, Facts, BesideInv DEF FullInv
  <2>3. SignOutTypeOK' /\ SignOutOfActive' /\ ShownListed' /\ PutAway'
    BY <2>1, <1>1, <1>2, <1>t DEF SignOutTypeOK, SignOutOfActive, ShownListed, PutAway
  <2>4. SignedOutForgotten'
    BY <2>1 DEF SignedOutForgotten
  <2> QED
    BY <2>2, <2>3, <2>4, <1>1, <1>2, <1>f, QuietBeside DEF FullInv
<1> QED
  BY <1>3, <1>4

\* A sign-out throws at its flush: its account stays active, and is noted as halted.
LEMMA ThrowsBeside ==
  ASSUME FullInv, LogoutThrows \/ LogoutAllThrows
  PROVE  FullInv'
<1>f. TypeOK /\ Beside /\ page # "left" /\ signOut # NoSignOut
  <2>1. signOut.phase # "idle" /\ page # "left"
    BY DEF LogoutThrows, LogoutAllThrows
  <2>2. NoSignOut.phase = "idle"
    BY DEF NoSignOut
  <2> QED
    BY <2>1, <2>2 DEF FullInv, Inv
<1>1. ~ Switching /\ signIn = NoSignIn /\ signOut.account = active /\ signOut' = NoSignOut
  BY <1>f DEF Beside, OneAtATime, SignOutOfActive, LogoutThrows, LogoutAllThrows
<1>2. /\ accounts' = accounts /\ clients' = clients /\ active' = active /\ client' = client
      /\ stores' = stores /\ fetches' = fetches /\ cache' = cache /\ page' = page
      /\ signIn' = signIn /\ idLoads' = idLoads /\ UNCHANGED calls
  BY DEF LogoutThrows, LogoutAllThrows, screen
<1>h. halted \subseteq halted' /\ halted' \subseteq Accounts
  <2>1. halted \subseteq Accounts /\ active \in Accounts \cup {None}
    BY <1>f DEF Beside, SignOutTypeOK, TypeOK
  <2> QED
    BY <2>1, <1>1 DEF LogoutThrows, LogoutAllThrows
<1>3. Inv'
  BY <1>f, <1>1, <1>2, Facts, BesideInv DEF FullInv
<1>4. SignOutTypeOK' /\ SignOutOfActive' /\ PutAway'
  BY <1>f, <1>1, <1>2, <1>h DEF Beside, SignOutTypeOK, SignOutOfActive, PutAway, NoSignOut
<1>5. ShownListed'
  <2>1. CASE LogoutThrows
    <3>1. active \in accounts' \cup halted'
      BY <2>1, <1>f, <1>1, <1>2, AccountsAssumption DEF LogoutThrows, Beside, SignOutOfActive
    <3> QED
      BY <3>1, <1>2 DEF ShownListed
  <2>2. CASE LogoutAllThrows
    BY <2>2, <1>f, <1>2, <1>h DEF LogoutAllThrows, Beside, ShownListed
  <2> QED
    BY <2>1, <2>2
<1>6. SignedOutForgotten'
  BY <1>f, <1>2, <1>h DEF Beside, SignedOutForgotten
<1> QED
  BY <1>1, <1>2, <1>3, <1>4, <1>5, <1>6, <1>f, QuietBeside DEF FullInv

\* A sign-out ends: with another account on screen, or with the page left.
LEMMA SignOutEndsBeside ==
  ASSUME FullInv, FullLogout \/ \E n \in Accounts : LogoutShowNext(n) \/ LogoutReload(n)
  PROVE  FullInv'
<1>f. TypeOK /\ Beside /\ page # "left" /\ signOut # NoSignOut
  BY DEF FullInv, Inv, FullLogout, LogoutShowNext, LogoutReload, NoSignOut
<1>1. ~ Switching /\ signIn = NoSignIn /\ signOut' = NoSignOut
  BY <1>f DEF Beside, OneAtATime, FullLogout, LogoutShowNext, LogoutReload
<1>2. signIn' = signIn /\ UNCHANGED calls
  BY DEF FullLogout, LogoutShowNext, LogoutReload
<1>t. /\ accounts \subseteq Accounts /\ clients \subseteq Accounts /\ fetches \in SUBSET Fetch
      /\ cache \in [Accounts -> Stores \cup {None}] /\ client \in Accounts \cup {None}
      /\ \A a \in Accounts : cache[a] # None => cache[a].mail \subseteq {a}
      /\ SignOutTypeOK /\ SignedOutForgotten
  BY <1>f, Facts
<1>p. Past(fetches) \in SUBSET Fetch /\ \A f \in Past(fetches) : f.epoch = "past"
  BY <1>t, PastFetches
<1>e. EmptyStores \in Stores /\ EmptyStores.mail = {}
  BY DEF EmptyStores, Stores
<1>s. SignOutTypeOK' /\ SignOutOfActive' /\ PutAway'
  <2>1. idLoads' \subseteq Accounts /\ halted' = halted
    BY <1>t DEF FullLogout, LogoutShowNext, LogoutReload, SignOutTypeOK
  <2> QED
    BY <2>1, <1>1, <1>2, <1>t DEF SignOutTypeOK, SignOutOfActive, PutAway, NoSignOut
<1>3. CASE FullLogout
  <2>1. /\ accounts' = {} /\ clients' = {} /\ active' = None /\ client' = None
        /\ stores' = EmptyStores /\ fetches' = Past(fetches) /\ cache' = [a \in Accounts |-> None]
        /\ page' = "left" /\ halted' = halted
    BY <1>3 DEF FullLogout
  <2>2. Inv'
    BY <2>1, <1>f, <1>1, <1>2, <1>p, <1>e, BesideInv DEF FullInv
  <2>3. ShownListed' /\ SignedOutForgotten'
    BY <2>1 DEF ShownListed, SignedOutForgotten
  <2> QED
    BY <2>2, <2>3, <1>s, <1>1, <1>2, <1>f, QuietBeside DEF FullInv
<1>4. ASSUME NEW n \in Accounts, LogoutReload(n)
      PROVE  FullInv'
  <2>1. /\ accounts' = accounts /\ clients' = clients /\ active' = n /\ client' = client
        /\ stores' = EmptyStores /\ fetches' = Past(fetches) /\ cache' = cache /\ page' = "left"
        /\ halted' = halted
    BY <1>4 DEF LogoutReload
  <2>2. Inv'
    BY <2>1, <1>f, <1>1, <1>2, <1>p, <1>e, <1>t, BesideInv DEF FullInv
  <2>3. ShownListed' /\ SignedOutForgotten'
    BY <2>1, <1>t DEF ShownListed, SignedOutForgotten
  <2> QED
    BY <2>2, <2>3, <1>s, <1>1, <1>2, <1>f, QuietBeside DEF FullInv
<1>5. ASSUME NEW n \in Accounts, LogoutShowNext(n)
      PROVE  FullInv'
  <2>1. /\ accounts' = accounts /\ clients' = clients /\ active' = n /\ client' = n /\ n \in accounts
        /\ cache' = cache /\ page' = page /\ halted' = halted
        /\ stores' = IF cache[n] # None THEN cache[n] ELSE EmptyStores
        /\ fetches' = IF cache[n] # None THEN Past(fetches) ELSE StartFetch(Past(fetches), n)
    BY <1>5 DEF LogoutShowNext
  <2>2. stores' \in Stores /\ stores'.mail \subseteq {n}
    BY <2>1, <1>t, <1>e
  <2>3. fetches' \subseteq Fetch /\ \A f \in fetches' : f.epoch = "current" => f.owner = n
    BY <2>1, <1>p DEF StartFetch, Fetch
  <2>4. Inv'
    BY <2>1, <2>2, <2>3, <1>f, <1>1, <1>2, <1>t, BesideInv DEF FullInv, TypeOK
  <2>5. ShownListed' /\ SignedOutForgotten'
    BY <2>1, <1>t DEF ShownListed, SignedOutForgotten
  <2> QED
    BY <2>4, <2>5, <1>s, <1>1, <1>2, <1>f, QuietBeside DEF FullInv
<1> QED
  BY <1>3, <1>4, <1>5

\* An account in the background is forgotten.
LEMMA ForgetBeside ==
  ASSUME FullInv, ~ Overlapping, page # "left", NEW a \in Accounts, a # active, Interfere, Forget(a),
         UNCHANGED <<calls, page, signIn, idLoads, halted>>
  PROVE  FullInv'
<1>f. TypeOK /\ Beside
  BY DEF FullInv, Inv
<1>1. ~ Switching /\ signOut = NoSignOut /\ signIn = NoSignIn
  BY DEF Interfere, Quiet
<1>2. /\ clients' = clients \ {a} /\ cache' = [cache EXCEPT ![a] = None]
      /\ stores' = [stores EXCEPT !.mail = @ \ {a}] /\ accounts' = accounts \ {a}
      /\ active' = active /\ client' = client /\ fetches' = fetches /\ signOut' = signOut
      /\ page' = page /\ signIn' = signIn /\ idLoads' = idLoads /\ halted' = halted
  BY DEF Forget
<1>t. /\ accounts \subseteq Accounts /\ clients \subseteq Accounts /\ stores \in Stores
      /\ cache \in [Accounts -> Stores \cup {None}] /\ SignOutTypeOK /\ SignedOutForgotten
  BY Facts
<1>3. stores' \in Stores /\ stores'.mail \subseteq stores.mail
  BY <1>2, <1>t DEF Stores
<1>4. /\ cache' \in [Accounts -> Stores \cup {None}]
      /\ \A b \in Accounts : cache'[b] = IF b = a THEN None ELSE cache[b]
  BY <1>2, <1>t
<1>5. Inv'
  BY <1>1, <1>2, <1>3, <1>4, Facts, BesideInv DEF FullInv
<1>6. SignOutTypeOK' /\ SignOutOfActive' /\ PutAway'
  BY <1>1, <1>2, <1>t DEF SignOutTypeOK, SignOutOfActive, PutAway
<1>7. ShownListed' /\ SignedOutForgotten'
  BY <1>1, <1>2, <1>4, <1>f DEF Beside, ShownListed, SignedOutForgotten
<1> QED
  BY <1>1, <1>2, <1>5, <1>6, <1>7, <1>f, QuietBeside DEF FullInv

\* A sign-in: it begins, fails, puts the account on screen away, and is shown.
LEMMA LoginBeside ==
  ASSUME FullInv, ~ Overlapping, NEW a \in Accounts, Login(a)
  PROVE  FullInv'
<1>f. TypeOK /\ Beside
  BY DEF FullInv, Inv
<1>1. ~ Switching /\ signOut = NoSignOut /\ page = "login"
  BY DEF Login, Interfere, Quiet
<1>2. signIn' = [phase |-> "connecting", account |-> a]
  BY DEF Login
<1>3. /\ accounts' = accounts /\ clients' = clients /\ active' = active /\ client' = client
      /\ stores' = stores /\ fetches' = fetches /\ cache' = cache /\ page' = page
      /\ signOut' = signOut /\ idLoads' = idLoads /\ UNCHANGED calls /\ halted' = halted
  BY DEF screen, Login
<1>4. Inv'
  BY <1>1, <1>3, Facts, BesideInv DEF FullInv
<1>5. SignOutTypeOK' /\ SignOutOfActive'
  BY <1>1, <1>2, <1>3, Facts DEF SignOutTypeOK, SignOutOfActive
<1>6. ShownListed' /\ PutAway' /\ SignedOutForgotten'
  BY <1>1, <1>2, <1>3, <1>f DEF Beside, ShownListed, PutAway, SignedOutForgotten
<1> QED
  BY <1>1, <1>3, <1>4, <1>5, <1>6, <1>f, QuietBeside DEF FullInv

\* A record with another phase than "idle" is no NoSignIn.
LEMMA SigningInFacts ==
  ASSUME FullInv, page # "left", signIn.phase # "idle"
  PROVE  /\ signIn # NoSignIn /\ signIn.account \in Accounts
         /\ ~ Switching /\ signOut = NoSignOut /\ page = "login"
         /\ active \in accounts \cup halted
<1>1. signIn # NoSignIn
  BY DEF NoSignIn
<1>2. ~ Switching /\ signOut = NoSignOut /\ page = "login" /\ signIn.account \in Accounts
  BY <1>1 DEF FullInv, Beside, OneAtATime, PutAway, SignOutTypeOK
<1>3. active \in accounts \cup halted
  BY <1>2 DEF FullInv, Beside, ShownListed, NoSignOut
<1> QED
  BY <1>1, <1>2, <1>3

\* A sign-in fails: the client is gone, the account on screen stays.
LEMMA LoginFailedBeside ==
  ASSUME FullInv, LoginFailed
  PROVE  FullInv'
<1>f. TypeOK /\ Beside /\ page # "left" /\ signIn.phase # "idle"
  BY DEF FullInv, Inv, LoginFailed
<1>1. ~ Switching /\ signOut = NoSignOut
  BY <1>f, SigningInFacts
<1>2. /\ signIn' = NoSignIn /\ client' = None
      /\ accounts' = accounts /\ clients' = clients /\ active' = active
      /\ stores' = stores /\ fetches' = fetches /\ cache' = cache /\ page' = page
      /\ signOut' = signOut /\ idLoads' = idLoads /\ UNCHANGED calls /\ halted' = halted
  BY DEF LoginFailed
<1>3. Inv'
  BY <1>f, <1>1, <1>2, Facts, BesideInv DEF FullInv
<1>4. SignOutTypeOK' /\ SignOutOfActive'
  BY <1>f, <1>1, <1>2, Facts DEF SignOutTypeOK, SignOutOfActive, NoSignIn
<1>5. ShownListed' /\ PutAway' /\ SignedOutForgotten'
  BY <1>1, <1>2, <1>f DEF Beside, ShownListed, PutAway, SignedOutForgotten
<1> QED
  BY <1>1, <1>2, <1>3, <1>4, <1>5, <1>f, QuietBeside DEF FullInv

\* A sign-in is connected: another account's data is put away under its own name.
LEMMA LoginConnectedBeside ==
  ASSUME FullInv, LoginConnected
  PROVE  FullInv'
<1>f. TypeOK /\ Beside /\ page # "left" /\ signIn.phase = "connecting"
  BY DEF FullInv, Inv, LoginConnected
<1>1. /\ ~ Switching /\ signOut = NoSignOut /\ page = "login"
      /\ active \in accounts \cup halted /\ signIn # NoSignIn /\ signIn.account \in Accounts
  BY <1>f, SigningInFacts
<1>2. /\ signIn' = [signIn EXCEPT !.phase = "loading"]
      /\ accounts' = accounts /\ clients' = clients /\ active' = active /\ client' = client
      /\ page' = page /\ signOut' = signOut /\ idLoads' = idLoads /\ UNCHANGED calls /\ halted' = halted
  BY DEF LoginConnected
<1>t. /\ accounts \subseteq Accounts /\ stores \in Stores /\ fetches \in SUBSET Fetch
      /\ cache \in [Accounts -> Stores \cup {None}] /\ SignOutTypeOK /\ SignedOutForgotten
      /\ stores.mail \subseteq {active}
      /\ \A a \in Accounts : cache[a] # None => cache[a].mail \subseteq {a}
  BY <1>f, Facts
<1>a. active \in Accounts
  BY <1>1, <1>t DEF SignOutTypeOK
<1>i. /\ signIn'.phase = "loading" /\ signIn'.account = signIn.account
      /\ signIn' \in [phase : {"idle", "connecting", "loading"}, account : Accounts \cup {None}]
  BY <1>2, <1>t DEF SignOutTypeOK
<1>3. SignOutTypeOK' /\ SignOutOfActive' /\ ShownListed'
  BY <1>1, <1>2, <1>i, <1>t, <1>f DEF SignOutTypeOK, SignOutOfActive, ShownListed, Beside
<1>4. CASE active # signIn.account
  <2>1. /\ cache' = [cache EXCEPT ![active] = stores]
        /\ stores' = EmptyStores /\ fetches' = Past(fetches)
    BY <1>4, <1>a DEF LoginConnected
  <2>2. /\ Past(fetches) \in SUBSET Fetch /\ \A f \in Past(fetches) : f.epoch = "past"
        /\ EmptyStores \in Stores /\ EmptyStores.mail = {}
    BY <1>t, PastFetches DEF EmptyStores, Stores
  <2>3. /\ cache' \in [Accounts -> Stores \cup {None}]
        /\ \A a \in Accounts : cache'[a] = IF a = active THEN stores ELSE cache[a]
    BY <2>1, <1>t
  <2>4. Inv'
    BY <2>1, <2>2, <2>3, <1>f, <1>1, <1>2, <1>t, Facts, BesideInv DEF FullInv
  <2>5. PutAway' /\ SignedOutForgotten'
    BY <2>1, <2>2, <2>3, <1>1, <1>2, <1>t DEF PutAway, SignedOutForgotten
  <2> QED
    BY <2>4, <2>5, <1>1, <1>2, <1>3, <1>f, QuietBeside DEF FullInv
<1>5. CASE active = signIn.account
  <2>1. cache' = cache /\ stores' = stores /\ fetches' = fetches
    BY <1>5 DEF LoginConnected
  <2>2. Inv'
    BY <2>1, <1>f, <1>1, <1>2, Facts, BesideInv DEF FullInv
  <2>3. PutAway' /\ SignedOutForgotten'
    BY <2>1, <1>5, <1>1, <1>2, <1>i, <1>t DEF PutAway, SignedOutForgotten
  <2> QED
    BY <2>2, <2>3, <1>1, <1>2, <1>3, <1>f, QuietBeside DEF FullInv
<1> QED
  BY <1>4, <1>5

\* A sign-in ends: its account is shown, with nothing of another's on screen or on its way.
LEMMA LoginFinishedBeside ==
  ASSUME FullInv, LoginFinished
  PROVE  FullInv'
<1> DEFINE a == signIn.account
<1>f. TypeOK /\ Beside /\ page # "left" /\ signIn.phase = "loading"
  BY DEF FullInv, Inv, LoginFinished
<1>1. ~ Switching /\ signOut = NoSignOut /\ signIn # NoSignIn /\ a \in Accounts
  BY <1>f, SigningInFacts
<1>2. /\ accounts' = accounts \cup {a} /\ clients' = clients \cup {a} /\ active' = a /\ client' = a
      /\ stores' = [stores EXCEPT !.ids = a] /\ fetches' = StartFetch(fetches, a)
      /\ page' = "mail" /\ signIn' = NoSignIn
      /\ cache' = cache /\ signOut' = signOut /\ idLoads' = idLoads /\ UNCHANGED calls
      /\ halted' = halted \ {a}
  BY DEF LoginFinished
<1>3. a # active => stores.mail = {} /\ \A f \in fetches : f.epoch # "current"
  BY <1>1, <1>f DEF Beside, PutAway
<1> HIDE DEF a
<1>t. /\ accounts \subseteq Accounts /\ clients \subseteq Accounts /\ stores \in Stores
      /\ fetches \subseteq Fetch /\ SignOutTypeOK /\ SignedOutForgotten
      /\ stores.mail \subseteq {active}
      /\ \A f \in fetches : f.epoch = "current" => f.owner = active
  BY <1>f, Facts
<1>4. stores' \in Stores /\ stores'.mail \subseteq {a}
  BY <1>1, <1>2, <1>3, <1>t DEF Stores
<1>5. fetches' \subseteq Fetch /\ \A f \in fetches' : f.epoch = "current" => f.owner = a
  BY <1>1, <1>2, <1>3, <1>t DEF StartFetch, Fetch
<1>6. Inv'
  BY <1>1, <1>2, <1>4, <1>5, <1>f, <1>t, Facts, BesideInv DEF FullInv
<1>7. SignOutTypeOK' /\ SignOutOfActive' /\ ShownListed' /\ PutAway'
  BY <1>1, <1>2, <1>t DEF SignOutTypeOK, SignOutOfActive, ShownListed, PutAway, NoSignIn
<1>8. SignedOutForgotten'
  BY <1>2, <1>t DEF SignedOutForgotten
<1> QED
  BY <1>1, <1>2, <1>6, <1>7, <1>8, <1>f, QuietBeside DEF FullInv

\* The rest may come beside a switch: identities of logout(), renewals that do not
\* end a session, and the login page.
LEMMA IdentitiesBeside ==
  ASSUME FullInv, NEW a \in Accounts, LogoutIdentities(a)
  PROVE  FullInv'
<1>f. TypeOK /\ Beside /\ Inv
  BY DEF FullInv, Inv
<1>1. /\ stores' = [stores EXCEPT !.ids = a] /\ idLoads' = idLoads \ {a}
      /\ accounts' = accounts /\ clients' = clients /\ active' = active /\ client' = client
      /\ fetches' = fetches /\ cache' = cache /\ page' = page
      /\ switches' = switches /\ generation' = generation /\ cleared' = cleared
      /\ signOut' = signOut /\ signIn' = signIn /\ halted' = halted
  BY DEF LogoutIdentities, calls
<1>2. stores' \in Stores /\ stores'.mail = stores.mail
  BY <1>1, <1>f DEF TypeOK, Stores
<1>3. Inv'
  BY <1>1, <1>2, <1>f DEF Inv, TypeOK, PhasePath, FetchesOwn, NetworkEmptied, OnlyActiveMailShown,
     SnapshotsHoldOwnMail, ClientMatchesActive, BoundShown, Emptied
<1>4. Beside'
  BY <1>1, <1>2, <1>f DEF Beside, SignOutTypeOK, OneAtATime, Switching, Running, SignOutOfActive,
     ShownListed, TargetListed, PutAway, SignedOutForgotten
<1> QED
  BY <1>3, <1>4 DEF FullInv

\* Steps that change the page only, or nothing that matters here.
LEMMA PageBeside ==
  ASSUME FullInv, UNCHANGED <<accounts, clients, screen, calls, signOut, signIn, idLoads, halted>>,
         \/ page' = page
         \/ page = "mail" /\ page' = "login"
         \/ page = "login" /\ page' = "mail" /\ signIn = NoSignIn
  PROVE  FullInv'
<1>f. TypeOK /\ Beside /\ Inv
  BY DEF FullInv, Inv
<1>1. /\ accounts' = accounts /\ clients' = clients /\ active' = active /\ client' = client
      /\ stores' = stores /\ fetches' = fetches /\ cache' = cache
      /\ switches' = switches /\ generation' = generation /\ cleared' = cleared
      /\ signOut' = signOut /\ signIn' = signIn /\ idLoads' = idLoads /\ halted' = halted
  BY DEF screen, calls
<1>2. /\ page' # "left" <=> page # "left"
      /\ page' \in {"mail", "login", "left"}
      /\ signIn # NoSignIn /\ page = "login" => page' = "login"
  BY <1>f DEF TypeOK
<1>3. Inv'
  BY <1>1, <1>2, <1>f DEF Inv, TypeOK, PhasePath, FetchesOwn, NetworkEmptied, OnlyActiveMailShown,
     SnapshotsHoldOwnMail, ClientMatchesActive, BoundShown, Emptied
<1>4. Beside'
  BY <1>1, <1>2, <1>f DEF Beside, SignOutTypeOK, OneAtATime, Switching, Running, SignOutOfActive,
     ShownListed, TargetListed, PutAway, SignedOutForgotten
<1> QED
  BY <1>3, <1>4 DEF FullInv

-----------------------------------------------------------------------------
\* The page starts with an account on screen and nothing under way.
LEMMA FullInit == Init => FullInv
<1> SUFFICES ASSUME Init
             PROVE  FullInv
  OBVIOUS
<1>1. SignOutTypeOK /\ OneAtATime /\ SignOutOfActive
  BY DEF Init, SignOutTypeOK, OneAtATime, SignOutOfActive, NoSignOut, NoSignIn, Switching, Running
<1>2. ShownListed /\ TargetListed /\ PutAway /\ SignedOutForgotten
  BY DEF Init, ShownListed, TargetListed, PutAway, SignedOutForgotten
<1> QED
  BY <1>1, <1>2, InitInv DEF FullInv, Beside, SwitchInv

\* The invariant of the switches and of what comes beside them is inductive.
LEMMA FullNext ==
  ASSUME FullInv, ~ Overlapping, [Next]_vars
  PROVE  FullInv'
<1>1. CASE SwitchNext
  BY <1>1, NextInv, SwitchBeside DEF FullInv
<1>2. CASE Logout \/ LogoutAll
  <2>1. /\ page # "left" /\ \E phase \in {"hooks", "hooks all"} : BeginSignOut(phase, None)
        /\ UNCHANGED <<accounts, clients, screen, calls, page, signIn, idLoads, halted>>
    BY <1>2 DEF Logout, LogoutAll
  <2> QED
    BY <2>1, BeginBeside
<1>3. ASSUME NEW a \in Accounts, RenewRefused(a)
      PROVE  FullInv'
  <2>1. CASE renewals[a] = "active" \/ a = active
    <3>1. /\ page # "left" /\ BeginSignOut("hooks", a)
          /\ UNCHANGED <<accounts, clients, screen, calls, page, signIn, idLoads, halted>>
      BY <1>3, <2>1 DEF RenewRefused
    <3> QED
      BY <3>1, BeginBeside
  <2>2. CASE ~ (renewals[a] = "active" \/ a = active)
    <3>1. page # "left" /\ Interfere /\ Forget(a) /\ UNCHANGED <<calls, page, signIn, idLoads, halted>>
      BY <1>3, <2>2 DEF RenewRefused
    <3> QED
      BY <3>1, <2>2, ForgetBeside
  <2> QED
    BY <2>1, <2>2
<1>4. ASSUME NEW a \in Accounts, RemoveAccount(a)
      PROVE  FullInv'
  <2>1. page # "left" /\ Interfere /\ Forget(a) /\ a # active /\ UNCHANGED <<calls, page, signIn, idLoads, halted>>
    BY <1>4 DEF RemoveAccount
  <2> QED
    BY <2>1, ForgetBeside
<1>5. CASE OpenLogin \/ BackToMail \/ \E a \in Accounts : RenewStart(a) \/ RenewOk(a)
  <2>1. /\ UNCHANGED <<accounts, clients, screen, calls, signOut, signIn, idLoads, halted>>
        /\ \/ page' = page
           \/ page = "mail" /\ page' = "login"
           \/ page = "login" /\ page' = "mail" /\ signIn = NoSignIn
    BY <1>5 DEF OpenLogin, BackToMail, RenewStart, RenewOk, rest
  <2> QED
    BY <2>1, PageBeside
<1>6. CASE UNCHANGED vars
  BY <1>6, PageBeside DEF vars, rest
<1>7. CASE OtherNext
  BY <1>2, <1>3, <1>4, <1>5, <1>7, TeardownBeside, SignOutEndsBeside, IdentitiesBeside, LoginBeside,
     LoginFailedBeside, LoginConnectedBeside, LoginFinishedBeside, ThrowsBeside DEF OtherNext
<1> QED
  BY <1>1, <1>6, <1>7 DEF Next

(* Where sign-outs, removals and sign-ins come one after another and beside *)
(* no switch, accounts do not mix, whatever fetches, identity requests and  *)
(* renewals overlap them.                                                   *)
THEOREM KeptApartThroughout ==
  ASSUME ~ Overlapping
  PROVE  Spec => []AccountsKeptApart
<1>1. FullInv /\ [Next]_vars => FullInv'
  BY FullNext
<1>2. FullInv => AccountsKeptApart
  BY DEF FullInv, Inv, AccountsKeptApart
<1> QED
  BY <1>1, <1>2, FullInit, PTL DEF Spec

(* There, an account that is no longer registered has no snapshot.         *)
THEOREM Forgotten ==
  ASSUME ~ Overlapping
  PROVE  Spec => []SignedOutForgotten
<1>1. FullInv /\ [Next]_vars => FullInv'
  BY FullNext
<1>2. FullInv => SignedOutForgotten
  BY DEF FullInv, Beside
<1> QED
  BY <1>1, <1>2, FullInit, PTL DEF Spec
=============================================================================
