------------------------- MODULE SessionSlotsProofs -------------------------
(***************************************************************************)
(* First, however sign-ins, sign-outs, renewals and their mishaps overlap, *)
(* two registered accounts never have the same cookie slot, and the state  *)
(* stays typed.  Then, where sign-outs cross nothing (Orderly) and none    *)
(* has ended at its flush (AllFlushed), the order of renewals and          *)
(* cleanups: who may write which slot's cookie, for whom, and when nobody  *)
(* may.  From it follow the properties of SessionSlots.                    *)
(***************************************************************************)
EXTENDS SessionSlots, WellFoundedInduction, TLAPS

SignIns == [login : Logins, slot : Slots, phase : {"asked", "redeemed"}]

Inv == /\ entry \in [Accounts -> Entries \cup {None}]
       /\ signIn \in SignIns \cup {None}
       /\ SlotsDistinct

-----------------------------------------------------------------------------
\* getNextCookieSlot() finds a slot nobody has, whenever there is one.
LEMMA NextSlotFree ==
  ASSUME FreeSlots # {}
  PROVE  NextCookieSlot \in FreeSlots
<1>1. FreeSlots \subseteq Nat
  BY SlotsAssumption DEF FreeSlots, Slots
<1> DEFINE Less == OpToRel(<, Nat)
<1>2. IsWellFoundedOn(Less, Nat)
  BY NatLessThanWellFounded
<1> HIDE DEF Less
<1>3. PICK s \in FreeSlots : \A t \in FreeSlots : ~ (<<t, s>> \in Less)
  BY <1>1, <1>2, WFMin
<1>4. \A t \in FreeSlots : s <= t
  <2> SUFFICES ASSUME NEW t \in FreeSlots
               PROVE  s <= t
    OBVIOUS
  <2>1. ~ (t < s)
    BY <1>1, <1>3 DEF Less, OpToRel
  <2> QED
    BY <1>1, <2>1
<1> QED
  BY <1>4 DEF NextCookieSlot

\* A free slot is no registered account's.
LEMMA FreeSlotUnused ==
  ASSUME NEW s \in FreeSlots, NEW a \in RegisteredAccounts
  PROVE  entry[a].slot # s
  BY DEF FreeSlots

\* Accounts leave the registry; no other entry changes.
LEMMA LeavingKeepsInv ==
  ASSUME Inv, NEW a, Forget(a), signIn' \in SignIns \cup {None}
  PROVE  Inv'
  BY DEF Inv, Forget, SlotsDistinct, RegisteredAccounts, Registered

\* removeAccount() touches the registry only to drop the account.
LEMMA RemoveKeepsInv ==
  ASSUME Inv, NEW a, NEW jar, Remove(a, jar), UNCHANGED signIn
  PROVE  Inv'
<1>1. CASE Forget(a)
  BY <1>1, LeavingKeepsInv DEF Inv
<1>2. CASE UNCHANGED entry
  BY <1>2 DEF Inv, SlotsDistinct, RegisteredAccounts, Registered
<1> QED
  BY <1>1, <1>2 DEF Remove

\* addAccount() keeps a registered account's slot and gives a new one a free slot.
LEMMA RegisterKeepsInv ==
  ASSUME Inv, Register
  PROVE  Inv'
<1> DEFINE a == LoginAccount[signIn.login]
           new == [slot |-> IF Registered(a) THEN entry[a].slot ELSE NextCookieSlot,
                   login |-> signIn.login]
<1>1. signIn.login \in Logins /\ a \in Accounts
  BY SlotsAssumption DEF Inv, SignIns, Register
<1>2. /\ Registered(a) \/ FreeSlots # {}
      /\ entry' = [entry EXCEPT ![a] = new]
      /\ signIn' = None
  BY DEF Register
<1>3. new.slot \in Slots
  BY <1>1, <1>2, NextSlotFree DEF Inv, Entries, FreeSlots, Registered
<1>4. \A b \in RegisteredAccounts : b # a => entry[b].slot # new.slot
  <2>1. CASE Registered(a)
    BY <1>1, <2>1 DEF Inv, SlotsDistinct, RegisteredAccounts
  <2>2. CASE ~ Registered(a)
    BY <1>2, <2>2, NextSlotFree, FreeSlotUnused
  <2> QED
    BY <2>1, <2>2
<1>5. new \in Entries
  BY <1>1, <1>3 DEF Entries
<1> HIDE DEF a, new
<1>6. entry' \in [Accounts -> Entries \cup {None}]
  BY <1>1, <1>2, <1>5 DEF Inv
<1>7. \A b \in Accounts : entry'[b] = IF b = a THEN new ELSE entry[b]
  BY <1>1, <1>2 DEF Inv
<1>8. SlotsDistinct'
  BY <1>4, <1>7 DEF Inv, SlotsDistinct, RegisteredAccounts, Registered
<1> QED
  BY <1>2, <1>6, <1>8 DEF Inv

\* A sign-in begins with a login of the instance and a slot to write.
LEMMA StartSignInKeepsInv ==
  ASSUME Inv, NEW l \in Logins, StartSignIn(l)
  PROVE  Inv'
<1> DEFINE a == LoginAccount[l]
           slot == IF Registered(a) THEN entry[a].slot ELSE NextCookieSlot
<1>1. slot \in Slots
  BY SlotsAssumption, NextSlotFree DEF Inv, StartSignIn, Entries, FreeSlots, Registered
<1> HIDE DEF slot
<1>2. signIn' = [login |-> l, phase |-> "asked", slot |-> slot]
  BY DEF StartSignIn, slot
<1>3. signIn' \in SignIns
  BY <1>1, <1>2 DEF SignIns
<1> QED
  BY <1>3 DEF Inv, StartSignIn, SlotsDistinct, RegisteredAccounts, Registered

\* A step that leaves the registry alone keeps the slots apart.
LEMMA UntouchedKeepsInv ==
  ASSUME Inv, UNCHANGED entry, signIn' \in SignIns \cup {None}
  PROVE  Inv'
  BY DEF Inv, SlotsDistinct, RegisteredAccounts, Registered

\* Nobody is registered at first.
LEMMA InitInv ==
  ASSUME Init
  PROVE  Inv
  BY DEF Init, Inv, SlotsDistinct, RegisteredAccounts, Registered

\* Every step keeps the registry and the sign-in typed and the slots apart.
LEMMA NextInv ==
  ASSUME Inv, [Next]_vars
  PROVE  Inv'
<1>1. ASSUME NEW l \in Logins, StartSignIn(l)
      PROVE  Inv'
  BY <1>1, StartSignInKeepsInv
<1>2. CASE Redeemed
  BY <1>2, UntouchedKeepsInv DEF Inv, Redeemed, SignIns
<1>3. CASE Register
  BY <1>3, RegisterKeepsInv
<1>4. CASE SignInFails
  BY <1>4, UntouchedKeepsInv DEF SignInFails
<1>5. ASSUME NEW a \in Accounts, Switch(a) \/ TimerFires(a) \/ ClientRejected(a)
      PROVE  Inv'
  BY <1>5, UntouchedKeepsInv DEF Inv, Switch, TimerFires, ClientRejected
<1>6. ASSUME NEW a \in Accounts, RemoveAccount(a)
      PROVE  Inv'
  BY <1>6, RemoveKeepsInv DEF RemoveAccount
<1>7. CASE Logout
  BY <1>7, UntouchedKeepsInv DEF Inv, Logout
<1>8. ASSUME NEW r \in Requests, RenewalStep(r)
      PROVE  Inv'
  <2>1. CASE FinishRefused(r)
    <3>1. CASE UNCHANGED entry
      BY <2>1, <3>1, UntouchedKeepsInv DEF Inv, FinishRefused
    <3>2. CASE Remove(renewal[r].account, cookie')
      BY <2>1, <3>2, RemoveKeepsInv DEF FinishRefused
    <3> QED
      BY <2>1, <3>1, <3>2 DEF FinishRefused
  <2>2. CASE ~ FinishRefused(r)
    BY <1>8, <2>2, UntouchedKeepsInv
    DEF Inv, RenewalStep, Serve, LoseRenewal, FinishOutage, Renewed, ContextSynced, DraftsSaved
  <2> QED
    BY <2>1, <2>2
<1>9. ASSUME NEW o \in logouts, TearDown(o)
      PROVE  Inv'
  BY <1>9, LeavingKeepsInv DEF Inv, TearDown
<1>10. ASSUME NEW o \in logouts, Leave(o) \/ FlushThrows(o) \/ Navigate(o)
       PROVE  Inv'
  BY <1>10, UntouchedKeepsInv DEF Inv, Leave, FlushThrows, Navigate
<1>11. ASSUME NEW c \in Cleanups, CleanupStep(c)
       PROVE  Inv'
  BY <1>11, UntouchedKeepsInv
  DEF Inv, CleanupStep, Settled, AbortWrites, ServeDelete, Deleted, GiveUpWaiting, page
<1>12. CASE UNCHANGED vars
  BY <1>12, UntouchedKeepsInv DEF Inv, vars, page
<1> QED
  BY <1>1, <1>2, <1>3, <1>4, <1>5, <1>6, <1>7, <1>8, <1>9, <1>10, <1>11, <1>12
  DEF Next, SignInStep, LogoutStep

\* Whatever overlaps, mishaps included, the registry never gives two accounts one
\* slot, so a sign-out names one account's credentials (account-store.ts:234-239).
THEOREM DistinctSlots == Spec => []SlotsDistinct
<1>1. Spec => []Inv
  BY InitInv, NextInv, PTL DEF Spec
<1>2. Inv => SlotsDistinct
  BY DEF Inv
<1> QED
  BY <1>1, <1>2, PTL

-----------------------------------------------------------------------------
\* refreshPromises names renewals under way, each under its own account.
Promised ==
  \A a \in Accounts : promises[a] # None =>
    renewal[promises[a]] # None /\ renewal[promises[a]].account = a

\* What every step keeps, whatever overlaps.
Typed == TypeOK /\ SlotsDistinct /\ Promised

\* The renewal that Refresh begins.
NewRenewal(a, asked) ==
  [account |-> a, slot |-> SlotOf(a), wasActive |-> a = active, known |-> Registered(a),
   asked |-> asked, carried |-> cookie[SlotOf(a)], phase |-> "sent", outcome |-> "none"]

\* A renewal and a sign-out always name a slot.
LEMMA SlotOfTyped ==
  ASSUME TypeOK, NEW a \in Accounts
  PROVE  SlotOf(a) \in Slots
BY SlotsAssumption DEF TypeOK, SlotOf, Registered, Entries, Slots

\* A renewal that changes its phase and outcome stays a renewal.
LEMMA RenewalMoves ==
  ASSUME TypeOK, NEW r \in Requests, renewal[r] # None,
         NEW p \in {"sent", "served", "cut", "context", "unsynced", "drafts"},
         NEW o \in {"none", "renewed", "refused", "broken", "outage"}
  PROVE  /\ [renewal[r] EXCEPT !.phase = p] \in Renewals
         /\ [renewal[r] EXCEPT !.phase = p, !.outcome = o] \in Renewals
  BY DEF TypeOK, Renewals

\* The end of a renewal forgets the promise of its account.
LEMMA DoneTyped ==
  ASSUME Typed, NEW r \in Requests, renewal[r] # None, Done(r)
  PROVE  /\ renewal' \in [Requests -> Renewals \cup {None}]
         /\ promises' \in [Accounts -> Requests \cup {None}]
         /\ Promised'
<1>1. renewal[r] \in Renewals /\ renewal[r].account \in Accounts
  BY DEF Typed, TypeOK, Renewals
<1>2. /\ renewal' = [renewal EXCEPT ![r] = None]
      /\ promises' = [promises EXCEPT ![renewal[r].account] = None]
  BY DEF Done
<1>3. \A a \in Accounts : promises'[a] = IF a = renewal[r].account THEN None ELSE promises[a]
  BY <1>2 DEF Typed, TypeOK
<1>4. \A q \in Requests : q # r => renewal'[q] = renewal[q]
  BY <1>2 DEF Typed, TypeOK
<1>5. Promised'
  BY <1>3, <1>4 DEF Typed, TypeOK, Promised
<1> QED
  BY <1>1, <1>2, <1>5 DEF Typed, TypeOK

\* refreshAccessToken() joins the account's renewal or begins one.
LEMMA RefreshTyped ==
  ASSUME Typed, NEW a \in Accounts, NEW asked \in BOOLEAN, Refresh(a, asked)
  PROVE  /\ renewal' \in [Requests -> Renewals \cup {None}]
         /\ promises' \in [Accounts -> Requests \cup {None}]
         /\ Promised'
<1>1. CASE /\ promises[a] # None
           /\ renewal' = [renewal EXCEPT ![promises[a]].asked = @ \/ asked]
           /\ UNCHANGED promises
  <2> DEFINE p == promises[a]
  <2>1. p \in Requests /\ renewal[p] \in Renewals
    BY <1>1 DEF Typed, TypeOK, Promised
  <2>2. [renewal[p] EXCEPT !.asked = @ \/ asked] \in Renewals
    BY <2>1 DEF Renewals
  <2>3. \A q \in Requests :
          renewal'[q] = IF q = p THEN [renewal[p] EXCEPT !.asked = @ \/ asked] ELSE renewal[q]
    BY <1>1, <2>1 DEF Typed, TypeOK
  <2>4. renewal'[p] # None /\ renewal'[p].account = renewal[p].account
    BY <2>1, <2>2, <2>3, NoneAssumption DEF Renewals
  <2>5. Promised'
    BY <1>1, <2>1, <2>3, <2>4 DEF Typed, TypeOK, Promised
  <2> QED
    BY <1>1, <2>1, <2>2, <2>5 DEF Typed, TypeOK
<1>2. CASE UNCHANGED <<renewal, promises>>
  BY <1>2 DEF Typed, TypeOK, Promised
<1>3. ASSUME NEW r \in FreeRequests,
             renewal' = [renewal EXCEPT ![r] = NewRenewal(a, asked)],
             promises' = [promises EXCEPT ![a] = r]
      PROVE  /\ renewal' \in [Requests -> Renewals \cup {None}]
             /\ promises' \in [Accounts -> Requests \cup {None}]
             /\ Promised'
  <2>1. NewRenewal(a, asked) \in Renewals
    BY SlotOfTyped DEF Typed, TypeOK, LoginOrNone, Renewals, NewRenewal, Registered
  <2>2. NewRenewal(a, asked) # None /\ NewRenewal(a, asked).account = a
    BY <2>1, NoneAssumption DEF NewRenewal
  <2>3. r \in Requests /\ renewal[r] = None
    BY DEF FreeRequests
  <2> HIDE DEF NewRenewal
  <2>4. \A q \in Requests : renewal'[q] = IF q = r THEN NewRenewal(a, asked) ELSE renewal[q]
    BY <1>3, <2>3 DEF Typed, TypeOK
  <2>5. \A b \in Accounts : promises'[b] = IF b = a THEN r ELSE promises[b]
    BY <1>3 DEF Typed, TypeOK
  <2>6. Promised'
    BY <2>2, <2>3, <2>4, <2>5 DEF Typed, TypeOK, Promised
  <2> QED
    BY <1>3, <2>1, <2>3, <2>6 DEF Typed, TypeOK
<1> QED
  BY <1>1, <1>2, <1>3 DEF Refresh, NewRenewal

\* clearSlotCredentials() starts a cleanup.
LEMMA ClearSlotTyped ==
  ASSUME TypeOK, NEW s \in Slots, NEW c \in Cleanups, NEW jar \in [Slots -> LoginOrNone],
         ClearSlot(s, c, jar)
  PROVE  /\ cleanup' \in [Cleanups -> Wipes \cup {None}]
         /\ closing' \subseteq Slots
<1> DEFINE pending == {r \in Requests : Pending(r) /\ renewal[r].slot = s}
           wipe == IF pending = {}
                   THEN [slot |-> s, waits |-> {}, carried |-> jar[s], phase |-> "sent", late |-> FALSE]
                   ELSE [slot |-> s, waits |-> pending, carried |-> None, phase |-> "settling",
                         late |-> FALSE]
<1>1. pending \in SUBSET Requests
  OBVIOUS
<1> HIDE DEF pending
<1>2. wipe \in Wipes
  BY <1>1 DEF Wipes, LoginOrNone
<1>3. cleanup' = [cleanup EXCEPT ![c] = wipe] /\ closing' = closing \cup {s}
  BY DEF ClearSlot, pending
<1> HIDE DEF wipe
<1> QED
  BY <1>2, <1>3 DEF TypeOK

\* The calls of logout().
LogoutCalls == [account : Accounts, slot : Slots, phase : {"hooks", "flush", "leaving"},
                wipe : Cleanups \cup {None}]

\* logout() is called for the account shown.
LEMMA CallLogoutTyped ==
  ASSUME TypeOK, active # None, CallLogout
  PROVE  logouts' \subseteq LogoutCalls
<1>1. active \in Accounts /\ SlotOf(active) \in Slots
  BY SlotOfTyped DEF TypeOK
<1> QED
  BY <1>1 DEF CallLogout, TypeOK, LogoutCalls

\* removeAccount() keeps what it touches typed.
LEMMA RemoveTyped ==
  ASSUME TypeOK, NEW a \in Accounts, NEW jar \in [Slots -> LoginOrNone], Remove(a, jar)
  PROVE  /\ timers' \subseteq Accounts
         /\ logouts' \subseteq LogoutCalls
         /\ cleanup' \in [Cleanups -> Wipes \cup {None}]
         /\ closing' \subseteq Slots
<1>1. CASE /\ a = active
           /\ CallLogout
           /\ UNCHANGED <<entry, timers, closing, cleanup>>
  BY <1>1, CallLogoutTyped, SlotsAssumption DEF TypeOK
<1>2. ASSUME a # active, Registered(a),
             NEW c \in FreeCleanups, ClearSlot(entry[a].slot, c, jar),
             Forget(a), UNCHANGED logouts
      PROVE  /\ timers' \subseteq Accounts
             /\ logouts' \subseteq LogoutCalls
             /\ cleanup' \in [Cleanups -> Wipes \cup {None}]
             /\ closing' \subseteq Slots
  <2>1. entry[a].slot \in Slots
    BY <1>2 DEF TypeOK, Entries, Registered
  <2>2. c \in Cleanups
    BY DEF FreeCleanups
  <2> QED
    BY <1>2, <2>1, <2>2, ClearSlotTyped DEF TypeOK, Forget, LogoutCalls
<1>3. CASE a # active /\ ~ Registered(a) /\ UNCHANGED <<entry, timers, closing, cleanup, logouts>>
  BY <1>3 DEF TypeOK, LogoutCalls
<1> QED
  BY <1>1, <1>2, <1>3 DEF Remove

\* An answer's cookies.
LEMMA AnswerTyped ==
  ASSUME TypeOK, NEW r \in Requests, renewal[r] # None, AnswerCookies(r)
  PROVE  /\ cookie' \in [Slots -> LoginOrNone]
         /\ cookie' = [s \in Slots |->
              IF s = renewal[r].slot /\ renewal[r].outcome = "renewed" THEN renewal[r].carried
              ELSE IF s = renewal[r].slot /\ renewal[r].outcome = "refused" THEN
                     IF renewal[r].carried # None THEN None ELSE cookie[s]
              ELSE cookie[s]]
<1>1. renewal[r] \in Renewals
  BY DEF TypeOK
<1>2. renewal[r].slot \in Slots /\ renewal[r].carried \in LoginOrNone
  BY <1>1 DEF Renewals, LoginOrNone
<1>3. CASE renewal[r].outcome = "renewed"
  BY <1>2, <1>3 DEF AnswerCookies, TypeOK
<1>4. CASE renewal[r].outcome = "refused" /\ renewal[r].carried # None
  BY <1>2, <1>4 DEF AnswerCookies, TypeOK, LoginOrNone
<1>5. CASE renewal[r].outcome # "renewed" /\ ~ (renewal[r].outcome = "refused" /\ renewal[r].carried # None)
  BY <1>2, <1>5 DEF AnswerCookies, TypeOK
<1> QED
  BY <1>3, <1>4, <1>5

\* Typed states are those of the invariant above.
LEMMA TypedInv ==
  ASSUME Typed
  PROVE  Inv
  BY DEF Typed, TypeOK, Inv, SignIns

\* A renewal's steps keep the types.
LEMMA RenewalStepTyped ==
  ASSUME Typed, Inv', NEW r \in Requests, RenewalStep(r)
  PROVE  Typed'
<1> USE DEF Typed
<1>0. entry' \in [Accounts -> Entries \cup {None}] /\ SlotsDistinct'
  BY DEF Inv
<1>1. CASE Serve(r)
  <2>1. PICK o \in {"none", "renewed", "refused", "broken", "outage"} :
          renewal' = [renewal EXCEPT ![r].phase = "served", ![r].outcome = o]
    BY <1>1 DEF Serve
  <2>2. [renewal[r] EXCEPT !.phase = "served", !.outcome = o] \in Renewals
    BY <1>1, RenewalMoves DEF Serve
  <2>3. \A q \in Requests : renewal'[q] = IF q = r THEN [renewal[r] EXCEPT !.phase = "served", !.outcome = o]
                                          ELSE renewal[q]
    BY <2>1 DEF TypeOK
  <2>4. renewal'[r] # None /\ renewal'[r].account = renewal[r].account
    BY <1>1, <2>2, <2>3, NoneAssumption DEF Serve, TypeOK, Renewals
  <2>5. Promised'
    BY <1>1, <2>3, <2>4 DEF Promised, TypeOK, Serve
  <2>6. renewal' \in [Requests -> Renewals \cup {None}]
    BY <2>1, <2>2 DEF TypeOK
  <2> QED
    BY <1>0, <1>1, <2>5, <2>6 DEF TypeOK, Serve
<1>2. CASE LoseRenewal(r) \/ FinishOutage(r)
  <2>1. renewal[r] # None /\ RetryLater(r) /\ Done(r)
    BY <1>2 DEF LoseRenewal, FinishOutage, Served
  <2>2. timers' \subseteq Accounts
    BY <2>1 DEF RetryLater, TypeOK, Renewals
  <2> QED
    BY <1>0, <1>2, <2>1, <2>2, DoneTyped DEF Typed, TypeOK, LoseRenewal, FinishOutage
<1>3. CASE Renewed(r)
  <2>1. renewal[r] # None /\ renewal[r] \in Renewals /\ AnswerCookies(r)
    BY <1>3 DEF Renewed, Served, TypeOK
  <2>2. cookie' \in [Slots -> LoginOrNone]
    BY <2>1, AnswerTyped
  <2>3. token' \in [Accounts -> LoginOrNone] /\ timers' \subseteq Accounts
    BY <1>3, <2>1 DEF Renewed, TypeOK, Renewals, LoginOrNone
  <2>4. CASE Done(r)
    BY <1>0, <1>3, <2>1, <2>2, <2>3, <2>4, DoneTyped DEF Typed, TypeOK, Renewed
  <2>5. CASE renewal' = [renewal EXCEPT ![r].phase = "context"] /\ UNCHANGED promises
    <3>1. [renewal[r] EXCEPT !.phase = "context"] \in Renewals
      BY <2>1, RenewalMoves
    <3>2. \A q \in Requests : renewal'[q] = IF q = r THEN [renewal[r] EXCEPT !.phase = "context"]
                                            ELSE renewal[q]
      BY <2>5 DEF TypeOK
    <3>3. renewal'[r] # None /\ renewal'[r].account = renewal[r].account
      BY <2>1, <3>1, <3>2, NoneAssumption DEF Renewals
    <3>4. Promised'
      BY <2>1, <2>5, <3>2, <3>3 DEF Promised, TypeOK
    <3>5. renewal' \in [Requests -> Renewals \cup {None}]
      BY <2>5, <3>1 DEF TypeOK
    <3> QED
      BY <1>0, <1>3, <2>2, <2>3, <2>5, <3>4, <3>5 DEF TypeOK, Renewed
  <2> QED
    BY <1>3, <2>4, <2>5 DEF Renewed
<1>4. CASE ContextSynced(r)
  <2>1. renewal[r] # None /\ Done(r) /\ renewal[r] \in Renewals
    BY <1>4 DEF ContextSynced, TypeOK
  <2> QED
    BY <1>0, <1>4, <2>1, DoneTyped DEF Typed, TypeOK, ContextSynced, Renewals
<1>5. CASE FinishRefused(r)
  <2>1. renewal[r] # None /\ renewal[r] \in Renewals /\ AnswerCookies(r)
    BY <1>5 DEF FinishRefused, Served, TypeOK
  <2>2. cookie' \in [Slots -> LoginOrNone] /\ renewal[r].account \in Accounts /\ renewal[r].slot \in Slots
    BY <2>1, AnswerTyped DEF Renewals
  <2>3. CASE Remove(renewal[r].account, cookie') /\ Done(r)
    <3>1. /\ timers' \subseteq Accounts
          /\ logouts' \subseteq LogoutCalls
          /\ cleanup' \in [Cleanups -> Wipes \cup {None}]
          /\ closing' \subseteq Slots
      BY <2>2, <2>3, RemoveTyped
    <3> QED
      BY <1>0, <1>5, <2>1, <2>2, <2>3, <3>1, DoneTyped DEF Typed, TypeOK, LogoutCalls, FinishRefused
  <2>4. CASE /\ closing' = closing \cup {renewal[r].slot}
             /\ renewal' = [renewal EXCEPT ![r].phase = "drafts"]
             /\ UNCHANGED <<entry, timers, promises, logouts, cleanup>>
    <3>1. [renewal[r] EXCEPT !.phase = "drafts"] \in Renewals
      BY <2>1, RenewalMoves
    <3>2. \A q \in Requests : renewal'[q] = IF q = r THEN [renewal[r] EXCEPT !.phase = "drafts"]
                                            ELSE renewal[q]
      BY <2>4 DEF TypeOK
    <3>3. renewal'[r] # None /\ renewal'[r].account = renewal[r].account
      BY <2>1, <3>1, <3>2, NoneAssumption DEF Renewals
    <3>4. Promised'
      BY <2>1, <2>4, <3>2, <3>3 DEF Promised, TypeOK
    <3>5. renewal' \in [Requests -> Renewals \cup {None}]
      BY <2>4, <3>1 DEF TypeOK
    <3> QED
      BY <1>0, <1>5, <2>2, <2>4, <3>4, <3>5 DEF TypeOK, FinishRefused
  <2> QED
    BY <1>5, <2>3, <2>4 DEF FinishRefused
<1>6. CASE DraftsSaved(r)
  <2>1. renewal[r] # None /\ Done(r) /\ active # None /\ CallLogout
    BY <1>6 DEF DraftsSaved
  <2> QED
    BY <1>0, <1>6, <2>1, DoneTyped, CallLogoutTyped DEF Typed, TypeOK, LogoutCalls, DraftsSaved
<1> QED
  BY <1>1, <1>2, <1>3, <1>4, <1>5, <1>6 DEF RenewalStep

\* A cleanup's steps keep the types.
LEMMA CleanupStepTyped ==
  ASSUME Typed, Inv', NEW c \in Cleanups, CleanupStep(c)
  PROVE  Typed'
<1> USE DEF Typed
<1>0. entry' \in [Accounts -> Entries \cup {None}] /\ SlotsDistinct'
  BY DEF Inv
<1>1. cleanup[c] # None /\ cleanup[c] \in Wipes
  BY DEF CleanupStep, Settled, AbortWrites, ServeDelete, Deleted, GiveUpWaiting, TypeOK
<1>2. SendDelete(c) \in Wipes
  BY <1>1 DEF SendDelete, Wipes, TypeOK, LoginOrNone
<1>3. CASE Settled(c)
  BY <1>0, <1>2, <1>3 DEF Settled, page, TypeOK, Promised
<1>4. CASE AbortWrites(c)
  <2> DEFINE hung == {r \in cleanup[c].waits : Pending(r)}
             cut(r) == [renewal[r] EXCEPT !.phase = IF @ = "context" THEN "unsynced" ELSE "cut"]
  <2>1. renewal' = [r \in Requests |-> IF r \notin hung THEN renewal[r] ELSE cut(r)]
    BY <1>4 DEF AbortWrites
  <2>2. \A r \in hung : r \in Requests /\ renewal[r] # None /\ renewal[r] \in Renewals
    BY <1>1 DEF Pending, Wipes, TypeOK
  <2>3. \A r \in hung : cut(r) \in Renewals /\ cut(r).account = renewal[r].account
    BY <2>2 DEF Renewals
  <2> HIDE DEF cut, hung
  <2>4. renewal' \in [Requests -> Renewals \cup {None}]
    BY <2>1, <2>3 DEF TypeOK
  <2>5. Promised'
    BY <1>4, <2>1, <2>2, <2>3, NoneAssumption DEF Promised, AbortWrites, TypeOK
  <2> QED
    BY <1>0, <1>2, <1>4, <2>4, <2>5 DEF AbortWrites, TypeOK
<1>5. CASE ServeDelete(c)
  <2>1. PICK o \in {"served", "failed"} : cleanup' = [cleanup EXCEPT ![c].phase = o]
    BY <1>5 DEF ServeDelete
  <2>2. [cleanup[c] EXCEPT !.phase = o] \in Wipes
    BY <1>1 DEF Wipes
  <2>3. cleanup' \in [Cleanups -> Wipes \cup {None}]
    BY <2>1, <2>2 DEF TypeOK
  <2> QED
    BY <1>0, <1>5, <2>3 DEF ServeDelete, page, TypeOK, Promised
<1>6. CASE Deleted(c)
  <2>1. cookie' \in [Slots -> LoginOrNone] /\ cleared' \subseteq Logins
    BY <1>1, <1>6 DEF Deleted, TypeOK, Wipes, LoginOrNone
  <2> QED
    BY <1>0, <1>6, <2>1 DEF Deleted, TypeOK, Promised
<1>7. CASE GiveUpWaiting(c)
  <2>1. [cleanup[c] EXCEPT !.late = TRUE] \in Wipes
    BY <1>1 DEF Wipes
  <2>2. cleanup' \in [Cleanups -> Wipes \cup {None}]
    BY <1>7, <2>1 DEF TypeOK, GiveUpWaiting
  <2> QED
    BY <1>0, <1>7, <2>2 DEF GiveUpWaiting, TypeOK, Promised
<1> QED
  BY <1>3, <1>4, <1>5, <1>6, <1>7 DEF CleanupStep

\* A sign-out's steps keep the types.
LEMMA LogoutStepTyped ==
  ASSUME Typed, Inv', NEW o \in logouts, TearDown(o) \/ Leave(o) \/ FlushThrows(o) \/ Navigate(o)
  PROVE  Typed'
<1> USE DEF Typed
<1>0. /\ entry' \in [Accounts -> Entries \cup {None}] /\ SlotsDistinct'
      /\ o.account \in Accounts /\ o.slot \in Slots
  BY DEF Inv, TypeOK
<1>1. CASE TearDown(o)
  <2>1. logouts' \subseteq LogoutCalls
    BY <1>1 DEF TearDown, TypeOK, LogoutCalls
  <2>2. \A a \in Accounts : promises'[a] = IF a = o.account THEN None ELSE promises[a]
    BY <1>1 DEF TearDown, TypeOK
  <2>3. Promised'
    BY <1>1, <2>2 DEF TearDown, Promised
  <2> QED
    BY <1>0, <1>1, <2>1, <2>3 DEF TearDown, TypeOK, LogoutCalls, Forget
<1>2. CASE Leave(o)
  <2>1. PICK c \in FreeCleanups :
          /\ ClearSlot(o.slot, c, cookie)
          /\ \/ /\ active' \in RegisteredAccounts
                /\ logouts' = logouts \ {o}
             \/ /\ logouts' = (logouts \ {o}) \cup {[o EXCEPT !.phase = "leaving", !.wipe = c]}
                /\ UNCHANGED active
    BY <1>2 DEF Leave
  <2>2. c \in Cleanups
    BY DEF FreeCleanups
  <2>3. cleanup' \in [Cleanups -> Wipes \cup {None}] /\ closing' \subseteq Slots
    BY <1>0, <2>1, <2>2, ClearSlotTyped DEF TypeOK
  <2>4. logouts' \subseteq LogoutCalls /\ active' \in Accounts \cup {None}
    BY <2>1, <2>2 DEF TypeOK, LogoutCalls, RegisteredAccounts
  <2> QED
    BY <1>0, <1>2, <2>3, <2>4 DEF Leave, TypeOK, LogoutCalls, Promised
<1>3. CASE Navigate(o)
  <2>1. cleanup' \in [Cleanups -> Wipes \cup {None}]
    BY <1>3 DEF Navigate, TypeOK
  <2> QED
    BY <1>0, <1>3, <2>1 DEF Navigate, TypeOK, LoginOrNone, Promised
<1>4. CASE FlushThrows(o)
  BY <1>0, <1>4 DEF FlushThrows, TypeOK, Promised
<1> QED
  BY <1>1, <1>2, <1>3, <1>4

\* Every step keeps the state typed.
LEMMA NextTyped ==
  ASSUME Typed, [Next]_vars
  PROVE  Typed'
<1> USE DEF Typed
<1>0. Inv'
  BY TypedInv, NextInv
<1>00. entry' \in [Accounts -> Entries \cup {None}] /\ SlotsDistinct' /\ signIn' \in SignIns \cup {None}
  BY <1>0 DEF Inv
<1>1. ASSUME NEW l \in Logins, StartSignIn(l)
      PROVE  Typed'
  BY <1>00, <1>1 DEF StartSignIn, TypeOK, Promised, SignIns
<1>2. CASE Redeemed
  BY <1>00, <1>2 DEF Redeemed, TypeOK, LoginOrNone, Promised, SignIns
<1>3. CASE Register
  <2>1. signIn.login \in Logins /\ LoginAccount[signIn.login] \in Accounts
    BY <1>3, SlotsAssumption DEF Register, TypeOK
  <2> QED
    BY <1>00, <1>3, <2>1 DEF Register, TypeOK, LoginOrNone, Promised, SignIns
<1>4. CASE SignInFails
  BY <1>00, <1>4 DEF SignInFails, TypeOK, Promised, SignIns
<1>5. ASSUME NEW a \in Accounts, Switch(a)
      PROVE  Typed'
  BY <1>00, <1>5 DEF Switch, TypeOK, Promised
<1>6. ASSUME NEW a \in Accounts, TimerFires(a) \/ ClientRejected(a)
      PROVE  Typed'
  <2>1. PICK asked \in BOOLEAN : Refresh(a, asked)
    BY <1>6 DEF TimerFires, ClientRejected
  <2>2. /\ renewal' \in [Requests -> Renewals \cup {None}]
        /\ promises' \in [Accounts -> Requests \cup {None}]
        /\ Promised'
    BY <2>1, RefreshTyped DEF Typed
  <2> QED
    BY <1>00, <1>6, <2>2 DEF TimerFires, ClientRejected, TypeOK
<1>7. ASSUME NEW a \in Accounts, RemoveAccount(a)
      PROVE  Typed'
  <2>1. /\ timers' \subseteq Accounts
        /\ logouts' \subseteq LogoutCalls
        /\ cleanup' \in [Cleanups -> Wipes \cup {None}]
        /\ closing' \subseteq Slots
    BY <1>7, RemoveTyped DEF RemoveAccount, TypeOK
  <2>2. promises' \in [Accounts -> Requests \cup {None}] /\ Promised'
    BY <1>7 DEF RemoveAccount, TypeOK, Promised
  <2> QED
    BY <1>00, <1>7, <2>1, <2>2 DEF RemoveAccount, TypeOK, LogoutCalls
<1>8. CASE Logout
  <2>1. logouts' \subseteq LogoutCalls
    BY <1>8, CallLogoutTyped DEF Logout
  <2> QED
    BY <1>00, <1>8, <2>1 DEF Logout, TypeOK, LogoutCalls, Promised
<1>9. CASE UNCHANGED vars
  BY <1>00, <1>9 DEF vars, page, TypeOK, Promised
<1> QED
  BY <1>0, <1>1, <1>2, <1>3, <1>4, <1>5, <1>6, <1>7, <1>8, <1>9,
     RenewalStepTyped, LogoutStepTyped, CleanupStepTyped
  DEF Next, SignInStep, LogoutStep

-----------------------------------------------------------------------------
\* No account signed out asks for a token, and no sign-out crosses a sign-in, a switch
\* or another sign-out: what the run leaves out (see Rare).
Orderly == Mishaps \cap {"straggler", "crossing"} = {}

\* A renewal whose answer may still rewrite its slot's cookie.
Writing(r) == renewal[r] # None /\ renewal[r].phase \in {"sent", "served"}

\* A refused renewal whose account's drafts are being saved.
Saving(r) == renewal[r] # None /\ renewal[r].phase = "drafts"

\* A sign-in, a sign-out, or the saving of drafts: one of them at a time.
OneAtATime ==
  /\ signIn # None => /\ logouts = {} /\ closing = {}
                      /\ \A r \in Requests : ~ Saving(r)
                      /\ \A c \in Cleanups : cleanup[c] = None
  /\ logouts = {} => active = None \/ active \in RegisteredAccounts
  /\ \A o, p \in logouts : o = p
  /\ \A r \in Requests : Saving(r) =>
       /\ logouts = {}
       /\ active \in RegisteredAccounts /\ renewal[r].slot = entry[active].slot
       /\ \A q \in Requests : Saving(q) => q = r

\* What a sign-out fixed at its start still holds when it tears down.
LogoutsOrdered ==
  \A o \in logouts :
    /\ o.phase = "hooks" => o.account \in RegisteredAccounts /\ entry[o.account].slot = o.slot
    /\ o.phase = "flush" => \A a \in RegisteredAccounts : entry[a].slot # o.slot

\* A slot is closed for a sign-out, a cleanup not given up, or drafts being saved.
ClosedForAReason ==
  \A s \in closing :
    \/ \E o \in logouts : o.slot = s
    \/ \E c \in Cleanups : cleanup[c] # None /\ cleanup[c].slot = s /\ ~ cleanup[c].late
    \/ \E r \in Requests : Saving(r) /\ renewal[r].slot = s

\* A slot being cleared is nobody's, and once its DELETE is out nothing writes it.
CleanupsOrdered ==
  \A c \in Cleanups : cleanup[c] # None =>
    /\ \A a \in RegisteredAccounts : entry[a].slot # cleanup[c].slot
    /\ \A r \in Requests : Pending(r) /\ renewal[r].slot = cleanup[c].slot =>
         cleanup[c].phase = "settling" /\ r \in cleanup[c].waits

\* An answer rewrites the slot of its own account, with that account's cookie.
WritesOwned ==
  \A r \in Requests : Writing(r) =>
    /\ renewal[r].slot \notin closing => renewal[r].account \in RegisteredAccounts
    /\ \A a \in RegisteredAccounts : entry[a].slot = renewal[r].slot <=> a = renewal[r].account
    /\ renewal[r].carried # None => LoginAccount[renewal[r].carried] = renewal[r].account
    /\ renewal[r].outcome = "renewed" => renewal[r].carried # None
    /\ renewal[r].carried \notin cleared

\* A login whose exchange is not answered yet.
Unredeemed(l) == signIn # None /\ signIn.phase = "asked" /\ signIn.login = l

\* The slot a sign-in writes is the one addAccount() will choose.
SignInOrdered ==
  signIn # None =>
    LET a == LoginAccount[signIn.login] IN
    /\ signIn.login \in spent
    /\ Registered(a) \/ FreeSlots # {}
    /\ signIn.slot = IF Registered(a) THEN entry[a].slot ELSE NextCookieSlot
    /\ signIn.phase = "redeemed" /\ cookie[signIn.slot] # None => LoginAccount[cookie[signIn.slot]] = a

\* Where a login's cookie is, or is on its way.
Placed(l, s) ==
  \/ cookie[s] = l
  \/ \E r \in Requests : renewal[r] # None /\ renewal[r].carried = l /\ renewal[r].slot = s
  \/ \E c \in Cleanups : cleanup[c] # None /\ cleanup[c].carried = l /\ cleanup[c].slot = s

\* A login never stands in two slots.
OneHome ==
  \A l \in Logins, s \in Slots : Placed(l, s) =>
    /\ l \in spent /\ ~ Unredeemed(l)
    /\ \A t \in Slots : Placed(l, t) => t = s

\* A cleared login was redeemed before.
ClearedSpent == \A l \in cleared : l \in spent /\ ~ Unredeemed(l)

\* OwnToken, OwnCookie and NotRevived as they stand while every flush went through.
TokensOwned == \A a \in Accounts : token[a] # None => LoginAccount[token[a]] = a

CookiesOwned ==
  \A a \in RegisteredAccounts :
    LET l == cookie[entry[a].slot] IN l # None => LoginAccount[l] = a

ClearedGone == \A s \in Slots : cookie[s] \notin cleared

\* The order, invariant as long as no sign-out ended at its flush.
Ordered ==
  /\ Typed
  /\ OneAtATime /\ LogoutsOrdered /\ ClosedForAReason /\ CleanupsOrdered
  /\ WritesOwned /\ SignInOrdered /\ OneHome /\ ClearedSpent
  /\ ClearedGone /\ CookiesOwned /\ TokensOwned

\* A renewal keeps its account, slot and cookie; it writes and waits less and less.
Goes(r) ==
  renewal'[r] # None =>
    /\ renewal[r] # None
    /\ renewal'[r].account = renewal[r].account
    /\ renewal'[r].slot = renewal[r].slot
    /\ renewal'[r].carried = renewal[r].carried
    /\ renewal'[r].phase # renewal[r].phase =>
         \/ renewal[r].phase \in {"sent", "served", "context"} /\ renewal'[r].phase \in {"cut", "unsynced"}
         \/ renewal[r].phase = "sent" /\ renewal'[r].phase = "served"
         \/ renewal[r].phase = "served" /\ renewal'[r].phase = "context"
    /\ renewal'[r].outcome = "renewed" => renewal[r].outcome = "renewed" \/ renewal[r].carried # None

\* The renewals go on; none begins, none starts or stops saving drafts.
RenewalsGoOn ==
  \A r \in Requests : Goes(r) /\ (Saving(r) => Saving(r)' /\ renewal'[r].slot = renewal[r].slot)

\* The cleanups go on and may reopen slots that nothing writes any more.
CleanupsGoOn ==
  /\ \A c \in Cleanups : cleanup'[c] # None =>
       /\ cleanup[c] # None /\ cleanup'[c].slot = cleanup[c].slot
       /\ cleanup'[c].carried \in {cleanup[c].carried, cookie[cleanup[c].slot]}
       /\ \/ cleanup'[c].phase = cleanup[c].phase /\ cleanup'[c].waits = cleanup[c].waits
          \/ \A r \in Requests : ~ (Pending(r)' /\ renewal'[r].slot = cleanup[c].slot)
  /\ \A s \in closing' :
       /\ s \in closing
       /\ \A c \in Cleanups : cleanup[c] # None /\ cleanup[c].slot = s /\ ~ cleanup[c].late =>
            cleanup'[c] # None /\ cleanup'[c].slot = s /\ ~ cleanup'[c].late
  /\ \A r \in Requests : Writing(r)' /\ renewal'[r].slot \notin closing' =>
       renewal'[r].slot \notin closing

\* While only renewals and cleanups go on, their order is kept.
LEMMA RenewalsGoOnOrdered ==
  ASSUME Typed, OneAtATime, LogoutsOrdered, ClosedForAReason, CleanupsOrdered, WritesOwned,
         RenewalsGoOn, CleanupsGoOn, UNCHANGED <<entry, active, logouts, signIn>>,
         \A r \in Requests : Writing(r)' /\ renewal'[r].carried \in cleared' =>
           renewal'[r].carried \in cleared
  PROVE  /\ OneAtATime' /\ LogoutsOrdered' /\ ClosedForAReason'
         /\ CleanupsOrdered' /\ WritesOwned'
<1>1. \A r \in Requests : /\ Saving(r)' => Saving(r) /\ renewal'[r].slot = renewal[r].slot
                          /\ Saving(r) => Saving(r)' /\ renewal'[r].slot = renewal[r].slot
                          /\ Writing(r)' => Writing(r) /\ Goes(r)
                          /\ Pending(r)' => Pending(r) /\ Goes(r)
  BY DEF RenewalsGoOn, Goes, Saving, Writing, Pending
<1>2. OneAtATime'
  BY <1>1 DEF CleanupsGoOn, OneAtATime, RegisteredAccounts, Registered
<1>3. LogoutsOrdered'
  BY DEF LogoutsOrdered, RegisteredAccounts, Registered
<1>4. ClosedForAReason'
  BY <1>1 DEF CleanupsGoOn, ClosedForAReason
<1>5. CleanupsOrdered'
  <2> SUFFICES ASSUME NEW c \in Cleanups, cleanup'[c] # None
               PROVE  /\ \A a \in RegisteredAccounts : entry[a].slot # cleanup'[c].slot
                      /\ \A r \in Requests : Pending(r)' /\ renewal'[r].slot = cleanup'[c].slot =>
                           cleanup'[c].phase = "settling" /\ r \in cleanup'[c].waits
    BY DEF CleanupsOrdered, RegisteredAccounts, Registered
  <2>1. \A r \in Requests : Pending(r)' => Pending(r) /\ renewal'[r].slot = renewal[r].slot
    BY <1>1 DEF Goes, Pending
  <2> QED
    BY <2>1 DEF CleanupsOrdered, CleanupsGoOn
<1>6. WritesOwned'
  <2> SUFFICES ASSUME NEW r \in Requests, Writing(r)'
               PROVE  /\ renewal'[r].slot \notin closing' => renewal'[r].account \in RegisteredAccounts
                      /\ \A a \in RegisteredAccounts :
                           entry[a].slot = renewal'[r].slot <=> a = renewal'[r].account
                      /\ renewal'[r].carried # None =>
                           LoginAccount[renewal'[r].carried] = renewal'[r].account
                      /\ renewal'[r].outcome = "renewed" => renewal'[r].carried # None
                      /\ renewal'[r].carried \notin cleared'
    BY DEF WritesOwned, RegisteredAccounts, Registered
  <2>1. Writing(r) /\ Goes(r) /\ renewal'[r] # None
    BY <1>1 DEF Writing
  <2> QED
    BY <2>1 DEF WritesOwned, Goes, CleanupsGoOn
<1> QED
  BY <1>2, <1>3, <1>4, <1>5, <1>6

\* An answer may leave a slot's cookie, delete it, or write the one it carried.
AnswersWrite ==
  \A s \in Slots :
    \/ cookie'[s] \in {cookie[s], None}
    \/ \E r \in Requests : /\ Writing(r) /\ renewal[r].slot = s
                           /\ cookie'[s] = renewal[r].carried

\* No renewal begins; each keeps its slot and the cookie it carried.
RenewalsStay ==
  \A r \in Requests : renewal'[r] # None =>
    renewal[r] # None /\ renewal'[r].slot = renewal[r].slot /\ renewal'[r].carried = renewal[r].carried

\* Nothing new stands anywhere, so every login keeps its slot.
LEMMA PlacedKept ==
  ASSUME OneHome, spent \subseteq spent',
         \A l \in Logins : Unredeemed(l)' => Unredeemed(l) \/ l \notin spent,
         \A l \in Logins, s \in Slots : Placed(l, s)' => Placed(l, s)
  PROVE  OneHome'
  BY DEF OneHome

\* What an answer writes in a registered account's slot is that account's.
LEMMA AnswersOwn ==
  ASSUME Typed, WritesOwned, CookiesOwned, AnswersWrite,
         NEW a \in RegisteredAccounts, cookie'[entry[a].slot] # None
  PROVE  LoginAccount[cookie'[entry[a].slot]] = a
<1>1. entry[a].slot \in Slots
  BY DEF Typed, TypeOK, Entries, RegisteredAccounts, Registered
<1>2. CASE cookie'[entry[a].slot] = cookie[entry[a].slot]
  BY <1>2 DEF CookiesOwned
<1>3. ASSUME NEW r \in Requests, Writing(r), renewal[r].slot = entry[a].slot,
             cookie'[entry[a].slot] = renewal[r].carried
      PROVE  LoginAccount[cookie'[entry[a].slot]] = a
  BY <1>3 DEF WritesOwned
<1> QED
  BY <1>1, <1>2, <1>3 DEF AnswersWrite

\* Answers bring nothing back that was cleared.
LEMMA AnswersRevive ==
  ASSUME Typed, WritesOwned, ClearedGone, AnswersWrite, UNCHANGED cleared
  PROVE  ClearedGone'
  BY SlotsAssumption DEF Typed, TypeOK, ClearedGone, AnswersWrite, WritesOwned

\* Answers write a login where it stood.
LEMMA AnswersPlace ==
  ASSUME OneHome, RenewalsStay, AnswersWrite, spent \subseteq spent', UNCHANGED signIn,
         \A c \in Cleanups, s \in Slots, l \in Logins :
           cleanup'[c] # None /\ cleanup'[c].carried = l /\ cleanup'[c].slot = s =>
             Placed(l, s) \/ cookie'[s] = l
  PROVE  OneHome'
<1>1. ASSUME NEW l \in Logins, NEW s \in Slots, cookie'[s] = l
      PROVE  Placed(l, s)
  <2>1. l # None
    BY SlotsAssumption
  <2> QED
    BY <1>1, <2>1 DEF AnswersWrite, Placed, Writing
<1>2. ASSUME NEW l \in Logins, NEW s \in Slots, Placed(l, s)'
      PROVE  Placed(l, s)
  <2>1. CASE \E r \in Requests : renewal'[r] # None /\ renewal'[r].carried = l /\ renewal'[r].slot = s
    BY <2>1 DEF RenewalsStay, Placed
  <2> QED
    BY <1>1, <1>2, <2>1 DEF Placed
<1>3. \A l \in Logins : Unredeemed(l)' => Unredeemed(l)
  BY DEF Unredeemed
<1> QED
  BY <1>2, <1>3, PlacedKept

\* While somebody signs in, answers reach the slots of others, or are the account's.
LEMMA AnswersBesideSignIn ==
  ASSUME Typed, OneAtATime, WritesOwned, SignInOrdered, AnswersWrite,
         UNCHANGED <<entry, signIn, spent>>
  PROVE  SignInOrdered'
<1> DEFINE a == LoginAccount[signIn.login]
<1> SUFFICES ASSUME signIn # None, signIn.phase = "redeemed", cookie'[signIn.slot] # None,
                    cookie'[signIn.slot] # cookie[signIn.slot]
             PROVE  LoginAccount[cookie'[signIn.slot]] = a
  BY DEF SignInOrdered, NextCookieSlot, FreeSlots, RegisteredAccounts, Registered
<1>1. signIn.slot \in Slots /\ signIn.login \in Logins
  BY DEF Typed, TypeOK
<1>2. PICK r \in Requests : /\ Writing(r) /\ renewal[r].slot = signIn.slot
                            /\ cookie'[signIn.slot] = renewal[r].carried
  BY <1>1 DEF AnswersWrite
<1>3. closing = {}
  BY DEF OneAtATime
<1>4. renewal[r].account \in RegisteredAccounts /\ entry[renewal[r].account].slot = signIn.slot
  BY <1>2, <1>3 DEF WritesOwned
<1>5. Registered(a)
  <2> SUFFICES ASSUME ~ Registered(a)
               PROVE  FALSE
    OBVIOUS
  <2>1. FreeSlots # {} /\ signIn.slot = NextCookieSlot
    BY DEF SignInOrdered
  <2> QED
    BY <1>4, <2>1, NextSlotFree, FreeSlotUnused
<1>6. a \in RegisteredAccounts /\ signIn.slot = entry[a].slot
  BY <1>1, <1>5, SlotsAssumption DEF SignInOrdered, RegisteredAccounts
<1> QED
  BY <1>2, <1>6 DEF WritesOwned

\* Renewals, cleanups and their answers go on; the sign-ins and sign-outs do not.
LEMMA AllGoOnOrdered ==
  ASSUME Ordered, Typed', RenewalsGoOn, CleanupsGoOn, AnswersWrite,
         TokensOwned', ClearedGone', ClearedSpent',
         \A r \in Requests : Writing(r)' /\ renewal'[r].carried \in cleared' =>
           renewal'[r].carried \in cleared,
         UNCHANGED <<entry, active, logouts, signIn, spent>>
  PROVE  Ordered'
<1>1. RenewalsStay
  BY DEF RenewalsGoOn, Goes, RenewalsStay
<1>2. OneHome'
  <2>1. \A c \in Cleanups, s \in Slots, l \in Logins :
          cleanup'[c] # None /\ cleanup'[c].carried = l /\ cleanup'[c].slot = s => Placed(l, s)
    BY DEF CleanupsGoOn, Placed
  <2> QED
    BY <1>1, <2>1, AnswersPlace DEF Ordered
<1>3. SignInOrdered' /\ CookiesOwned'
  BY AnswersBesideSignIn, AnswersOwn DEF Ordered, CookiesOwned, RegisteredAccounts, Registered
<1>4. OneAtATime' /\ LogoutsOrdered' /\ ClosedForAReason' /\ CleanupsOrdered' /\ WritesOwned'
  BY RenewalsGoOnOrdered DEF Ordered
<1> QED
  BY <1>2, <1>3, <1>4 DEF Ordered

\* Only renewals, their answers and what is handed out change.
LEMMA GoOnOrdered ==
  ASSUME Ordered, Typed', RenewalsGoOn, AnswersWrite, TokensOwned',
         UNCHANGED <<entry, active, closing, logouts, signIn, cleanup, cleared, spent>>
  PROVE  Ordered'
<1>1. CleanupsGoOn
  BY DEF CleanupsGoOn
<1>2. ClearedGone' /\ ClearedSpent'
  BY AnswersRevive DEF Ordered, ClearedSpent, Unredeemed
<1> QED
  BY <1>1, <1>2, AllGoOnOrdered

\* A renewal that is over.
LEMMA DoneGoesOn ==
  ASSUME Typed, NEW r \in Requests, Done(r), ~ Saving(r)
  PROVE  RenewalsGoOn
<1>1. \A q \in Requests : renewal'[q] = IF q = r THEN None ELSE renewal[q]
  BY DEF Done, Typed, TypeOK
<1> QED
  BY <1>1 DEF RenewalsGoOn, Goes, Saving

\* A renewal served, or whose token was handed out.
LEMMA MoveGoesOn ==
  ASSUME Typed, NEW r \in Requests, renewal[r] # None, ~ Saving(r),
         NEW new \in Renewals,
         new.account = renewal[r].account, new.slot = renewal[r].slot,
         new.carried = renewal[r].carried,
         \/ new.phase = renewal[r].phase
         \/ renewal[r].phase = "sent" /\ new.phase = "served"
         \/ renewal[r].phase = "served" /\ new.phase = "context",
         new.outcome = "renewed" => renewal[r].outcome = "renewed" \/ renewal[r].carried # None,
         renewal' = [renewal EXCEPT ![r] = new]
  PROVE  RenewalsGoOn
<1>1. \A q \in Requests : renewal'[q] = IF q = r THEN new ELSE renewal[q]
  BY DEF Typed, TypeOK
<1> QED
  BY <1>1 DEF RenewalsGoOn, Goes, Saving

\* The steps of a renewal that is not refused keep the order.
LEMMA RenewalStepOrdered ==
  ASSUME Ordered, Typed', NEW r \in Requests, RenewalStep(r),
         ~ FinishRefused(r), ~ DraftsSaved(r)
  PROVE  Ordered'
<1>0. renewal[r] # None /\ renewal[r] \in Renewals /\ ~ Saving(r)
  BY DEF Ordered, Typed, TypeOK, RenewalStep, Serve, LoseRenewal, FinishOutage, Renewed,
         ContextSynced, Served, Saving
<1>1. CASE Serve(r)
  <2>1. PICK o \in {"renewed", "refused", "broken", "outage"} :
          /\ renewal' = [renewal EXCEPT ![r].phase = "served", ![r].outcome = o]
          /\ renewal[r].carried = None => o = "refused"
    BY <1>1 DEF Serve
  <2> DEFINE new == [renewal[r] EXCEPT !.phase = "served", !.outcome = o]
  <2>2. new \in Renewals /\ new.outcome = o /\ new.phase = "served"
    BY <1>0 DEF Renewals
  <2>3. new.account = renewal[r].account /\ new.slot = renewal[r].slot /\ new.carried = renewal[r].carried
    BY <1>0 DEF Renewals
  <2>4. renewal' = [renewal EXCEPT ![r] = new]
    BY <2>1
  <2> HIDE DEF new
  <2>5. renewal[r].phase = "sent"
    BY <1>1 DEF Serve
  <2>6. RenewalsGoOn
    BY <1>0, <2>1, <2>2, <2>3, <2>4, <2>5, MoveGoesOn DEF Ordered
  <2> QED
    BY <1>1, <2>6, GoOnOrdered DEF Serve, Ordered, TokensOwned, AnswersWrite
<1>2. CASE LoseRenewal(r) \/ FinishOutage(r) \/ ContextSynced(r)
  <2>1. RenewalsGoOn
    BY <1>0, <1>2, DoneGoesOn DEF Ordered, LoseRenewal, FinishOutage, ContextSynced
  <2> QED
    BY <1>2, <2>1, GoOnOrdered
    DEF LoseRenewal, FinishOutage, ContextSynced, Ordered, TokensOwned, AnswersWrite
<1>3. CASE Renewed(r)
  <2>1. Writing(r) /\ renewal[r].phase = "served" /\ renewal[r].outcome = "renewed"
    BY <1>3 DEF Renewed, Served, Writing
  <2>2. AnswersWrite
    BY <1>0, <1>3, <2>1, AnswerTyped DEF Renewed, Ordered, Typed, AnswersWrite
  <2>3. RenewalsGoOn
    <3>1. CASE Done(r)
      BY <1>0, <3>1, DoneGoesOn DEF Ordered
    <3>2. CASE renewal' = [renewal EXCEPT ![r].phase = "context"]
      <4> DEFINE new == [renewal[r] EXCEPT !.phase = "context"]
      <4>1. /\ new \in Renewals /\ new.phase = "context" /\ new.outcome = renewal[r].outcome
            /\ new.account = renewal[r].account /\ new.slot = renewal[r].slot
            /\ new.carried = renewal[r].carried
        BY <1>0 DEF Renewals
      <4>2. renewal' = [renewal EXCEPT ![r] = new]
        BY <3>2
      <4> HIDE DEF new
      <4> QED
        BY <1>0, <2>1, <4>1, <4>2, MoveGoesOn DEF Ordered
    <3> QED
      BY <1>3, <3>1, <3>2 DEF Renewed
  <2>4. TokensOwned'
    <3>1. CASE UNCHANGED token
      BY <3>1 DEF Ordered, TokensOwned
    <3>2. CASE /\ renewal[r].slot \notin closing
               /\ token' = [a \in Accounts |->
                    IF a \in Owners(r) THEN renewal[r].carried ELSE token[a]]
      <4>1. /\ renewal[r].account \in RegisteredAccounts
            /\ renewal[r].carried # None => LoginAccount[renewal[r].carried] = renewal[r].account
        BY <2>1, <3>2 DEF Ordered, WritesOwned
      <4>2. Owners(r) \subseteq {renewal[r].account}
        BY <4>1 DEF Owners, RegisteredAccounts
      <4> QED
        BY <3>2, <4>1, <4>2 DEF Ordered, TokensOwned
    <3> QED
      BY <1>3, <3>1, <3>2 DEF Renewed
  <2> QED
    BY <1>3, <2>2, <2>3, <2>4, GoOnOrdered DEF Renewed
<1> QED
  BY <1>1, <1>2, <1>3 DEF RenewalStep

\* A renewal begins for a registered account, with the cookie of its slot.
LEMMA BeginOrdered ==
  ASSUME Ordered, Typed', NEW a \in RegisteredAccounts, NEW asked \in BOOLEAN,
         NEW r \in FreeRequests, renewal' = [renewal EXCEPT ![r] = NewRenewal(a, asked)],
         SlotOf(a) \notin closing,
         UNCHANGED <<entry, active, token, closing, logouts, signIn, cleanup, cookie, cleared, spent>>
  PROVE  Ordered'
<1> DEFINE new == NewRenewal(a, asked)
<1> USE DEF Ordered
<1>0. /\ r \in Requests /\ renewal[r] = None
      /\ a \in Accounts /\ Registered(a)
  BY DEF FreeRequests, RegisteredAccounts
<1>1. /\ new.account = a /\ new.slot = entry[a].slot /\ new.carried = cookie[entry[a].slot]
      /\ new.phase = "sent" /\ new.outcome = "none"
      /\ entry[a].slot \in Slots
  BY <1>0 DEF NewRenewal, SlotOf, Typed, TypeOK, Entries, Registered
<1>2. \A q \in Requests : renewal'[q] = IF q = r THEN new ELSE renewal[q]
  BY <1>0 DEF Typed, TypeOK
<1> HIDE DEF new
<1>3. \A q \in Requests : /\ Saving(q)' <=> Saving(q)
                          /\ q # r => renewal'[q] = renewal[q]
                          /\ Writing(q)' => q = r \/ Writing(q)
                          /\ Pending(q)' => q = r \/ Pending(q)
  BY <1>0, <1>1, <1>2 DEF Saving, Writing, Pending
<1>4. OneAtATime'
  BY <1>0, <1>3 DEF OneAtATime, RegisteredAccounts, Registered, Saving
<1>5. LogoutsOrdered' /\ ClearedSpent' /\ ClearedGone' /\ CookiesOwned' /\ TokensOwned' /\ SignInOrdered'
  BY DEF LogoutsOrdered, ClearedSpent, Unredeemed, ClearedGone, CookiesOwned, TokensOwned, SignInOrdered,
         NextCookieSlot, FreeSlots, RegisteredAccounts, Registered
<1>6. ClosedForAReason'
  BY <1>0, <1>3 DEF ClosedForAReason, Saving
<1>7. CleanupsOrdered'
  <2> SUFFICES ASSUME NEW c \in Cleanups, cleanup[c] # None
               PROVE  /\ \A b \in RegisteredAccounts : entry[b].slot # cleanup[c].slot
                      /\ \A q \in Requests : Pending(q)' /\ renewal'[q].slot = cleanup[c].slot =>
                           cleanup[c].phase = "settling" /\ q \in cleanup[c].waits
    BY DEF CleanupsOrdered, RegisteredAccounts, Registered
  <2> QED
    BY <1>1, <1>2, <1>3 DEF CleanupsOrdered
<1>8. WritesOwned'
  <2> SUFFICES ASSUME NEW q \in Requests, Writing(q)'
               PROVE  /\ renewal'[q].slot \notin closing => renewal'[q].account \in RegisteredAccounts
                      /\ \A b \in RegisteredAccounts :
                           entry[b].slot = renewal'[q].slot <=> b = renewal'[q].account
                      /\ renewal'[q].carried # None =>
                           LoginAccount[renewal'[q].carried] = renewal'[q].account
                      /\ renewal'[q].outcome = "renewed" => renewal'[q].carried # None
                      /\ renewal'[q].carried \notin cleared
    BY DEF WritesOwned, RegisteredAccounts, Registered
  <2>1. CASE q # r
    BY <1>3, <2>1 DEF WritesOwned
  <2>2. CASE q = r
    BY <1>0, <1>1, <1>2, <2>2 DEF Typed, SlotsDistinct, CookiesOwned, ClearedGone
  <2> QED
    BY <2>1, <2>2
<1>9. OneHome'
  <2>1. ASSUME NEW l \in Logins, NEW s \in Slots, Placed(l, s)'
        PROVE  Placed(l, s)
    BY <1>1, <1>2, <2>1 DEF Placed
  <2>2. \A l \in Logins : Unredeemed(l)' => Unredeemed(l)
    BY DEF Unredeemed
  <2> QED
    BY <2>1, <2>2, PlacedKept
<1> QED
  BY <1>4, <1>5, <1>6, <1>7, <1>8, <1>9

\* A timer or a rejected request renews a registered account's token, or joins.
LEMMA RefreshOrdered ==
  ASSUME Ordered, Typed', NEW a \in RegisteredAccounts, NEW asked \in BOOLEAN,
         Refresh(a, asked),
         UNCHANGED <<entry, active, token, closing, logouts, signIn, cleanup, cookie, cleared, spent>>
  PROVE  Ordered'
<1>1. TokensOwned' /\ AnswersWrite
  BY DEF Ordered, TokensOwned, AnswersWrite
<1>2. CASE UNCHANGED renewal
  <2>1. RenewalsGoOn
    BY <1>2 DEF RenewalsGoOn, Goes, Saving
  <2> QED
    BY <1>1, <2>1, GoOnOrdered
<1>3. CASE /\ promises[a] # None
           /\ renewal' = [renewal EXCEPT ![promises[a]].asked = @ \/ asked]
  <2> DEFINE p == promises[a]
             new == [renewal[p] EXCEPT !.asked = @ \/ asked]
  <2>1. a \in Accounts /\ p \in Requests /\ renewal[p] # None /\ renewal[p] \in Renewals
    BY <1>3 DEF Ordered, Typed, TypeOK, Promised, RegisteredAccounts
  <2>2. /\ new.account = renewal[p].account /\ new.slot = renewal[p].slot
        /\ new.carried = renewal[p].carried /\ new.phase = renewal[p].phase
        /\ new.outcome = renewal[p].outcome /\ new \in Renewals
    BY <2>1 DEF Renewals
  <2>3. renewal' = [renewal EXCEPT ![p] = new]
    BY <1>3
  <2> HIDE DEF new
  <2>4. \A q \in Requests : renewal'[q] = IF q = p THEN new ELSE renewal[q]
    BY <2>1, <2>3 DEF Ordered, Typed, TypeOK
  <2> HIDE DEF p
  <2>5. \A q \in Requests : Goes(q)
    BY <2>1, <2>2, <2>4 DEF Goes
  <2>6. \A q \in Requests : Saving(q) => Saving(q)' /\ renewal'[q].slot = renewal[q].slot
    BY <2>2, <2>4, NoneAssumption DEF Saving
  <2> QED
    BY <1>1, <2>5, <2>6, GoOnOrdered DEF RenewalsGoOn
<1>4. ASSUME SlotOf(a) \notin closing,
             NEW r \in FreeRequests, renewal' = [renewal EXCEPT ![r] = NewRenewal(a, asked)]
      PROVE  Ordered'
  BY <1>4, BeginOrdered
<1> QED
  BY <1>2, <1>3, <1>4 DEF Refresh, NewRenewal

\* While nothing is signed in or out, a closed slot is being cleared.
LEMMA UndisturbedClosed ==
  ASSUME Orderly, Ordered, Undisturbed
  PROVE  /\ signIn = None /\ logouts = {}
         /\ \A r \in Requests : ~ Saving(r)
         /\ active = None \/ active \in RegisteredAccounts
         /\ \A s \in closing : \E c \in Cleanups : cleanup[c] # None /\ cleanup[c].slot = s
<1>1. signIn = None /\ logouts = {} /\ \A r \in Requests : ~ Saving(r)
  BY DEF Orderly, Undisturbed, Saving
<1> QED
  BY <1>1 DEF Ordered, OneAtATime, ClosedForAReason

\* A sign-in starts when nothing is being cleared.
LEMMA StartSignInOrdered ==
  ASSUME Orderly, Ordered, Typed', NEW l \in Logins, StartSignIn(l)
  PROVE  Ordered'
<1> USE DEF Ordered
<1> DEFINE a == LoginAccount[l]
<1>0. /\ signIn = None /\ logouts = {} /\ closing = {}
      /\ \A r \in Requests : ~ Saving(r)
      /\ \A c \in Cleanups : cleanup[c] = None
  BY UndisturbedClosed DEF StartSignIn, Orderly
<1>1. /\ signIn'.login = l /\ signIn'.phase = "asked"
      /\ signIn'.slot = IF Registered(a) THEN entry[a].slot ELSE NextCookieSlot
      /\ Registered(a) \/ FreeSlots # {}
      /\ spent' = spent \cup {l} /\ l \notin spent
      /\ UNCHANGED <<entry, active, token, timers, promises, renewal, closing, logouts,
                     cleanup, cookie, cleared>>
  BY DEF StartSignIn
<1>2. /\ OneAtATime' /\ LogoutsOrdered' /\ ClosedForAReason' /\ CleanupsOrdered' /\ WritesOwned'
      /\ ClearedGone' /\ CookiesOwned' /\ TokensOwned'
  BY <1>0, <1>1
  DEF OneAtATime, LogoutsOrdered, ClosedForAReason, CleanupsOrdered, WritesOwned, ClearedGone,
      CookiesOwned, TokensOwned, RegisteredAccounts, Registered, Saving, Writing, Pending
<1>3. SignInOrdered'
  BY <1>1 DEF SignInOrdered, Registered, NextCookieSlot, FreeSlots, RegisteredAccounts
<1>4. OneHome'
  <2>1. \A k \in Logins, s \in Slots : Placed(k, s)' => Placed(k, s)
    BY <1>1 DEF Placed
  <2>2. \A k \in Logins : Unredeemed(k)' => Unredeemed(k) \/ k \notin spent
    BY <1>1 DEF Unredeemed
  <2>3. ASSUME NEW k \in Logins, NEW s \in Slots, Placed(k, s)'
        PROVE  k \in spent' /\ ~ Unredeemed(k)' /\ \A t \in Slots : Placed(k, t)' => t = s
    BY <1>1, <2>1, <2>2, <2>3 DEF OneHome
  <2> QED
    BY <2>3 DEF OneHome
<1>5. ClearedSpent'
  BY <1>1 DEF ClearedSpent, Unredeemed
<1> QED
  BY <1>2, <1>3, <1>4, <1>5

\* Showing another account moves no credentials.
LEMMA SwitchOrdered ==
  ASSUME Orderly, Ordered, Typed', NEW a \in Accounts, Switch(a)
  PROVE  Ordered'
<1> USE DEF Ordered
<1>1. /\ signIn = None /\ logouts = {}
      /\ \A r \in Requests : ~ Saving(r)
  BY UndisturbedClosed DEF Switch
<1>2. /\ active' \in RegisteredAccounts
      /\ UNCHANGED <<entry, token, renewal, closing, logouts, signIn, cleanup, cookie, cleared, spent>>
  BY DEF Switch, RegisteredAccounts
<1>3. OneAtATime'
  BY <1>1, <1>2 DEF OneAtATime, RegisteredAccounts, Registered, Saving
<1>4. /\ LogoutsOrdered' /\ ClosedForAReason' /\ CleanupsOrdered' /\ WritesOwned'
      /\ ClearedGone' /\ CookiesOwned' /\ TokensOwned' /\ SignInOrdered' /\ ClearedSpent'
  BY <1>2
  DEF LogoutsOrdered, ClosedForAReason, CleanupsOrdered, WritesOwned, ClearedGone, SignInOrdered,
      CookiesOwned, TokensOwned, RegisteredAccounts, Registered, Saving, Writing, Pending,
      ClearedSpent, Unredeemed, NextCookieSlot, FreeSlots
<1>5. OneHome'
  BY <1>2 DEF OneHome, Placed, Unredeemed
<1> QED
  BY <1>3, <1>4, <1>5

\* A failed sign-in leaves at most a cookie in a slot nobody has.
LEMMA SignInFailsOrdered ==
  ASSUME Ordered, Typed', SignInFails
  PROVE  Ordered'
<1> USE DEF Ordered
<1>1. /\ signIn # None /\ signIn' = None
      /\ UNCHANGED <<entry, active, token, renewal, closing, logouts, cleanup, cookie, cleared, spent>>
  BY DEF SignInFails
<1>2. OneAtATime'
  BY <1>1 DEF OneAtATime, RegisteredAccounts, Registered, Saving
<1>3. /\ LogoutsOrdered' /\ ClosedForAReason' /\ CleanupsOrdered' /\ WritesOwned'
      /\ ClearedGone' /\ CookiesOwned' /\ TokensOwned' /\ SignInOrdered' /\ ClearedSpent'
  BY <1>1
  DEF LogoutsOrdered, ClosedForAReason, CleanupsOrdered, WritesOwned, ClearedGone, SignInOrdered,
      CookiesOwned, TokensOwned, RegisteredAccounts, Registered, Saving, Writing, Pending,
      ClearedSpent, Unredeemed
<1>4. OneHome'
  BY <1>1 DEF OneHome, Placed, Unredeemed
<1> QED
  BY <1>2, <1>3, <1>4

\* The exchange's cookie stands in the slot the account has or will have.
LEMMA RedeemedOrdered ==
  ASSUME Ordered, Typed', Redeemed
  PROVE  Ordered'
<1> USE DEF Ordered
<1> DEFINE l == signIn.login
           a == LoginAccount[l]
           s == signIn.slot
<1>1. /\ signIn # None /\ signIn.phase = "asked"
      /\ l \in Logins /\ s \in Slots /\ a \in Accounts
      /\ signIn'.login = l /\ signIn'.slot = s /\ signIn'.phase = "redeemed"
      /\ UNCHANGED <<entry, active, token, renewal, closing, logouts, cleanup, cleared, spent>>
  BY SlotsAssumption DEF Redeemed, Typed, TypeOK
<1>2. \A t \in Slots : cookie'[t] = IF t = s THEN l ELSE cookie[t]
  BY <1>1 DEF Redeemed, Typed, TypeOK
<1>3. Unredeemed(l)
  BY <1>1 DEF Unredeemed
<1>4. \A t \in Slots : ~ Placed(l, t)
  BY <1>1, <1>3 DEF OneHome
<1>5. l \notin cleared
  BY <1>3 DEF ClearedSpent
<1>6. OneAtATime'
  BY <1>1 DEF OneAtATime, RegisteredAccounts, Registered, Saving
<1>7. /\ LogoutsOrdered' /\ ClosedForAReason' /\ CleanupsOrdered' /\ WritesOwned' /\ TokensOwned'
  BY <1>1
  DEF LogoutsOrdered, ClosedForAReason, CleanupsOrdered, WritesOwned,
      TokensOwned, RegisteredAccounts, Registered, Saving, Writing, Pending
<1>8. ClearedSpent' /\ ClearedGone'
  BY <1>1, <1>2, <1>5 DEF ClearedSpent, Unredeemed, ClearedGone
<1>9. SignInOrdered'
  BY <1>1, <1>2 DEF SignInOrdered, Registered, NextCookieSlot, FreeSlots, RegisteredAccounts
<1>10. CookiesOwned'
  <2> SUFFICES ASSUME NEW b \in RegisteredAccounts, entry[b].slot = s
               PROVE  b = a
    BY <1>1, <1>2 DEF CookiesOwned, RegisteredAccounts, Registered, Typed, TypeOK, Entries
  <2>1. Registered(a)
    BY <1>1, NextSlotFree, FreeSlotUnused DEF SignInOrdered
  <2>2. entry[a].slot = s
    BY <1>1, <2>1 DEF SignInOrdered
  <2> QED
    BY <1>1, <2>1, <2>2 DEF Typed, SlotsDistinct, RegisteredAccounts
<1>11. OneHome'
  <2>1. ASSUME NEW k \in Logins, NEW t \in Slots, Placed(k, t)'
        PROVE  Placed(k, t) \/ (k = l /\ t = s)
    BY <1>1, <1>2, <2>1 DEF Placed
  <2>2. \A k \in Logins : ~ Unredeemed(k)'
    BY <1>1 DEF Unredeemed
  <2>3. l \in spent
    BY <1>1 DEF Typed, TypeOK, SignInOrdered
  <2> QED
    BY <1>1, <1>4, <2>1, <2>2, <2>3 DEF OneHome
<1> QED
  BY <1>6, <1>7, <1>8, <1>9, <1>10, <1>11

\* addAccount() registers the account in the slot the exchange wrote.
LEMMA RegisterOrdered ==
  ASSUME Ordered, Typed', Register
  PROVE  Ordered'
<1> USE DEF Ordered
<1> DEFINE l == signIn.login
           a == LoginAccount[l]
           s == signIn.slot
<1>1. /\ signIn # None /\ signIn.phase = "redeemed" /\ signIn' = None
      /\ l \in Logins /\ s \in Slots /\ a \in Accounts
      /\ logouts = {} /\ closing = {}
      /\ \A r \in Requests : ~ Saving(r)
      /\ \A c \in Cleanups : cleanup[c] = None
      /\ UNCHANGED <<renewal, closing, logouts, cleanup, cookie, cleared, spent>>
  BY SlotsAssumption DEF Register, OneAtATime, Typed, TypeOK
<1>2. s = IF Registered(a) THEN entry[a].slot ELSE NextCookieSlot
  BY <1>1 DEF SignInOrdered
<1>3. /\ entry' = [entry EXCEPT ![a] = [slot |-> s, login |-> l]]
      /\ active' = a /\ token' = [token EXCEPT ![a] = l]
  BY <1>2 DEF Register
<1>4. \A b \in Accounts : entry'[b] = IF b = a THEN [slot |-> s, login |-> l] ELSE entry[b]
  BY <1>1, <1>3 DEF Typed, TypeOK
<1>5. [slot |-> s, login |-> l] # None
  BY <1>1, NoneAssumption DEF Entries
<1>6. a \in RegisteredAccounts' /\ entry'[a].slot = s
  BY <1>1, <1>4, <1>5 DEF RegisteredAccounts, Registered
<1>7. \A b \in RegisteredAccounts' : b # a => b \in RegisteredAccounts /\ entry'[b] = entry[b]
  BY <1>4 DEF RegisteredAccounts, Registered
<1>8. RegisteredAccounts \subseteq RegisteredAccounts'
  BY <1>4, <1>5 DEF RegisteredAccounts, Registered
<1>9. ~ Registered(a) => \A b \in RegisteredAccounts : entry[b].slot # s
  BY <1>1, <1>2, NextSlotFree, FreeSlotUnused DEF SignInOrdered
<1>10. OneAtATime' /\ LogoutsOrdered' /\ ClosedForAReason' /\ CleanupsOrdered'
  <2>1. OneAtATime'
    BY <1>1, <1>3, <1>6 DEF OneAtATime, Saving
  <2>2. LogoutsOrdered' /\ ClosedForAReason' /\ CleanupsOrdered'
    BY <1>1 DEF LogoutsOrdered, ClosedForAReason, CleanupsOrdered
  <2> QED
    BY <2>1, <2>2
<1>11. WritesOwned'
  <2> SUFFICES ASSUME NEW r \in Requests, Writing(r)
               PROVE  /\ renewal[r].account \in RegisteredAccounts'
                      /\ \A b \in RegisteredAccounts' :
                           entry'[b].slot = renewal[r].slot <=> b = renewal[r].account
    BY <1>1 DEF WritesOwned, Writing
  <2>1. renewal[r].account \in RegisteredAccounts
    BY <1>1 DEF WritesOwned
  <2>2. entry[renewal[r].account].slot = renewal[r].slot
    BY <2>1 DEF WritesOwned
  <2>3. s = renewal[r].slot <=> a = renewal[r].account
    BY <1>1, <1>2, <1>9, <2>1, <2>2 DEF WritesOwned, RegisteredAccounts
  <2> QED
    BY <1>6, <1>7, <1>8, <2>1, <2>3 DEF WritesOwned
<1>12. SignInOrdered' /\ ClearedSpent' /\ ClearedGone'
  BY <1>1 DEF SignInOrdered, ClearedSpent, Unredeemed, ClearedGone
<1>13. OneHome'
  BY <1>1 DEF OneHome, Placed, Unredeemed
<1>14. CookiesOwned'
  BY <1>1, <1>6, <1>7 DEF CookiesOwned, SignInOrdered
<1>15. TokensOwned'
  BY <1>1, <1>3 DEF TokensOwned, Typed, TypeOK
<1> QED
  BY <1>10, <1>11, <1>12, <1>13, <1>14, <1>15

\* Renewals may end, none changes otherwise.
RenewalsEnd == \A r \in Requests : renewal'[r] \in {renewal[r], None}

\* logout() of the account shown is called.
LEMMA CalledOrdered ==
  ASSUME Ordered, Typed', signIn = None, logouts = {}, active \in RegisteredAccounts,
         CallLogout, RenewalsEnd, \A r \in Requests : ~ Saving(r)', AnswersWrite,
         UNCHANGED <<entry, active, token, closing, signIn, cleanup, cleared, spent>>
  PROVE  Ordered'
<1> USE DEF Ordered
<1> DEFINE o == [account |-> active, slot |-> entry[active].slot, phase |-> "hooks", wipe |-> None]
<1>1. logouts' = {o}
  BY DEF CallLogout, SlotOf, RegisteredAccounts
<1>2. \A r \in Requests : /\ renewal'[r] # None => renewal'[r] = renewal[r]
                          /\ Pending(r)' => Pending(r) /\ renewal'[r] = renewal[r]
                          /\ Writing(r)' => Writing(r) /\ renewal'[r] = renewal[r]
  BY DEF RenewalsEnd, Pending, Writing
<1>3. OneAtATime'
  BY <1>1 DEF OneAtATime
<1>4. LogoutsOrdered'
  BY <1>1 DEF LogoutsOrdered, RegisteredAccounts, Registered
<1>5. ClosedForAReason'
  BY <1>1 DEF ClosedForAReason, OneAtATime
<1>6. CleanupsOrdered'
  BY <1>2 DEF CleanupsOrdered, RegisteredAccounts, Registered
<1>7. WritesOwned'
  BY <1>2 DEF WritesOwned, RegisteredAccounts, Registered
<1>8. RenewalsStay
  BY <1>2 DEF RenewalsStay
<1>9. OneHome'
  BY <1>8, AnswersPlace DEF Placed
<1>10. ClearedGone' /\ CookiesOwned'
  BY AnswersRevive, AnswersOwn DEF CookiesOwned, RegisteredAccounts, Registered
<1>11. SignInOrdered' /\ ClearedSpent' /\ TokensOwned'
  BY DEF SignInOrdered, ClearedSpent, Unredeemed, TokensOwned
<1> QED
  BY <1>3, <1>4, <1>5, <1>6, <1>7, <1>9, <1>10, <1>11

\* The user signs out of the account shown.
LEMMA LogoutOrdered ==
  ASSUME Orderly, Ordered, Typed', Logout
  PROVE  Ordered'
<1>1. /\ signIn = None /\ logouts = {} /\ active \in RegisteredAccounts
      /\ \A r \in Requests : ~ Saving(r)
  BY UndisturbedClosed DEF Logout
<1>2. RenewalsEnd /\ AnswersWrite /\ \A r \in Requests : ~ Saving(r)'
  BY <1>1 DEF Logout, RenewalsEnd, AnswersWrite, Saving
<1> QED
  BY <1>1, <1>2, CalledOrdered DEF Logout

\* After a refusal and its drafts, the account shown, whose slot it is, signs out.
LEMMA DraftsSavedOrdered ==
  ASSUME Ordered, Typed', NEW r \in Requests, DraftsSaved(r)
  PROVE  Ordered'
<1>1. Saving(r)
  BY DEF DraftsSaved, Saving
<1>2. \A q \in Requests : renewal'[q] = IF q = r THEN None ELSE renewal[q]
  BY DEF DraftsSaved, Done, Ordered, Typed, TypeOK
<1>3. signIn = None /\ logouts = {} /\ active \in RegisteredAccounts
  BY <1>1 DEF Ordered, OneAtATime
<1>4. RenewalsEnd /\ AnswersWrite /\ \A q \in Requests : ~ Saving(q)'
  BY <1>1, <1>2 DEF DraftsSaved, RenewalsEnd, AnswersWrite, Saving, Ordered, OneAtATime
<1> QED
  BY <1>3, <1>4, CalledOrdered DEF DraftsSaved

\* A slot starts to be cleared: what its cleanup waits for, or takes along.
LEMMA ClearSlotFacts ==
  ASSUME Typed, NEW s \in Slots, NEW c \in FreeCleanups,
         NEW jar \in [Slots -> LoginOrNone], ClearSlot(s, c, jar)
  PROVE  /\ c \in Cleanups /\ cleanup[c] = None
         /\ \A d \in Cleanups : d # c => cleanup'[d] = cleanup[d]
         /\ cleanup'[c] # None /\ cleanup'[c].slot = s /\ ~ cleanup'[c].late
         /\ cleanup'[c].carried \in {jar[s], None}
         /\ \A r \in Requests : Pending(r) /\ renewal[r].slot = s =>
              cleanup'[c].phase = "settling" /\ r \in cleanup'[c].waits
         /\ closing' = closing \cup {s}
<1> DEFINE pending == {r \in Requests : Pending(r) /\ renewal[r].slot = s}
           wipe == IF pending = {}
                   THEN [slot |-> s, waits |-> {}, carried |-> jar[s], phase |-> "sent", late |-> FALSE]
                   ELSE [slot |-> s, waits |-> pending, carried |-> None, phase |-> "settling",
                         late |-> FALSE]
<1>1. c \in Cleanups /\ cleanup[c] = None
  BY DEF FreeCleanups
<1>2. cleanup' = [cleanup EXCEPT ![c] = wipe] /\ closing' = closing \cup {s}
  BY DEF ClearSlot
<1>3. /\ \A r \in Requests : Pending(r) /\ renewal[r].slot = s => r \in pending
      /\ pending \in SUBSET Requests
  OBVIOUS
<1>4. /\ wipe.slot = s /\ ~ wipe.late /\ wipe.carried \in {jar[s], None}
      /\ \A r \in pending : wipe.phase = "settling" /\ r \in wipe.waits
  OBVIOUS
<1> HIDE DEF pending
<1>6. wipe \in Wipes
  BY <1>3 DEF Wipes, LoginOrNone
<1> HIDE DEF wipe
<1>7. wipe # None
  BY <1>6, NoneAssumption
<1>5. \A d \in Cleanups : cleanup'[d] = IF d = c THEN wipe ELSE cleanup[d]
  BY <1>1, <1>2 DEF Typed, TypeOK
<1> QED
  BY <1>1, <1>2, <1>3, <1>4, <1>5, <1>7

\* An account that is not shown leaves the registry, and its slot is cleared.
LEMMA RemovedOrdered ==
  ASSUME Ordered, Typed', signIn = None, logouts = {}, \A r \in Requests : ~ Saving(r),
         NEW a \in RegisteredAccounts, a # active, Forget(a),
         NEW c \in FreeCleanups, ClearSlot(entry[a].slot, c, cookie'),
         RenewalsEnd, AnswersWrite,
         UNCHANGED <<active, token, logouts, signIn, cleared, spent>>
  PROVE  Ordered'
<1> USE DEF Ordered
<1> DEFINE s == entry[a].slot
<1>0. a \in Accounts /\ s \in Slots /\ cookie' \in [Slots -> LoginOrNone]
  BY DEF Typed, TypeOK, Entries, RegisteredAccounts, Registered
<1>1. /\ c \in Cleanups /\ cleanup[c] = None
      /\ \A d \in Cleanups : d # c => cleanup'[d] = cleanup[d]
      /\ cleanup'[c] # None /\ cleanup'[c].slot = s /\ ~ cleanup'[c].late
      /\ cleanup'[c].carried \in {cookie'[s], None}
      /\ \A r \in Requests : Pending(r) /\ renewal[r].slot = s =>
           cleanup'[c].phase = "settling" /\ r \in cleanup'[c].waits
      /\ closing' = closing \cup {s}
  BY <1>0, ClearSlotFacts
<1>2. \A b \in Accounts : entry'[b] = IF b = a THEN None ELSE entry[b]
  BY DEF Forget, Typed, TypeOK
<1>3. /\ \A b \in RegisteredAccounts' : /\ b \in RegisteredAccounts /\ b # a /\ entry'[b] = entry[b]
                                       /\ entry'[b].slot # s
      /\ \A b \in RegisteredAccounts : b # a => b \in RegisteredAccounts'
  BY <1>0, <1>2 DEF RegisteredAccounts, Registered, Typed, SlotsDistinct
<1>4. \A r \in Requests : /\ renewal'[r] # None => renewal'[r] = renewal[r]
                          /\ Pending(r)' => Pending(r) /\ renewal'[r] = renewal[r]
                          /\ Writing(r)' => Writing(r) /\ renewal'[r] = renewal[r]
                          /\ ~ Saving(r)'
  BY DEF RenewalsEnd, Pending, Writing, Saving
<1>5. OneAtATime'
  BY <1>3, <1>4 DEF OneAtATime
<1>6. LogoutsOrdered' /\ SignInOrdered' /\ ClearedSpent' /\ TokensOwned'
  BY DEF LogoutsOrdered, SignInOrdered, ClearedSpent, Unredeemed, TokensOwned
<1>7. ClosedForAReason'
  BY <1>1 DEF ClosedForAReason
<1>8. CleanupsOrdered'
  <2> SUFFICES ASSUME NEW d \in Cleanups, cleanup'[d] # None
               PROVE  /\ \A b \in RegisteredAccounts' : entry'[b].slot # cleanup'[d].slot
                      /\ \A r \in Requests : Pending(r)' /\ renewal'[r].slot = cleanup'[d].slot =>
                           cleanup'[d].phase = "settling" /\ r \in cleanup'[d].waits
    BY DEF CleanupsOrdered
  <2>1. CASE d = c
    BY <1>1, <1>3, <1>4, <2>1
  <2>2. CASE d # c
    BY <1>1, <1>3, <1>4, <2>2 DEF CleanupsOrdered
  <2> QED
    BY <2>1, <2>2
<1>9. WritesOwned'
  <2> SUFFICES ASSUME NEW r \in Requests, Writing(r)'
               PROVE  /\ renewal[r].slot \notin closing' => renewal[r].account \in RegisteredAccounts'
                      /\ \A b \in RegisteredAccounts' :
                           entry'[b].slot = renewal[r].slot <=> b = renewal[r].account
                      /\ renewal[r].carried # None =>
                           LoginAccount[renewal[r].carried] = renewal[r].account
                      /\ renewal[r].outcome = "renewed" => renewal[r].carried # None
                      /\ renewal[r].carried \notin cleared'
    BY <1>4 DEF WritesOwned
  <2>1. Writing(r)
    BY <1>4
  <2> QED
    BY <1>1, <1>3, <2>1 DEF WritesOwned
<1>10. OneHome'
  <2>1. RenewalsStay
    BY <1>4 DEF RenewalsStay
  <2>2. \A d \in Cleanups, t \in Slots, l \in Logins :
          cleanup'[d] # None /\ cleanup'[d].carried = l /\ cleanup'[d].slot = t =>
            Placed(l, t) \/ cookie'[t] = l
    BY <1>1, SlotsAssumption DEF Placed
  <2> QED
    BY <2>1, <2>2, AnswersPlace
<1>11. ClearedGone' /\ CookiesOwned'
  BY <1>3, AnswersRevive, AnswersOwn DEF CookiesOwned
<1> QED
  BY <1>5, <1>6, <1>7, <1>8, <1>9, <1>10, <1>11

\* The user removes an account that is not shown.
LEMMA RemoveAccountOrdered ==
  ASSUME Orderly, Ordered, Typed', NEW a \in Accounts, RemoveAccount(a)
  PROVE  Ordered'
<1>1. /\ signIn = None /\ logouts = {} /\ \A r \in Requests : ~ Saving(r)
      /\ a \in RegisteredAccounts /\ a # active
  BY UndisturbedClosed DEF RemoveAccount, RegisteredAccounts
<1>2. RenewalsEnd /\ AnswersWrite /\ cookie' = cookie
  BY DEF RemoveAccount, RenewalsEnd, AnswersWrite
<1>3. PICK c \in FreeCleanups : ClearSlot(entry[a].slot, c, cookie') /\ Forget(a)
  BY <1>1, <1>2 DEF RemoveAccount, Remove, RegisteredAccounts
<1> QED
  BY <1>1, <1>2, <1>3, RemovedOrdered DEF RemoveAccount, Remove, RegisteredAccounts

\* A renewal of an account that stays, or leaves, is refused.
LEMMA FinishRefusedOrdered ==
  ASSUME Orderly, Ordered, Typed', NEW r \in Requests, FinishRefused(r)
  PROVE  Ordered'
<1> USE DEF Ordered
<1> DEFINE a == renewal[r].account
<1>1. /\ signIn = None /\ logouts = {} /\ \A q \in Requests : ~ Saving(q)
      /\ active = None \/ active \in RegisteredAccounts
      /\ \A s \in closing : \E c \in Cleanups : cleanup[c] # None /\ cleanup[c].slot = s
  BY UndisturbedClosed DEF FinishRefused
<1>2. /\ renewal[r] # None /\ renewal[r] \in Renewals /\ Writing(r)
      /\ renewal[r].outcome \in {"refused", "broken"}
      /\ AnswerCookies(r) /\ a \in Accounts
  BY DEF FinishRefused, Served, Writing, Typed, TypeOK, Renewals
<1>3. AnswersWrite
  BY <1>2, AnswerTyped DEF Typed, AnswersWrite
<1>4. UNCHANGED <<entry, token, signIn, cleared, spent>> \/ UNCHANGED <<token, signIn, cleared, spent>>
  BY DEF FinishRefused
<1>5. CASE Remove(a, cookie') /\ Done(r)
  <2>1. \A q \in Requests : renewal'[q] = IF q = r THEN None ELSE renewal[q]
    BY <1>5 DEF Done, Typed, TypeOK
  <2>2. RenewalsEnd /\ \A q \in Requests : ~ Saving(q)'
    BY <1>1, <2>1 DEF RenewalsEnd, Saving
  <2>3. CASE a = active /\ CallLogout /\ UNCHANGED <<entry, timers, closing, cleanup>>
    <3>1. active \in RegisteredAccounts
      BY <1>1, <1>2, <2>3, SlotsAssumption
    <3> QED
      BY <1>1, <1>3, <2>2, <2>3, <3>1, CalledOrdered DEF FinishRefused
  <2>4. ASSUME a # active, Registered(a), NEW c \in FreeCleanups,
               ClearSlot(entry[a].slot, c, cookie'), Forget(a), UNCHANGED logouts
        PROVE  Ordered'
    BY <1>1, <1>2, <1>3, <2>2, <2>4, RemovedOrdered DEF FinishRefused, RegisteredAccounts
  <2>5. CASE UNCHANGED <<entry, timers, closing, cleanup, logouts>>
    <3>1. RenewalsGoOn
      BY <1>1, <1>5, DoneGoesOn
    <3> QED
      BY <1>3, <2>5, <3>1, GoOnOrdered DEF FinishRefused, TokensOwned
  <2> QED
    BY <1>5, <2>3, <2>4, <2>5 DEF Remove
<1>6. CASE /\ a = active
           /\ closing' = closing \cup {renewal[r].slot}
           /\ renewal' = [renewal EXCEPT ![r].phase = "drafts"]
           /\ UNCHANGED <<entry, timers, promises, logouts, cleanup>>
  <2> DEFINE new == [renewal[r] EXCEPT !.phase = "drafts"]
  <2>1. /\ new \in Renewals /\ new.phase = "drafts" /\ new.slot = renewal[r].slot
        /\ new.carried = renewal[r].carried /\ new # None
    BY <1>2, NoneAssumption DEF Renewals
  <2>2. \A q \in Requests : renewal'[q] = IF q = r THEN new ELSE renewal[q]
    BY <1>6 DEF Typed, TypeOK
  <2> HIDE DEF new
  <2>3. \A q \in Requests : /\ Saving(q)' <=> q = r
                            /\ Pending(q)' => Pending(q) /\ renewal'[q] = renewal[q]
                            /\ Writing(q)' => Writing(q) /\ renewal'[q] = renewal[q]
    BY <1>1, <2>1, <2>2 DEF Saving, Pending, Writing
  <2>4. active \in RegisteredAccounts /\ entry[active].slot = renewal[r].slot
    BY <1>1, <1>2, <1>6, SlotsAssumption DEF WritesOwned
  <2>5. OneAtATime'
    BY <1>1, <1>6, <2>1, <2>2, <2>3, <2>4
    DEF OneAtATime, FinishRefused, RegisteredAccounts, Registered
  <2>6. LogoutsOrdered' /\ SignInOrdered' /\ ClearedSpent' /\ TokensOwned'
    BY <1>1, <1>6
    DEF FinishRefused, LogoutsOrdered, SignInOrdered, ClearedSpent, Unredeemed, TokensOwned,
        RegisteredAccounts, Registered
  <2>7. ClosedForAReason'
    BY <1>1, <1>6, <2>1, <2>2, <2>3 DEF ClosedForAReason
  <2>8. CleanupsOrdered'
    BY <1>6, <2>3 DEF CleanupsOrdered, RegisteredAccounts, Registered
  <2>9. WritesOwned'
    BY <1>6, <2>3 DEF FinishRefused, WritesOwned, RegisteredAccounts, Registered
  <2>10. OneHome'
    <3>1. RenewalsStay
      BY <2>1, <2>2 DEF RenewalsStay, FinishRefused, Served
    <3> QED
      BY <1>3, <1>6, <3>1, AnswersPlace DEF FinishRefused, Placed
  <2>11. ClearedGone' /\ CookiesOwned'
    BY <1>3, <1>6, AnswersRevive, AnswersOwn
    DEF FinishRefused, CookiesOwned, RegisteredAccounts, Registered
  <2> QED
    BY <2>5, <2>6, <2>7, <2>8, <2>9, <2>10, <2>11
<1>7. renewal[r].outcome = "refused" /\ renewal[r].wasActive => a = active
  BY DEF FinishRefused, Orderly
<1> QED
  BY <1>2, <1>5, <1>6, <1>7 DEF FinishRefused

\* While a sign-out is under way nothing else is.
LEMMA DuringLogout ==
  ASSUME Ordered, NEW o \in logouts
  PROVE  /\ signIn = None /\ logouts = {o}
         /\ \A r \in Requests : ~ Saving(r)
         /\ o.slot \in Slots /\ o.account \in Accounts
  BY DEF Ordered, OneAtATime, Typed, TypeOK

\* The account leaves the registry with its slot closed.
LEMMA TearDownOrdered ==
  ASSUME Ordered, Typed', NEW o \in logouts, TearDown(o)
  PROVE  Ordered'
<1> USE DEF Ordered
<1> DEFINE a == o.account
           next == [o EXCEPT !.phase = "flush"]
<1>1. /\ signIn = None /\ logouts = {o} /\ \A r \in Requests : ~ Saving(r)
      /\ o.slot \in Slots /\ a \in RegisteredAccounts /\ entry[a].slot = o.slot
      /\ o \in LogoutCalls
  BY DuringLogout DEF TearDown, LogoutsOrdered, Typed, TypeOK, LogoutCalls
<1>2. logouts' = {next} /\ next.slot = o.slot /\ next.phase = "flush"
  BY <1>1 DEF TearDown, LogoutCalls
<1> HIDE DEF next
<1>3. \A b \in Accounts : entry'[b] = IF b = a THEN None ELSE entry[b]
  BY DEF TearDown, Forget, Typed, TypeOK
<1>4. /\ \A b \in RegisteredAccounts' : /\ b \in RegisteredAccounts /\ b # a /\ entry'[b] = entry[b]
                                       /\ entry'[b].slot # o.slot
      /\ \A b \in RegisteredAccounts : b # a => b \in RegisteredAccounts'
  BY <1>1, <1>3 DEF RegisteredAccounts, Registered, Typed, SlotsDistinct
<1>5. OneAtATime'
  BY <1>1, <1>2 DEF TearDown, OneAtATime, Saving
<1>6. LogoutsOrdered'
  BY <1>2, <1>4 DEF LogoutsOrdered
<1>7. ClosedForAReason'
  BY <1>1, <1>2 DEF TearDown, ClosedForAReason, Saving
<1>8. CleanupsOrdered'
  BY <1>4 DEF TearDown, CleanupsOrdered, Pending
<1>9. WritesOwned'
  BY <1>1, <1>4 DEF TearDown, WritesOwned, Writing
<1>10. SignInOrdered' /\ ClearedSpent' /\ TokensOwned' /\ ClearedGone'
  BY <1>1 DEF TearDown, SignInOrdered, ClearedSpent, Unredeemed, TokensOwned, ClearedGone
<1>11. OneHome'
  BY DEF TearDown, OneHome, Placed, Unredeemed
<1>12. CookiesOwned'
  BY <1>4 DEF TearDown, CookiesOwned
<1> QED
  BY <1>5, <1>6, <1>7, <1>8, <1>9, <1>10, <1>11, <1>12

\* The cleanup of the slot begins; nobody registered has the slot.
LEMMA LeaveOrdered ==
  ASSUME Ordered, Typed', NEW o \in logouts, Leave(o)
  PROVE  Ordered'
<1> USE DEF Ordered
<1>1. /\ signIn = None /\ logouts = {o} /\ \A r \in Requests : ~ Saving(r)
      /\ o.slot \in Slots /\ \A a \in RegisteredAccounts : entry[a].slot # o.slot
      /\ o \in LogoutCalls
  BY DuringLogout DEF Leave, LogoutsOrdered, Typed, TypeOK, LogoutCalls
<1>2. PICK c \in FreeCleanups :
        /\ ClearSlot(o.slot, c, cookie)
        /\ \/ active' \in RegisteredAccounts /\ logouts' = logouts \ {o}
           \/ logouts' = (logouts \ {o}) \cup {[o EXCEPT !.phase = "leaving", !.wipe = c]}
  BY DEF Leave
<1>3. /\ c \in Cleanups /\ cleanup[c] = None
      /\ \A d \in Cleanups : d # c => cleanup'[d] = cleanup[d]
      /\ cleanup'[c] # None /\ cleanup'[c].slot = o.slot /\ ~ cleanup'[c].late
      /\ cleanup'[c].carried \in {cookie[o.slot], None}
      /\ \A r \in Requests : Pending(r) /\ renewal[r].slot = o.slot =>
           cleanup'[c].phase = "settling" /\ r \in cleanup'[c].waits
      /\ closing' = closing \cup {o.slot}
  BY <1>1, <1>2, ClearSlotFacts DEF Typed, TypeOK
<1>4. \/ active' \in RegisteredAccounts /\ logouts' = {}
      \/ /\ logouts' = {[o EXCEPT !.phase = "leaving", !.wipe = c]}
         /\ [o EXCEPT !.phase = "leaving", !.wipe = c].phase = "leaving"
  BY <1>1, <1>2 DEF LogoutCalls
<1>5. OneAtATime'
  BY <1>1, <1>4 DEF Leave, OneAtATime, Saving, RegisteredAccounts, Registered
<1>6. LogoutsOrdered'
  BY <1>4 DEF LogoutsOrdered
<1>7. ClosedForAReason'
  BY <1>1, <1>3 DEF Leave, ClosedForAReason
<1>8. CleanupsOrdered'
  <2> SUFFICES ASSUME NEW d \in Cleanups, cleanup'[d] # None
               PROVE  /\ \A b \in RegisteredAccounts : entry[b].slot # cleanup'[d].slot
                      /\ \A r \in Requests : Pending(r) /\ renewal[r].slot = cleanup'[d].slot =>
                           cleanup'[d].phase = "settling" /\ r \in cleanup'[d].waits
    BY DEF Leave, CleanupsOrdered, RegisteredAccounts, Registered, Pending
  <2>1. CASE d = c
    BY <1>1, <1>3, <2>1
  <2>2. CASE d # c
    BY <1>3, <2>2 DEF CleanupsOrdered
  <2> QED
    BY <2>1, <2>2
<1>9. WritesOwned'
  BY <1>3 DEF Leave, WritesOwned, Writing, RegisteredAccounts, Registered
<1>10. SignInOrdered' /\ ClearedSpent' /\ TokensOwned' /\ ClearedGone' /\ CookiesOwned'
  BY <1>1
  DEF Leave, SignInOrdered, ClearedSpent, Unredeemed, TokensOwned, ClearedGone, CookiesOwned,
      RegisteredAccounts, Registered
<1>11. OneHome'
  <2>1. ASSUME NEW l \in Logins, NEW s \in Slots, Placed(l, s)'
        PROVE  Placed(l, s)
    BY <1>3, <2>1, SlotsAssumption DEF Leave, Placed
  <2>2. \A l \in Logins : Unredeemed(l)' => Unredeemed(l)
    BY DEF Leave, Unredeemed
  <2> QED
    BY <2>1, <2>2, PlacedKept DEF Leave
<1> QED
  BY <1>5, <1>6, <1>7, <1>8, <1>9, <1>10, <1>11

\* The page load of a full sign-out ends every renewal.
LEMMA NavigateOrdered ==
  ASSUME Ordered, Typed', NEW o \in logouts, Navigate(o)
  PROVE  Ordered'
<1> USE DEF Ordered
<1>1. /\ active' = None /\ logouts' = {} /\ closing' = {} /\ signIn' = None
      /\ \A r \in Requests : renewal'[r] = None
      /\ \A c \in Cleanups : cleanup'[c] # None => cleanup'[c] = cleanup[c]
      /\ UNCHANGED <<entry, cookie, cleared, spent>>
  BY DEF Navigate
<1>2. OneAtATime' /\ LogoutsOrdered' /\ ClosedForAReason' /\ WritesOwned' /\ SignInOrdered'
  BY <1>1
  DEF OneAtATime, LogoutsOrdered, ClosedForAReason, WritesOwned, SignInOrdered, Saving, Writing
<1>3. CleanupsOrdered'
  BY <1>1 DEF CleanupsOrdered, Pending, RegisteredAccounts, Registered
<1>4. ClearedSpent' /\ ClearedGone' /\ CookiesOwned'
  BY <1>1 DEF ClearedSpent, Unredeemed, ClearedGone, CookiesOwned, RegisteredAccounts, Registered
<1>5. TokensOwned'
  BY DEF Navigate, TokensOwned
<1>6. OneHome'
  BY <1>1 DEF OneHome, Placed, Unredeemed
<1> QED
  BY <1>2, <1>3, <1>4, <1>5, <1>6

\* Nothing renews, joins or waits in a slot whose DELETE is out.
LEMMA NothingPending ==
  ASSUME Ordered, NEW c \in Cleanups, cleanup[c] # None, cleanup[c].phase # "settling",
         NEW r \in Requests, Pending(r) \/ Writing(r)
  PROVE  renewal[r].slot # cleanup[c].slot
  BY DEF Ordered, CleanupsOrdered, Writing, Pending

\* A cleanup clears a slot that no renewal writes any more.
LEMMA CleanupStepOrdered ==
  ASSUME Ordered, Typed', NEW c \in Cleanups, CleanupStep(c)
  PROVE  Ordered'
<1> USE DEF Ordered
<1>1. cleanup[c] # None /\ cleanup[c] \in Wipes /\ cleanup[c].slot \in Slots
  BY DEF CleanupStep, Settled, AbortWrites, ServeDelete, Deleted, GiveUpWaiting, Typed, TypeOK, Wipes
<1>2. /\ SendDelete(c).slot = cleanup[c].slot /\ SendDelete(c).late = cleanup[c].late
      /\ SendDelete(c).carried = cookie[cleanup[c].slot]
  BY <1>1 DEF SendDelete, Wipes
<1>3. SendDelete(c) # None
  <2>1. SendDelete(c) \in Wipes
    BY <1>1 DEF SendDelete, Wipes, Typed, TypeOK, LoginOrNone
  <2> QED
    BY <2>1, NoneAssumption
<1>4. CASE Settled(c)
  <2>1. \A d \in Cleanups : cleanup'[d] = IF d = c THEN SendDelete(c) ELSE cleanup[d]
    BY <1>4 DEF Settled, Typed, TypeOK
  <2>2. UNCHANGED <<entry, active, token, renewal, closing, logouts, signIn, cookie, cleared, spent>>
    BY <1>4 DEF Settled, page
  <2>3. \A r \in Requests : ~ (Pending(r) /\ renewal[r].slot = cleanup[c].slot)
    BY <1>1, <1>4 DEF Settled, CleanupsOrdered
  <2>4. CleanupsGoOn
    BY <1>1, <1>2, <1>3, <2>1, <2>2, <2>3 DEF CleanupsGoOn, Pending, Writing
  <2>5. RenewalsGoOn /\ AnswersWrite
    BY <2>2 DEF RenewalsGoOn, Goes, Saving, AnswersWrite
  <2> QED
    BY <2>2, <2>4, <2>5, AllGoOnOrdered DEF TokensOwned, ClearedGone, ClearedSpent, Unredeemed
<1>5. CASE AbortWrites(c)
  <2> DEFINE hung == {r \in cleanup[c].waits : Pending(r)}
             cut(r) == [renewal[r] EXCEPT !.phase = IF @ = "context" THEN "unsynced" ELSE "cut"]
  <2>1. /\ \A d \in Cleanups : cleanup'[d] = IF d = c THEN SendDelete(c) ELSE cleanup[d]
        /\ \A r \in Requests : renewal'[r] = IF r \notin hung THEN renewal[r] ELSE cut(r)
        /\ UNCHANGED <<entry, active, token, closing, logouts, signIn, cookie, cleared, spent>>
    BY <1>5 DEF AbortWrites, Typed, TypeOK
  <2>2. \A r \in hung : /\ r \in Requests /\ renewal[r] # None /\ renewal[r] \in Renewals
                        /\ renewal[r].phase \in {"sent", "served", "context"}
    BY <1>1 DEF Pending, Wipes, Typed, TypeOK
  <2>3. \A r \in hung : /\ cut(r).account = renewal[r].account /\ cut(r).slot = renewal[r].slot
                        /\ cut(r).carried = renewal[r].carried
                        /\ cut(r).outcome = renewal[r].outcome
                        /\ cut(r).phase \in {"cut", "unsynced"}
    BY <2>2 DEF Renewals
  <2>4. \A r \in Requests : Pending(r) /\ renewal[r].slot = cleanup[c].slot => r \in hung
    BY <1>1 DEF CleanupsOrdered
  <2> HIDE DEF cut, hung
  <2>5. \A r \in Requests : Goes(r) /\ (Saving(r) => Saving(r)' /\ renewal'[r].slot = renewal[r].slot)
    BY <2>1, <2>2, <2>3 DEF Goes, Saving
  <2>6. RenewalsGoOn /\ AnswersWrite
    BY <2>1, <2>5 DEF RenewalsGoOn, AnswersWrite
  <2>7. \A r \in Requests : ~ (Pending(r)' /\ renewal'[r].slot = cleanup[c].slot)
    BY <2>1, <2>2, <2>3, <2>4 DEF Pending
  <2>8. CleanupsGoOn
    BY <1>1, <1>2, <1>3, <2>1, <2>7 DEF CleanupsGoOn
  <2> QED
    BY <2>1, <2>6, <2>8, AllGoOnOrdered DEF TokensOwned, ClearedGone, ClearedSpent, Unredeemed
<1>6. CASE ServeDelete(c)
  <2>1. PICK o \in {"served", "failed"} : cleanup' = [cleanup EXCEPT ![c].phase = o]
    BY <1>6 DEF ServeDelete
  <2> DEFINE new == [cleanup[c] EXCEPT !.phase = o]
  <2>2. /\ new.slot = cleanup[c].slot /\ new.late = cleanup[c].late
        /\ new.carried = cleanup[c].carried /\ new # None
    BY <1>1, NoneAssumption DEF Wipes
  <2>3. \A d \in Cleanups : cleanup'[d] = IF d = c THEN new ELSE cleanup[d]
    BY <2>1 DEF Typed, TypeOK
  <2> HIDE DEF new
  <2>4. UNCHANGED <<entry, active, token, renewal, closing, logouts, signIn, cookie, cleared, spent>>
    BY <1>6 DEF ServeDelete, page
  <2>5. \A r \in Requests : ~ (Pending(r) /\ renewal[r].slot = cleanup[c].slot)
    BY <1>1, <1>6, NothingPending DEF ServeDelete
  <2>6. CleanupsGoOn
    BY <1>1, <2>2, <2>3, <2>4, <2>5 DEF CleanupsGoOn, Pending, Writing
  <2>7. RenewalsGoOn /\ AnswersWrite
    BY <2>4 DEF RenewalsGoOn, Goes, Saving, AnswersWrite
  <2> QED
    BY <2>4, <2>6, <2>7, AllGoOnOrdered DEF TokensOwned, ClearedGone, ClearedSpent, Unredeemed
<1>7. CASE GiveUpWaiting(c)
  <2> DEFINE new == [cleanup[c] EXCEPT !.late = TRUE]
  <2>1. /\ new.slot = cleanup[c].slot /\ new.phase = cleanup[c].phase /\ new.waits = cleanup[c].waits
        /\ new.carried = cleanup[c].carried
    BY <1>1 DEF Wipes
  <2>2. \A d \in Cleanups : cleanup'[d] = IF d = c THEN new ELSE cleanup[d]
    BY <1>7 DEF GiveUpWaiting, Typed, TypeOK
  <2> HIDE DEF new
  <2>3. /\ UNCHANGED <<entry, active, token, renewal, logouts, signIn, cookie, cleared, spent>>
        /\ closing' = closing \ {cleanup[c].slot}
    BY <1>7 DEF GiveUpWaiting
  <2>4. \A r \in Requests : Writing(r) => renewal[r].slot # cleanup[c].slot
    BY <1>1, <1>7, NothingPending DEF GiveUpWaiting
  <2>5. CleanupsGoOn
    BY <1>1, <2>1, <2>2, <2>3, <2>4 DEF CleanupsGoOn, Pending, Writing
  <2>6. RenewalsGoOn /\ AnswersWrite
    BY <2>3 DEF RenewalsGoOn, Goes, Saving, AnswersWrite
  <2> QED
    BY <2>3, <2>5, <2>6, AllGoOnOrdered DEF TokensOwned, ClearedGone, ClearedSpent, Unredeemed
<1>8. CASE Deleted(c)
  <2> DEFINE s == cleanup[c].slot
             l == cleanup[c].carried
  <2>1. \A d \in Cleanups : cleanup'[d] = IF d = c THEN None ELSE cleanup[d]
    BY <1>8 DEF Deleted, Typed, TypeOK
  <2>2. /\ UNCHANGED <<entry, active, token, renewal, logouts, signIn, spent>>
        /\ closing' = IF cleanup[c].late THEN closing ELSE closing \ {s}
    BY <1>8 DEF Deleted
  <2>3. \/ UNCHANGED <<cookie, cleared>>
        \/ /\ l # None /\ l \in Logins /\ cleared' = cleared \cup {l}
           /\ \A t \in Slots : cookie'[t] = IF t = s THEN None ELSE cookie[t]
    BY <1>1, <1>8 DEF Deleted, Typed, TypeOK, Wipes
  <2>4. \A r \in Requests : Writing(r) => renewal[r].slot # s
    BY <1>1, <1>8, NothingPending DEF Deleted
  <2>5. CleanupsGoOn
    BY <1>1, <2>1, <2>2, <2>4 DEF CleanupsGoOn, Pending, Writing
  <2>6. RenewalsGoOn /\ AnswersWrite
    BY <2>2, <2>3 DEF RenewalsGoOn, Goes, Saving, AnswersWrite
  <2>7. l \in Logins => Placed(l, s)
    BY <1>1 DEF Placed
  <2>8. l \in Logins => l \in spent /\ ~ Unredeemed(l) /\ \A t \in Slots : Placed(l, t) => t = s
    BY <1>1, <2>7 DEF OneHome
  <2>9. ClearedGone'
    BY <2>3, <2>8, SlotsAssumption DEF ClearedGone, Placed, Typed, TypeOK
  <2>10. ClearedSpent'
    BY <2>2, <2>3, <2>8 DEF ClearedSpent, Unredeemed
  <2>11. \A r \in Requests : Writing(r)' /\ renewal'[r].carried \in cleared' =>
           renewal'[r].carried \in cleared
    <3> SUFFICES ASSUME NEW r \in Requests, Writing(r), renewal[r].carried = l, l \in Logins
                 PROVE  FALSE
      BY <2>2, <2>3 DEF Writing
    <3>1. renewal[r] # None /\ renewal[r].slot \in Slots
      BY DEF Writing, Typed, TypeOK, Renewals
    <3>2. Placed(l, renewal[r].slot)
      BY <3>1 DEF Placed
    <3> QED
      BY <2>4, <2>8, <3>1, <3>2
  <2> QED
    BY <2>2, <2>5, <2>6, <2>9, <2>10, <2>11, AllGoOnOrdered DEF TokensOwned
<1> QED
  BY <1>4, <1>5, <1>6, <1>7, <1>8 DEF CleanupStep

\* At first nothing is under way.
LEMMA InitOrdered ==
  ASSUME Init
  PROVE  Ordered
<1> USE DEF Init
<1>1. Typed
  BY SlotsAssumption
  DEF Typed, TypeOK, LoginOrNone, Promised, SlotsDistinct, RegisteredAccounts, Registered
<1>2. OneAtATime /\ LogoutsOrdered /\ ClosedForAReason /\ CleanupsOrdered /\ WritesOwned
  BY DEF OneAtATime, LogoutsOrdered, ClosedForAReason, CleanupsOrdered, WritesOwned, Saving, Writing
<1>3. SignInOrdered /\ ClearedSpent /\ ClearedGone /\ CookiesOwned /\ TokensOwned
  BY DEF SignInOrdered, ClearedSpent, ClearedGone, CookiesOwned, TokensOwned, RegisteredAccounts, Registered
<1>4. OneHome
  BY SlotsAssumption DEF OneHome, Placed
<1> QED
  BY <1>1, <1>2, <1>3, <1>4 DEF Ordered

\* That a sign-out ended at its flush is never forgotten.
LEMMA HaltedStays ==
  ASSUME [Next]_vars, AllFlushed'
  PROVE  AllFlushed
<1> USE DEF AllFlushed
<1>1. CASE UNCHANGED halted
  BY <1>1
<1>2. ASSUME NEW o \in logouts, FlushThrows(o)
      PROVE  FALSE
  BY <1>2 DEF FlushThrows
<1>3. ASSUME NEW c \in Cleanups, CleanupStep(c)
      PROVE  UNCHANGED halted
  BY <1>3 DEF CleanupStep, Settled, AbortWrites, ServeDelete, Deleted, GiveUpWaiting
<1>4. ASSUME NEW r \in Requests, RenewalStep(r)
      PROVE  UNCHANGED halted
  BY <1>4 DEF RenewalStep, Serve, LoseRenewal, FinishOutage, Renewed, ContextSynced,
              FinishRefused, DraftsSaved
<1>5. ASSUME NEW a \in Accounts, Switch(a) \/ TimerFires(a) \/ ClientRejected(a) \/ RemoveAccount(a)
      PROVE  UNCHANGED halted
  BY <1>5 DEF Switch, TimerFires, ClientRejected, RemoveAccount
<1>6. ASSUME NEW l \in Logins, StartSignIn(l)
      PROVE  UNCHANGED halted
  BY <1>6 DEF StartSignIn
<1> QED
  BY <1>1, <1>2, <1>3, <1>4, <1>5, <1>6
  DEF Next, vars, SignInStep, Redeemed, Register, SignInFails, Logout, LogoutStep, TearDown,
      Leave, Navigate

\* Every step that lets no sign-out end at its flush keeps the order.
LEMMA NextOrdered ==
  ASSUME Orderly, Ordered, [Next]_vars, AllFlushed'
  PROVE  Ordered'
<1>0. Typed'
  BY NextTyped DEF Ordered
<1>1. ASSUME NEW a \in Accounts, TimerFires(a) \/ ClientRejected(a)
      PROVE  Ordered'
  <2>1. a \in RegisteredAccounts
    BY <1>1 DEF Orderly, TimerFires, ClientRejected, RegisteredAccounts
  <2>2. PICK asked \in BOOLEAN : Refresh(a, asked)
    BY <1>1 DEF TimerFires, ClientRejected
  <2> QED
    BY <1>0, <1>1, <2>1, <2>2, RefreshOrdered DEF TimerFires, ClientRejected
<1>2. CASE UNCHANGED vars
  <2>1. RenewalsGoOn /\ AnswersWrite
    BY <1>2 DEF vars, page, RenewalsGoOn, Goes, Saving, AnswersWrite
  <2> QED
    BY <1>0, <1>2, <2>1, GoOnOrdered DEF vars, page, Ordered, TokensOwned
<1>3. ASSUME NEW r \in Requests, RenewalStep(r)
      PROVE  Ordered'
  BY <1>0, <1>3, RenewalStepOrdered, FinishRefusedOrdered, DraftsSavedOrdered
<1>4. CASE LogoutStep
  <2>1. \A o \in logouts : ~ FlushThrows(o)
    BY DEF FlushThrows, AllFlushed
  <2> QED
    BY <1>0, <1>4, <2>1, TearDownOrdered, LeaveOrdered, NavigateOrdered DEF LogoutStep
<1>5. CASE SignInStep
  BY <1>0, <1>5, RedeemedOrdered, RegisterOrdered, SignInFailsOrdered DEF SignInStep
<1> QED
  BY <1>0, <1>1, <1>2, <1>3, <1>4, <1>5, StartSignInOrdered, SwitchOrdered, RemoveAccountOrdered,
     LogoutOrdered, CleanupStepOrdered, HaltedStays
  DEF Next

\* A cookie goes with a sign-out of its own account, or a refusal.
LEMMA NextSpares ==
  ASSUME Ordered, [Next]_vars, NEW a \in RegisteredAccounts
  PROVE  Spared(a)
<1> DEFINE s == entry[a].slot
<1> SUFFICES ASSUME cookie[s] = entry[a].login, cookie'[s] = None
             PROVE  \E r \in Requests : FinishRefused(r) /\ renewal[r].account = a
  BY DEF Spared
<1> USE DEF Ordered
<1>1. a \in Accounts /\ s \in Slots /\ cookie[s] \in Logins
  BY DEF RegisteredAccounts, Registered, Typed, TypeOK, Entries
<1>2. cookie'[s] # cookie[s]
  BY <1>1, SlotsAssumption
<1>3. ASSUME NEW r \in Requests, AnswerCookies(r), Served(r, {"renewed", "refused", "broken"})
      PROVE  renewal[r].account = a /\ renewal[r].outcome # "renewed"
  <2>1. Writing(r)
    BY <1>3 DEF Served, Writing
  <2>2. /\ renewal[r].slot = s
        /\ renewal[r].outcome = "renewed" => renewal[r].carried = None
    BY <1>1, <1>2, <1>3, AnswerTyped DEF Served, Typed
  <2> QED
    BY <2>1, <2>2 DEF WritesOwned
<1>4. ~ Redeemed
  BY <1>1, <1>2, SlotsAssumption DEF Redeemed, Typed, TypeOK
<1>5. ASSUME NEW r \in Requests
      PROVE  ~ Renewed(r)
  BY <1>3 DEF Renewed, Served
<1>6. ASSUME NEW c \in Cleanups
      PROVE  ~ Deleted(c)
  BY <1>1, <1>2 DEF Deleted, CleanupsOrdered, Typed, TypeOK
<1>7. \E r \in Requests : FinishRefused(r)
  <2>1. ASSUME NEW r \in Requests, RenewalStep(r)
        PROVE  FinishRefused(r)
    BY <1>2, <1>5, <2>1
    DEF RenewalStep, Serve, LoseRenewal, FinishOutage, ContextSynced, DraftsSaved
  <2>2. ASSUME NEW c \in Cleanups
        PROVE  ~ CleanupStep(c)
    BY <1>2, <1>6 DEF CleanupStep, Settled, AbortWrites, ServeDelete, GiveUpWaiting, page
  <2>3. ~ LogoutStep /\ ~ SignInStep /\ ~ Logout /\ ~ UNCHANGED vars
    BY <1>2, <1>4 DEF LogoutStep, TearDown, Leave, FlushThrows, Navigate, SignInStep, Register, SignInFails,
                      Logout, vars, page
  <2>4. ASSUME NEW b \in Accounts
        PROVE  ~ (Switch(b) \/ TimerFires(b) \/ ClientRejected(b) \/ RemoveAccount(b))
    BY <1>2 DEF Switch, TimerFires, ClientRejected, RemoveAccount
  <2>5. \A l \in Logins : ~ StartSignIn(l)
    BY <1>2 DEF StartSignIn
  <2> QED
    BY <2>1, <2>2, <2>3, <2>4, <2>5 DEF Next
<1> QED
  BY <1>3, <1>7 DEF FinishRefused, Served

-----------------------------------------------------------------------------
\* The state stays typed, whatever overlaps.
THEOREM TypeCorrect == Spec => []TypeOK
<1>1. Init => Typed
  BY InitOrdered DEF Ordered
<1>2. Typed /\ [Next]_vars => Typed'
  BY NextTyped
<1>3. Typed => TypeOK
  BY DEF Typed
<1> QED
  BY <1>1, <1>2, <1>3, PTL DEF Spec

\* Where sign-outs cross nothing, their order against renewals is kept until one of
\* them ends at its flush.
THEOREM OrderKept ==
  ASSUME Orderly
  PROVE  Spec => [](AllFlushed => Ordered)
<1>1. (AllFlushed => Ordered) /\ [Next]_vars => (AllFlushed => Ordered)'
  BY NextOrdered, HaltedStays
<1> QED
  BY <1>1, InitOrdered, PTL DEF Spec

\* Until then no client is handed another account's token (auth-store.ts:2134-2136).
THEOREM TokensOwn ==
  ASSUME Orderly
  PROVE  Spec => []OwnToken
<1>1. (AllFlushed => Ordered) => OwnToken
  BY DEF Ordered, OwnToken, TokensOwned
<1> QED
  BY <1>1, OrderKept, PTL

\* Until then a registered account's slot never holds another account's cookie.
THEOREM CookiesOwn ==
  ASSUME Orderly
  PROVE  Spec => []OwnCookie
<1>1. (AllFlushed => Ordered) => OwnCookie
  BY DEF Ordered, OwnCookie, CookiesOwned
<1> QED
  BY <1>1, OrderKept, PTL

\* Until then no renewal in flight revives a session that a sign-out cleared
\* (auth-store.ts:290-302).
THEOREM StaysSignedOut ==
  ASSUME Orderly
  PROVE  Spec => []NotRevived
<1>1. (AllFlushed => Ordered) => NotRevived
  BY DEF Ordered, NotRevived, ClearedGone
<1> QED
  BY <1>1, OrderKept, PTL

\* And until then a sign-out spares the accounts that stay: only a refusal of its own
\* renewal takes an account's cookie (auth-store.ts:2134-2136, route.ts).
THEOREM OthersSpared ==
  ASSUME Orderly
  PROVE  Spec => SparesOthers
<1>1. (AllFlushed => Ordered) /\ [Next]_vars
      => [AllFlushed => \A a \in RegisteredAccounts : Spared(a)]_vars
  BY NextSpares
<1> QED
  BY <1>1, OrderKept, PTL DEF Spec, SparesOthers
=============================================================================
