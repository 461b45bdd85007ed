-------------------------- MODULE LiteTokensProofs --------------------------
(***************************************************************************)
(* One slot of Bulwark Lite, for any tabs, accounts, logins and tokens,    *)
(* where no renewal outlasts the wait of a sign-out.  Unless a sign-in     *)
(* crossed another tab, all that the slot holds anywhere is one login's    *)
(* (Only); unless its account is excused, the tokens are in one place that *)
(* every signed-in tab reads, and newest but for one renewal's (Kept).     *)
(***************************************************************************)
EXTENDS LiteTokens, TLAPS

\* A tab shows an account while it restores or has its session, and renews for it.
Pages ==
  \A t \in Tabs :
    /\ tab[t].account # None <=> tab[t].page \in {"restoring", "in"}
    /\ tab[t].client # None <=> tab[t].page = "in"
    /\ renewal[t] # None => tab[t].page \in {"restoring", "in", "closing"}

\* The provider answers with a token of the login that asked.
Answers ==
  \A t \in Tabs :
    renewal[t] # None /\ renewal[t].answer \in Token =>
      renewal[t].answer.login = renewal[t].used.login

\* A login of which something is stored, or that is being renewed.
StoredAt(l, p) == \/ store[p].access = l
                  \/ store[p].refresh # None /\ store[p].refresh.login = l
Renewing(l, t) == renewal[t] # None /\ renewal[t].used.login = l
Held(l) == (\E p \in Places : StoredAt(l, p)) \/ (\E t \in Tabs : Renewing(l, t))

\* What is held was signed in and is not gone.
NoneGone == \A l \in Logins : /\ Held(l) => l \notin gone
                              /\ Held(l) \/ l \in gone => signIn[l] # None

Sound == TypeOK /\ Pages /\ Answers /\ NoneGone

\* All that is in the slot is of login l, and whoever has it there has account x.
Only(l, x) ==
  /\ l # None => signIn[l] # None /\ signIn[l].account = x
  /\ registry \in {None, x}
  /\ \A t \in Tabs :
       /\ tab[t].account \in {None, x}
       /\ tab[t].client \in {None, l}
       /\ renewal[t] # None => renewal[t].account = x /\ renewal[t].used.login = l
  /\ \A p \in Places : /\ store[p].access \in {None, l}
                       /\ store[p].refresh # None => store[p].refresh.login = l
  /\ (store[Local].access # None \/ store[Local].refresh # None) => signIn[l].remember

\* A renewal whose answer is newer than what is stored.
Newer(t) == renewal[t] # None /\ renewal[t].answer \in Token \ {renewal[t].used}

\* The tokens are in one place, which every signed-in tab reads, and are the
\* newest, or the one renewal under way has the newest.
Whole == \A p \in Places : store[p].access = None <=> store[p].refresh = None
OnePlace == \A p, q \in Places : store[p].refresh # None /\ store[q].refresh # None => p = q
AllRead == \A t \in Tabs : tab[t].page = "in" => Read(t, "refresh") # None
OneRenewal == \A t, u \in Tabs : renewal[t] # None /\ renewal[u] # None => t = u
RenewsNewest(l) ==
  \A t \in Tabs : renewal[t] # None =>
    /\ renewal[t].used = Read(t, "refresh")
    /\ renewal[t].answer \in Token => renewal[t].answer.number = issued[l]
NewestStored(l) ==
  \A p \in Places : store[p].refresh # None =>
    store[p].refresh.number = issued[l] \/ \E t \in Tabs : Newer(t)
Kept(l) == Whole /\ OnePlace /\ AllRead /\ OneRenewal /\ RenewsNewest(l) /\ NewestStored(l)

Session(l, x) == Only(l, x) /\ (x \in excused \/ Kept(l))
OneSession == crossed \/ \E l \in Logins \cup {None}, x \in Accounts \cup {None} : Session(l, x)

Inv == Sound /\ OneSession

\* The markers are no values.
LEMMA Markers ==
  /\ None \notin Token /\ None \notin Logins /\ None \notin Accounts
  /\ None \notin SignedIn /\ None \notin Renewal /\ None # Refused
  /\ Local \in Places /\ Local \notin Tabs /\ Tabs \subseteq Places
  BY LiteAssumption DEF Places

\* What a tab reads.
LEMMA ReadRefresh ==
  ASSUME NEW t \in Tabs
  PROVE  Read(t, "refresh") = IF store[Local].refresh # None THEN store[Local].refresh
                              ELSE store[t].refresh
  BY DEF Read
\* The same of access tokens.
LEMMA ReadAccess ==
  ASSUME NEW t \in Tabs
  PROVE  Read(t, "access") = IF store[Local].access # None THEN store[Local].access
                             ELSE store[t].access
  BY DEF Read

\* LoginsAt() lists what StoredAt() says.
LEMMA LoginsStored ==
  ASSUME TypeOK, NEW p \in Places
  PROVE  \A l : l \in LoginsAt(p) <=> l \in Logins /\ StoredAt(l, p)
<1>1. /\ store[p].access \in Logins \cup {None}
      /\ store[p].refresh \in Token \cup {None}
      /\ store[p].refresh # None => store[p].refresh.login \in Logins
  BY DEF TypeOK, SlotRecord, Token
<1> QED
  BY <1>1, Markers DEF LoginsAt, StoredAt

\* Storing a value takes it from the other storage of the tab.
LEMMA SavedRefresh ==
  ASSUME NEW s \in [Places -> SlotRecord], NEW t \in Tabs, NEW v \in Token, NEW persistent \in BOOLEAN
  PROVE  /\ Saved(s, t, "refresh", v, persistent) \in [Places -> SlotRecord]
         /\ \A p \in Places :
              /\ Saved(s, t, "refresh", v, persistent)[p].refresh =
                   IF p = (IF persistent THEN Local ELSE t) THEN v
                   ELSE IF p \in {Local, t} THEN None ELSE s[p].refresh
              /\ Saved(s, t, "refresh", v, persistent)[p].access = s[p].access
  BY DEF Saved, SlotRecord
\* The same of access tokens.
LEMMA SavedAccess ==
  ASSUME NEW s \in [Places -> SlotRecord], NEW t \in Tabs, NEW v \in Logins, NEW persistent \in BOOLEAN
  PROVE  /\ Saved(s, t, "access", v, persistent) \in [Places -> SlotRecord]
         /\ \A p \in Places :
              /\ Saved(s, t, "access", v, persistent)[p].access =
                   IF p = (IF persistent THEN Local ELSE t) THEN v
                   ELSE IF p \in {Local, t} THEN None ELSE s[p].access
              /\ Saved(s, t, "access", v, persistent)[p].refresh = s[p].refresh
  BY DEF Saved, SlotRecord

\* What a sign-in leaves in the slot.
LEMMA SignedInStore ==
  ASSUME TypeOK, NEW t \in Tabs, NEW l \in Logins, NEW a \in Accounts, NEW remember \in BOOLEAN,
         LoginStored(t, l, a, remember)
  PROVE  /\ store' \in [Places -> SlotRecord]
         /\ \A p \in Places :
              IF p = (IF remember THEN Local ELSE t)
              THEN store'[p].access = l /\ store'[p].refresh = [login |-> l, number |-> 1]
              ELSE IF p \in {Local, t} THEN store'[p].access = None /\ store'[p].refresh = None
              ELSE store'[p] = store[p]
<1> DEFINE v == [login |-> l, number |-> 1]
           s == Saved(store, t, "refresh", v, remember)
<1>1. v \in Token
  BY LiteAssumption DEF Token
<1>2. store \in [Places -> SlotRecord] /\ store' = Saved(s, t, "access", l, remember)
  BY DEF TypeOK, LoginStored
<1>3. s \in [Places -> SlotRecord]
  BY <1>1, <1>2, SavedRefresh
<1>4. \A p \in Places : s[p].refresh = IF p = (IF remember THEN Local ELSE t) THEN v
                        ELSE IF p \in {Local, t} THEN None ELSE store[p].refresh
  BY <1>1, <1>2, SavedRefresh
<1>6. \A p \in Places \ {Local, t} : store'[p] = store[p]
  BY <1>2, Markers DEF Saved
<1> HIDE DEF s, v
<1>5. /\ store' \in [Places -> SlotRecord]
      /\ \A p \in Places : /\ store'[p].access = IF p = (IF remember THEN Local ELSE t) THEN l
                                ELSE IF p \in {Local, t} THEN None ELSE s[p].access
                           /\ store'[p].refresh = s[p].refresh
  BY <1>2, <1>3, SavedAccess
<1> QED
  BY <1>4, <1>5, <1>6 DEF v

\* What a granted renewal leaves in the slot.
LEMMA GrantedStore ==
  ASSUME TypeOK, NEW t \in Tabs, renewal[t] # None, renewal[t].answer \in Token
  PROVE  /\ Stored(t) \in [Places -> SlotRecord]
         /\ \A p \in Places :
              /\ Stored(t)[p].access =
                   IF p = (IF Persistent THEN Local ELSE t) THEN renewal[t].answer.login
                   ELSE IF p \in {Local, t} THEN None ELSE store[p].access
              /\ Stored(t)[p].refresh =
                   IF renewal[t].answer = renewal[t].used THEN store[p].refresh
                   ELSE IF p = (IF Persistent THEN Local ELSE t) THEN renewal[t].answer
                   ELSE IF p \in {Local, t} THEN None ELSE store[p].refresh
<1> DEFINE new == renewal[t].answer
           s == IF new = renewal[t].used THEN store ELSE Saved(store, t, "refresh", new, Persistent)
<1>1. store \in [Places -> SlotRecord] /\ new \in Token /\ new.login \in Logins
  BY DEF TypeOK, Token
<1>2. Persistent \in BOOLEAN
  BY DEF Persistent
<1>3. Stored(t) = Saved(s, t, "access", new.login, Persistent)
  BY DEF Stored
<1> HIDE DEF new
<1>4. /\ s \in [Places -> SlotRecord]
      /\ \A p \in Places :
           /\ s[p].access = store[p].access
           /\ s[p].refresh = IF new = renewal[t].used THEN store[p].refresh
                             ELSE IF p = (IF Persistent THEN Local ELSE t) THEN new
                             ELSE IF p \in {Local, t} THEN None ELSE store[p].refresh
  <2>1. CASE new = renewal[t].used
    BY <1>1, <2>1
  <2>2. CASE new # renewal[t].used
    BY <1>1, <1>2, <2>2, SavedRefresh
  <2> QED
    BY <2>1, <2>2
<1> HIDE DEF s
<1>5. /\ Stored(t) \in [Places -> SlotRecord]
      /\ \A p \in Places :
           /\ Stored(t)[p].access = IF p = (IF Persistent THEN Local ELSE t) THEN new.login
                                    ELSE IF p \in {Local, t} THEN None ELSE s[p].access
           /\ Stored(t)[p].refresh = s[p].refresh
  BY <1>1, <1>2, <1>3, <1>4, SavedAccess
<1> QED
  BY <1>4, <1>5 DEF new

\* Clearing the slot in a tab.
LEMMA ClearedStore ==
  ASSUME TypeOK, NEW t \in Tabs
  PROVE  /\ Cleared(t) \in [Places -> SlotRecord]
         /\ \A p \in Places : /\ Cleared(t)[p].access = IF p \in {Local, t} THEN None ELSE store[p].access
                              /\ Cleared(t)[p].refresh = IF p \in {Local, t} THEN None ELSE store[p].refresh
  BY DEF TypeOK, Cleared, Empty, SlotRecord

\* Initially nothing is signed in.
LEMMA InitTyped ==
  ASSUME Init
  PROVE  TypeOK
<1>1. Page("closed", None) \in Tab /\ Empty \in SlotRecord
  BY DEF Page, Tab, Empty, SlotRecord
<1>2. 0 \in 0 .. MaxTokens
  BY LiteAssumption
<1> QED
  BY <1>1, <1>2 DEF Init, TypeOK

\* A page load keeps the types.
LEMMA LoadedTyped ==
  ASSUME TypeOK, NEW t \in Tabs, Loaded(t)
  PROVE  /\ tab' \in [Tabs -> Tab]
         /\ renewal' \in [Tabs -> Renewal \cup {None}]
         /\ told' \subseteq Tabs
         /\ excused' \subseteq Accounts
<1>1. Page(IF registry = None THEN "login" ELSE "restoring", registry) \in Tab
  BY DEF TypeOK, Page, Tab
<1>2. LostBy(t) \subseteq Accounts
  BY DEF TypeOK, LostBy, Renewal
<1> QED
  BY <1>1, <1>2 DEF TypeOK, Loaded

\* What a step may lose are accounts.
LEMMA LossesTyped ==
  ASSUME TypeOK, NEW t \in Tabs
  PROVE  /\ LostBy(t) \subseteq Accounts
         /\ \A u \in Tabs : RenewedBy(u) \subseteq Accounts
<1>1. \A u \in Tabs : renewal[u] # None => renewal[u].account \in Accounts
  BY DEF TypeOK, Renewal
<1> QED
  BY <1>1 DEF LostBy, RenewedBy

\* What another tab has in the slot is an account's.
LEMMA DisturbedTyped ==
  ASSUME TypeOK, NoneGone, NEW t \in Tabs
  PROVE  Disturbed(t) \subseteq Accounts
<1>1. \A u \in Tabs : (({tab[u].account} \ {None}) \cup RenewedBy(u)) \subseteq Accounts
  BY LossesTyped DEF TypeOK, Tab
<1>2. ASSUME NEW u \in Tabs, NEW l \in LoginsAt(u)
      PROVE  signIn[l].account \in Accounts
  <2>1. u \in Places /\ l \in Logins /\ Held(l)
    BY <1>2, LoginsStored, Markers DEF Held
  <2>2. signIn[l] \in SignedIn
    BY <2>1 DEF NoneGone, TypeOK
  <2> QED
    BY <2>2 DEF SignedIn
<1>3. InOtherTabs(t) \subseteq Accounts
  BY <1>1, <1>2 DEF InOtherTabs, Others
<1> QED
  BY <1>3 DEF Disturbed, TypeOK

\* Leaving the list of accounts keeps the types.
LEMMA SigningOutTyped ==
  ASSUME TypeOK, NEW t \in Tabs, SigningOut(t)
  PROVE  registry' \in Accounts \cup {None} /\ tab' \in [Tabs -> Tab]
<1>1. Page("closing", None) \in Tab
  BY DEF Page, Tab
<1> QED
  BY <1>1 DEF SigningOut, TypeOK

\* A refused session leaves, with the types kept.
LEMMA EndedTyped ==
  ASSUME TypeOK, NEW t \in Tabs, Ended(t)
  PROVE  registry' \in Accounts \cup {None} /\ tab' \in [Tabs -> Tab]
<1>1. Page("login", None) \in Tab
  BY DEF Page, Tab
<1> QED
  BY <1>1, SigningOutTyped DEF Ended, TypeOK

\* Sign-ins keep the types.
LEMMA SignInTyped ==
  ASSUME TypeOK, NEW t \in Tabs, NEW l \in Logins, NEW a \in Accounts, NEW remember \in BOOLEAN,
         SignIn(t, l, a, remember) \/ SignInFails(t, l, a, remember)
  PROVE  TypeOK'
<1>1. LoginStored(t, l, a, remember)
  BY DEF SignIn, SignInFails
<1>2. store' \in [Places -> SlotRecord]
  BY <1>1, SignedInStore
<1>3. signIn' \in [Logins -> SignedIn \cup {None}]
  BY <1>1 DEF LoginStored, TypeOK, SignedIn
<1>4. issued' \in [Logins -> 0 .. MaxTokens]
  BY <1>1, LiteAssumption DEF LoginStored, TypeOK
<1>5. /\ UNCHANGED <<renewal, told, revoked, gone>>
      /\ crossed' \in BOOLEAN
  BY <1>1 DEF LoginStored, TypeOK
<1>6. tab' \in [Tabs -> Tab]
  BY DEF SignIn, SignInFails, TypeOK, Tab
<1>7. excused' \subseteq Accounts /\ registry' \in Accounts \cup {None}
  BY DEF SignIn, SignInFails, TypeOK
<1> QED
  BY <1>2, <1>3, <1>4, <1>5, <1>6, <1>7 DEF TypeOK

\* Every step of a tab keeps the types.
LEMMA TabStepTyped ==
  ASSUME TypeOK, Pages, NoneGone, NEW t \in Tabs, TabStep(t)
  PROVE  TypeOK'
<1>1. CASE Open(t)
  BY <1>1, LoadedTyped DEF Open, TypeOK, provider
<1>2. CASE Close(t)
  <2>1. Page("closed", None) \in Tab /\ Empty \in SlotRecord
    BY DEF Page, Tab, Empty, SlotRecord
  <2> QED
    BY <1>2, <2>1, LossesTyped DEF Close, TypeOK, provider
<1>3. CASE WriteRegistry(t)
  BY <1>3 DEF WriteRegistry, TypeOK, Tab, provider, history
<1>4. CASE Resume(t)
  <2>1. Read(t, "access") \in Logins
    BY <1>4, ReadAccess, Markers DEF Resume, TypeOK, SlotRecord
  <2> QED
    BY <1>4, <2>1 DEF Resume, TypeOK, Tab, provider, history
<1>5. CASE Renew(t)
  <2>1. Read(t, "refresh") \in Token
    BY <1>5, ReadRefresh, Markers DEF Renew, TypeOK, SlotRecord
  <2>2. tab[t].account \in Accounts
    BY <1>5 DEF Renew, TypeOK, Tab, Pages
  <2> DEFINE new == [account |-> tab[t].account, used |-> Read(t, "refresh"), answer |-> None]
  <2>3. new \in Renewal
    BY <2>1, <2>2 DEF Renewal
  <2>4. /\ renewal' = [renewal EXCEPT ![t] = new]
        /\ UNCHANGED <<registry, store, tab, told, provider, crossed, gone>>
    BY <1>5 DEF Renew
  <2>5. excused' \subseteq Accounts
    BY <1>5, <2>2 DEF Renew, TypeOK
  <2> QED
    BY <2>3, <2>4, <2>5 DEF TypeOK, provider
<1>6. CASE Grant(t)
  <2>1. /\ renewal[t] \in Renewal
        /\ renewal[t].used.login \in Logins
    BY <1>6 DEF Grant, TypeOK, Renewal, Token
  <2>2. PICK n \in 1 .. MaxTokens :
          /\ issued' = [issued EXCEPT ![renewal[t].used.login] = n]
          /\ renewal' = [renewal EXCEPT ![t].answer = [login |-> renewal[t].used.login, number |-> n]]
    BY <1>6 DEF Grant
  <2>3. [login |-> renewal[t].used.login, number |-> n] \in Token
    BY <2>1 DEF Token
  <2>4. issued' \in [Logins -> 0 .. MaxTokens]
    BY <2>1, <2>2, LiteAssumption DEF TypeOK
  <2>5. renewal' \in [Tabs -> Renewal \cup {None}]
    BY <2>1, <2>2, <2>3 DEF TypeOK, Renewal
  <2> QED
    BY <1>6, <2>4, <2>5 DEF Grant, TypeOK, history
<1>7. CASE Refuse(t)
  <2>1. renewal[t] \in Renewal /\ renewal[t].used.login \in Logins
    BY <1>7 DEF Refuse, TypeOK, Renewal, Token
  <2>2. renewal' \in [Tabs -> Renewal \cup {None}]
    BY <1>7, <2>1 DEF Refuse, TypeOK, Renewal
  <2> QED
    BY <1>7, <2>1, <2>2 DEF Refuse, TypeOK, history
<1>8. CASE Granted(t)
  <2>1. renewal[t].answer.login \in Logins
    BY <1>8 DEF Granted, Token
  <2>2. tab' \in [Tabs -> Tab]
    BY <1>8, <2>1 DEF Granted, TypeOK, Tab
  <2> QED
    BY <1>8, <2>2, GrantedStore DEF Granted, TypeOK, provider, history
<1>9. CASE Outage(t)
  BY <1>9, LossesTyped DEF Outage, TypeOK, provider
<1>10. CASE RenewalRefused(t)
  BY <1>10, EndedTyped, DisturbedTyped, ClearedStore DEF RenewalRefused, TypeOK, provider
<1>11. CASE NothingToRenew(t)
  BY <1>11, EndedTyped, DisturbedTyped, ClearedStore DEF NothingToRenew, TypeOK, provider
<1>12. CASE SignOut(t)
  BY <1>12, SigningOutTyped DEF SignOut, TypeOK, provider, history
<1>13. CASE ClearSlot(t)
  <2>1. Read(t, "refresh") # None => Read(t, "refresh").login \in Logins
    BY ReadRefresh, Markers DEF TypeOK, SlotRecord, Token
  <2>2. LastOf(t) \subseteq Logins
    BY LoginsStored, Markers DEF LastOf
  <2>3. tab' \in [Tabs -> Tab] /\ revoked' \subseteq Logins
    BY <1>13, <2>1 DEF ClearSlot, TypeOK, Tab
  <2> QED
    BY <1>13, <2>2, <2>3, DisturbedTyped, ClearedStore DEF ClearSlot, TypeOK
<1>14. CASE StayOn(t)
  BY <1>14 DEF StayOn, TypeOK, Tab, provider, history
<1>15. CASE LeaveAll(t)
  <2>1. Page("login", None) \in Tab
    BY DEF Page, Tab
  <2> QED
    BY <1>15, <2>1, LossesTyped DEF LeaveAll, TypeOK, Others, provider
<1>16. CASE Told(t)
  BY <1>16, LoadedTyped DEF Told, TypeOK, provider
<1> QED
  BY <1>1, <1>2, <1>3, <1>4, <1>5, <1>6, <1>7, <1>8, <1>9, <1>10, <1>11, <1>12, <1>13, <1>14, <1>15,
     <1>16 DEF TabStep

\* A page load and the end of a session leave no page half shown.
LEMMA LoadedPages ==
  ASSUME TypeOK, Pages, NEW t \in Tabs, Loaded(t)
  PROVE  Pages'
<1>1. \A u \in Tabs : /\ tab'[u] = IF u # t THEN tab[u]
                                   ELSE Page(IF registry = None THEN "login" ELSE "restoring", registry)
                      /\ renewal'[u] = IF u = t THEN None ELSE renewal[u]
  BY DEF TypeOK, Loaded
<1> QED
  BY <1>1 DEF Pages, Page

\* A refused session leaves its page.
LEMMA EndedPages ==
  ASSUME TypeOK, Pages, NEW t \in Tabs, Ended(t), renewal'[t] = None \/ tab[t].page = "in",
         \A u \in Tabs : u # t => renewal'[u] = renewal[u]
  PROVE  Pages'
<1>1. \A u \in Tabs : tab'[u] = IF u # t THEN tab[u]
                                ELSE IF tab[t].page = "in" THEN Page("closing", None)
                                ELSE IF tab[t].page = "restoring" THEN Page("login", None) ELSE tab[t]
  BY DEF TypeOK, Ended, SigningOut
<1> QED
  BY <1>1 DEF Pages, Page

\* Each step keeps the pages, when a sign-out waits for the renewal.
LEMMA TabStepPages ==
  ASSUME TypeOK, Pages, ~ Slow, NEW t \in Tabs, TabStep(t)
  PROVE  Pages'
<1>0. renewal \in [Tabs -> Renewal \cup {None}] /\ tab \in [Tabs -> Tab]
  BY DEF TypeOK
<1>1. CASE Open(t) \/ Told(t)
  BY <1>1, LoadedPages DEF Open, Told, Pages
<1>2. CASE Close(t)
  BY <1>0, <1>2 DEF Close, Pages, Page
<1>3. CASE WriteRegistry(t)
  BY <1>3 DEF WriteRegistry, Pages
<1>4. CASE Resume(t)
  <2>1. Read(t, "access") # None
    BY <1>4 DEF Resume
  <2>2. \A u \in Tabs : tab'[u] = IF u = t THEN [tab[u] EXCEPT !.page = "in", !.client = Read(t, "access")]
                                  ELSE tab[u]
    BY <1>0, <1>4 DEF Resume
  <2> QED
    BY <1>0, <1>4, <2>1, <2>2 DEF Resume, Pages, Tab
<1>5. CASE Renew(t) \/ Grant(t) \/ Refuse(t) \/ Outage(t)
  <2>1. \A u \in Tabs : u # t => renewal'[u] = renewal[u]
    BY <1>0, <1>5 DEF Renew, Grant, Refuse, Outage
  <2>2. tab' = tab /\ (renewal[t] # None \/ tab[t].page \in {"restoring", "in"})
    BY <1>5 DEF Renew, Grant, Refuse, Outage
  <2> QED
    BY <2>1, <2>2 DEF Pages
<1>6. CASE Granted(t)
  <2>1. renewal[t].answer.login \in Logins
    BY <1>6 DEF Granted, Token
  <2>2. \A u \in Tabs : /\ renewal'[u] = IF u = t THEN None ELSE renewal[u]
                        /\ tab'[u] = IF u = t /\ tab[t].page \in {"restoring", "in"}
                                     THEN [tab[u] EXCEPT !.page = "in", !.client = renewal[t].answer.login]
                                     ELSE tab[u]
    BY <1>0, <1>6 DEF Granted
  <2> QED
    BY <1>0, <2>1, <2>2, Markers DEF Pages, Tab
<1>7. CASE RenewalRefused(t) \/ NothingToRenew(t)
  <2>1. renewal'[t] = None /\ \A u \in Tabs : u # t => renewal'[u] = renewal[u]
    BY <1>0, <1>7 DEF RenewalRefused, NothingToRenew
  <2> QED
    BY <1>7, <2>1, EndedPages DEF RenewalRefused, NothingToRenew
<1>8. CASE SignOut(t)
  BY <1>0, <1>8 DEF SignOut, SigningOut, Pages, Page
<1>9. CASE ClearSlot(t) \/ StayOn(t)
  BY <1>0, <1>9 DEF ClearSlot, StayOn, Pages, Tab
<1>10. CASE LeaveAll(t)
  BY <1>0, <1>10 DEF LeaveAll, Pages, Page
<1> QED
  BY <1>1, <1>2, <1>3, <1>4, <1>5, <1>6, <1>7, <1>8, <1>9, <1>10 DEF TabStep

\* The provider answers with a token of the login that asked.
LEMMA TabStepAnswers ==
  ASSUME TypeOK, Answers, NEW t \in Tabs, TabStep(t)
  PROVE  Answers'
<1>0. renewal \in [Tabs -> Renewal \cup {None}]
  BY DEF TypeOK
<1>1. CASE Renew(t)
  <2>1. renewal' = [renewal EXCEPT
                      ![t] = [account |-> tab[t].account, used |-> Read(t, "refresh"), answer |-> None]]
    BY <1>1 DEF Renew
  <2> QED
    BY <1>0, <2>1, Markers DEF Answers
<1>2. CASE Grant(t)
  BY <1>0, <1>2 DEF Grant, Answers, Renewal
<1>3. CASE Refuse(t)
  BY <1>0, <1>3, LiteAssumption DEF Refuse, Answers, Renewal, Token
<1>4. CASE ~ (Renew(t) \/ Grant(t) \/ Refuse(t))
  <2>1. \A u \in Tabs : renewal'[u] \in {renewal[u], None}
    BY <1>0, <1>4 DEF TabStep, Open, Close, Loaded, WriteRegistry, Resume, Granted, Outage, RenewalRefused,
       NothingToRenew, SignOut, ClearSlot, StayOn, LeaveAll, Told, history
  <2> QED
    BY <2>1 DEF Answers
<1> QED
  BY <1>1, <1>2, <1>3, <1>4

\* Only accounts and logins already there come to a tab.
LEMMA TabStepShows ==
  ASSUME Sound, NEW t \in Tabs, TabStep(t)
  PROVE  /\ signIn' = signIn /\ crossed' = crossed
         /\ registry' \in {registry, tab[t].account, None}
         /\ \A u \in Tabs : u # t => tab'[u] = tab[u]
         /\ tab'[t].account \in {tab[t].account, registry, None}
         /\ tab'[t].client \in {tab[t].client, None, Read(t, "access")}
            \/ (Granted(t) /\ tab'[t].client = renewal[t].answer.login)
<1> USE DEF Sound
<1>0. tab \in [Tabs -> Tab]
  BY DEF TypeOK
<1>1. CASE Open(t) \/ Told(t)
  BY <1>0, <1>1 DEF Open, Told, Loaded, Page, provider
<1>2. CASE Close(t) \/ LeaveAll(t) \/ SignOut(t)
  BY <1>0, <1>2 DEF Close, LeaveAll, SignOut, SigningOut, Page, provider, history
<1>3. CASE Resume(t)
  BY <1>0, <1>3 DEF Resume, Tab, provider, history
<1>4. CASE WriteRegistry(t) \/ Renew(t) \/ Grant(t) \/ Refuse(t) \/ Outage(t)
  BY <1>4 DEF WriteRegistry, Renew, Grant, Refuse, Outage, provider, history
<1>5. CASE Granted(t)
  BY <1>0, <1>5 DEF Granted, Tab, provider, history
<1>6. CASE RenewalRefused(t) \/ NothingToRenew(t)
  BY <1>0, <1>6 DEF RenewalRefused, NothingToRenew, Ended, SigningOut, Page, provider
<1>7. CASE ClearSlot(t) \/ StayOn(t)
  BY <1>0, <1>7 DEF ClearSlot, StayOn, Tab, provider, history
<1> QED
  BY <1>1, <1>2, <1>3, <1>4, <1>5, <1>6, <1>7 DEF TabStep

\* What is stored was stored, or is the answer to the tab's renewal.
LEMMA TabStepStores ==
  ASSUME Sound, NEW t \in Tabs, TabStep(t)
  PROVE  \/ /\ Granted(t)
            /\ \A p \in Places :
                 /\ store'[p].access \in {renewal[t].answer.login, None, store[p].access}
                 /\ store'[p].refresh \in {renewal[t].answer, None, store[p].refresh}
                 /\ p = Local /\ ~ Persistent => store'[p].access = None /\ store'[p].refresh = None
         \/ \A p \in Places : /\ store'[p].access \in {None, store[p].access}
                              /\ store'[p].refresh \in {None, store[p].refresh}
<1> USE DEF Sound
<1>0. store \in [Places -> SlotRecord]
  BY DEF TypeOK
<1>1. CASE Granted(t)
  <2>1. store' = Stored(t) /\ renewal[t] # None /\ renewal[t].answer \in Token
    BY <1>1 DEF Granted
  <2>2. ASSUME NEW p \in Places
        PROVE  /\ store'[p].access \in {renewal[t].answer.login, None, store[p].access}
               /\ store'[p].refresh \in {renewal[t].answer, None, store[p].refresh}
               /\ p = Local /\ ~ Persistent => store'[p].access = None /\ store'[p].refresh = None
    <3>1. /\ store'[p].access = IF p = (IF Persistent THEN Local ELSE t) THEN renewal[t].answer.login
                                ELSE IF p \in {Local, t} THEN None ELSE store[p].access
          /\ store'[p].refresh = IF renewal[t].answer = renewal[t].used THEN store[p].refresh
                                 ELSE IF p = (IF Persistent THEN Local ELSE t) THEN renewal[t].answer
                                 ELSE IF p \in {Local, t} THEN None ELSE store[p].refresh
      BY <2>1, GrantedStore
    <3> QED
      BY <3>1, Markers DEF Persistent
  <2> QED
    BY <1>1, <2>2
<1>2. CASE ~ Granted(t)
  <2>1. store' \in {store, [store EXCEPT ![t] = Empty], Cleared(t)}
    BY <1>2 DEF TabStep, Open, Close, WriteRegistry, Resume, Renew, Grant, Refuse, Outage, RenewalRefused,
       NothingToRenew, SignOut, ClearSlot, StayOn, LeaveAll, Told, history
  <2> QED
    BY <1>0, <2>1, ClearedStore DEF Empty
<1> QED
  BY <1>1, <1>2

\* The renewals under way are those there were, or the tab's new one.
LEMMA TabStepRenews ==
  ASSUME Sound, NEW t \in Tabs, TabStep(t)
  PROVE  /\ \A u \in Tabs : u # t => renewal'[u] = renewal[u]
         /\ renewal'[t] # None =>
              \/ renewal[t] # None /\ renewal'[t].account = renewal[t].account
                                   /\ renewal'[t].used = renewal[t].used
              \/ /\ Renew(t) /\ tab[t].account # None
                 /\ renewal'[t] = [account |-> tab[t].account, used |-> Read(t, "refresh"), answer |-> None]
<1> USE DEF Sound
<1>0. renewal \in [Tabs -> Renewal \cup {None}]
  BY DEF TypeOK
<1>1. CASE Renew(t)
  BY <1>0, <1>1 DEF Renew, Pages
<1>2. CASE Grant(t) \/ Refuse(t)
  BY <1>0, <1>2 DEF Grant, Refuse, Renewal
<1>3. CASE ~ (Renew(t) \/ Grant(t) \/ Refuse(t))
  <2>1. renewal' \in {renewal, [renewal EXCEPT ![t] = None]}
    BY <1>0, <1>3 DEF TabStep, Open, Close, Loaded, WriteRegistry, Resume, Granted, Outage, RenewalRefused,
       NothingToRenew, SignOut, ClearSlot, StayOn, LeaveAll, Told, history
  <2> QED
    BY <1>0, <2>1
<1> QED
  BY <1>1, <1>2, <1>3

\* What a tab reads is stored.
LEMMA ReadStored ==
  ASSUME NEW t \in Tabs, Read(t, "refresh") # None
  PROVE  StoredAt(Read(t, "refresh").login, Local) \/ StoredAt(Read(t, "refresh").login, t)
  BY ReadRefresh DEF StoredAt

\* A step of a tab lets it hold nothing new.
LEMMA TabStepHolds ==
  ASSUME Sound, NEW t \in Tabs, TabStep(t), NEW l \in Logins, Held(l)'
  PROVE  Held(l)
<1>1. ASSUME NEW p \in Places, StoredAt(l, p)'
      PROVE  StoredAt(l, p) \/ Renewing(l, t)
  <2>1. CASE store'[p].access \in {None, store[p].access} /\ store'[p].refresh \in {None, store[p].refresh}
    BY <1>1, <2>1, Markers DEF StoredAt
  <2>2. CASE /\ Granted(t)
             /\ store'[p].access \in {renewal[t].answer.login, None, store[p].access}
             /\ store'[p].refresh \in {renewal[t].answer, None, store[p].refresh}
    BY <1>1, <2>2, Markers DEF StoredAt, Renewing, Granted, Sound, Answers
  <2> QED
    BY <2>1, <2>2, TabStepStores
<1>2. ASSUME NEW u \in Tabs, Renewing(l, u)'
      PROVE  Held(l)
  <2>1. CASE Renewing(l, u)
    BY <2>1 DEF Held
  <2>2. CASE /\ u = t /\ Renew(t)
             /\ renewal'[t] = [account |-> tab[t].account, used |-> Read(t, "refresh"), answer |-> None]
    BY <1>2, <2>2, ReadStored, Markers DEF Renew, Renewing, Held
  <2>3. CASE u # t \/ (renewal[t] # None /\ renewal'[t].used = renewal[t].used)
    BY <1>2, <2>1, <2>3, TabStepRenews DEF Renewing
  <2>4. renewal'[u] # None
    BY <1>2 DEF Renewing
  <2> QED
    BY <2>2, <2>3, <2>4, TabStepRenews
<1> QED
  BY <1>1, <1>2 DEF Held

\* A login is gone when nothing of it is left anywhere.
LEMMA ClearSlotGone ==
  ASSUME Sound, ~ Slow, NEW t \in Tabs, ClearSlot(t), NEW l \in LastOf(t)
  PROVE  l \in Logins /\ Held(l) /\ ~ Held(l)'
<1> USE DEF Sound
<1>1. /\ l \in LoginsAt(Local) \/ l \in LoginsAt(t)
      /\ \A u \in Others(t) : l \notin LoginsAt(u) /\ l \notin LoginRenewedBy(u)
  BY DEF LastOf
<1>2. l \in Logins /\ Held(l)
  BY <1>1, LoginsStored, Markers DEF Held
<1>3. \A p \in Places : ~ StoredAt(l, p)'
  <2> SUFFICES ASSUME NEW p \in Places \ {Local, t}
               PROVE  ~ StoredAt(l, p)'
    BY <1>2, ClearedStore, Markers DEF ClearSlot, StoredAt
  <2>1. p \in Others(t)
    BY DEF Places, Others
  <2> QED
    BY <1>1, <1>2, <2>1, LoginsStored, ClearedStore DEF ClearSlot, StoredAt
<1>4. \A u \in Tabs : ~ Renewing(l, u)'
  BY <1>1 DEF ClearSlot, LoginRenewedBy, Others, Renewing
<1> QED
  BY <1>2, <1>3, <1>4 DEF Held

\* A step of a tab brings nothing back.
LEMMA TabStepNoneGone ==
  ASSUME Sound, ~ Slow, NEW t \in Tabs, TabStep(t)
  PROVE  NoneGone'
<1>1. signIn' = signIn
  BY DEF TabStep, Open, Close, WriteRegistry, Resume, Renew, Grant, Refuse, Granted, Outage, RenewalRefused,
     NothingToRenew, SignOut, ClearSlot, StayOn, LeaveAll, Told, provider
<1>2. CASE ClearSlot(t)
  BY <1>1, <1>2, TabStepHolds, ClearSlotGone DEF Sound, NoneGone, TabStep, ClearSlot
<1>3. CASE ~ ClearSlot(t)
  <2>1. gone' = gone
    BY <1>3 DEF TabStep, Open, Close, WriteRegistry, Resume, Renew, Grant, Refuse, Granted, Outage,
       RenewalRefused, NothingToRenew, SignOut, StayOn, LeaveAll, Told, history
  <2> QED
    BY <1>1, <2>1, TabStepHolds DEF Sound, NoneGone
<1> QED
  BY <1>2, <1>3

\* A sign-in brings a login that was never there.
LEMMA SignInSound ==
  ASSUME Sound, NEW t \in Tabs, NEW l \in Logins, NEW a \in Accounts, NEW remember \in BOOLEAN,
         SignIn(t, l, a, remember) \/ SignInFails(t, l, a, remember)
  PROVE  Sound'
<1> USE DEF Sound
<1>0. LoginStored(t, l, a, remember)
  BY DEF SignIn, SignInFails
<1>1. TypeOK'
  BY SignInTyped
<1>2. renewal' = renewal /\ gone' = gone /\ signIn[l] = None
      /\ \A m \in Logins : signIn'[m] = IF m = l THEN [account |-> a, remember |-> remember] ELSE signIn[m]
  BY <1>0 DEF LoginStored, TypeOK
<1>3. Answers'
  BY <1>2 DEF Answers
<1>4. Pages'
  <2>1. CASE tab' = tab
    BY <1>2, <2>1 DEF Pages
  <2>2. CASE tab' = [tab EXCEPT ![t] = [page |-> "in", account |-> a, client |-> l]]
    BY <1>2, <2>2, Markers DEF TypeOK, Pages
  <2> QED
    BY <2>1, <2>2 DEF SignIn, SignInFails
<1>5. \A m \in Logins : Held(m)' => Held(m) \/ m = l
  <2>1. \A p \in Places : \A m \in Logins : StoredAt(m, p)' => StoredAt(m, p) \/ m = l
    <3> DEFINE v == [login |-> l, number |-> 1]
    <3>1. \A p \in Places : /\ store'[p].access \in {l, None, store[p].access}
                           /\ store'[p].refresh \in {v, None, store[p].refresh}
      <4> SUFFICES ASSUME NEW p \in Places
                   PROVE  /\ store'[p].access \in {l, None, store[p].access}
                          /\ store'[p].refresh \in {v, None, store[p].refresh}
        OBVIOUS
      <4> HIDE DEF v
      <4>1. IF p = (IF remember THEN Local ELSE t) THEN store'[p].access = l /\ store'[p].refresh = v
            ELSE IF p \in {Local, t} THEN store'[p].access = None /\ store'[p].refresh = None
            ELSE store'[p] = store[p]
        BY <1>0, SignedInStore DEF v
      <4> QED
        BY <4>1
    <3>2. v.login = l
      OBVIOUS
    <3> HIDE DEF v
    <3> QED
      BY <3>1, <3>2, Markers DEF StoredAt
  <2> QED
    BY <1>2, <2>1 DEF Held, Renewing
<1>6. NoneGone'
  <2>1. [account |-> a, remember |-> remember] # None
    BY Markers DEF SignedIn
  <2> QED
    BY <1>2, <1>5, <2>1 DEF NoneGone
<1> QED
  BY <1>1, <1>3, <1>4, <1>6

\* A step of a tab is sound.
LEMMA TabStepSound ==
  ASSUME Sound, ~ Slow, NEW t \in Tabs, TabStep(t)
  PROVE  Sound'
  BY TabStepTyped, TabStepPages, TabStepAnswers, TabStepNoneGone DEF Sound

\* A step of a tab leaves the slot to the login that has it.
LEMMA TabStepOnly ==
  ASSUME Sound, NEW t \in Tabs, TabStep(t), NEW l \in Logins \cup {None}, NEW x \in Accounts \cup {None},
         Only(l, x)
  PROVE  Only(l, x)'
<1> USE DEF Sound
<1>1. /\ l # None => signIn'[l] # None /\ signIn'[l].account = x
      /\ registry' \in {None, x}
  BY TabStepShows DEF Only
<1>2. ASSUME Granted(t)
      PROVE  renewal[t].answer.login = l /\ renewal[t].answer # None
  BY <1>2, Markers DEF Granted, Only, Answers
<1>3. \A u \in Tabs : tab'[u].account \in {None, x} /\ tab'[u].client \in {None, l}
  <2>1. Read(t, "access") \in {None, l}
    BY ReadAccess, Markers DEF Only
  <2> QED
    BY <1>2, <2>1, TabStepShows DEF Only
<1>4. \A u \in Tabs : renewal'[u] # None => renewal'[u].account = x /\ renewal'[u].used.login = l
  <2>1. Read(t, "refresh") # None => Read(t, "refresh").login = l
    BY ReadRefresh, Markers DEF Only
  <2>2. tab[t].account \in {None, x}
    BY DEF Only
  <2>3. \A u \in Tabs : renewal[u] # None => renewal[u].account = x /\ renewal[u].used.login = l
    BY DEF Only
  <2>4. Renew(t) => Read(t, "refresh") # None
    BY DEF Renew
  <2>5. renewal'[t] # None => renewal'[t].account = x /\ renewal'[t].used.login = l
    <3>1. CASE /\ renewal[t] # None /\ renewal'[t].account = renewal[t].account
               /\ renewal'[t].used = renewal[t].used
      BY <2>3, <3>1
    <3>2. CASE /\ Renew(t) /\ tab[t].account # None
               /\ renewal'[t] = [account |-> tab[t].account, used |-> Read(t, "refresh"), answer |-> None]
      BY <2>1, <2>2, <2>4, <3>2
    <3> QED
      BY <3>1, <3>2, TabStepRenews
  <2> QED
    BY <2>3, <2>5, TabStepRenews
<1>5. \A p \in Places : /\ store'[p].access \in {None, l}
                        /\ store'[p].refresh # None => store'[p].refresh.login = l
  BY <1>2, TabStepStores DEF Only
<1>6. (store'[Local].access # None \/ store'[Local].refresh # None) => signIn'[l].remember
  <2>1. (store'[Local].access # None \/ store'[Local].refresh # None)
          => store[Local].access # None \/ store[Local].refresh # None
    BY TabStepStores, Markers DEF Persistent
  <2> QED
    BY <2>1, TabStepShows DEF Only
<1> QED
  BY <1>1, <1>3, <1>4, <1>5, <1>6 DEF Only

\* Nothing the excused can lose is forgotten by a step of a tab.
LEMMA TabStepExcuses ==
  ASSUME NEW t \in Tabs, TabStep(t)
  PROVE  excused \subseteq excused'
  BY DEF TabStep, Open, Close, Loaded, WriteRegistry, Resume, Renew, Grant, Refuse, Granted, Outage,
     RenewalRefused, NothingToRenew, SignOut, ClearSlot, StayOn, LeaveAll, Told, Disturbed, history

\* When a tab drops a renewal and nobody is excused for it, its answer was not newer.
LEMMA NothingLost ==
  ASSUME NEW t \in Tabs, NEW x, renewal[t] # None => renewal[t].account = x, x \notin LostBy(t)
  PROVE  ~ Newer(t)
  BY DEF LostBy, Newer

\* The pages and renewals go on, or end without a newer token.
LEMMA GoingOnKept ==
  ASSUME Sound, NEW l, Kept(l), NEW t \in Tabs,
         \A u \in Tabs : u # t => tab'[u] = tab[u] /\ renewal'[u] = renewal[u],
         renewal'[t] = renewal[t] \/ (renewal'[t] = None /\ ~ Newer(t)),
         tab'[t].page = "in" => Read(t, "refresh") # None,
         \/ store' = store
         \/ store' = [store EXCEPT ![t] = Empty] /\ renewal'[t] = None /\ tab'[t].page # "in",
         issued' = issued
  PROVE  Kept(l)'
<1>0. store \in [Places -> SlotRecord]
  BY DEF Sound, TypeOK
<1>1. \A p \in Places : \/ store'[p] = store[p]
                        \/ p = t /\ store'[p].access = None /\ store'[p].refresh = None
  <2>1. CASE store' = [store EXCEPT ![t] = Empty]
    BY <1>0, <2>1 DEF Empty
  <2> QED
    BY <2>1
<1>2. \A u \in Tabs : Read(u, "refresh")' = Read(u, "refresh")
                      \/ (u = t /\ renewal'[t] = None /\ tab'[t].page # "in")
  <2>1. CASE store' = store
    <3>1. \A u \in Tabs : Read(u, "refresh")' = Read(u, "refresh")
      BY <2>1 DEF Read
    <3> QED
      BY <3>1
  <2>2. CASE store' = [store EXCEPT ![t] = Empty] /\ renewal'[t] = None /\ tab'[t].page # "in"
    <3>1. \A p \in Places : p # t => store'[p] = store[p]
      BY <1>0, <2>2
    <3> QED
      BY <2>2, <3>1, Markers DEF Read
  <2> QED
    BY <2>1, <2>2
<1>3. Whole' /\ OnePlace'
  BY <1>1 DEF Kept, Whole, OnePlace
<1>4. AllRead' /\ OneRenewal'
  BY <1>2 DEF Kept, AllRead, OneRenewal
<1>5. RenewsNewest(l)'
  BY <1>2 DEF Kept, RenewsNewest
<1>6. \A u \in Tabs : Newer(u) => Newer(u)'
  BY DEF Newer
<1>7. NewestStored(l)'
  BY <1>1, <1>6 DEF Kept, NewestStored
<1> QED
  BY <1>3, <1>4, <1>5, <1>7 DEF Kept

\* A tab clears the slot: what other tabs still have of it is excused.
LEMMA ClearingKept ==
  ASSUME Sound, NEW l \in Logins \cup {None}, NEW x \in Accounts \cup {None}, Only(l, x), NEW t \in Tabs,
         store' = Cleared(t), x \notin Disturbed(t),
         \A u \in Tabs : u # t => tab'[u] = tab[u] /\ renewal'[u] = renewal[u],
         renewal'[t] = None, tab'[t].page # "in"
  PROVE  Kept(l)'
<1>1. ASSUME NEW u \in Others(t)
      PROVE  /\ tab[u].page # "in" /\ renewal[u] = None
             /\ store[u].access = None /\ store[u].refresh = None
  <2>1. u \in Tabs /\ u \in Places
    BY Markers DEF Others
  <2>2. /\ x \notin {tab[u].account} \ {None}
        /\ x \notin RenewedBy(u)
        /\ \A m \in LoginsAt(u) : signIn[m].account # x
    BY <1>1 DEF Disturbed, InOtherTabs
  <2>3. tab[u].page # "in" /\ renewal[u] = None
    BY <2>1, <2>2 DEF Only, RenewedBy, Sound, Pages
  <2>4. \A m \in Logins : ~ StoredAt(m, u)
    BY <2>1, <2>2, LoginsStored, Markers DEF Only, Sound, StoredAt
  <2>5. /\ store[u].access \in Logins \cup {None}
        /\ store[u].refresh # None => store[u].refresh.login \in Logins
    BY <2>1 DEF Sound, TypeOK, SlotRecord, Token
  <2> QED
    BY <2>3, <2>4, <2>5 DEF StoredAt
<1>2. \A p \in Places : p \in {Local, t} \/ p \in Others(t)
  BY DEF Places, Others
<1>3. \A p \in Places : store'[p].access = None /\ store'[p].refresh = None
  BY <1>1, <1>2, ClearedStore DEF Sound
<1>4. \A u \in Tabs : renewal'[u] = None /\ tab'[u].page # "in"
  BY <1>1 DEF Others
<1> QED
  BY <1>3, <1>4 DEF Kept, Whole, OnePlace, AllRead, OneRenewal, RenewsNewest, NewestStored

\* A tab begins a renewal with what is stored; a second one is excused.
LEMMA RenewKept ==
  ASSUME Sound, NEW l \in Logins \cup {None}, NEW x \in Accounts \cup {None}, Only(l, x), Kept(l),
         NEW t \in Tabs, Renew(t), x \notin excused'
  PROVE  Kept(l)'
<1> DEFINE new == [account |-> tab[t].account, used |-> Read(t, "refresh"), answer |-> None]
<1>1. \A u \in Tabs : renewal'[u] = IF u = t THEN new ELSE renewal[u]
  BY DEF Renew, Sound, TypeOK
<1>2. new.used = Read(t, "refresh") /\ new.answer = None
  OBVIOUS
<1> HIDE DEF new
<1>3. UNCHANGED <<store, tab, issued>> /\ renewal[t] = None
  BY DEF Renew, provider
<1>4. tab[t].account = x /\ x # None
  BY DEF Renew, Only, Sound, Pages
<1>5. \A u \in Others(t) : renewal[u] = None
  BY <1>4 DEF Renew, Only, RenewedBy, Others
<1>6. \A u \in Tabs : Read(u, "refresh")' = Read(u, "refresh")
  BY <1>3 DEF Read
<1>7. OneRenewal' /\ RenewsNewest(l)'
  BY <1>1, <1>2, <1>5, <1>6, Markers DEF OneRenewal, RenewsNewest, Others
<1>8. NewestStored(l)'
  BY <1>3, <1>5 DEF Kept, NewestStored, Newer, Others
<1> QED
  BY <1>3, <1>6, <1>7, <1>8 DEF Kept, Whole, OnePlace, AllRead

\* The provider answers.
LEMMA AnsweredKept ==
  ASSUME Sound, NEW l \in Logins \cup {None}, NEW x \in Accounts \cup {None}, Only(l, x), Kept(l),
         NEW t \in Tabs, Grant(t) \/ Refuse(t)
  PROVE  Kept(l)'
<1>1. UNCHANGED <<store, tab>> /\ renewal[t] # None /\ renewal[t].answer = None
  BY DEF Grant, Refuse, history
<1>2. renewal[t].used.login = l /\ renewal[t] \in Renewal
  BY <1>1 DEF Only, Sound, TypeOK
<1> DEFINE answer == renewal'[t].answer
<1>3. ASSUME NEW v \in Token \cup {Refused},
             renewal' = [renewal EXCEPT ![t].answer = v]
      PROVE  /\ renewal'[t].used = renewal[t].used /\ answer = v /\ renewal'[t] # None
             /\ \A u \in Tabs : u # t => renewal'[u] = renewal[u]
  <2>1. \A u \in Tabs : renewal'[u] = IF u = t THEN [renewal[t] EXCEPT !.answer = v] ELSE renewal[u]
    BY <1>3 DEF Sound, TypeOK
  <2>2. /\ [renewal[t] EXCEPT !.answer = v].used = renewal[t].used
        /\ [renewal[t] EXCEPT !.answer = v].answer = v
    BY <1>2 DEF Renewal
  <2>3. [renewal[t] EXCEPT !.answer = v] # None
    BY <1>2, Markers DEF Renewal
  <2> QED
    BY <2>1, <2>2, <2>3
<1>4. /\ renewal'[t].used = renewal[t].used /\ renewal'[t] # None
      /\ \A u \in Tabs : u # t => renewal'[u] = renewal[u]
      /\ \/ answer = Refused /\ issued' = issued
         \/ /\ answer \in Token /\ answer.login = l
            /\ renewal[t].used.number = issued[l]
            /\ issued' = [issued EXCEPT ![l] = answer.number]
  <2>1. CASE Refuse(t)
    BY <1>3, <2>1, LiteAssumption DEF Refuse
  <2>2. CASE Grant(t)
    <3>1. PICK n \in 1 .. MaxTokens :
            /\ renewal' = [renewal EXCEPT ![t].answer = [login |-> l, number |-> n]]
            /\ renewal[t].used.number = issued[l]
            /\ issued' = [issued EXCEPT ![l] = n]
      BY <1>2, <2>2 DEF Grant
    <3> DEFINE v == [login |-> l, number |-> n]
    <3>2. v \in Token /\ v.login = l /\ v.number = n
      BY <1>2 DEF Token, Renewal
    <3>3. renewal' = [renewal EXCEPT ![t].answer = v]
      BY <3>1
    <3> HIDE DEF v
    <3>4. /\ renewal'[t].used = renewal[t].used /\ answer = v /\ renewal'[t] # None
          /\ \A u \in Tabs : u # t => renewal'[u] = renewal[u]
      BY <1>3, <3>2, <3>3
    <3> HIDE DEF answer
    <3> QED
      BY <3>1, <3>2, <3>4
  <2> QED
    BY <2>1, <2>2
<1>5. \A u \in Tabs : u # t => renewal[u] = None /\ renewal'[u] = None
  BY <1>1, <1>4 DEF Kept, OneRenewal
<1>6. answer \in Token => answer.number = issued'[l]
  BY <1>2, <1>4, LiteAssumption DEF Sound, TypeOK, Renewal, Token
<1>7. issued' = issued \/ Newer(t)'
  <2>1. CASE answer \in Token /\ answer # renewal[t].used
    BY <1>4, <2>1 DEF Newer
  <2>2. CASE answer \in Token /\ answer = renewal[t].used
    <3>1. answer.number = issued[l] /\ issued' = [issued EXCEPT ![l] = answer.number]
      BY <1>4, <2>2, LiteAssumption
    <3> HIDE DEF answer
    <3> QED
      BY <3>1 DEF Sound, TypeOK
  <2> QED
    BY <1>4, <2>1, <2>2
<1>8. \A u \in Tabs : Read(u, "refresh")' = Read(u, "refresh")
  BY <1>1 DEF Read
<1>9. OneRenewal' /\ RenewsNewest(l)'
  BY <1>1, <1>4, <1>5, <1>6, <1>8 DEF Kept, OneRenewal, RenewsNewest
<1>10. NewestStored(l)'
  <2>1. \A u \in Tabs : ~ Newer(u)
    BY <1>1, <1>5, Markers DEF Newer
  <2> QED
    BY <1>1, <1>7, <2>1 DEF Kept, NewestStored
<1> QED
  BY <1>1, <1>8, <1>9, <1>10 DEF Kept, Whole, OnePlace, AllRead

\* The newest token is stored where the last one was.
LEMMA GrantedKept ==
  ASSUME Sound, NEW l \in Logins \cup {None}, NEW x \in Accounts \cup {None}, Only(l, x), Kept(l),
         NEW t \in Tabs, Granted(t)
  PROVE  Kept(l)'
<1> DEFINE new == renewal[t].answer
           home == IF Persistent THEN Local ELSE t
<1>1. renewal[t] # None /\ new \in Token /\ store' = Stored(t) /\ issued' = issued
  BY DEF Granted, provider
<1>2. new.login \in Logins /\ new # None /\ new.login # None
  BY <1>1, Markers DEF Token
<1>3. /\ new.number = issued[l]
      /\ renewal[t].used = Read(t, "refresh")
      /\ renewal[t].used \in Token
  BY <1>1 DEF Kept, RenewsNewest, Sound, TypeOK, Renewal
<1>4. home \in Places /\ store[home].refresh = renewal[t].used
  BY <1>3, ReadRefresh, Markers DEF Persistent
<1>5. \A p \in Places : p # home => store[p].access = None /\ store[p].refresh = None
  BY <1>3, <1>4, Markers DEF Kept, Whole, OnePlace
<1> HIDE DEF new
<1>6. \A p \in Places : /\ store'[p].access = IF p = home THEN new.login
                                              ELSE IF p \in {Local, t} THEN None ELSE store[p].access
                        /\ store'[p].refresh = IF new = renewal[t].used THEN store[p].refresh
                                               ELSE IF p = home THEN new
                                               ELSE IF p \in {Local, t} THEN None ELSE store[p].refresh
  BY <1>1, GrantedStore DEF Sound, new
<1> HIDE DEF home
<1>7. \A p \in Places : /\ store'[p].access = IF p = home THEN new.login ELSE None
                        /\ store'[p].refresh = IF p = home THEN new ELSE None
  BY <1>4, <1>5, <1>6
<1>8. \A u \in Tabs : renewal'[u] = None
  BY <1>1 DEF Kept, OneRenewal, Granted, Sound, TypeOK
<1>9. \A u \in Tabs : tab'[u].page = "in" => u = t \/ tab[u].page = "in"
  BY DEF Granted, Sound, TypeOK, Tab
<1>10. AllRead'
  <2> SUFFICES ASSUME NEW u \in Tabs, u = t \/ tab[u].page = "in"
               PROVE  home \in {Local, u}
    BY <1>2, <1>7, <1>9, Markers DEF AllRead, Read
  <2>1. CASE u = t
    BY <2>1 DEF home
  <2>2. CASE tab[u].page = "in"
    BY <1>5, <2>2, ReadRefresh, Markers DEF Kept, AllRead, home
  <2> QED
    BY <2>1, <2>2
<1> QED
  BY <1>1, <1>2, <1>3, <1>7, <1>8, <1>10 DEF Kept, Whole, OnePlace, OneRenewal, RenewsNewest, NewestStored

\* A step of a tab keeps the tokens of whom it does not excuse.
LEMMA TabStepKept ==
  ASSUME Sound, ~ Slow, NEW l \in Logins \cup {None}, NEW x \in Accounts \cup {None}, Only(l, x), Kept(l),
         NEW t \in Tabs, TabStep(t), x \notin excused'
  PROVE  Kept(l)'
<1>0. tab \in [Tabs -> Tab] /\ renewal \in [Tabs -> Renewal \cup {None}]
  BY DEF Sound, TypeOK
<1>1. LostBy(t) \subseteq excused' => ~ Newer(t)
  BY NothingLost DEF Only
<1>2. tab[t].page = "in" => Read(t, "refresh") # None
  BY DEF Kept, AllRead
<1>3. CASE Loaded(t) /\ UNCHANGED <<store, issued>>
  BY <1>0, <1>1, <1>3, GoingOnKept DEF Loaded, Page
<1>4. CASE Close(t) \/ LeaveAll(t) \/ Outage(t)
  BY <1>0, <1>1, <1>2, <1>4, GoingOnKept DEF Close, LeaveAll, Outage, Page, provider
<1>5. CASE WriteRegistry(t) \/ SignOut(t) \/ StayOn(t)
  BY <1>0, <1>2, <1>5, GoingOnKept
     DEF WriteRegistry, SignOut, StayOn, SigningOut, Page, Tab, provider, history
<1>6. CASE Resume(t)
  <2>1. Read(t, "refresh") # None
    BY <1>6, ReadRefresh, ReadAccess, Markers DEF Resume, Kept, Whole
  <2> QED
    BY <1>0, <1>6, <2>1, GoingOnKept DEF Resume, provider, history
<1>7. CASE Renew(t)
  BY <1>7, RenewKept
<1>8. CASE Grant(t) \/ Refuse(t)
  BY <1>8, AnsweredKept
<1>9. CASE Granted(t)
  BY <1>9, GrantedKept
<1>10. CASE RenewalRefused(t) \/ NothingToRenew(t)
  <2>1. /\ \A u \in Tabs : u # t => tab'[u] = tab[u] /\ renewal'[u] = renewal[u]
        /\ renewal'[t] = None
    BY <1>0, <1>10 DEF RenewalRefused, NothingToRenew, Ended, SigningOut
  <2>2. tab'[t].page # "in"
    BY <1>0, <1>10 DEF RenewalRefused, NothingToRenew, Ended, SigningOut, Page
  <2>3. CASE store' = Cleared(t) /\ x \notin Disturbed(t)
    BY <2>1, <2>2, <2>3, ClearingKept
  <2>4. CASE NothingToRenew(t) /\ store' = store
    BY <2>1, <2>2, <2>4, GoingOnKept DEF NothingToRenew, provider
  <2> QED
    BY <1>10, <2>3, <2>4 DEF RenewalRefused, NothingToRenew
<1>11. CASE ClearSlot(t)
  BY <1>0, <1>11, ClearingKept DEF ClearSlot, Tab
<1>12. CASE Told(t) /\ ~ Loaded(t)
  BY <1>2, <1>12, GoingOnKept DEF Told, provider
<1> QED
  BY <1>3, <1>4, <1>5, <1>6, <1>7, <1>8, <1>9, <1>10, <1>11, <1>12 DEF TabStep, Open, Told, provider

\* A step of a tab leaves one login in the slot, with its tokens, unless excused.
LEMMA TabStepSession ==
  ASSUME Inv, ~ Slow, NEW t \in Tabs, TabStep(t)
  PROVE  OneSession'
<1>1. CASE crossed
  BY <1>1, TabStepShows DEF Inv, OneSession
<1>2. CASE ~ crossed
  <2>1. PICK l \in Logins \cup {None}, x \in Accounts \cup {None} : Session(l, x)
    BY <1>2 DEF Inv, OneSession
  <2>2. Only(l, x)'
    BY <2>1, TabStepOnly DEF Session, Inv
  <2>3. x \in excused' \/ Kept(l)'
    BY <2>1, TabStepKept, TabStepExcuses DEF Session, Inv
  <2> QED
    BY <2>2, <2>3 DEF OneSession, Session
<1> QED
  BY <1>1, <1>2

\* A sign-in that meets nobody in the slot has it to itself.
LEMMA SignInSession ==
  ASSUME Inv, NEW t \in Tabs, NEW l \in Logins, NEW a \in Accounts, NEW remember \in BOOLEAN,
         SignIn(t, l, a, remember) \/ SignInFails(t, l, a, remember)
  PROVE  OneSession'
<1> USE DEF Inv, Sound
<1> SUFFICES ASSUME ~ crossed'
             PROVE  Only(l, a)' /\ Kept(l)'
  BY DEF OneSession, Session
<1>1. LoginStored(t, l, a, remember) /\ registry = None /\ InOtherTabs(t) = {}
  BY DEF SignIn, SignInFails, LoginStored
<1>2. tab[t].page = "login" /\ renewal[t] = None /\ tab[t].account = None /\ tab[t].client = None
  BY <1>1 DEF LoginStored, Pages
<1>3. ASSUME NEW u \in Others(t)
      PROVE  /\ tab[u].account = None /\ tab[u].client = None /\ tab[u].page # "in" /\ renewal[u] = None
             /\ store[u].access = None /\ store[u].refresh = None
  <2>1. u \in Tabs /\ u \in Places
    BY Markers DEF Others
  <2>2. {tab[u].account} \ {None} = {} /\ RenewedBy(u) = {} /\ {signIn[m].account : m \in LoginsAt(u)} = {}
    BY <1>1 DEF InOtherTabs
  <2>3. LoginsAt(u) = {}
    BY <2>2
  <2>4. /\ store[u].access \in Logins \cup {None}
        /\ store[u].refresh # None => store[u].refresh.login \in Logins
    BY <2>1 DEF TypeOK, SlotRecord, Token
  <2>5. store[u].access = None /\ store[u].refresh = None
    BY <2>1, <2>3, <2>4, LoginsStored DEF StoredAt
  <2> QED
    BY <2>1, <2>2, <2>5 DEF Pages, RenewedBy
<1> DEFINE home == IF remember THEN Local ELSE t
           v == [login |-> l, number |-> 1]
<1>4. home \in Places /\ v.login = l /\ v.number = 1 /\ v \in Token
  BY LiteAssumption, Markers DEF Token
<1> HIDE DEF v
<1>5. ASSUME NEW p \in Places
      PROVE  store'[p].access = (IF p = home THEN l ELSE None) /\ store'[p].refresh = (IF p = home THEN v ELSE None)
  <2>1. p \in {Local, t} \/ p \in Others(t)
    BY DEF Places, Others
  <2>2. IF p = home THEN store'[p].access = l /\ store'[p].refresh = v
        ELSE IF p \in {Local, t} THEN store'[p].access = None /\ store'[p].refresh = None
        ELSE store'[p] = store[p]
    BY <1>1, SignedInStore DEF v
  <2> QED
    BY <1>3, <2>1, <2>2
<1>6. /\ signIn'[l].account = a /\ signIn'[l].remember = remember /\ signIn'[l] # None
      /\ issued'[l] = 1
  <2>1. signIn'[l] = [account |-> a, remember |-> remember] /\ issued'[l] = 1
    BY <1>1 DEF LoginStored, TypeOK
  <2> QED
    BY <2>1, Markers DEF SignedIn
<1>7. \A u \in Tabs : renewal'[u] = None
  BY <1>1, <1>2, <1>3 DEF LoginStored, Others
<1>8. \A u \in Tabs : /\ tab'[u].account \in {None, a} /\ tab'[u].client \in {None, l}
                      /\ tab'[u].page = "in" => u = t
  <2>1. \A u \in Tabs : tab[u].account = None /\ tab[u].client = None /\ tab[u].page # "in"
    BY <1>2, <1>3 DEF Others
  <2>2. CASE tab' = tab
    BY <2>1, <2>2
  <2>3. CASE tab' = [tab EXCEPT ![t] = [page |-> "in", account |-> a, client |-> l]]
    BY <2>1, <2>3 DEF TypeOK
  <2> QED
    BY <2>2, <2>3 DEF SignIn, SignInFails
<1>9. registry' \in {None, a}
  BY <1>1 DEF SignIn, SignInFails
<1>10. Only(l, a)'
  BY <1>4, <1>5, <1>6, <1>7, <1>8, <1>9, Markers DEF Only
<1>11. AllRead'
  BY <1>4, <1>5, <1>8, Markers DEF AllRead, Read
<1>12. Kept(l)'
  BY <1>4, <1>5, <1>6, <1>7, <1>11, Markers DEF Kept, Whole, OnePlace, OneRenewal, RenewsNewest, NewestStored
<1> QED
  BY <1>10, <1>12

\* An empty browser.
LEMMA InitInv ==
  ASSUME Init
  PROVE  Inv
<1>1. Sound
  BY InitTyped, Markers DEF Init, Sound, Pages, Answers, NoneGone, Held, StoredAt, Renewing, Page, Empty
<1>2. Session(None, None)
  BY Markers DEF Init, Session, Only, Kept, Whole, OnePlace, AllRead, OneRenewal, RenewsNewest, NewestStored,
                 Page, Empty
<1> QED
  BY <1>1, <1>2 DEF Inv, OneSession

\* Every step keeps the invariant.
LEMMA NextInv ==
  ASSUME Inv, ~ Slow, [Next]_vars
  PROVE  Inv'
<1>1. ASSUME NEW t \in Tabs, TabStep(t)
      PROVE  Inv'
  BY <1>1, TabStepSound, TabStepSession DEF Inv
<1>2. ASSUME NEW t \in Tabs, NEW l \in Logins, NEW a \in Accounts, NEW remember \in BOOLEAN,
             SignIn(t, l, a, remember) \/ SignInFails(t, l, a, remember)
      PROVE  Inv'
  BY <1>2, SignInSound, SignInSession DEF Inv
<1>3. CASE UNCHANGED vars
  BY <1>3 DEF vars, provider, history, Inv, Sound, TypeOK, Pages, Answers, NoneGone, Held, StoredAt, Renewing,
     OneSession, Session, Only, Kept, Whole, OnePlace, AllRead, OneRenewal, RenewsNewest, NewestStored, Newer, Read
<1> QED
  BY <1>1, <1>2, <1>3 DEF Next

-----------------------------------------------------------------------------
\* The inductive invariant, where no renewal outlasts the wait of a sign-out.
THEOREM Invariance ==
  ASSUME ~ Slow
  PROVE  Spec => []Inv
<1>1. Inv /\ [Next]_vars => Inv'
  BY NextInv
<1> QED
  BY <1>1, InitInv, PTL DEF Spec

\* The state stays typed.
THEOREM TypeCorrect ==
  ASSUME ~ Slow
  PROVE  Spec => []TypeOK
<1>1. Inv => TypeOK
  BY DEF Inv, Sound
<1> QED
  BY <1>1, Invariance, PTL

\* A tab works with its own account's tokens (lite-tokens.ts:27-28, 176), unless a
\* sign-in crossed another tab.
THEOREM TokensOwn ==
  ASSUME ~ Slow
  PROVE  Spec => []OwnTokensOnly
<1>1. ASSUME Inv
      PROVE  OwnTokensOnly
  <2> SUFFICES ASSUME ~ crossed, NEW t \in Tabs, tab[t].page \in {"restoring", "in"}, NEW m \in UsedBy(t)
               PROVE  signIn[m].account = tab[t].account
    BY DEF OwnTokensOnly, OwnTokens
  <2>1. PICK l \in Logins \cup {None}, x \in Accounts \cup {None} : Only(l, x)
    BY <1>1 DEF Inv, OneSession, Session
  <2>2. tab[t].account = x
    BY <1>1, <2>1 DEF Inv, Sound, Pages, Only
  <2>3. m = l /\ l # None
    BY <2>1, ReadRefresh, ReadAccess, Markers DEF UsedBy, Only
  <2> QED
    BY <2>1, <2>2, <2>3 DEF Only
<1> QED
  BY <1>1, Invariance, PTL

\* What a signed-in tab would renew with is the newest token issued (lite-tokens.ts:559),
\* but for the excused.
THEOREM NewestHeld ==
  ASSUME ~ Slow
  PROVE  Spec => []NewestKept
<1>1. ASSUME Inv
      PROVE  NewestKept
  <2> SUFFICES ASSUME ~ crossed, NEW t \in Tabs, tab[t].page = "in", tab[t].account \notin excused,
                      \A u \in Tabs : tab[t].account \notin RenewedBy(u)
               PROVE  CanRenew(t)
    BY DEF NewestKept
  <2>1. PICK l \in Logins \cup {None}, x \in Accounts \cup {None} : Session(l, x)
    BY <1>1 DEF Inv, OneSession
  <2>2. tab[t].account = x /\ Kept(l)
    BY <1>1, <2>1 DEF Inv, Sound, Pages, Session, Only
  <2>3. \A u \in Tabs : renewal[u] = None
    BY <2>1, <2>2 DEF Session, Only, RenewedBy
  <2>4. Read(t, "refresh") # None
    BY <2>2 DEF Kept, AllRead
  <2>5. Read(t, "refresh").login = l /\ Read(t, "refresh").number = issued[l]
    BY <2>1, <2>2, <2>3, <2>4, ReadRefresh, Markers DEF Session, Only, Kept, NewestStored, Newer
  <2> QED
    BY <2>4, <2>5 DEF CanRenew
<1> QED
  BY <1>1, Invariance, PTL

\* Nothing of a login signed out comes back (auth-store.ts:295-302), where a sign-out
\* waits for its renewal.
THEOREM StaysSignedOut ==
  ASSUME ~ Slow
  PROVE  Spec => []NotRevived
<1>1. ASSUME Inv
      PROVE  NotRevived
  BY <1>1, LoginsStored DEF Inv, Sound, NoneGone, Held, NotRevived
<1> QED
  BY <1>1, Invariance, PTL

\* Without "remember me" no token reaches localStorage (lite-tokens.ts:27-28).
THEOREM Unremembered ==
  ASSUME ~ Slow
  PROVE  Spec => []StaysWithTab
<1>1. ASSUME Inv
      PROVE  StaysWithTab
  <2> SUFFICES ASSUME ~ crossed, NEW m \in LoginsAt(Local)
               PROVE  signIn[m].remember
    BY DEF StaysWithTab
  <2>1. PICK l \in Logins \cup {None}, x \in Accounts \cup {None} : Only(l, x)
    BY <1>1 DEF Inv, OneSession, Session
  <2>2. m \in Logins /\ StoredAt(m, Local)
    BY <1>1, LoginsStored, Markers DEF Inv, Sound
  <2> QED
    BY <2>1, <2>2, Markers DEF Only, StoredAt
<1> QED
  BY <1>1, Invariance, PTL
=============================================================================
