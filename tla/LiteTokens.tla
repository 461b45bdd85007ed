----------------------------- MODULE LiteTokens -----------------------------
(***************************************************************************)
(* Sessions of Bulwark Lite (lib/auth/lite-tokens.ts) in the tabs of one   *)
(* browser.  Lite has no server: the tokens of an account slot are kept in *)
(* localStorage, which all tabs share, when the user ticked "remember me", *)
(* and in the tab's own sessionStorage otherwise.  A renewal spends the    *)
(* refresh token and stores the next one; signing out clears the slot.     *)
(*                                                                         *)
(* One slot is modelled, with whoever stands in it.  The list of accounts  *)
(* ("account-registry") is read when a page loads and written back from    *)
(* the tab's own copy, so the tabs need not agree on who that is.          *)
(***************************************************************************)
EXTENDS Integers, FiniteSets

CONSTANTS
  Tabs, Accounts,
  Logins,     \* sign-ins, each made once
  Local,      \* localStorage; a tab stands for its sessionStorage
  MaxTokens,  \* bound: refresh tokens issued to a login
  Slow,       \* whether a renewal may outlast the wait of a sign-out
  Refused, None

(* The refresh tokens of a login are numbered; its access tokens are not   *)
(* told apart.                                                             *)
Token == [login : Logins, number : 1 .. MaxTokens]
SlotRecord == [refresh : Token \cup {None}, access : Logins \cup {None}]
Empty == [refresh |-> None, access |-> None]
Places == Tabs \cup {Local}

SignedIn == [account : Accounts, remember : BOOLEAN]

(* `client` is the login whose access token the slot's client has.         *)
Tab == [page : {"closed", "login", "restoring", "in", "closing", "cleared"},
        account : Accounts \cup {None}, client : Logins \cup {None}]

(* A renewal under way and the provider's answer: the token that is good   *)
(* from now on, or a refusal.                                              *)
Renewal == [account : Accounts, used : Token, answer : Token \cup {None, Refused}]

ASSUME LiteAssumption ==
  /\ Local \notin Tabs /\ MaxTokens \in Nat \ {0} /\ Slow \in BOOLEAN
  /\ None \notin Token \cup Logins \cup Accounts \cup SignedIn \cup Renewal \cup {Refused}
  /\ Refused \notin Token

VARIABLES
  registry,  \* who stands in the slot, in localStorage
  store,     \* the slot's tokens, in every place
  tab,
  renewal,   \* per tab
  told,      \* tabs that a full sign-out elsewhere was announced to
  signIn,    \* whose a login is; None if not made yet
  issued,    \* at the provider: the number of a login's good refresh token
  revoked,   \* at the provider: the logins that were ended
  excused,   \* history: accounts whose tokens a crash, a lost answer or another tab may have spoilt
  crossed,   \* history: a sign-in happened beside another tab's account
  gone       \* history: logins signed out with nothing of them left anywhere

provider == <<signIn, issued, revoked>>
history == <<excused, crossed, gone>>
vars == <<registry, store, tab, renewal, told, provider, history>>

Page(page, account) == [page |-> page, account |-> account, client |-> None]

Init ==
  /\ registry = None
  /\ store = [p \in Places |-> Empty]
  /\ tab = [t \in Tabs |-> Page("closed", None)]
  /\ renewal = [t \in Tabs |-> None] /\ told = {}
  /\ signIn = [l \in Logins |-> None]
  /\ issued = [l \in Logins |-> 0]
  /\ revoked = {}
  /\ excused = {} /\ crossed = FALSE /\ gone = {}

-----------------------------------------------------------------------------
(* Web storage.  A key is looked up in localStorage first and is kept in   *)
(* one of the two.                                                         *)
Read(t, key) == IF store[Local][key] # None THEN store[Local][key] ELSE store[t][key]

(* Mutant: the copy in the other storage is left.                          *)
SavedBeside(s, t, key, value, persistent) ==
  [s EXCEPT ![IF persistent THEN Local ELSE t][key] = value]

Saved(s, t, key, value, persistent) ==
  [p \in Places |->
     IF p = (IF persistent THEN Local ELSE t) THEN [s[p] EXCEPT ![key] = value]
     ELSE IF p \in {Local, t} THEN [s[p] EXCEPT ![key] = None]
     ELSE s[p]]

(* Mutant: only localStorage is cleared.                                   *)
ClearedLocal(t) == [p \in Places |-> IF p = Local THEN Empty ELSE store[p]]

Cleared(t) == [p \in Places |-> IF p \in {Local, t} THEN Empty ELSE store[p]]

(* Mutants: a rotation always goes to the tab, or always to localStorage.  *)
NeverPersistent == FALSE
AlwaysPersistent == TRUE

(* Where the slot's refresh token lives, so that a rotation stays put.     *)
Persistent == store[Local].refresh # None

Others(t) == Tabs \ {t}
RenewedBy(u) == IF renewal[u] = None THEN {} ELSE {renewal[u].account}
LoginRenewedBy(u) == IF renewal[u] = None THEN {} ELSE {renewal[u].used.login}
LoginsAt(p) ==
  ({store[p].access} \cup {IF store[p].refresh = None THEN None ELSE store[p].refresh.login}) \ {None}

(* Whose token goes with a renewal that is dropped: the provider has       *)
(* already replaced the one stored.                                        *)
LostBy(u) ==
  IF renewal[u] = None THEN {}
  ELSE IF renewal[u].answer \in Token \ {renewal[u].used} THEN {renewal[u].account} ELSE {}

(* The accounts that other tabs still have in the slot, renew or keep      *)
(* tokens of.                                                              *)
InOtherTabs(t) ==
  UNION {({tab[u].account} \ {None}) \cup RenewedBy(u) \cup {signIn[l].account : l \in LoginsAt(u)}
         : u \in Others(t)}

(* What other tabs have lost when the slot's tokens go or are replaced.    *)
Disturbed(t) == excused \cup InOtherTabs(t)

-----------------------------------------------------------------------------
(* A page loads, anew or again: memory is gone, and with it a renewal.     *)
Loaded(t) ==
  /\ tab' = [tab EXCEPT ![t] = Page(IF registry = None THEN "login" ELSE "restoring", registry)]
  /\ renewal' = [renewal EXCEPT ![t] = None]
  /\ told' = told \ {t}
  /\ excused' = excused \cup LostBy(t)

Open(t) ==
  /\ Loaded(t)
  /\ UNCHANGED <<registry, store, provider, crossed, gone>>

Close(t) ==
  /\ tab[t].page # "closed"
  /\ tab' = [tab EXCEPT ![t] = Page("closed", None)]
  /\ store' = [store EXCEPT ![t] = Empty]
  /\ renewal' = [renewal EXCEPT ![t] = None]
  /\ told' = told \ {t}
  /\ excused' = excused \cup LostBy(t)
  /\ UNCHANGED <<registry, provider, crossed, gone>>

(* A sign-in stores the login's tokens, then connects.  If it cannot, the  *)
(* tokens stay.                                                            *)
LoginStored(t, l, a, remember) ==
  /\ tab[t].page = "login" /\ tab[t].account = None /\ signIn[l] = None
  /\ signIn' = [signIn EXCEPT ![l] = [account |-> a, remember |-> remember]]
  /\ issued' = [issued EXCEPT ![l] = 1]
  /\ store' = Saved(Saved(store, t, "refresh", [login |-> l, number |-> 1], remember),
                    t, "access", l, remember)
  /\ crossed' = (crossed \/ registry # None \/ InOtherTabs(t) # {})
  /\ UNCHANGED <<renewal, told, revoked, gone>>

SignIn(t, l, a, remember) ==
  /\ LoginStored(t, l, a, remember)
  /\ tab' = [tab EXCEPT ![t] = [page |-> "in", account |-> a, client |-> l]]
  /\ registry' = a
  /\ excused' = IF a \in InOtherTabs(t) \cup RenewedBy(t) THEN excused ELSE excused \ {a}

SignInFails(t, l, a, remember) ==
  /\ LoginStored(t, l, a, remember)
  /\ UNCHANGED <<tab, registry, excused>>

(* Anything the tab changes about an account writes its whole list.        *)
WriteRegistry(t) ==
  /\ tab[t].page = "in"
  /\ registry' = tab[t].account
  /\ UNCHANGED <<store, tab, renewal, told, provider, history>>

-----------------------------------------------------------------------------
(* A restored page resumes with the cached access token.  There may be     *)
(* none, or it may be about to expire.                                     *)
Resume(t) ==
  /\ tab[t].page = "restoring" /\ Read(t, "access") # None /\ renewal[t] = None
  /\ tab' = [tab EXCEPT ![t].page = "in", ![t].client = Read(t, "access")]
  /\ UNCHANGED <<registry, store, renewal, told, provider, history>>

(* At most one renewal of an account at a time in a tab.                   *)
Renew(t) ==
  /\ tab[t].page \in {"restoring", "in"} /\ renewal[t] = None
  /\ Read(t, "refresh") # None
  /\ renewal' = [renewal EXCEPT ![t] = [account |-> tab[t].account, used |-> Read(t, "refresh"),
                                         answer |-> None]]
  /\ excused' = IF tab[t].account \in UNION {RenewedBy(u) : u \in Others(t)}
                  THEN excused \cup {tab[t].account} ELSE excused
  /\ UNCHANGED <<registry, store, tab, told, provider, crossed, gone>>

(* The provider takes the good token only, and keeps it or issues another. *)
Grant(t) ==
  /\ renewal[t] # None /\ renewal[t].answer = None
  /\ LET l == renewal[t].used.login
     IN  /\ l \notin revoked /\ renewal[t].used.number = issued[l]
         /\ \E n \in {issued[l], issued[l] + 1} \cap (1 .. MaxTokens) :
              /\ issued' = [issued EXCEPT ![l] = n]
              /\ renewal' = [renewal EXCEPT ![t].answer = [login |-> l, number |-> n]]
  /\ UNCHANGED <<registry, store, tab, told, signIn, revoked, history>>

(* It refuses any other, and may end a login at any time.                  *)
Refuse(t) ==
  /\ renewal[t] # None /\ renewal[t].answer = None
  /\ LET l == renewal[t].used.login
     IN  revoked' = IF renewal[t].used.number = issued[l] THEN revoked \cup {l} ELSE revoked
  /\ renewal' = [renewal EXCEPT ![t].answer = Refused]
  /\ UNCHANGED <<registry, store, tab, told, signIn, issued, history>>

(* The answer is stored where the slot's token is now, whatever became of  *)
(* the slot.  The token goes to the account's client or, if it is gone, to *)
(* the one on screen; not while the slot is being signed out.              *)
Stored(t) ==
  LET new == renewal[t].answer
      withRefresh == IF new = renewal[t].used THEN store
                     ELSE Saved(store, t, "refresh", new, Persistent)
  IN  Saved(withRefresh, t, "access", new.login, Persistent)

Granted(t) ==
  /\ renewal[t] # None /\ renewal[t].answer \in Token
  /\ store' = Stored(t)
  /\ tab' = IF tab[t].page \in {"restoring", "in"}
              THEN [tab EXCEPT ![t].page = "in", ![t].client = renewal[t].answer.login]
              ELSE tab
  /\ renewal' = [renewal EXCEPT ![t] = None]
  /\ UNCHANGED <<registry, told, provider, history>>

(* No answer, or a 5xx: the session stays, and is renewed later.           *)
Outage(t) ==
  /\ renewal[t] # None
  /\ excused' = excused \cup LostBy(t)
  /\ renewal' = [renewal EXCEPT ![t] = None]
  /\ UNCHANGED <<registry, store, tab, told, provider, crossed, gone>>

-----------------------------------------------------------------------------
(* Signing out: the account leaves the list, the slot is closed to new     *)
(* renewals, and one under way is waited for, three seconds at most: Lite  *)
(* cannot abort it.  Then the slot is cleared and its token revoked, which *)
(* may fail or be switched off.                                            *)
SigningOut(t) ==
  /\ tab' = [tab EXCEPT ![t] = Page("closing", None)]
  /\ registry' = None

SignOut(t) ==
  /\ tab[t].page = "in"
  /\ SigningOut(t)
  /\ UNCHANGED <<store, renewal, told, provider, history>>

(* A refused renewal clears the slot first.  A restoring page evicts the   *)
(* account and shows the login page.                                       *)
Ended(t) ==
  IF tab[t].page = "in" THEN SigningOut(t)
  ELSE IF tab[t].page = "restoring"
    THEN tab' = [tab EXCEPT ![t] = Page("login", None)] /\ registry' = None
    ELSE UNCHANGED <<tab, registry>>

RenewalRefused(t) ==
  /\ renewal[t] # None /\ renewal[t].answer = Refused
  /\ store' = Cleared(t)
  /\ Ended(t)
  /\ renewal' = [renewal EXCEPT ![t] = None]
  /\ excused' = Disturbed(t)
  /\ UNCHANGED <<told, provider, crossed, gone>>

NothingToRenew(t) ==
  /\ tab[t].page \in {"restoring", "in"} /\ renewal[t] = None
  /\ Read(t, "refresh") = None
  /\ store' = IF tab[t].page = "restoring" THEN Cleared(t) ELSE store
  /\ Ended(t)
  /\ excused' = IF store' = store THEN excused ELSE Disturbed(t)
  /\ UNCHANGED <<renewal, told, provider, crossed, gone>>

(* Logins that only this slot, as the tab sees it, still held.             *)
LastOf(t) ==
  (LoginsAt(Local) \cup LoginsAt(t))
    \ UNION {LoginsAt(u) \cup LoginRenewedBy(u) : u \in Others(t)}

ClearSlot(t) ==
  /\ tab[t].page = "closing" /\ (renewal[t] = None \/ Slow)
  /\ store' = Cleared(t)
  /\ \/ UNCHANGED revoked
     \/ Read(t, "refresh") # None /\ revoked' = revoked \cup {Read(t, "refresh").login}
  /\ tab' = [tab EXCEPT ![t].page = "cleared"]
  /\ gone' = gone \cup LastOf(t)
  /\ excused' = Disturbed(t)
  /\ UNCHANGED <<registry, renewal, told, signIn, issued, crossed>>

(* With another account signed in the tab stays and the slot reopens;      *)
(* otherwise the list is dropped, every tab told, and the page left.       *)
StayOn(t) ==
  /\ tab[t].page = "cleared"
  /\ tab' = [tab EXCEPT ![t].page = "login"]
  /\ UNCHANGED <<registry, store, renewal, told, provider, history>>

LeaveAll(t) ==
  /\ tab[t].page = "cleared"
  /\ registry' = None
  /\ told' = told \cup Others(t)
  /\ tab' = [tab EXCEPT ![t] = Page("login", None)]
  /\ renewal' = [renewal EXCEPT ![t] = None]
  /\ excused' = excused \cup LostBy(t)
  /\ UNCHANGED <<store, provider, crossed, gone>>

(* Only a tab that shows an account leaves it for the login page.          *)
Told(t) ==
  /\ t \in told
  /\ IF tab[t].page = "in" THEN Loaded(t)
     ELSE told' = told \ {t} /\ UNCHANGED <<tab, renewal, excused>>
  /\ UNCHANGED <<registry, store, provider, crossed, gone>>

TabStep(t) ==
  \/ Open(t) \/ Close(t) \/ WriteRegistry(t)
  \/ Resume(t) \/ Renew(t) \/ Grant(t) \/ Refuse(t) \/ Granted(t) \/ Outage(t)
  \/ RenewalRefused(t) \/ NothingToRenew(t)
  \/ SignOut(t) \/ ClearSlot(t) \/ StayOn(t) \/ LeaveAll(t) \/ Told(t)

Next ==
  \E t \in Tabs :
    \/ TabStep(t)
    \/ \E l \in Logins, a \in Accounts, remember \in BOOLEAN :
         SignIn(t, l, a, remember) \/ SignInFails(t, l, a, remember)

Spec == Init /\ [][Next]_vars

-----------------------------------------------------------------------------
TypeOK ==
  /\ registry \in Accounts \cup {None}
  /\ store \in [Places -> SlotRecord]
  /\ tab \in [Tabs -> Tab]
  /\ renewal \in [Tabs -> Renewal \cup {None}]
  /\ told \subseteq Tabs
  /\ signIn \in [Logins -> SignedIn \cup {None}]
  /\ issued \in [Logins -> 0 .. MaxTokens]
  /\ revoked \subseteq Logins
  /\ excused \subseteq Accounts /\ crossed \in BOOLEAN /\ gone \subseteq Logins

(* Whose tokens a tab works with: those its client has and those it would  *)
(* resume with or renew.                                                   *)
UsedBy(t) ==
  {tab[t].client, Read(t, "access"), IF Read(t, "refresh") = None THEN None ELSE Read(t, "refresh").login} \ {None}
OwnTokens(t) == \A l \in UsedBy(t) : signIn[l].account = tab[t].account

(* A tab works with its own account's tokens, however the slot's earlier   *)
(* and failed sign-ins ended, unless somebody signed in beside another tab *)
(* that had an account or tokens in the slot.                              *)
OwnTokensOnly == crossed \/ \A t \in Tabs : tab[t].page \in {"restoring", "in"} => OwnTokens(t)

(* The same of every sign-in: tokens kept "this tab only" are no business  *)
(* of other tabs.                                                          *)
TabsKeepApart == \A t \in Tabs : tab[t].page \in {"restoring", "in"} => OwnTokens(t)

(* A signed-in tab can renew its session: what it would present is the     *)
(* last token the provider issued.  Excused are accounts whose last token  *)
(* was lost with a page or an answer, that two tabs renewed at once, or    *)
(* whose slot another tab cleared.                                         *)
CanRenew(t) ==
  /\ Read(t, "refresh") # None
  /\ Read(t, "refresh").number = issued[Read(t, "refresh").login]

NewestKept ==
  \A t \in Tabs :
    tab[t].page = "in" => \/ tab[t].account \in excused \/ crossed
                          \/ \E u \in Tabs : tab[t].account \in RenewedBy(u)
                          \/ CanRenew(t)

(* Nothing of a login signed out comes back, unless another tab still had  *)
(* or renewed it.                                                          *)
NotRevived == \A p \in Places : LoginsAt(p) \cap gone = {}

(* Without "remember me" no token reaches the storage that outlives the    *)
(* tab.                                                                    *)
StaysWithTab == crossed \/ \A l \in LoginsAt(Local) : signIn[l].remember

=============================================================================
