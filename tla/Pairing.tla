------------------------------ MODULE Pairing ------------------------------
(***************************************************************************)
(* "Link mobile app" from end to end: the Security settings of the tabs of *)
(* one browser (LinkDeviceSection), the routes behind them, the proof      *)
(* cookie the browser keeps for all its accounts (lib/auth/pair-reauth.ts) *)
(* and the store of module PairingStore.                                   *)
(*                                                                         *)
(* A route handler reads the cookie its request carried, so two requests   *)
(* that overlap do not see each other's.  Its calls to the store run       *)
(* without an await in between: serving a request is one step.  The answer *)
(* travels back on its own, and may get lost.                              *)
(***************************************************************************)
EXTENDS PairingStore

CONSTANTS
  Sections,        \* tabs that may show the Security settings
  MaxRequests,     \* bound: requests under way together
  MaxSent,         \* bound: requests sent in one behaviour
  ProviderOwners,  \* accounts signed in through an identity provider
  None,            \* no cookie, no request, no answer
  Kept             \* an answer that leaves the cookie alone

ASSUME PairingAssumption == ProviderOwners \subseteq Owners /\ MaxRequests \in Nat /\ MaxSent \in Nat

Requests == 1 .. MaxRequests

NoCode == 0

(* The content of the pair_reauth cookie.                                  *)
Proof == [grant : Grants, owner : Owners, createdAt : Times]
CookieType == Proof \cup {None}

(* `resume` is the tab's pair_reauth_done flag.                            *)
SectionRecord ==
  [account : Owners, phase : {"idle", "password", "code", "expired", "redeemed", "away", "callback"},
   code : Codes \cup {NoCode}, expiresAt : Times, resume : BOOLEAN]

(* What a request asks, the cookie it carried, whether the section still   *)
(* waits for it, and the answer under way: the code or the reason, and     *)
(* what the Set-Cookie header says.                                        *)
Kinds == {"password", "again", "resume", "sso", "sign_out", "sign_out_all"}
Results == {"code", "reauth_required", "done"}
Answer == [result : Results, code : Codes \cup {NoCode}, expiresIn : Times,
           cookie : CookieType \cup {Kept}]
RequestRecord == [kind : Kinds, section : Sections, owner : Owners, carried : CookieType,
                  wanted : BOOLEAN, answer : Answer \cup {None}]

ASSUME MarkersAssumption ==
  /\ None \notin Proof \cup Answer \cup RequestRecord
  /\ Kept \notin CookieType

VARIABLES
  cookie,     \* pair_reauth
  section,    \* what each tab shows
  request,
  sent,       \* requests sent so far
  displayed,  \* history: codes that were on a screen, which a phone may have read
  overtaken   \* history: grants whose proof was dropped by an answer to a
              \*   request that had not carried it

browserVars == <<cookie, section, request, sent, displayed, overtaken>>
pairingVars == <<store, now, browserVars>>

PairingInit ==
  /\ Init
  /\ cookie = None
  /\ section \in [Sections -> [account : Owners, phase : {"idle"}, code : {NoCode}, expiresAt : {0},
                           resume : {FALSE}]]
  /\ request = [r \in Requests |-> None]
  /\ sent = 0
  /\ displayed = {}
  /\ overtaken = {}

Live(proof, t) == proof # None /\ t - proof.createdAt <= GrantTTL

-----------------------------------------------------------------------------
(* The server's end: what each route does to the store, and its answer.    *)

Reply(result, setCookie) == [result |-> result, code |-> NoCode, expiresIn |-> 0, cookie |-> setCookie]

(* createPairingCode's answer for a store just before the call.            *)
CodeReply(s, g, setCookie) ==
  [result |-> "code", code |-> NextCode(s), expiresIn |-> CodeExpiry(s, g, now) - now,
   cookie |-> setCookie]

(* Mutants: the grant of the previous step-up stays; only a proof of the   *)
(* same account is replaced.                                               *)
ReplaceNothing(s, carried, g, o, t) == Stash(s, g, o, t)
ReplaceOwn(s, carried, g, o, t) ==
  IF Live(carried, t) /\ carried.owner = o THEN Discard(Stash(s, g, o, t), carried.grant, t)
  ELSE Stash(s, g, o, t)

(* stashGrant, then setPairReauthInStore.                                  *)
StepUp(s, carried, g, o, t) ==
  IF Live(carried, t) /\ carried.grant # g THEN Discard(Stash(s, g, o, t), carried.grant, t)
  ELSE Stash(s, g, o, t)

ProofOf(g, o, t) == [grant |-> g, owner |-> o, createdAt |-> t]

(* Grant ids are random: any that is not in use.                           *)
NewGrant == CHOOSE g \in Grants : g \notin store.minted
CanStash == Grants # store.minted

Serve(r, s, answer) ==
  /\ store' = s
  /\ request' = [request EXCEPT ![r].answer = answer]
  /\ UNCHANGED <<now, cookie, section, sent, displayed, overtaken>>

Waiting(r) == request[r] # None /\ request[r].answer = None

(* pair/create with a password the mail server accepts: a new grant and    *)
(* its first code.                                                         *)
ServePassword(r) ==
  /\ Waiting(r) /\ request[r].kind = "password"
  /\ CanStash /\ store.issued < MaxCodes
  /\ LET o == request[r].owner
         stepped == StepUp(store, request[r].carried, NewGrant, o, now)
     IN  Serve(r, CreateCode(stepped, NewGrant, o, now),
               CodeReply(stepped, NewGrant, ProofOf(NewGrant, o, now)))

(* reauth/sso/complete after a fresh login at the identity provider.       *)
ServeSso(r) ==
  /\ Waiting(r) /\ request[r].kind = "sso"
  /\ CanStash
  /\ LET o == request[r].owner IN
     Serve(r, StepUp(store, request[r].carried, NewGrant, o, now),
           Reply("done", ProofOf(NewGrant, o, now)))

(* Mutant: whose step-up it was is not compared.                           *)
MayShowAnyones(carried, o) ==
  Live(carried, now) /\ IsAvailable(store, carried.grant, carried.owner, now)

MayShowAgain(carried, o) ==
  Live(carried, now) /\ carried.owner = o /\ IsAvailable(store, carried.grant, o, now)

(* pair/create without a password: another code for the proof's grant.     *)
ServeAgain(r) ==
  /\ Waiting(r) /\ request[r].kind \in {"again", "resume"}
  /\ LET carried == request[r].carried IN
     IF MayShowAgain(carried, request[r].owner)
     THEN /\ store.issued < MaxCodes
          /\ Serve(r, CreateCode(store, carried.grant, carried.owner, now),
                   CodeReply(store, carried.grant, Kept))
     ELSE Serve(r, Sweep(store, now), Reply("reauth_required", Kept))

(* Mutant: the grant outlives its proof.                                   *)
ClearCookieOnly(s, kind, carried, o, t) == s

(* Whether clearPairReauthInStore forgets the proof the request carried.   *)
Clears(kind, carried, o, t) ==
  /\ carried # None
  /\ kind = "sign_out" /\ Live(carried, t) => carried.owner = o

ClearProof(s, kind, carried, o, t) ==
  IF Clears(kind, carried, o, t) /\ Live(carried, t) THEN Discard(s, carried.grant, t) ELSE s

ServeSignOut(r) ==
  /\ Waiting(r) /\ request[r].kind \in {"sign_out", "sign_out_all"}
  /\ LET kind == request[r].kind
         carried == request[r].carried
         o == request[r].owner
     IN  Serve(r, ClearProof(store, kind, carried, o, now),
               Reply("done", IF Clears(kind, carried, o, now) THEN None ELSE Kept))

-----------------------------------------------------------------------------
(* The browser's end.                                                      *)

(* A new request of a section, its cancel button and its unmounting make   *)
(* the answers under way unwanted; their cookies are stored all the same.  *)
Unwanted(sec) ==
  [r \in Requests |->
     IF request[r] # None /\ request[r].section = sec THEN [request[r] EXCEPT !.wanted = FALSE]
     ELSE request[r]]

Loading(sec) == \E r \in Requests : request[r] # None /\ request[r].section = sec /\ request[r].wanted

FreeRequests == {r \in Requests : request[r] = None}

Sent(r, sec, kind) ==
  [Unwanted(sec) EXCEPT
     ![r] = [kind |-> kind, section |-> sec, owner |-> section[sec].account, carried |-> cookie,
             wanted |-> TRUE, answer |-> None]]

(* Requests are alike: the first free one stands for any.                  *)
Send(r, sec, kind) ==
  /\ r \in FreeRequests /\ \A q \in FreeRequests : r <= q
  /\ request' = Sent(r, sec, kind)
  /\ sent < MaxSent /\ sent' = sent + 1
  /\ UNCHANGED <<store, now, cookie, displayed, overtaken>>

(* handleSubmit, and the buttons that ask for a (new) code.                *)
SubmitPassword(r, sec) ==
  /\ section[sec].phase = "password" /\ ~ Loading(sec)
  /\ Send(r, sec, "password")
  /\ UNCHANGED section

AskAgain(r, sec) ==
  /\ section[sec].phase \in {"idle", "code", "expired", "redeemed"} /\ ~ Loading(sec)
  /\ Send(r, sec, "again")
  /\ UNCHANGED section

(* Back from the identity provider, the callback page completes the        *)
(* step-up, once; the tab shows the section again when it is answered.     *)
Callback(r, sec) ==
  /\ section[sec].phase = "away"
  /\ Send(r, sec, "sso")
  /\ section' = [section EXCEPT ![sec].phase = "callback"]

Blank(sec) == [section[sec] EXCEPT !.phase = "idle", !.code = NoCode, !.expiresAt = 0]
BlankFor(sec, o) == [Blank(sec) EXCEPT !.account = o]

(* Back on the settings page after the callback, the section asks once     *)
(* more for a code by itself.                                              *)
Resume(r, sec) ==
  /\ section[sec].phase = "idle" /\ section[sec].resume /\ ~ Loading(sec)
  /\ Send(r, sec, "resume")
  /\ UNCHANGED section

(* The session route is asked to forget the account, or all of them; the   *)
(* section goes away with it.                                              *)
SignOut(r, sec, kind) ==
  /\ section[sec].phase \notin {"away", "callback"}
  /\ Send(r, sec, kind)
  /\ \E o \in Owners : section' = [section EXCEPT ![sec] = BlankFor(sec, o)]

(* handleCancel in the password form, and the section unmounted: by        *)
(* another page, by coming back from the provider, by a switch of account. *)
Leave(sec, o) ==
  /\ section[sec] # BlankFor(sec, o) \/ Loading(sec)
  /\ section' = [section EXCEPT ![sec] = BlankFor(sec, o)]
  /\ request' = Unwanted(sec)
  /\ UNCHANGED <<store, now, cookie, sent, displayed, overtaken>>

(* startReauth from the password form: the page goes to the provider.      *)
AtProvider(sec) == [Blank(sec) EXCEPT !.phase = "away"]

StartReauth(sec) ==
  /\ section[sec].phase = "password"
  /\ section' = [section EXCEPT ![sec] = AtProvider(sec)]
  /\ request' = Unwanted(sec)
  /\ UNCHANGED <<store, now, cookie, sent, displayed, overtaken>>

Showing(sec, answer) ==
  [section[sec] EXCEPT !.phase = "code", !.code = answer.code, !.expiresAt = now + answer.expiresIn]

(* What the section shows of an answer it waited for.                      *)
ShownOf(sec, kind, answer) ==
  CASE answer.result = "code" -> Showing(sec, answer)
    [] answer.result = "reauth_required" /\ section[sec].account \notin ProviderOwners ->
         [Blank(sec) EXCEPT !.phase = "password"]
    [] answer.result = "reauth_required" /\ kind = "again" /\ section[sec].account \in ProviderOwners ->
         AtProvider(sec)
    [] kind = "sso" /\ answer.result = "done" -> [Blank(sec) EXCEPT !.resume = TRUE]
    [] OTHER -> section[sec]

(* Mutant: an answer is shown whether it is still waited for or not.       *)
ShownAlways(r) ==
  ShownOf(request[r].section, request[r].kind, request[r].answer)

ShownAfter(r) ==
  IF ~ request[r].wanted THEN section[request[r].section]
  ELSE ShownOf(request[r].section, request[r].kind, request[r].answer)

FlagAfter(r) ==
  IF request[r].wanted /\ request[r].kind = "resume" THEN FALSE ELSE ShownAfter(r).resume

(* The answer arrives: the browser stores its cookie, whoever waits for it. *)
Arrive(r) ==
  /\ request[r] # None /\ request[r].answer # None
  /\ LET q == request[r]
         new == q.answer.cookie
     IN  /\ cookie' = IF new = Kept THEN cookie ELSE new
         /\ overtaken' = IF new # Kept /\ cookie # None /\ cookie # q.carried
                         THEN overtaken \cup {cookie.grant} ELSE overtaken
         /\ section' = [section EXCEPT ![q.section] = [ShownAfter(r) EXCEPT !.resume = FlagAfter(r)]]
         /\ displayed' = IF section'[q.section].phase = "code"
                         THEN displayed \cup {section'[q.section].code} ELSE displayed
  /\ request' = [request EXCEPT ![r] = None]
  /\ UNCHANGED <<store, now, sent>>

(* The request or its answer is lost, or the route refuses it and keeps    *)
(* nothing: a wrong password, an unreachable server, a login as somebody   *)
(* else.  The section says so and stays.                                   *)
Fail(r) ==
  /\ request[r] # None
  /\ request' = [request EXCEPT ![r] = None]
  /\ UNCHANGED <<store, now, cookie, section, sent, displayed, overtaken>>

(* A refusal that takes the section back to the start (backToIdle).        *)
FailToIdle(r) ==
  /\ Waiting(r) /\ request[r].wanted /\ request[r].kind \in {"password", "again", "resume"}
  /\ request' = [request EXCEPT ![r] = None]
  /\ section' = [section EXCEPT ![request[r].section] = Blank(request[r].section)]
  /\ UNCHANGED <<store, now, cookie, sent, displayed, overtaken>>

(* Mutant: a code the store has forgotten, or lost its grant, keeps its QR. *)
PhaseForRedeemedOnly(status) == IF status = "redeemed" THEN "redeemed" ELSE "code"

PhaseFor(status) ==
  IF status = "redeemed" THEN "redeemed" ELSE IF status = "pending" THEN "code" ELSE "expired"

(* One answered poll of the code on screen.  (One that finds it waiting    *)
(* changes nothing; the answer about a code no longer shown is dropped.)   *)
Poll(sec) ==
  /\ section[sec].phase = "code"
  /\ section' = [section EXCEPT ![sec].phase = PhaseFor(PairingStatus(store, section[sec].code, now))]
  /\ section'[sec].phase # "code"
  /\ store' = Sweep(store, now)
  /\ UNCHANGED <<now, cookie, request, sent, displayed, overtaken>>

(* The countdown reaches zero.                                             *)
Countdown(sec) ==
  /\ section[sec].phase = "code"
  /\ section[sec].expiresAt <= now
  /\ section' = [section EXCEPT ![sec].phase = "expired"]
  /\ UNCHANGED <<store, now, cookie, request, sent, displayed, overtaken>>

-----------------------------------------------------------------------------
(* A phone redeems a code it read from a screen.                           *)
Scan(c) ==
  /\ c \in displayed
  /\ RedeemPairingCode(c)
  /\ UNCHANGED browserVars

Clock == Tick /\ UNCHANGED browserVars

PairingNext ==
  \/ \E r \in Requests :
       \/ ServePassword(r) \/ ServeSso(r) \/ ServeAgain(r) \/ ServeSignOut(r)
       \/ Arrive(r) \/ Fail(r) \/ FailToIdle(r)
  \/ \E r \in Requests, sec \in Sections :
       \/ SubmitPassword(r, sec) \/ AskAgain(r, sec) \/ Callback(r, sec) \/ Resume(r, sec)
       \/ SignOut(r, sec, "sign_out") \/ SignOut(r, sec, "sign_out_all")
  \/ \E sec \in Sections :
       \/ \E o \in Owners : Leave(sec, o)
       \/ StartReauth(sec) \/ Poll(sec) \/ Countdown(sec)
  \/ \E c \in Codes : Scan(c)
  \/ Clock

PairingSpec == PairingInit /\ [][PairingNext]_pairingVars

(* setInterval keeps polling, and a request that fails is made again.      *)
PollingSpec == PairingSpec /\ \A sec \in Sections : WF_pairingVars(Poll(sec))

-----------------------------------------------------------------------------
(* Properties.                                                             *)

PairingTypeOK ==
  /\ TypeOK
  /\ cookie \in CookieType
  /\ section \in [Sections -> SectionRecord]
  /\ request \in [Requests -> RequestRecord \cup {None}]
  /\ sent \in 0 .. MaxSent
  /\ displayed \subseteq Codes
  /\ overtaken \subseteq Grants

(* A QR somebody may have photographed links a phone only as long as the   *)
(* browser holds the proof of its step-up: a new step-up and a sign-out    *)
(* kill it ("its QR must stop working", "so a QR left on screen dies").    *)
(* The exception is what two requests under way together can do: a proof   *)
(* dropped by an answer that did not know of it.                           *)
QrDiesWithProof ==
  \A c \in displayed : RedeemAnswer(store, c, now) = "ok" =>
    LET g == store.codes[c].grantId IN
    g \in overtaken \/ (cookie # None /\ cookie.grant = g)

(* The screen tells the truth about the account it is shown for: a QR on   *)
(* it hands out that account's sign-in, whatever was switched or cancelled *)
(* while it was made, and "linked" means a phone got in by that very code. *)
ScreenHonest ==
  \A sec \in Sections :
    LET code == section[sec].code IN
    /\ section[sec].phase = "code" /\ Known(store.codes, code) =>
         store.grants[store.codes[code].grantId].owner = section[sec].account
    /\ section[sec].phase = "redeemed" => \E g \in Grants : <<g, code>> \in store.handed

(* A QR that no longer works does not stay on the screen: not one a phone  *)
(* used, one another tab replaced, or one whose sign-in was withdrawn.     *)
DeadQrLeaves ==
  \A sec \in Sections, c \in Codes :
    section[sec].phase = "code" /\ section[sec].code = c /\ RedeemAnswer(store, c, now) # "ok"
      ~> ~ (section[sec].phase = "code" /\ section[sec].code = c)
=============================================================================
