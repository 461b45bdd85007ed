# Verification of Bulwark Webmail

TLA+ modules that model the parts of Bulwark Webmail where order, timing and
failure decide whether the program is right, with TLC configurations that check
them on small instances and TLAPS proofs that hold for every instance.

Paths below are relative to `src/`.

## The system

Bulwark Webmail is a Next.js program. The browser talks JMAP to a mail server
(Stalwart) directly; a small server side keeps the sealed session cookies, the
synced settings and the pairing store. In the browser, Zustand stores are global:
one tab shows one account at a time, whatever number are signed in, and every
store that belongs to an account is emptied and refilled on a switch.

JavaScript runs a function to its next `await` without interruption, on the
server as in the browser. All the concurrency is therefore between awaits, and
a model action is the code between two awaits.

### Components

| Component | Source | State | Operations | What makes it hard | Modules |
|---|---|---|---|---|---|
| Pairing store | `lib/auth/pairing-store.ts` | three Maps: grants, codes, status ids | stash, discard, issue a code, redeem, poll | several codes per grant, three expiries, records forgotten at different times | `PairingStore`, `GrantLifecycle` |
| Step-up attempts | `lib/auth/pair-attempts.ts` | failures per account, two windows | begin, settle | an attempt counts before the request and is given back after it | `PairAttempts`, `StepUps` |
| Pairing routes and proof cookie | `app/api/auth/pair/*`, `lib/auth/pair-reauth.ts`, the Security settings | a sealed cookie naming the grant | create, redeem, status, sign-out | concurrent requests carry the cookie they were sent with | `Pairing` |
| Account switching | `stores/auth-store.ts`, `lib/account-state-manager.ts`, `lib/store-epoch.ts` | active account, pooled clients, snapshots, generation, epoch | switch, sign out, sign out all, remove, sign in | switches overlap each other, sign-outs and fetches in flight | `AccountSwitch` |
| Token renewal and cookie slots | `stores/auth-store.ts` (290-730, 2133-2247) | closing slots, session writes, renewals, retry timers | renew, persist, clear, abort | a renewal in flight at sign-out would revive the session; timeouts | `SessionSlots` |
| Account registry | `stores/account-store.ts` | the list of accounts and their slots | add, remove, next slot | a slot is reused after sign-out | `AccountSwitch`, `SessionSlots` |
| Settings sync | `stores/settings-store.ts`, `lib/settings-sync.ts`, `app/api/settings` | pending job, owner of the local settings, one file per account | load, enable, flush, disable, save | loads and pushes outlive a switch | `SettingsSync` |
| Session limits | `lib/session-policy/*`, `components/session/session-timeout-guard.tsx` | last activity, limits, phase | activity, remote activity, stay, expire | several tabs, a laptop asleep, activity at the deadline | `SessionLimits` |
| Lite tokens | `lib/auth/lite-tokens.ts` | a refresh token in localStorage or in one tab's storage | sign in, renew, clear, revoke | tabs share storage, registry and tokens | `LiteTokens` |
| Mail list | `stores/email-store.ts` | rows, total, position, state of the list | refresh, delta, load more, delete | answers and pushes out of order, awaits in the middle of a delta | `MailList` |
| Push streams and bindings | `lib/jmap/client.ts` (10344-10950), `lib/push-bindings.ts` | slots, waiters, timers, polls, role of each client | bind, open, fail, promote, reconnect, rate limit, close | a tab's budget shared by clients that come and go | `PushStreams` |
| State checks | `lib/jmap/client.ts` (10674-10909) | baseline of states, interval, requests under way | prime, check, event, tick | a baseline landing late hides a change | `StateChecks` |
| Rest of the JMAP client | `lib/jmap/client.ts` | session, request queue | batching, keep-alive, calls | mostly request building | - |
| Calendar, contacts, tasks, files, filters | `stores/*` | account-scoped data | CRUD requests | fetches that outlive a switch | as owners' data in `AccountSwitch` |
| Plugins, admin, WOPI, web push, UI | see `PROJECT.json` | - | - | mostly I/O and validation | - |

How they interact: a sign-in, switch or sign-out (`auth-store.ts`) drives the
cookie slots, settings sync, the mail list's epoch and the push bindings; the
session limits end in a sign-out of every account; the Security settings drive
the pairing routes, whose cookie a sign-out drops. `Pairing` is composed with
`PairingStore`, and `StepUps` with `PairAttempts`. The others meet at a small
interface, an account that comes, is shown or goes, which each module has as
actions of its own that may happen at any time.

`PROJECT.json` ("hazards") lists, line by line, what can go wrong in this code
and which property looks for it.

## Modules

### PairingStore - the grants and codes behind "Link mobile app"

`store` is a record of the three Maps plus history: which grants were minted,
handed to a phone, or passed to the disposer. Each exported function of the file
is an operator on a store value and a clock reading (`Stash`, `Discard`,
`CreateCode`, `Redeem`, `PairingStatus`), each starting with `Sweep` as the code
does, and an action that applies it. `Tick` moves the clock. Random ids become
`Grants` (model values) and `Codes` (numbered in order of issue, which is the
insertion order of the Map that decides which replaced codes are forgotten). A
status id stands for its code.

Bounds: `MaxCodes`, `MaxTime`; grants are only stashed while they can still
expire before `MaxTime`. In the run the lifetimes are 3, 2 and 2 (grant, code,
tombstone) and the clock goes to 5, so every record can expire and be forgotten,
codes outlive their usefulness both by their own limit and by their grant's, and
with `SupersededKept = 1` four codes are enough to have one forgotten while its
grant is alive.

| Property | Says |
|---|---|
| `HandedOutAtMostOnce` | one phone per grant, whatever codes and scans are mixed |
| `OnlyNewestCodeWorks` | only the QR on screen can be redeemed |
| `LateScanToldUsed` | "used" is answered exactly when a phone got the grant |
| `EveryGrantSettled` | every grant ends with a phone or the disposer |
| `ImplementsLifecycle` | the store implements `GrantLifecycle` |

`GrantLifecycle` is the abstract specification: a grant is unminted, held, with
a phone or withdrawn, takes at most one step of this life per request and never
goes back. `FateOf` is the refinement mapping: a grant the disposer was told of is
withdrawn, one handed to a phone is with it, one with a live secret is held. One
that is none of these would be "lost", which no life allows.

`EveryGrantSettled` is checked under `BusySpec`: time passes and some request
keeps reaching the store. Only the first is certain. Under `TimedSpec` alone the
property fails: no timer runs `sweep`, and the app password of an abandoned
pairing stays valid until the next request, which may never come.

### AccountSwitch - one tab, several accounts

State: the registry (`accounts`), the pool of connected clients, `active` and
`client`, what the stores hold (`stores.mail`: whose data is in everything whose
fetches compare the store epoch; `stores.ids`: whose identities are in the
identity store, which compares nothing), fetches in flight with the epoch they
began in, the snapshots, `storesClearedForSwitch` (`cleared`), and every call of
`switchAccount` with the phase it waits in. One sign-out, one sign-in and one
token renewal can be under way beside the switches.

A call of `switchAccount` goes

    network:   SwitchNetwork -> connect -> verify ------------> BindNetwork  -> identities -> done
    seamless:  SwitchSeamless ----------> verify -> flush ----> BindSeamless -> identities -> done

with `SwitchRefused` (no session to resume), `SwitchRejected` (the session is
somebody else's), `SwitchBroken` (connecting failed) and `SwitchGivesUp` (a newer
switch owns the screen) on the way. The identities phase is skipped when a
snapshot was restored.

`flushSync()` rejects when a settings edit is pending and its POST throws
(`settings-store.ts` 205-211, 1787-1795), and four calls await it outside any
`try`. Each has an action for it. `SwitchThrows` is the network switch (2502),
which by then has dropped the client, emptied the stores and raised the loading
screen, and the switch between connected accounts (2646), which has changed
nothing. `LogoutThrows` ends `logout()` (2284) with its account forgotten and
still the active one; `halted` remembers it. `LogoutAllThrows` ends `logoutAll()`
(2437) before it has disconnected anyone. What each leaves behind stays, and
three properties have to say so: after a switch that threw, the stores stay empty
and the loading screen up until another switch (`StoresRefilled`,
`LoadingEnds`), and an account whose sign-out threw is snapshotted by the next
switch (`SignedOutForgotten`). The configuration `MCAccountSwitch_offline.cfg`
shows the first.

Abstractions. Data is its owner. Awaits with nothing but a check between them
are merged (the flush of the network path and connecting into one phase, Stalwart
context and candidates into verify). The branch for a rate limit while restoring (2546-2573)
cannot be reached, because `targetClient` is assigned before `connect()` and a
failed connect leaves it set: the switch goes on and binds a client that never
connected. Callers offer only registered accounts that are not active, so the
early returns for others are not actions. The order in which the user keeps the
accounts is arbitrary, so "the first connected account" is any connected one.
After a navigation away ("left") nothing of the document runs. `checkAuth` is
not modelled; the initial state is the one it ends in.

`MailNotLost` is claimed of switches. `login()` also saves and empties the stores,
without a look at `storesClearedForSwitch`, and its `catch` (1630-1641), reached
when the identities cannot be fetched (1540), leaves them empty: the next sign-in
then saves them so over the snapshot.

Bounds: `MaxSwitches` calls, `MaxOthers` sign-outs, removals and sign-ins, one
renewal at a time. Three overlapping switches are what it takes for a switch to
be superseded by one that is itself superseded; four accounts let the third go
somewhere new. Fetches are a set; the bindings of switches start them without
limit, and the mail page starts another while fewer than `MaxFetches` are out: one
in the run of three switches, four in the run of sign-outs, which is no limit there.
The run of sign-outs has two accounts, two switches and three of the others.
`Overlapping = FALSE` lets sign-outs and sign-ins begin only while no switch is
under way (fetches and renewals always may be); with `TRUE` they overlap, and
`MCAccountSwitch_signout.cfg` shows what the code does not keep apart.

Fairness: `WF` of every step of every switch. Each step follows an awaited
request that has a timeout or an answer, or a promise already settled; JavaScript
runs the code after it.

| Property | Says |
|---|---|
| `AccountsKeptApart` | only the active account's data is in the stores, a snapshot holds its own account's, and what the user does goes to the account shown |
| `LastClickWins` | the newest switch, once bound, is on screen |
| `StoresRefilled` | emptied stores are shown to nobody, and the newest switch will fill them or has thrown at its flush |
| `MailNotLost` | a snapshot with mail is never replaced by one of emptied stores |
| `SignedOutForgotten` | no snapshot of a signed-out account remains, unless its sign-out ended at its flush |
| `LoadingEnds` | the loading screen ends with an account or a page change, unless the newest switch threw |

### SessionSlots - the refresh-token cookies of a tab

Each signed-in account has a slot with one HTTP-only cookie in it. A renewal
(`PUT /api/auth/token`) rewrites the slot's cookie, a sign-out's `DELETE`
deletes it by name, and the browser applies whichever answer comes last. The
comment "Sign-out ordering (#905)" in `stores/auth-store.ts` describes how the
two are kept apart; this module is that mechanism, with the sign-ins that choose
the slots.

State: the registry (`entry`: slot and login of each account), `active`, the
login behind each account's client's access token (`token`), the scheduled
renewals (`timers`), `refreshPromises` (`promises`), the renewals and the
cleanups in flight (`renewal`, `cleanup`), `closingSlots` (`closing`), the calls
of `logout()`, the sign-in, and the browser's `cookie` of each slot. A *login*
is one sign-in; every token and cookie is named by the login it descends from,
so rotating a token keeps its login. `cleared` is the history the properties
need. Whether the provider revoked a token is not kept: it may refuse one either way.

    renewal:  sent -> served -> (cookie written, token handed out) -> context -> scheduled
                  \-> cut (a sign-out aborted it)     refused -> removed, or drafts -> logout()
    cleanup:  settling -> sent -> served -> deleted, slot reopened

`Serve` and `ServeDelete` are the server's half of a request; the answer is
applied by a later step, so two requests may be served in one order and answered
in the other. `Settled` is `settleSessionWrites` when all writes it waits for
are over, `AbortWrites` its three-second limit, `GiveUpWaiting` the eight-second
limit after which the slot reopens with its DELETE still out (`late`). `Navigate`
is the full sign-out's page load: memory is gone, a DELETE goes on (keepalive),
and a cleanup that had not sent its DELETE ends.

The rare events are chosen by the constant `Mishaps`: `slow` (the two limits are
reached), `failure` (a DELETE or a sign-in fails), `refusal` (a renewal is
refused, or fails with 500 or 502 for the fifth time, whose counter is
abstracted), `offline` (a sign-out's `flushSync()` rejects), `straggler` (an account
signed out still asks for a token) and
`crossing` (a sign-out overlaps a sign-in, a switch or another sign-out). The
passing run has the first four. It leaves out the other two because the code
does not hold its properties under them:

- `straggler`: see `MCSessionSlots_straggler.cfg` and `MCSessionSlots_timer.cfg`.
- `crossing`: `login()` chooses the slot it writes before the exchange and
  `addAccount()` chooses again after it (1411-1413), so an account that signed out in
  between makes them differ; a sign-in to a slot still being cleared loses its
  new cookie; a refused renewal of the account being signed out calls `logout()`
  with nobody shown, which clears slot 0; and a refusal that finds another
  account shown leaves its slot closed. `PROJECT.json` ("hazards") gives the lines.

`FlushThrows` is `logout()` ending at 2284: the slot was marked closing (2265), the
account has left the registry, and `clearSlotCredentials` is never called. The slot
stays closed, so `SlotsReopen` excuses it (`halted`; `MCSessionSlots_offline.cfg`
shows it closed for good). It is also free to be given, with the old cookie in it,
and the account gone is still the one shown, so that the next `logout()` takes
slot 0 for its slot (2256). From then on `OwnToken`, `OwnCookie`, `NotRevived` and
`SparesOthers` can all break, as TLC shows when their premise `AllFlushed` is
dropped; they are claimed until a sign-out ends this way. `SlotsDistinct` holds
regardless.

Abstractions. The headers of an answer and its body arrive together. A switch is
one step, since only the account shown matters here (AccountSwitch has its
steps). Every account signed in with password and code for a token: remembered
passwords, Lite, the provider's redirect, the restore on page load, `logoutAll`,
the delays of the backoff and accounts whose restore failed (which a full
sign-out drops too) are not modelled. A session past its maximum length is
refused like any other.

Bounds: `Logins` (each used once, an account's in a fixed order), `Requests` and
`Cleanups` in flight, and `SignInsHalted`: a sign-out ends at its flush only beside
that many sign-ins, two in the run. In the
run, two accounts, the first signing in twice, share two slots, with one renewal
and one cleanup at a time: enough for a slot to be reused after its cleanup was
given up or failed, and for both accounts to have stood in it. An identifier is
reused when nothing refers to it, so the number of renewals is not bounded. Two
cleanups at once were checked as well (one million states), and the proofs hold for
any number of either.

Fairness: `WF` of the steps of each renewal, each cleanup, the sign-outs and the
sign-in. Requests are answered or fail, and code after an await runs; nothing
obliges the user to do anything. There is no fairness on the two limits taken by
themselves: a cleanup moves on by its answer or by its limit, whichever is first.

| Property | Says |
|---|---|
| `NotRevived` | a cookie cleared by a sign-out does not come back |
| `OwnCookie` | the cookie in an account's slot is that account's |
| `OwnToken` | no client is handed another account's token |
| `SlotsDistinct` | two accounts never share a slot |
| `SparesOthers` | an account that stays keeps its cookie, unless its own renewal is refused |
| `SlotsReopen` | a closed slot is opened again, unless a sign-out of it ended at its flush |

### PairAttempts and StepUps - mistyped credentials at "Link mobile app"

`PairAttempts` is the file: an `Entry` per account, `Live` its two windows,
`BeginCounted`, `BeginRefused` and `Settle` its functions as operators.
`StepUps` is the create route around them: requests that run in parallel, each
between its `Begin` and the answer of the mail server (`Success`,
`WrongCredential`, `OtherFailure`), while `Tick` moves time; `NewWindow` and
`NewDay` say when counting starts afresh.
`wrong` counts the refused credentials since each window began, `lent` the
attempts given back after their window had ended.

Bounds: two accounts, two requests, 2 failures per window of 2, 3 per day of 4,
time to 6: both limits are reached alone and together, and an attempt can
outlive its window and its day. The step between begin and settle may throw
(`app/api/auth/pair/create/route.ts:135`), which leaves the attempt counted; not
modelled.

| Property | Says |
|---|---|
| `WithinLimits` | refused credentials and those under way stay within both limits, plus the attempts given back late |
| `LockedByMistakesOnly` | only refused credentials and requests under way count against an account |

### Pairing - "Link mobile app" from end to end

Extends `PairingStore` by the routes (`ServePassword`, `ServeAgain`, `ServeSso`,
`ServeSignOut`), the browser's one proof cookie, and the section of the Security
settings in each tab: what it shows, the request it waits for, its poll and its
countdown. A request carries the cookie as it was when it was sent; its answer,
with a Set-Cookie header or none, is applied by a later step (`Arrive`) or lost
(`Fail`, which also stands for the refusals). `overtaken` names grants whose
cookie was dropped by an answer that did not know of them.

Bounds: one section, two accounts (one signed in through a provider), two
requests under way, four sent, two codes, lifetimes of 1 and a clock to 2. A
server restart, which empties the store, is not modelled, nor is a code redeemed
in its last second while the laptop slept, which the section reports as expired
(`account-security-settings.tsx` 1075, 1099).

Fairness (`PollingSpec`): `WF` of the section's poll; it is an interval.

| Property | Says |
|---|---|
| `QrDiesWithProof` | a QR that was shown works only while the browser holds its proof |
| `ScreenHonest` | the QR on screen is for the account on screen, and "linked" is true |
| `DeadQrLeaves` | a QR that no longer works leaves the screen |

### SessionLimits - idle time and maximum length in several tabs

`lib/session-policy/session-timer.ts`, `activity-channel.ts` and the guard in
each tab: its limits, last activity, clock (off, running, expired), the messages on their
way to it (`wire`), what localStorage holds (`stored`), and whether its session
was signed out elsewhere (`told`). `TimerDue` is the timer, which fires late
when the laptop slept: nothing obliges it to come before the next `Tick`.

`SignOutFails` is `logoutAll()` rejecting at 2437, with an edit pending that cannot
be saved: the session stays signed in, and the guard, whose `endingRef` stays set,
does not try again (page "stuck"). The DELETE of the cookies, sent just before, is
taken to fail on the same network.

Abstractions: the activity throttle is activity that is not recorded; `logoutAll`,
when it succeeds, is one step; `tightenLimits` is the set of limits the policy can have. "Stay
signed in" after the deadline ends the session as the code does. "Sign out now"
is the user's sign-out and not a step of its own. Histories: `unaware` are tabs
whose clock cannot know of the last use, `loadOnly` pages that count from their
load because nothing was recorded.

Bounds: two tabs, two policies (an idle limit of 2 below a maximum of 3, and a maximum
of 1 alone), time to 2. With limits that are also turned off (`MCPolicies`) the same
properties hold, in 336 thousand states; the two safety properties are proved for any
limits. Drafts are flushed or fail in every tab; which tab has one matters
to `MCSessionLimits_drafts.cfg` only.
Fairness (`Fairness(t)`): `WF` of the own work of one tab - its limits arrive, a due
timer fires, drafts are flushed or fail, the sign-out it began ends or fails. The other tab,
which may be frozen in the background, owes nothing, and nothing obliges the user.

| Property | Says |
|---|---|
| `NothingRevives` | after the idle time has run out no activity brings the session back |
| `IdleMeansIdle` | a tab ends the session as idle only when nobody used any tab, or could not know |
| `DeadlineEndsSession` | a passed deadline ends the session, whether or not drafts can be saved, unless the sign-out itself fails |

### SettingsSync - one set of settings, several accounts

A tab has one set of settings and an owner key; `sync` is the account it pushes
for, `pending` the debounced job, `pushes` and `loads` the requests under way,
`server` each account's copy, `change` a switch, sign-in or sign-out waiting for
`flushSync`. Settings are abstracted to whose they hold and to the newest edit in
them. The server's GET and POST are single steps.

Bounds: two accounts, two edits, three loads, one push under way besides those that
landed unanswered; with two, the properties hold as well (3.3 million states, and the
proof covers any number). Accounts are interchangeable (symmetry; no liveness).
Histories: `crossed` - settings were edited while they were not the active account's
or a load was under way, or a load landed after its account had left; `troubled` -
accounts with a push that failed, was overtaken, or replaced. The exceptions are real:
a sign-in beside another account keeps sync on for the previous one
(`MCSettingsSync_foreign.cfg`); "held by another" is read before the load's await and
used after it; edits made while a flush is awaited are dropped by `disableSync`; a
retried older push overwrites a newer one (`settings-store.ts` 218-222); a 404 or 403
switches sync off for whoever has it by then; the switch that restores the previous
account after a refused target does not resume sync (`auth-store.ts` 2581-2600). Left
out: two tabs, which share the owner key, and two POSTs at once, which share a
temporary file and merge what each read (`lib/settings-sync.ts` 51).

| Property | Says |
|---|---|
| `OwnSettingsOnly` | an account's copy holds no other account's settings |
| `EditsSaved` | an edit made with sync on is on the server once nothing waits or travels |
| `SignedOutForgets` | signed out, the browser holds nobody's settings |

### MailList - the first pages of a folder

One folder by date: `list` (rows, total, whether there is more, the state it is
from), the server's `mail` with the state each was last touched at, pushes on
their way, and one of each of the requests that overlap: a delta (`changes`,
then the candidates' query, then the rows applied), a refresh of the first page,
a page of further rows, a delete per mail. Pushes may be announced together. A
row is a mail: flags, threads and other orders are left out, and so are search,
tag, category and unified views and the remembered folders.

`odd` collects, by name, the situations in which the rows can go wrong, until a
refresh with nothing loaded beyond its page, and no delta under way, has made
them right: "kept" (a refresh keeps rows beyond its page although more than
arrivals came, or a row was deleted without being counted), "older" (a page or
delta older than the list), "back" (a row left and the mail was moved back while
a query was out), "raced" (a refresh or page landed since the delta began),
"failed" (a refresh failed), "paged" (loading more overlapped a change) and "end"
(the rows were the same, so the total and the end of the list were not taken
over, `email-store.ts` 7024). In every behaviour without them the list is right.

Bounds: three mails and a fourth to arrive, two changes, pages of 2: arrivals,
moves and deletes can each push a row over the page's end. With 2 and 3 mails,
three changes and pages of 1 the properties hold as well (17 million states). No
fairness: the properties are of safety.

| Property | Says |
|---|---|
| `ListIsRight` | no row of a mail that left, none skipped, and up to date once all is answered |
| `DeletedStaysGone` | a deleted mail does not reappear, whatever refreshes and deltas are late; a page of further rows may bring it back ("paged") |

### LiteTokens - refresh tokens in the browser

Without the server side (Bulwark Lite) a slot's refresh token is in localStorage
("remember me") or in one tab's sessionStorage. State: the account list
(`registry`, in localStorage, read when a page loads and written from the tab's
own copy), `store` (the slot's tokens in localStorage and in each tab), the
tabs, a renewal per tab with the provider's answer, and the full sign-out's
message to the others (`told`). The provider's tokens are single-use; it keeps or
rotates them and may end a login at any time.

Abstractions: one slot; login, registration and code exchange are one step that
stores or fails to connect; Basic sessions, `logoutAll` over several slots, the
discovery of the revocation endpoint, a duplicated tab and logins without a refresh
token are left out; a renewal refused while signing out only clears. `Slow` says
whether a renewal may outlast the three seconds a sign-out waits for it.

Bounds: two tabs, two accounts, two logins, two tokens each, `Slow = FALSE`, and
symmetry. Histories: `excused` (accounts whose last token was lost with a page or
answer, renewed by two tabs at once, or cleared by another tab), `crossed` (a
sign-in beside another tab that had something in the slot), `gone` (logins
signed out).

| Property | Says |
|---|---|
| `OwnTokensOnly` | a tab works with its own account's tokens |
| `NewestKept` | what a signed-in tab would renew with is the newest token issued |
| `NotRevived` | nothing of a login signed out comes back |
| `StaysWithTab` | without "remember me" no token reaches localStorage |

### PushStreams - who holds the tab's event streams

A browser allows few connections to one server, so `client.ts` keeps `MaxStreams`
streams per tab; other clients wait in line and poll slowly. `push` is a record: the
holders, the waiters in order, and for each client whether it is `wanted`, the state
of its attempt, its reconnect timer, the timers it has forgotten (`stray`), its polls,
and what it hears or overheard. Beside it: who is signed in, on screen, `bound` with
which role, and rate limited. `Reconcile` is the effect of the bindings host:
`reconcilePushBindings`, with its visits in one step, the active account first (a loop
is `Each`), or, while no client is on screen (`screen` is `Nobody`: a sign-out or a
switch to an account not yet connected, `SwitchAway`), `releasePushBindings`, which
unbinds everyone; `AfterTask` is the microtask a released slot queues, which runs
before anything else. Actions: streams open, fail, end, go stale, the tab is shown,
the network returns, timers fire, a rate limit begins and ends, and sign-ins, switches
and sign-outs.

Abstractions: time is left out, so a timer fires at any moment and a stream may
be silent at any moment. The `RateLimitError` branch of `connectSSE` cannot be
reached, since `setRateLimited` closes the stream first. A login signs in once.
A rate limit announced to a signed-out client's other request is left out.
Every server offers an event stream; a client whose server has none only polls.

Bounds: three clients, one stream, one of them with shared accounts and able to
be rate limited, one forgotten timer. Symmetry of the clients
that are alike. No fairness.

| Property | Says |
|---|---|
| `WithinBudget` | never more streams than slots, and each slot with a stream, an attempt or a timer for one |
| `NoSlotIdle` | no client waits beside a free slot |
| `NeverDeaf` | every bound client has a stream, an attempt, a timer, a poll or a limit that ends |
| `StaysDown` | a signed-out client opens nothing, unless it has a forgotten timer |

### StateChecks - what a client is told

One client of those, and how it learns of changes: events of its stream, and
checks that compare the server's states with a baseline. `server` is the state
of all types as one number, `base` the baseline, `seen` what the views show (a view that is
told fetches, so it then shows everything), `check` and `prime` the requests
under way, which closing does not cancel. `Pause` and `Resume` are a rate limit.
`TryAgain` and `Queue` are the network's return with a slot free or not; without
one the slow poll starts, and asks for a baseline again.

`lost` is the newest change nobody was there to notice, or whose teller went
away before telling. A check under way is no excuse. Left out: the slow poll's
pause while the tab is hidden.

Bounds: two changes, two baseline requests at once, no shared accounts (with
`Shared = TRUE` it holds as well). Fairness (`FairSpec`): `WF` of the interval's tick
and the open stream's delivery; `SF` of a check's answer and its landing, since a
client checks again and again and not every check fails.

| Property | Says |
|---|---|
| `ToldAtLast` | the views catch up with every change that somebody was there to notice |

## Runs

Every run expects TLC to find no error; together they take every action of
every module. Each property has a mutant, an operator beside the one it replaces
(the definitions marked "Mutant"), with which TLC finds it violated.

| Run | Configuration | Distinct states | Question |
|---|---|---|---|
| `pairing_store` | `PairingStore.cfg` | 135 thousand | all properties of the pairing store, in a webmail in use, and that it is a life of each grant |
| `switch` | `MCAccountSwitch_switch.cfg` | 336 thousand | overlapping switches and fetches, four accounts, flushes that throw |
| `sign_out` | `MCAccountSwitch_all.cfg` | 1.1 million | switches, sign-outs that go through or throw, removals, refused renewals, sign-ins one after the other |
| `slots` | `MCSessionSlots.cfg` | 269 thousand | sign-ins, renewals, refusals and sign-outs of two accounts, with waits that run out, requests that fail and flushes that throw |
| `step_ups` | `MCStepUps.cfg` | 766 thousand | parallel step-ups across windows and days |
| `pairing` | `Pairing.cfg` | 238 thousand | new QRs, step-ups, scans, sign-outs and lost answers in one browser |
| `session_limits` | `MCSessionLimits.cfg` | 61 thousand | two tabs, with an idle limit and a maximum in turn, messages late, clocks that stop and sign-outs that fail |
| `settings` | `MCSettingsSync.cfg` | 1.3 million | switches, sign-outs, edits, failing and overtaking requests of two accounts |
| `mail_list` | `MailList.cfg` | 1.2 million | arrivals, moves, deletes and reads against pushes, refreshes and further pages |
| `lite` | `MCLiteTokens.cfg` | 1.4 million | sign-ins, renewals, reloads and sign-outs in two tabs |
| `push` | `MCPushStreams.cfg` | 406 thousand | three logins and one stream, with everything that can end or start one |
| `state_checks` | `StateChecks.cfg` | 59 thousand | one client whose stream opens, breaks and falls back, with checks and baselines that overlap, fail and answer late |

Deadlock is checked where a module always has a next step. `CHECK_DEADLOCK FALSE`
stands where the system may stop: nobody has to click, and bounds on switches,
requests or changes end a behaviour.

The type invariant of each module is its `TypeOK`. Those of `PairingStore`, `Pairing`,
`SessionSlots`, `SessionLimits`, `StepUps`, `SettingsSync` and `LiteTokens` are
proved; the first is also in its run. The others serve a reader, and are added to a
configuration when a module changes.

### Further counterexamples

What the code does not promise, or promises in a comment and does not keep. Each
is found by `tlc -workers 2 -config <configuration> <module>` within seconds, and
each violates the property named.

| Configuration | Property | What happens |
|---|---|---|
| `MCAccountSwitch_identities.cfg` | `IdentitiesOfActive` | a superseded switch writes its identities into the store of the account now active (`auth-store.ts` 2681) |
| `MCAccountSwitch_arrive.cfg` | `IdentitiesArrive` | a snapshot from before the identities came is restored, and they are never fetched again |
| `MCAccountSwitch_refused.cfg` | `OnlyRefusedAccountSignedOut` | a renewal refused after a switch signs out the account switched to (2147) |
| `MCAccountSwitch_offline.cfg` | `SomeoneRefills` | with an edit pending and no network, `flushSync` ends a network switch after it emptied the stores, and nobody fills them (2502; the flag's comment, 1086-1090, has them "not yet filled") |
| `MCAccountSwitch_signout.cfg` | `OnlyActiveMailShown` | a sign-out during a switch fills stores the switch had emptied and will not empty again (2304) |
| `MCSessionSlots_offline.cfg` | `EverySlotReopens` | the same ends a sign-out before its cleanup, and its slot stays closed (2265, 2284) |
| `MCSessionSlots_straggler.cfg` | `OwnToken` | a client of a signed-out account asks for a token and gets that of slot 0 (2146) |
| `MCSessionSlots_timer.cfg` | `NoLostTimer` | the slot is checked before an await and a renewal scheduled after it (2226) |
| `MCSettingsSync_foreign.cfg` | `NoForeignSettings` | a sign-in beside another account: an edit before the new account's settings have loaded goes to the previous account's copy (1512); `settings-store.ts` 58-60 says why that must not be |
| `MCSettingsSync_offline.cfg` | `SignOutGoesThrough` | with an edit pending and no network, `flushSync` throws and the sign-out ends halfway (2284, 2437) |
| `MCSessionLimits_drafts.cfg` | `DraftsSavedOrSaid` | a tab that learns of the sign-out from another goes to the login page with its draft unsaved and nothing said (3305-3310; the guard's comment, 88-92, says drafts are saved) |
| `MailList_dropped.cfg` | `PushedOffStays` | a mail arrived and another left, the total is the same, and the row pushed off the first page is nowhere (`email-store.ts` 6916; `email-store-refresh-merge.test.ts` 73 says it stays) |
| `MailList_paged.cfg` | `MoreAddsItsPage` | a row deleted while plugins look at a further page is back (4214) |
| `MCLiteTokens_slow.cfg` | `NotRevived` | in Lite a renewal that outlasts the wait of a sign-out stores its tokens in the cleared slot (`auth-store.ts` 611) |
| `MCLiteTokens_apart.cfg` | `TabsKeepApart` | a tab signed in without "remember me" works with the token another tab put in localStorage (`lite-tokens.ts` 176, against 27-28) |
| `MCPushStreams_down.cfg` | `SignedOutStaysDown` | a reconnect timer replaced without being cleared opens a stream for a signed-out client (`client.ts` 10632) |
| `MCPushStreams_screen.cfg` | `ScreenFirst` | a login added while the streams are taken is on screen and polls, two in the background stream (`push-bindings.ts` 81, against 68-70) |
| `StateChecks_gap.cfg` | `EveryChangeTold` | a client with a stream keeps no baseline, so a change while the stream was down is told to nobody, not even when the tab is shown (`client.ts` 10781), though rate limits end, streams open and the user returns to the tab again and again |

## Proofs

All are checked by `tlapm` to the last leaf, for every value of the constants.
The inductive invariant is what each of them turns on.

`PairingProofs` first proves the safety properties of the pairing store for every
set of grants and owners and all lifetimes. The inductive invariant adds to them
what ties the Maps together: a code is issued from a minted grant and numbered
in order, at most one code per grant is pending and it is the newest, redeemed
codes are exactly those handed the grant while they are remembered, and a code's
expiry and forgetting never pass its grant's. Without the last one a redemption
could find a code whose grant record is forgotten. The lemmas follow the code: one
for `Sweep`, then one per function, each from what `Sweep` preserves.
`Refinement` shows that every step maps to a step or a stutter of
`GrantLifecycle`, using that a minted grant is held, handed out or disposed of
(`AccountedFor`) so that no grant is ever "lost".

It then takes the store's lemmas through the routes of `Pairing`, for any
number of tabs, accounts and requests under way, and proves `QrDiesWithProof`,
`ScreenHonest`, the store's `HandedOutAtMostOnce` and `EveryGrantAccountedFor`, and
the refinement of `GrantLifecycle` again: a route chains several store functions
without an await, so its step must be one step of each grant's life
(`PairingRefinement`). Every store function makes the store evolve (`Evolves`): no
record changes whose it is, and a grant that no phone can get stays so. The
invariant (`PairingInv`) says that a proof names a minted grant and its owner
(`ProofTrue`), that an answer which replaces or deletes the proof its request
carried comes after that proof's grant died (`AnswerTrue`), that a code under way
was issued on the proof its answer leaves in the browser (`CodeTrue`), and that the
grant of any code shown, or of a proof a request carries, is the cookie's unless it
is `overtaken` or dead (`DisplayedCovered`, `CarriedCovered`). `QrDiesWithProof` alone is
not inductive: it says nothing of the answers under way. `ScreenHonest` needs that a
section waits only for what was asked for the account it shows (`WaitedFor`).

`AccountSwitchProofs` proves `AccountsKeptApart` (and its three parts),
`LastClickWins`, `StoresRefilled` and `MailNotLost` for `SwitchSpec`, for any number
of accounts and of overlapping switches. The invariant adds which phases belong to
which path (`PhasePath`), that a fetch of the current epoch was sent by the active
account (`FetchesOwn`), and that the newest switch, while it is on the network path,
finds the stores empty and no fetch that may fill them (`NetworkEmptied`): this is
what makes it sound that the network path does not empty the stores again when it
binds. `StoresRefilled` needs besides (`MarkedEmptied`) that stores marked as emptied
are so and that no fetch may fill them; a switch that throws leaves the mark and what
it says, and the newest switch's other ways out take the mark away. One lemma per action.
`MailNotLost` turns on `StoresBehind`: stores not emptied by a switch have mail
whenever the snapshot they will replace has.

For `Spec` with `Overlapping = FALSE`, which adds sign-outs, removals, refused
renewals and sign-ins that come one at a time and beside no switch, but beside any
fetch, identity request or renewal, it proves `AccountsKeptApart` and
`SignedOutForgotten`. The invariant (`FullInv`) adds the discipline (`OneAtATime`),
that who signs out is the account on screen (`SignOutOfActive`), that what a switch
would save or is about to show is registered (`ShownListed`, `TargetListed`), and that
a sign-in which has put an account away finds neither its mail nor a fetch of it when
it is done (`PutAway`). With `Overlapping = TRUE` the first is violated
(`MCAccountSwitch_signout.cfg`).

`SessionSlotsProofs` proves `SlotsDistinct` and the types for any number of accounts,
slots, renewals and cleanups and every choice of `Mishaps`, `crossing` included; that
the lowest free slot exists and is free (`NextSlotFree`) is well-foundedness of the
natural numbers, cited from `WellFoundedInduction`. `OwnToken`, `OwnCookie`,
`NotRevived` and `SparesOthers` are proved where `Mishaps` has neither `straggler` nor
`crossing` (`Orderly`) and until a sign-out ends at its flush (`AllFlushed`, a premise
of each), as they must be: without either, TLC finds them violated. So the invariant
is `AllFlushed => Ordered`, and as no step brings `AllFlushed` back (`HaltedStays`), a
step that ends in it began in an ordered state. None of them is inductive. `Ordered`
says why they hold: a slot being cleared is nobody's, and once its DELETE is out no
renewal can write it any more (`CleanupsOrdered`); an answer writes the slot of its
own account with that account's cookie (`WritesOwned`); the slot a sign-in writes is
the one `addAccount()` will choose (`SignInOrdered`), which holds because nothing
leaves the registry meanwhile; a login is never in two slots, nor on its way to a
second (`OneHome`); a slot is closed for a sign-out, a cleanup that was not given up,
or drafts being saved (`ClosedForAReason`); and only one of sign-in, sign-out and a
refusal's drafts is under way (`OneAtATime`). Steps that only move renewals and
cleanups forward are treated alike, by what they leave true (`RenewalsGoOn`,
`AnswersWrite`, `CleanupsGoOn`).

`SessionLimitsProofs` proves `NothingRevives` and `IdleMeansIdle` for any tabs and any
limits. Both turn on what a tab's clock knows of the last use in any tab. It is never
ahead of it (`NotAhead`), so when the limits have run out since the last use the tab's
own deadline is past, and `record` and `evaluate` look at that deadline before they
take an activity. Where it is behind, the use is in the tab's inbox, or the tab was told
of a sign-out, or it is `unaware` (`Aware`): storage, the inbox and the clock never
all lack it. A page of an earlier session has been told of its sign-out, which is
what carries `Aware` over a sign-in. One lemma says what each operator returns, and one
what a step leaves of the tabs it does not touch (`Untouched`).

`StepUpsProofs` proves `WithinLimits` and `LockedByMistakesOnly` for any requests,
accounts, limits and windows. The invariant (`Sound`) ties an entry's counts to
the attempts in flight, the wrong credentials and the attempts lent: neither
property is inductive, since a count by itself does not say who is behind it.
Cardinalities of the requests in flight change by one or not at all, by the
theorems on finite sets.

`SettingsSyncProofs` proves the three properties of settings sync for any number
of accounts, edits, loads and pushes. Unless `crossed`, what is in the tab is its
owner's, sync is on for the owner or for nobody, what waits or travels is its
account's own, and the only load that is not late belongs to the active account
and knows whose settings it replaces (`OwnEverywhere`, `FreshLoad`,
`SignedOutClean`); an account without trouble has its last due edit waiting,
travelling or stored (`EditKept`), and only one push is awaited.

`LiteTokensProofs` proves the four properties of a Lite slot for any number of
tabs, accounts, logins and tokens, where `Slow` is false: every theorem says so, and
`MCLiteTokens_slow.cfg` shows that it must. The invariant says that, unless a sign-in
`crossed` another tab, everything in the slot, wherever it is kept, is one login's
and every tab that shows an account shows that login's (`Only`). Its tokens are
written in two calls and to two storages, so four more parts say, unless its account
is `excused`, that an access token never stands alone (`Whole`), that only one
place has tokens (`OnePlace`), that every signed-in tab reads it (`AllRead`), and
that what is stored is the newest token unless the one renewal under way brings a
newer one (`OneRenewal`, `RenewsNewest`, `NewestStored`). What is signed out stays out
because nothing held is `gone` (`NoneGone`), and no step of a tab lets it hold what
it did not hold before (`TabStepHolds`).

`PushStreamsProofs` proves the four properties of the event streams for any number of
clients, slots, attempts and timers, though each step of the tab runs through several
clients: giving up a slot promotes a line of them, and `reconcilePushBindings` visits
them all. The model writes these loops as one recursive function (`Each`). Of such a
function the lemma `Recurrence` says what can be said without knowing the loop: it has
a value after each round, made from the one before by the loop's body (`Stages`). A
relation that every round keeps then holds at the end, by the well-foundedness of the
natural numbers. `Connected`, `Promoted` and `Settled` are these relations: no slot is
lost, the line grows only when no slot is free, a client in trouble is never made deaf
by another's promotion. Reconciling goes through two phases, one in which it only
takes slots away and one in which the line grows only when the slots are full
(`Taking`, `Giving`); that is why nobody waits idly at its end, though somebody may in
its middle. The invariant (`Inv`) adds to the properties that the slots and the line
are in order, with nobody waiting twice or with a slot (`Fit`), that a signed-in
holder has a stream or will (`Alive`), that a client not signed in yet has nothing
(`Fresh`), and that a rate limit remembers to resume. `StaysDown` is proved step by
step: `Close` takes the client out of the line before anyone is promoted, so its own
slot is never given back to it.

Assumptions are those named in the modules: bounds and lifetimes are natural
numbers, the markers (`None`, `NoRecord`, `Nobody` and the like) are not values
they stand beside.

Only model-checked: the liveness properties (`EveryGrantSettled`, `LoadingEnds`,
`SlotsReopen`, `DeadQrLeaves`, `DeadlineEndsSession`, `ToldAtLast`), which are
beyond the prover; and `MailList`, whose rows are filtered, merged and cut in the same
step: what `SelectSeq` and the folds return is an induction over the sequence, for
operators the library defines by recursion.

## Plan

Written and checked: all the modules above. Left, in order of worth:

1. `StateChecks` composed with `PushStreams`, so that a client's stream is the one
   a slot gives it.
2. Mail list: flags, moves and keyword orders, the remembered folders.
3. `LiteTokens` with several slots; a server restart in `Pairing`; the client's
   keep-alive.
4. Merging of the unified mailbox and recurrence arithmetic as pure operators
   with a reference definition.

## Not modelled

Most of the repository's lines are rendering, translations, packaging, the
development server, and the building and parsing of JMAP requests: data handling with
no order of events to get wrong, and no state but the stores above. The rest:
the cryptography of cookies and settings, plugins' sandbox messages, WOPI and web
push, whose state lives outside the repository; CRUD of calendars, contacts, tasks,
files and filters, requests with an error path; recurrence arithmetic over unbounded
data. Parts left out of a modelled component are named with its module, and
`PROJECT.json` ("components") gives the reason for each component.
