------------------------------ MODULE MailList ------------------------------
(***************************************************************************)
(* A plain folder list of the mail store (stores/email-store.ts) and the   *)
(* changes behind it.  The list is a page of the folder, newest first, with *)
(* the Email state it was read at (emailListSync).  A push says that the   *)
(* state moved on: the changes since are applied to the rows one push at a *)
(* time (applyEmailDelta), or the page is read again and merged with the   *)
(* rows loaded beyond it (refreshCurrentMailbox, never two at once).       *)
(* Scrolling loads further rows; the user deletes some.  Each of these     *)
(* waits for the server while the others go on.                            *)
(*                                                                         *)
(* A mail is its number in the order of arrival, a row is a mail: what a   *)
(* row shows of its mail, and orders other than by date, are left out.     *)
(***************************************************************************)
EXTENDS Integers, FiniteSets, Sequences, SequencesExt

CONSTANTS
  InitialMails,  \* mails in the folder when it is opened
  MaxMails,      \* bound: mails
  MaxChanges,    \* bound: changes on the server
  PageSize,      \* emailsPerPage
  None           \* no request under way

ASSUME MailsAssumption ==
  InitialMails \in Nat /\ MaxMails \in Nat /\ PageSize \in Nat \ {0} /\ MaxChanges \in Nat

Mails == 1 .. MaxMails
States == 0 .. MaxChanges

(* On the server: where a mail is, and the states that made and last       *)
(* touched it.                                                             *)
Mail == [place : {"to come", "folder", "elsewhere", "destroyed"}, made : States, touched : States]

(* emails, totalEmails, hasMoreEmails and emailListSync.state.             *)
List == [rows : Seq(Mails), total : Nat, more : BOOLEAN, state : States]

VARIABLES
  mail, state,  \* the server
  list,         \* the store
  pushed,       \* the last state the server announced
  queue,        \* announced states whose delta waits for its turn
  delta,        \* the delta under way
  refresh,      \* the refresh under way, and whether to run once more
  more,         \* the load of further rows under way
  deletes,      \* deletes the user started: "no", "sent", "served"
  deleted,      \* history: mails whose delete was confirmed, neither moved back nor paged in since
  uncounted,    \* history: a row was deleted and the total not read since
  odd           \* history: what happened to the list that nothing makes up for

server == <<mail, state>>
history == <<deleted, uncounted, odd>>
vars == <<server, list, pushed, queue, delta, refresh, more, deletes, history>>

Page(pos) ==
  LET folder == SetToSortSeq({m \in Mails : mail[m].place = "folder"}, LAMBDA m, n : m > n)
  IN  [rows |-> SubSeq(folder, pos + 1, IF pos + PageSize < Len(folder) THEN pos + PageSize ELSE Len(folder)),
       total |-> Len(folder), state |-> state]

More(pos, page) == pos + Len(page.rows) < page.total
Without(rows, dropped) == SelectSeq(rows, LAMBDA m : m \notin dropped)
AtLeast(a, b) == IF a >= b THEN a ELSE b

(* fetchEmails has shown the folder.                                       *)
Init ==
  /\ mail = [m \in Mails |-> [place |-> IF m <= InitialMails THEN "folder" ELSE "to come",
                              made |-> 0, touched |-> 0]]
  /\ state = 0
  /\ list = [rows |-> Page(0).rows, total |-> InitialMails, more |-> More(0, Page(0)), state |-> 0]
  /\ pushed = 0 /\ queue = <<>>
  /\ delta = None /\ refresh = None /\ more = None
  /\ deletes = [m \in Mails |-> "no"]
  /\ deleted = {} /\ uncounted = FALSE /\ odd = {}

-----------------------------------------------------------------------------
(* The server, and the user's other devices.                               *)
Touch(m, place) ==
  /\ state < MaxChanges
  /\ state' = state + 1
  /\ mail' = [mail EXCEPT ![m].place = place, ![m].touched = state + 1,
                          ![m].made = IF mail[m].place = "to come" THEN state + 1 ELSE @]

OutsideStep ==
  /\ \/ \E m \in Mails :
          /\ mail[m].place = "to come" /\ \A n \in Mails : n < m => mail[n].place # "to come"
          /\ Touch(m, "folder")
     \/ \E m \in Mails, place \in {"elsewhere", "destroyed"} :
          mail[m].place = "folder" /\ deletes[m] = "no" /\ Touch(m, place)
  /\ UNCHANGED <<list, pushed, queue, delta, refresh, more, deletes, history>>

(* Moved (back) into the folder.                                           *)
MovedBack(m) ==
  /\ mail[m].place = "elsewhere" /\ deletes[m] = "no"
  /\ Touch(m, "folder")
  /\ deleted' = deleted \ {m}
  /\ UNCHANGED <<list, pushed, queue, delta, refresh, more, deletes, uncounted, odd>>

-----------------------------------------------------------------------------
(* handleStateChange: states may be announced together.                    *)
Push ==
  \E n \in pushed + 1 .. state :
    /\ pushed' = n
    /\ queue' = Append(queue, n)
    /\ UNCHANGED <<server, list, delta, refresh, more, deletes, history>>

Row(m) == Contains(list.rows, m)

(* applyEmailDeltaNow begins, for the state the list has and the rows it   *)
(* shows.  There is nothing to do for a state that it has.                 *)
DeltaStart ==
  /\ delta = None /\ queue # <<>>
  /\ queue' = Tail(queue)
  /\ delta' = IF Head(queue) = list.state THEN None
              ELSE [phase |-> "changes", since |-> list.state, listed |-> ToSet(list.rows)]
  /\ UNCHANGED <<server, list, pushed, refresh, more, deletes, history>>

(* Email/changes.  Answers that only lead to the next request are taken    *)
(* with it.                                                                *)
Changed(since) == {m \in Mails : mail[m].touched > since}
Known(since) == {m \in Changed(since) : mail[m].made <= since}
Destroyed(since) == {m \in Known(since) : mail[m].place = "destroyed"}

DeltaChanges ==
  /\ delta # None /\ delta.phase = "changes"
  /\ LET there == {m \in Changed(delta.since) : mail[m].place # "destroyed"}
         updated == {m \in Known(delta.since) \cap there : m \in delta.listed}
     IN  delta' = [phase |-> "candidates", to |-> state, listed |-> delta.listed, candidates |-> there \ updated,
                   updated |-> updated, removed |-> Destroyed(delta.since) \cap delta.listed]
  /\ UNCHANGED <<server, list, pushed, queue, refresh, more, deletes, history>>

(* Mails that are not listed: one that is in the folder needs a refresh.   *)
Arrived == \E m \in delta.candidates : mail[m].place = "folder"

DeltaCandidates ==
  /\ delta # None /\ delta.phase = "candidates"
  /\ delta' = [delta EXCEPT !.phase = IF Arrived THEN "refresh" ELSE "updated"]
  /\ UNCHANGED <<server, list, pushed, queue, refresh, more, deletes, history>>

(* Mails that are: one that is not in the folder any more leaves the list. *)
DeltaUpdated ==
  /\ delta # None /\ delta.phase = "updated"
  /\ delta' = [delta EXCEPT !.phase = "apply",
                 !.removed = @ \cup {m \in delta.updated : mail[m].place # "folder"}]
  /\ UNCHANGED <<server, list, pushed, queue, refresh, more, deletes, history>>

(* removeEmailsFromCurrentList: the total falls with the rows, and nothing  *)
(* is left to load once the rows are all of it.                            *)
Patched(rows, total, moreRows) ==
  [rows |-> rows, state |-> delta.to,
   total |-> AtLeast(total - (Len(list.rows) - Len(rows)), Len(rows)),
   more |-> /\ moreRows
            /\ total >= Len(list.rows) =>
                 Len(rows) < AtLeast(total - (Len(list.rows) - Len(rows)), Len(rows))]

(* The rows are read again, filtered and replaced.                         *)
Applied ==
  IF delta.removed \cup delta.updated = {} THEN [list EXCEPT !.state = delta.to]
  ELSE Patched(Without(list.rows, delta.removed), list.total, list.more)

(* `odd`: a refresh or another page landed since the delta began, or a row  *)
(* that it updates left, and the mail is back.                             *)
DeltaApplied ==
  /\ delta # None /\ delta.phase = "apply"
  /\ list' = Applied
  /\ delta' = None
  /\ odd' = odd \cup {o \in {"older"} : delta.to < list.state}
               \cup {o \in {"raced"} : ~ ToSet(list.rows) \subseteq delta.listed}
               \cup {o \in {"back"} : \E m \in delta.updated \ delta.removed : ~ Row(m)}
  /\ UNCHANGED <<server, pushed, queue, refresh, more, deletes, deleted, uncounted>>

(* coalesceRefresh: one that is under way runs once more.                  *)
Started(rows) == [phase |-> "sent", again |-> FALSE, listed |-> ToSet(rows)]
Asked == IF refresh = None THEN Started(list.rows) ELSE [refresh EXCEPT !.again = TRUE]

(* Something arrived, there are too many changes, or a request failed.     *)
DeltaGivesUp ==
  /\ delta # None /\ delta.phase # "apply"
  /\ delta' = None
  /\ refresh' = Asked
  /\ UNCHANGED <<server, list, pushed, queue, more, deletes, history>>

-----------------------------------------------------------------------------
(* refreshCurrentMailbox.                                                  *)
RefreshServed ==
  /\ refresh # None /\ refresh.phase = "sent"
  /\ refresh' = [phase |-> "served", again |-> refresh.again, listed |-> refresh.listed, page |-> Page(0)]
  /\ UNCHANGED <<server, list, pushed, queue, delta, more, deletes, history>>

RefreshEnds(rows) == IF refresh.again THEN Started(rows) ELSE None

(* removedWhileQuerying.                                                   *)
Left == refresh.listed \ ToSet(list.rows)

(* Mutant: rows that left while the query was out come back with its page. *)
PageAsServed == refresh.page

PageNow ==
  LET rows == Without(refresh.page.rows, Left) IN
  [rows |-> rows, total |-> refresh.page.total - (Len(refresh.page.rows) - Len(rows)),
   state |-> refresh.page.state]

(* Mutant: the cut follows the fresh page, not the page size (#592).       *)
CutAtPage(page) == Len(page.rows)

(* appendFromIndex: the rows loaded beyond the page, by how much the       *)
(* folder grew.                                                            *)
CutAt(page) ==
  LET inserted == AtLeast(page.total - list.total, 0) IN AtLeast(PageSize - inserted, 0)

Beyond(page) ==
  Without(SubSeq(list.rows, CutAt(page) + 1, Len(list.rows)), ToSet(page.rows))

Merged(page) == page.rows \o Beyond(page)

(* Nothing but new mail came between the list and the page.                *)
OnlyArrivals(page) ==
  ~ uncounted /\ list.state + 1 .. page.state \subseteq {mail[m].made : m \in Mails}

(* `odd`: a page older than the list; a page that keeps rows loaded before *)
(* although mail left the folder, which the count does not show; the same  *)
(* rows again, so that the list keeps the total and the end it knew; a row *)
(* that left and was moved back while the query was out.                   *)
RefreshOdd(page, shown) ==
  (IF Beyond(page) = <<>> /\ delta = None THEN {} ELSE odd \cup {o \in {"kept"} : ~ OnlyArrivals(page)})
    \cup {o \in {"older"} : page.state < list.state}
    \cup {o \in {"end"} : ~ shown /\ ~ list.more /\ Len(list.rows) < page.total}
    \cup {o \in {"back"} : \E m \in Left : Contains(refresh.page.rows, m) /\ mail[m].place = "folder"}

RefreshLanded ==
  /\ refresh # None /\ refresh.phase = "served"
  /\ LET page == PageNow
         rows == Merged(page)
     IN  /\ \E shown \in BOOLEAN :
              /\ rows # list.rows => shown
              /\ list' = IF shown
                         THEN [rows |-> rows, total |-> page.total, more |-> Len(rows) < page.total,
                               state |-> page.state]
                         ELSE [list EXCEPT !.state = page.state]
              /\ uncounted' = (uncounted /\ ~ shown)
              /\ odd' = RefreshOdd(page, shown)
         /\ refresh' = RefreshEnds(rows)
  /\ UNCHANGED <<server, pushed, queue, delta, more, deletes, deleted>>

RefreshFailed ==
  /\ refresh # None
  /\ refresh' = RefreshEnds(list.rows)
  /\ odd' = odd \cup {"failed"}
  /\ UNCHANGED <<server, list, pushed, queue, delta, more, deletes, deleted, uncounted>>

-----------------------------------------------------------------------------
(* loadMoreEmails: isLoadingMore keeps a second one out.                   *)
MoreStart ==
  /\ more = None /\ list.more
  /\ more' = [phase |-> "sent", position |-> Len(list.rows), over |-> list.rows]
  /\ UNCHANGED <<server, list, pushed, queue, delta, refresh, deletes, history>>

MoreServed ==
  /\ more # None /\ more.phase = "sent"
  /\ more' = [phase |-> "served", position |-> more.position, over |-> more.over,
              page |-> Page(more.position), disturbed |-> list.state # state]
  /\ UNCHANGED <<server, list, pushed, queue, delta, refresh, deletes, history>>

(* The answer: the rows are read, and plugins get to see the new ones.     *)
MoreRead ==
  /\ more # None /\ more.phase = "served"
  /\ more' = [more EXCEPT !.phase = "read", !.over = list.rows,
                          !.disturbed = @ \/ more.over # list.rows \/ list.state # more.page.state]
  /\ UNCHANGED <<server, list, pushed, queue, delta, refresh, deletes, history>>

(* ... and are put under the rows as they were then.                       *)
MoreRows == more.over \o Without(more.page.rows, ToSet(more.over))

MoreLanded ==
  /\ more # None /\ more.phase = "read"
  /\ list' = [rows |-> MoreRows, total |-> more.page.total, more |-> More(more.position, more.page),
              state |-> list.state]
  /\ odd' = odd \cup {o \in {"paged"} : more.disturbed \/ more.over # list.rows
                                          \/ list.state # more.page.state}
  /\ more' = None
  /\ uncounted' = FALSE
  /\ deleted' = deleted \ ToSet(MoreRows)
  /\ UNCHANGED <<server, pushed, queue, delta, refresh, deletes>>

MoreFailed ==
  /\ more # None
  /\ more' = None
  /\ UNCHANGED <<server, list, pushed, queue, delta, refresh, deletes, history>>

-----------------------------------------------------------------------------
(* deleteEmail: to the trash or for good; the row goes when the server     *)
(* answers, and the total stays.  A refresh under way knows of it only if  *)
(* the row was there when its query went out.                              *)
DeleteSent(m) ==
  /\ Row(m) /\ deletes[m] = "no" /\ mail[m].place = "folder"
  /\ deletes' = [deletes EXCEPT ![m] = "sent"]
  /\ UNCHANGED <<server, list, pushed, queue, delta, refresh, more, history>>

DeleteServed(m) ==
  /\ deletes[m] = "sent"
  /\ \E place \in {"elsewhere", "destroyed"} : Touch(m, place)
  /\ deletes' = [deletes EXCEPT ![m] = "served"]
  /\ UNCHANGED <<list, pushed, queue, delta, refresh, more, history>>

DeleteLanded(m) ==
  /\ deletes[m] = "served"
  /\ deletes' = [deletes EXCEPT ![m] = "no"]
  /\ list' = [list EXCEPT !.rows = Without(@, {m})]
  /\ deleted' = deleted \cup {d \in {m} : refresh = None \/ m \in refresh.listed}
  /\ uncounted' = (uncounted \/ Row(m))
  /\ UNCHANGED <<server, pushed, queue, delta, refresh, more, odd>>

DeleteFailed(m) ==
  /\ deletes[m] = "sent"
  /\ deletes' = [deletes EXCEPT ![m] = "no"]
  /\ UNCHANGED <<server, list, pushed, queue, delta, refresh, more, history>>

Next ==
  \/ OutsideStep \/ Push
  \/ DeltaStart \/ DeltaChanges \/ DeltaCandidates \/ DeltaUpdated \/ DeltaApplied \/ DeltaGivesUp
  \/ RefreshServed \/ RefreshLanded \/ RefreshFailed
  \/ MoreStart \/ MoreServed \/ MoreRead \/ MoreLanded \/ MoreFailed
  \/ \E m \in Mails :
       MovedBack(m) \/ DeleteSent(m) \/ DeleteServed(m) \/ DeleteLanded(m) \/ DeleteFailed(m)

Spec == Init /\ [][Next]_vars

-----------------------------------------------------------------------------
(* Properties.                                                             *)

Phases(step, phases) == step = None \/ step.phase \in phases

TypeOK ==
  /\ mail \in [Mails -> Mail] /\ state \in States
  /\ list \in [rows : Seq(Mails), total : Nat, more : BOOLEAN, state : States]
  /\ pushed \in 0 .. state /\ queue \in Seq(States)
  /\ Phases(delta, {"changes", "candidates", "refresh", "updated", "apply"})
  /\ Phases(refresh, {"sent", "served"}) /\ Phases(more, {"sent", "served", "read"})
  /\ deletes \in [Mails -> {"no", "sent", "served"}]
  /\ deleted \subseteq Mails /\ uncounted \in BOOLEAN
  /\ odd \subseteq {"kept", "older", "back", "raced", "failed", "paged", "end"}
  /\ Cardinality(ToSet(list.rows)) = Len(list.rows)
  /\ list.state <= state

Unchanged(m) == mail[m].touched <= list.state
InFolder(m) == mail[m].place = "folder"

NoGhostRow == \A m \in Mails : Row(m) /\ Unchanged(m) => InFolder(m)

(* Above the last row, and anywhere once there is no more to load.         *)
NoRowSkipped ==
  \A m \in Mails : InFolder(m) /\ Unchanged(m) /\ ~ Row(m) =>
    list.more /\ \A i \in DOMAIN list.rows : list.rows[i] > m

Quiet ==
  /\ pushed = state /\ queue = <<>> /\ {delta, refresh, more} = {None}
  /\ \A m \in Mails : deletes[m] = "no"

(* The list shows what has not changed since its state as it is on the     *)
(* server: no row of a mail that left, none skipped between the rows or    *)
(* after the last.  What has changed since is still to come, and has come  *)
(* once everything is answered.                                            *)
ListIsRight ==
  /\ odd \subseteq {"failed"} => NoGhostRow /\ NoRowSkipped
  /\ odd = {} /\ Quiet => list.state = state

(* A mail the user deleted does not come back by itself ("made a mail      *)
(* deleted in quick succession reappear until the next push", #966).       *)
DeletedStaysGone == \A m \in deleted : ~ Row(m)

(* A refresh that finds new mail keeps the row that it pushes off the      *)
(* first page ("still preserves the item a new arrival pushes off the      *)
(* first page").  It does not when a row was deleted, or a mail left, as   *)
(* well: the total is the same, so nothing seems to have arrived, and the  *)
(* row is neither on the page nor beyond the cut.  Nor is it loaded again  *)
(* when rows that follow it were loaded.                                   *)
PushedOffStays ==
  odd \subseteq {"kept"} =>
    \A m \in Mails : InFolder(m) /\ Unchanged(m) /\ mail[m].touched = mail[m].made /\ ~ Row(m) =>
      list.more /\ \A i \in DOMAIN list.rows : list.rows[i] > m

(* What loading more adds is its page ("Use fresh state when merging to    *)
(* avoid overwriting concurrent updates").  The rows are fresh when the    *)
(* page arrives; a row that leaves while plugins look at it is back.       *)
MoreAddsItsPage ==
  [][\A m \in Mails : more # None /\ more' = None /\ ~ Row(m) /\ Row(m)' => Contains(more.page.rows, m)]_<<more, list>>
=============================================================================
