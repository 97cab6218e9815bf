------------------------------ MODULE VoteList ------------------------------
(***************************************************************************)
(* UsermainActivity: the list of ongoing votes.  Every onStart, and the    *)
(* menu's renew, clears the list and starts a load; loads are AsyncTasks,  *)
(* done one after the other on the serial executor, and append what the    *)
(* server answers.  The screen shows the rows of the last layout, which    *)
(* comes after the adapter is notified: clearing the list does not notify  *)
(* it.  A push message writes to the table the loads write to.             *)
(***************************************************************************)
EXTENDS Naturals, Sequences

CONSTANTS
    OngoingVotes,  \* vote ids
    Answers,       \* the lists of votes the server may answer with
    MaxLoads,      \* bound: loads under way at once
    Nothing        \* no vote opened yet

\* The server lists a vote once.
ASSUME AnswersAssumption ==
    /\ Answers \subseteq Seq(OngoingVotes)
    /\ \A a \in Answers : \A j, k \in DOMAIN a : a[j] = a[k] => j = k
ASSUME MaxLoadsAssumption == MaxLoads \in Nat
ASSUME NothingAssumption == Nothing \notin [shown : OngoingVotes, vote : OngoingVotes]

VARIABLES
    listScreen,  \* the list is on top, stopped under another screen, or gone
    votelist,    \* the list the adapter reads
    rows,        \* what the screen shows
    notified,    \* notifyDataSetChanged was called since the last layout
    loads,       \* the executor's queue, the load under way first
    overlapped,  \* this list had two loads at once (history)
    opened,      \* the last vote opened: the row tapped, and what VoteActivity got
    votelistTable  \* the table votelist; rows are only added, their number is left out

listVars == <<listScreen, votelist, rows, notified, loads, overlapped, opened, votelistTable>>

\* A load belongs to the list on the screen (mine) or to one that is gone; its
\* progress dialog is shown until it is cancelled or the load is done.
Loads == [mine : BOOLEAN, dialog : BOOLEAN]

ListTypeOK ==
    /\ listScreen \in {"gone", "top", "stopped", "threw", "pushed"}
    /\ votelist \in Seq(OngoingVotes)
    /\ rows \in Seq(OngoingVotes)
    /\ notified \in BOOLEAN
    /\ loads \in Seq(Loads)
    /\ overlapped \in BOOLEAN
    /\ opened \in [shown : OngoingVotes, vote : OngoingVotes] \cup {Nothing}
    /\ votelistTable \subseteq [vote : OngoingVotes, full : BOOLEAN]

ListInit ==
    /\ listScreen = "gone"
    /\ votelist = <<>> /\ rows = <<>>
    /\ notified = FALSE
    /\ loads = <<>>
    /\ overlapped = FALSE
    /\ opened = Nothing
    /\ votelistTable = {}

\* The user reaches the list when no progress dialog is in front of it.
Reachable == listScreen = "top" /\ \A k \in DOMAIN loads : ~loads[k].dialog

-----------------------------------------------------------------------------
(* Opening the list, leaving it and coming back *)

\* Login: onCreate and onStart.  The process may have died before.
OpenList ==
    /\ listScreen \in {"gone", "threw", "pushed"}
    /\ Len(loads) < MaxLoads
    /\ listScreen' = "top"
    /\ votelist' = <<>> /\ rows' = <<>> /\ notified' = FALSE
    /\ loads' = Append(loads, [mine |-> TRUE, dialog |-> TRUE])
    /\ overlapped' = FALSE
    /\ UNCHANGED <<opened, votelistTable>>

\* Mutant: onStart does not clear the list.
OnStartUncleared ==
    /\ Len(loads) < MaxLoads
    /\ overlapped' = (overlapped \/ \E k \in DOMAIN loads : loads[k].mine)
    /\ loads' = Append(loads, [mine |-> TRUE, dialog |-> TRUE])
    /\ UNCHANGED <<votelist, rows, notified, opened, votelistTable>>

\* onStart: the list is cleared, the adapter is not told, a load is queued.
OnStart ==
    /\ Len(loads) < MaxLoads
    /\ votelist' = <<>>
    /\ overlapped' = (overlapped \/ \E k \in DOMAIN loads : loads[k].mine)
    /\ loads' = Append(loads, [mine |-> TRUE, dialog |-> TRUE])
    /\ UNCHANGED <<rows, notified, opened, votelistTable>>

\* The menu's renew calls onStart.
Renew == Reachable /\ OnStart /\ listScreen' = listScreen

\* The user goes to the notices or to another app, and comes back.
Leave ==
    /\ listScreen = "top"
    /\ listScreen' = "stopped"
    /\ UNCHANGED <<votelist, rows, notified, loads, overlapped, opened, votelistTable>>

Return == listScreen = "stopped" /\ OnStart /\ listScreen' = "top"

\* The list is left for good; its loads go on and fill a list nobody shows.
ListBack ==
    /\ Reachable
    /\ listScreen' = "gone"
    /\ votelist' = <<>> /\ rows' = <<>> /\ notified' = FALSE
    /\ loads' = [k \in DOMAIN loads |-> [mine |-> FALSE, dialog |-> FALSE]]
    /\ UNCHANGED <<overlapped, opened, votelistTable>>

CancelDialog ==
    /\ listScreen = "top"
    /\ \E k \in DOMAIN loads :
        loads[k].dialog /\ loads' = [loads EXCEPT ![k].dialog = FALSE]
    /\ UNCHANGED <<listScreen, votelist, rows, notified, overlapped, opened, votelistTable>>

-----------------------------------------------------------------------------
(* The load that is first in the queue ends *)

Prefix(s, n) == [k \in 1 .. n |-> s[k]]

\* Mutant: the adapter is not notified of the votes appended.
LoadDoneSilently(answer, n) ==
    /\ loads # <<>>
    /\ loads' = Tail(loads)
    /\ IF Head(loads).mine THEN votelist' = votelist \o Prefix(answer, n)
                           ELSE votelist' = votelist
    /\ votelistTable' = votelistTable \cup {[vote |-> answer[k], full |-> TRUE] : k \in 1 .. n}
    /\ UNCHANGED <<listScreen, rows, notified, overlapped, opened>>

\* doParse works off the first n votes of the answer, inserting each in the table
\* and appending it: all of them, fewer if one lacks a field, none after an error
\* or the five-second timeout.
LoadDone(answer, n) ==
    /\ loads # <<>>
    /\ loads' = Tail(loads)
    /\ IF Head(loads).mine
       THEN votelist' = votelist \o Prefix(answer, n) /\ notified' = (notified \/ n > 0)
       ELSE UNCHANGED <<votelist, notified>>
    /\ votelistTable' = votelistTable \cup {[vote |-> answer[k], full |-> TRUE] : k \in 1 .. n}
    /\ UNCHANGED <<listScreen, rows, overlapped, opened>>

\* RecyclerView lays out what the list has now: soon after a notification, or
\* because something else on the screen asked for a layout.
Layout ==
    /\ listScreen = "top"
    /\ notified \/ rows # votelist
    /\ rows' = votelist /\ notified' = FALSE
    /\ UNCHANGED <<listScreen, votelist, loads, overlapped, opened, votelistTable>>

-----------------------------------------------------------------------------
(* A tap on row i, which asks the adapter for the position: the row's index,   *)
(* or -1 while a notification is waiting for its layout                        *)

TapOpens(i) ==
    /\ Reachable /\ i \in DOMAIN rows
    /\ ~notified /\ i \in DOMAIN votelist
    /\ opened' = [shown |-> rows[i], vote |-> votelist[i]]
    /\ listScreen' = "stopped"
    /\ UNCHANGED <<votelist, rows, notified, loads, overlapped, votelistTable>>

ProcessDies(how) ==
    /\ listScreen' = how
    /\ votelist' = <<>> /\ rows' = <<>> /\ notified' = FALSE /\ loads' = <<>>

\* votelist.get(position) has no such element: the app dies.
TapThrows(i) ==
    /\ Reachable /\ i \in DOMAIN rows
    /\ notified \/ i \notin DOMAIN votelist
    /\ ProcessDies("threw")
    /\ UNCHANGED <<overlapped, opened, votelistTable>>

\* onMessageReceived with data: a row with id and title only.  The notification
\* part is used before it is tested for null.
Push(v, notification) ==
    /\ IF notification
       THEN /\ votelistTable' = votelistTable \cup {[vote |-> v, full |-> FALSE]}
            /\ UNCHANGED <<listScreen, votelist, rows, notified, loads>>
       ELSE ProcessDies("pushed") /\ votelistTable' = votelistTable
    /\ UNCHANGED <<overlapped, opened>>

ListNext ==
    \/ OpenList \/ Renew \/ Leave \/ Return \/ ListBack
    \/ CancelDialog
    \/ \E answer \in Answers : \E n \in 0 .. Len(answer) : LoadDone(answer, n)
    \/ Layout
    \/ \E i \in DOMAIN rows : TapOpens(i)
    \/ \E i \in DOMAIN rows : TapThrows(i)
    \/ \E v \in OngoingVotes, notification \in BOOLEAN : Push(v, notification)

ListSpec == ListInit /\ [][ListNext]_listVars

-----------------------------------------------------------------------------
(* Properties *)

\* The vote that opens is the one the user saw and touched, although the list is
\* cleared and filled behind the rows, by loads in any number and with answers that
\* differ (UsermainActivity.java:125, 166-171, 329-330).
OpenedWasShown == opened # Nothing => opened.vote = opened.shown

\* No vote is on the list twice unless two loads of this list overlapped
\* (UsermainActivity.java:125, 204, 329): then each appends its whole answer.
OnceUnlessOverlapped ==
    ~overlapped => \A j, k \in DOMAIN votelist : votelist[j] = votelist[k] => j = k
=============================================================================
