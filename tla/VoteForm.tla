------------------------------ MODULE VoteForm ------------------------------
(***************************************************************************)
(* CreatevoteActivity and AddcandidateActivity: an administrator fills in  *)
(* a vote.  Dates are picked in dialogs that check them against the day    *)
(* the screen was last started and against each other at the moment they   *)
(* are picked; the flags startdate and enddate remember that they passed.  *)
(* The clock goes on, and turning the phone makes the screen again: what   *)
(* is typed is put back, flags, candidates and `now' are not.              *)
(***************************************************************************)
EXTENDS Naturals

CONSTANTS
    LastDay,        \* bound: days are 1 .. LastDay
    MaxCandidates,  \* bound: how many candidates a form gets
    NoDate          \* an empty date field

ASSUME DaysAssumption == LastDay \in Nat \ {0} /\ MaxCandidates \in Nat
ASSUME NoDateAssumption == NoDate \notin Nat

VARIABLES
    createScreen,  \* what the administrator sees
    title, note,   \* the text is not blank
    startText, endText,  \* the date fields
    startdate, enddate,  \* the flags
    manual,          \* the switch: no dates needed
    candidatenumber, \* the counter the form checks
    candidates,      \* the length of the list that is shown
    now,             \* the day of the last onStart
    today,           \* the day
    startRepicked,   \* the start was picked after the end (history)
    created          \* the vote the confirmation accepted

formVars == << createScreen, title, note, startText, endText, startdate, enddate, manual,
               candidatenumber, candidates, now, today, startRepicked, created >>

Days    == 1 .. LastDay
Created == [ title : BOOLEAN, note : BOOLEAN, manual : BOOLEAN, start : Days \cup {NoDate},
             end : Days \cup {NoDate}, candidates : 0 .. MaxCandidates, repicked : BOOLEAN ]
NoVote  == [ title |-> FALSE, note |-> FALSE, manual |-> FALSE, start |-> NoDate,
             end |-> NoDate, candidates |-> 0, repicked |-> FALSE ]

FormTypeOK ==
    /\ createScreen \in {"closed", "form", "confirm", "complain", "candidate", "created", "crashed"}
    /\ title \in BOOLEAN /\ note \in BOOLEAN /\ manual \in BOOLEAN
    /\ startText \in Days \cup {NoDate} /\ endText \in Days \cup {NoDate}
    /\ startdate \in BOOLEAN /\ enddate \in BOOLEAN
    /\ candidatenumber \in 0 .. MaxCandidates /\ candidates \in 0 .. MaxCandidates
    /\ now \in Days /\ today \in Days
    /\ startRepicked \in BOOLEAN
    /\ created \in Created

FormInit ==
    /\ createScreen = "closed"
    /\ title = FALSE /\ note = FALSE /\ manual = FALSE
    /\ startText = NoDate /\ endText = NoDate /\ startdate = FALSE /\ enddate = FALSE
    /\ candidatenumber = 0 /\ candidates = 0
    /\ now = 1 /\ today = 1
    /\ startRepicked = FALSE
    /\ created = NoVote

-----------------------------------------------------------------------------

\* AdminActivity opens the screen: onCreate, onStart.
OpenForm ==
    /\ createScreen \in {"closed", "crashed", "created"}
    /\ createScreen' = "form"
    /\ title' = FALSE /\ note' = FALSE /\ manual' = FALSE
    /\ startText' = NoDate /\ endText' = NoDate /\ startdate' = FALSE /\ enddate' = FALSE
    /\ candidatenumber' = 0 /\ candidates' = 0
    /\ now' = today
    /\ startRepicked' = FALSE
    /\ UNCHANGED <<today, created>>

\* Title, explanation and the switch between manual and dated votes.
Fill ==
    /\ createScreen = "form"
    /\ \/ title' \in BOOLEAN /\ UNCHANGED <<note, manual>>
       \/ note' \in BOOLEAN /\ UNCHANGED <<title, manual>>
       \/ manual' = ~manual /\ UNCHANGED <<title, note>>
    /\ UNCHANGED << createScreen, startText, endText, startdate, enddate, candidatenumber,
                    candidates, now, today, startRepicked, created >>

\* Mutant: a start refused leaves a number in the field.
PickStartZero(d) ==
    /\ createScreen = "form" /\ ~manual
    /\ startdate' = (now < d)
    /\ startText' = IF now < d THEN d ELSE 0
    /\ startRepicked' = (enddate /\ now < d)
    /\ UNCHANGED << createScreen, title, note, endText, enddate, manual, candidatenumber,
                    candidates, now, today, created >>

\* startlistener: the start is after the day of the last onStart, or is cleared.
\* Nothing looks at an end picked before.
PickStart(d) ==
    /\ createScreen = "form" /\ ~manual
    /\ startdate' = (now < d)
    /\ startText' = IF now < d THEN d ELSE NoDate
    /\ startRepicked' = (enddate /\ now < d)
    /\ UNCHANGED << createScreen, title, note, endText, enddate, manual, candidatenumber,
                    candidates, now, today, created >>

\* Mutant: the end is not compared with the start.
PickEndUnchecked(d) ==
    /\ createScreen = "form" /\ ~manual
    /\ startText # NoDate
    /\ enddate' = TRUE
    /\ endText' = d
    /\ startRepicked' = FALSE
    /\ UNCHANGED << createScreen, title, note, startText, startdate, manual, candidatenumber,
                    candidates, now, today, created >>

\* endlistener: the end is after the start in the field, or is cleared.
PickEnd(d) ==
    /\ createScreen = "form" /\ ~manual
    /\ startText # NoDate
    /\ enddate' = (startText < d)
    /\ endText' = IF startText < d THEN d ELSE NoDate
    /\ startRepicked' = FALSE
    /\ UNCHANGED << createScreen, title, note, startText, startdate, manual, candidatenumber,
                    candidates, now, today, created >>

\* Without a start the empty field does not parse, and the handler compares null.
PickEndCrash ==
    /\ createScreen = "form" /\ ~manual
    /\ startText = NoDate
    /\ createScreen' = "crashed"
    /\ UNCHANGED << title, note, startText, endText, startdate, enddate, manual,
                    candidatenumber, candidates, now, today, startRepicked, created >>

\* The button, shown unless the vote is one of approval.
AddCandidate ==
    /\ createScreen = "form"
    /\ createScreen' = "candidate"
    /\ UNCHANGED << title, note, startText, endText, startdate, enddate, manual,
                    candidatenumber, candidates, now, today, startRepicked, created >>

\* AddcandidateActivity's two buttons, and the return to the form: its onStart,
\* as it was stopped, and onActivityResult.
CandidateDone(ok) ==
    /\ createScreen = "candidate"
    /\ ok => candidatenumber < MaxCandidates
    /\ createScreen' = "form"
    /\ candidatenumber' = IF ok THEN candidatenumber + 1 ELSE candidatenumber
    /\ candidates' = IF ok THEN candidates + 1 ELSE candidates
    /\ now' = today
    /\ UNCHANGED << title, note, startText, endText, startdate, enddate, manual, today,
                    startRepicked, created >>

Complete ==
    /\ title
    /\ manual \/ (startdate /\ enddate)
    /\ note
    /\ candidatenumber # 0

\* The finish button: a question if the form is complete, else a complaint.
FinishForm ==
    /\ createScreen = "form"
    /\ createScreen' = IF Complete THEN "confirm" ELSE "complain"
    /\ UNCHANGED << title, note, startText, endText, startdate, enddate, manual,
                    candidatenumber, candidates, now, today, startRepicked, created >>

\* A complaint is confirmed; the one about candidates presses the button itself.
CloseComplaint ==
    /\ createScreen = "complain"
    /\ createScreen' = IF title /\ (manual \/ (startdate /\ enddate)) /\ note
                       THEN "candidate" ELSE "form"
    /\ UNCHANGED << title, note, startText, endText, startdate, enddate, manual,
                    candidatenumber, candidates, now, today, startRepicked, created >>

\* "Yes" ends the screen with a message that the vote was created.
ConfirmCreate ==
    /\ createScreen = "confirm"
    /\ createScreen' = "created"
    /\ created' = [ title |-> title, note |-> note, manual |-> manual, start |-> startText,
                    end |-> endText, candidates |-> candidates, repicked |-> startRepicked ]
    /\ UNCHANGED << title, note, startText, endText, startdate, enddate, manual,
                    candidatenumber, candidates, now, today, startRepicked >>

DeclineCreate ==
    /\ createScreen = "confirm"
    /\ createScreen' = "form"
    /\ UNCHANGED << title, note, startText, endText, startdate, enddate, manual,
                    candidatenumber, candidates, now, today, startRepicked, created >>

\* Cancel or back, confirmed.
CancelForm ==
    /\ createScreen = "form"
    /\ createScreen' = "closed"
    /\ UNCHANGED << title, note, startText, endText, startdate, enddate, manual,
                    candidatenumber, candidates, now, today, startRepicked, created >>

\* The administrator goes to another app and comes back: onStart.
RestartForm ==
    /\ createScreen = "form"
    /\ now' = today
    /\ UNCHANGED << createScreen, title, note, startText, endText, startdate, enddate, manual,
                    candidatenumber, candidates, today, startRepicked, created >>

\* Mutant: the counter survives, the list does not.
TurnFormCountKept ==
    /\ createScreen \in {"form", "confirm", "complain", "candidate"}
    /\ createScreen' = IF createScreen = "candidate" THEN "candidate" ELSE "form"
    /\ startdate' = FALSE /\ enddate' = FALSE
    /\ candidates' = 0
    /\ now' = today
    /\ UNCHANGED << title, note, startText, endText, manual, candidatenumber, today,
                    startRepicked, created >>

\* The phone is turned: texts and switch are put back, fields start afresh, and a
\* dialog is lost.  Under AddcandidateActivity the form is made again on return.
TurnForm ==
    /\ createScreen \in {"form", "confirm", "complain", "candidate"}
    /\ createScreen' = IF createScreen = "candidate" THEN "candidate" ELSE "form"
    /\ startdate' = FALSE /\ enddate' = FALSE
    /\ candidatenumber' = 0 /\ candidates' = 0
    /\ now' = today
    /\ UNCHANGED <<title, note, startText, endText, manual, today, startRepicked, created>>

Midnight ==
    /\ today < LastDay
    /\ today' = today + 1
    /\ UNCHANGED << createScreen, title, note, startText, endText, startdate, enddate, manual,
                    candidatenumber, candidates, now, startRepicked, created >>

FormNext ==
    \/ OpenForm
    \/ Fill
    \/ \E d \in Days : PickStart(d)
    \/ \E d \in Days : PickEnd(d)
    \/ PickEndCrash
    \/ AddCandidate
    \/ \E ok \in BOOLEAN : CandidateDone(ok)
    \/ FinishForm
    \/ CloseComplaint
    \/ ConfirmCreate
    \/ DeclineCreate
    \/ CancelForm
    \/ RestartForm
    \/ TurnForm
    \/ Midnight

FormSpec == FormInit /\ [][FormNext]_formVars

-----------------------------------------------------------------------------
(* Properties *)

\* A vote that is created has all its parts as the screen shows them, however the
\* screen was filled, refused, left, turned and filled again: a title, an
\* explanation, a candidate in the list, and both dates unless it is run by hand
\* (CreatevoteActivity.java:217-256).
CreatedIsComplete ==
    created # NoVote =>
        /\ created.title /\ created.note
        /\ created.candidates > 0
        /\ created.manual \/ (created.start # NoDate /\ created.end # NoDate)

\* Its end is after its start, unless the start was picked again after the end:
\* the one check of their order is made when an end is picked
\* (CreatevoteActivity.java:286-297, 318-327).
EndsAfterStart ==
    created # NoVote /\ ~created.manual /\ ~created.repicked => created.start < created.end
=============================================================================
