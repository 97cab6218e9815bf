---------------------------- MODULE AdminSession ----------------------------
(***************************************************************************)
(* AdminloginActivity, AdminsignupActivity, AdminActivity and the opening  *)
(* of the screens above it.  Login and sign-up are requests to Firebase    *)
(* that nobody waits for: the screens stay usable, several requests may be *)
(* out, and an answer reaches its screen only if that screen has not been  *)
(* stopped; but it changes the current user in any case.  startActivity    *)
(* only asks for a screen: the old one can still be used, further screens  *)
(* may be asked for, and Android makes them in any order.  Administrators' *)
(* screens ask Firebase for the current user when they are made and when   *)
(* they start.                                                             *)
(***************************************************************************)
EXTENDS CredentialForm, Naturals, Sequences

CONSTANTS
    Lettered,    \* the ids that begin with a letter
    MaxScreens,  \* bound: screens on the stack or asked for
    MaxTasks     \* bound: requests out at once

ASSUME SessionAssumption ==
    Lettered \subseteq Texts /\ MaxScreens \in Nat /\ MaxTasks \in Nat

VARIABLES
    stack,          \* the activities above MainActivity
    starts,         \* the activities asked for, not made yet
    currentUser,    \* Firebase's current user; on disk
    adminAccounts,  \* Firebase: the administrators
    adminForm, adminDialog,  \* the sign-up screen's form and its dialog
    tasks,          \* requests out, each in a slot
    died,           \* what the app died of
    crowded,        \* a request was made during another one or with an administrator's
                    \* screen there or asked for, or an answer reached nobody (history)
    leftOthers      \* an administrator's screen was left with another one there or
                    \* asked for (history)

sessionVars == << stack, starts, currentUser, adminAccounts, adminForm, adminDialog, tasks, died,
                  crowded, leftOthers >>

Slots   == 1 .. MaxTasks
Tasks   == [op : {"signin", "signup"}, id : Texts, heard : BOOLEAN]
Names   == {"login", "signup", "admin", "create"}
Screens == [screen : Names, stopped : BOOLEAN, owner : Texts \cup {NoId}]
NoTask  == [op |-> "none"]

SessionTypeOK ==
    /\ stack \in Seq(Screens)
    /\ starts \in Seq(Names)
    /\ currentUser \in Texts \cup {NoId}
    /\ adminAccounts \subseteq Texts
    /\ adminForm \in Forms
    /\ adminDialog \in BOOLEAN
    /\ tasks \in [Slots -> Tasks \cup {NoTask}]
    /\ died \in {"no", "nouser", "dates"}
    /\ crowded \in BOOLEAN /\ leftOthers \in BOOLEAN

SessionInit ==
    /\ stack = <<>> /\ starts = <<>>
    /\ currentUser = NoId
    /\ adminAccounts = {}
    /\ adminForm = EmptyForm /\ adminDialog = FALSE
    /\ tasks = [s \in Slots |-> NoTask]
    /\ died = "no"
    /\ crowded = FALSE /\ leftOthers = FALSE

-----------------------------------------------------------------------------
(* The stack of screens *)

Top   == stack[Len(stack)]
On(screen) == stack # <<>> /\ Top.screen = screen

\* What has the current user's id on it.
Admins == {"admin", "create"}
AdminsOf(screens, asked) ==
    (\E k \in DOMAIN screens : screens[k].screen \in Admins) \/ \E k \in DOMAIN asked : asked[k] \in Admins

\* startActivity, whose screen is made later.
Room == Len(stack) + Len(starts) < MaxScreens
Start(screen) == starts' = Append(starts, screen)

\* One login and one sign-up screen at a time.
Fresh(screen) ==
    /\ Room
    /\ \A k \in DOMAIN stack : stack[k].screen # screen
    /\ \A k \in DOMAIN starts : starts[k] # screen

\* A screen of an administrator shows who is signed in when it is made or starts.
Showing(screen, user) == IF screen \in Admins THEN user ELSE NoId

\* The screen below comes back; an administrator's screen that was stopped asks
\* for the current user again (onStart).
Uncovered(below, user) ==
    IF below = <<>> THEN below
    ELSE [below EXCEPT ![Len(below)].stopped = FALSE,
                       ![Len(below)].owner = IF below[Len(below)].stopped
                                             THEN Showing(below[Len(below)].screen, user) ELSE @]

NeedsUser(below) ==
    below # <<>> /\ below[Len(below)].screen = "admin" /\ below[Len(below)].stopped

Unheard(op) == [s \in Slots |-> IF tasks[s].op = op THEN [tasks[s] EXCEPT !.heard = FALSE]
                                                   ELSE tasks[s]]

\* The sign-up screen's form is gone with it.
FormGone == adminForm' = EmptyForm /\ adminDialog' = FALSE
FormKept == UNCHANGED <<adminForm, adminDialog>>

\* An exception: the process is gone, with its screens and its requests.
Die(cause) ==
    /\ died' = cause
    /\ stack' = <<>> /\ starts' = <<>>
    /\ tasks' = [s \in Slots |-> NoTask]
    /\ FormGone

\* What onStart meets, with nobody signed in.
Dies(below, user) == NeedsUser(below) /\ user = NoId

\* MainActivity's button.
OpenAdminLogin ==
    /\ stack = <<>> /\ Fresh("login")
    /\ Start("login")
    /\ died' = "no"
    /\ UNCHANGED << stack, currentUser, adminAccounts, adminForm, adminDialog, tasks, crowded,
                    leftOthers >>

\* Android makes a screen that was asked for, on top of the others; onCreate and
\* onStart of an administrator's ask for the current user.
Create(k) ==
    LET others == [j \in 1 .. Len(starts) - 1 |-> IF j < k THEN starts[j] ELSE starts[j + 1]] IN
    /\ k \in DOMAIN starts
    /\ IF starts[k] \in Admins /\ currentUser = NoId
       THEN Die("nouser")
       ELSE /\ stack' = Append(stack, [ screen |-> starts[k], stopped |-> FALSE,
                                        owner |-> Showing(starts[k], currentUser) ])
            /\ starts' = others
            /\ UNCHANGED <<died, tasks, adminForm, adminDialog>>
    /\ UNCHANGED <<currentUser, adminAccounts, crowded, leftOthers>>

\* Android stops a covered screen some time after it was covered; the listeners it
\* registered for its requests go with it.
StopCovered(k) ==
    /\ k \in DOMAIN stack /\ k < Len(stack) /\ ~stack[k].stopped
    /\ stack' = [stack EXCEPT ![k].stopped = TRUE]
    /\ tasks' = CASE stack[k].screen = "login"  -> Unheard("signin")
                  [] stack[k].screen = "signup" -> Unheard("signup")
                  [] OTHER -> tasks
    /\ UNCHANGED << starts, currentUser, adminAccounts, adminForm, adminDialog, died, crowded,
                    leftOthers >>

-----------------------------------------------------------------------------
(* Requests *)

Request(op, id) ==
    /\ \E s \in Slots :
        /\ tasks[s] = NoTask /\ \A r \in Slots : r < s => tasks[r] # NoTask
        /\ tasks' = [tasks EXCEPT ![s] = [op |-> op, id |-> id, heard |-> TRUE]]
    /\ crowded' = (crowded \/ AdminsOf(stack, starts) \/ \E s \in Slots : tasks[s] # NoTask)

\* The login button; it stays enabled while a request is out and after an answer.
LogIn(id) ==
    /\ On("login") /\ id # Blank
    /\ Request("signin", Lower[id])
    /\ UNCHANGED << stack, starts, currentUser, adminAccounts, adminForm, adminDialog, died,
                    leftOthers >>

OpenAdminSignUp ==
    /\ On("login") /\ Fresh("signup")
    /\ Start("signup")
    /\ UNCHANGED << stack, currentUser, adminAccounts, adminForm, adminDialog, tasks, died, crowded,
                    leftOthers >>

\* As on the voters' screen, input may be on its way when the dialog opens.
AdminType ==
    /\ On("signup")
    /\ \/ \E t \in Texts : adminForm' = WithId(adminForm, t)
       \/ \E p \in Passwords : adminForm' = WithPw(adminForm, p)
       \/ adminForm.pw2Enabled /\ \E p \in Passwords : adminForm' = WithPw2(adminForm, p)
    /\ UNCHANGED << stack, starts, currentUser, adminAccounts, adminDialog, tasks, died, crowded,
                    leftOthers >>

\* The id check looks at the letters only; no server is asked.  (One dialog at a
\* time is kept.)
AdminCheckId ==
    /\ On("signup") /\ ~adminDialog
    /\ adminForm' = [ adminForm EXCEPT !.userid = Lower[adminForm.id],
                      !.check_id = @ /\ Lower[adminForm.id] \in Lettered ]
    /\ adminDialog' = (Lower[adminForm.id] \in Lettered)
    /\ UNCHANGED << stack, starts, currentUser, adminAccounts, tasks, died, crowded, leftOthers >>

AdminConfirm ==
    /\ On("signup") /\ adminDialog
    /\ adminForm' = [adminForm EXCEPT !.check_id = TRUE]
    /\ adminDialog' = FALSE
    /\ UNCHANGED << stack, starts, currentUser, adminAccounts, tasks, died, crowded, leftOthers >>

AdminFinish ==
    /\ On("signup")
    /\ adminForm.check_id /\ adminForm.check_pw
    /\ adminForm.pw = adminForm.pw2
    /\ Request("signup", Lower[adminForm.id])
    /\ UNCHANGED << stack, starts, currentUser, adminAccounts, adminForm, adminDialog, died,
                    leftOthers >>

\* The other branch of SignUp(): the toast that must never appear.
AdminToast ==
    /\ On("signup")
    /\ adminForm.check_id /\ adminForm.check_pw
    /\ adminForm.pw # adminForm.pw2

Done(s) == tasks' = [tasks EXCEPT ![s] = NoTask]

\* Mutant: the administrator's screen is asked for whatever the answer is.
SignInDoneUnasked(s, ok) ==
    /\ tasks[s] # NoTask /\ tasks[s].op = "signin"
    /\ ok => tasks[s].id \in adminAccounts
    /\ currentUser' = IF ok THEN tasks[s].id ELSE currentUser
    /\ IF tasks[s].heard THEN Room /\ Start("admin") ELSE UNCHANGED starts
    /\ crowded' = (crowded \/ ~tasks[s].heard)
    /\ Done(s)
    /\ UNCHANGED <<stack, adminAccounts, adminForm, adminDialog, died, leftOthers>>

\* A login answered: the right password of an account, or not.  After a success the
\* login screen stays in use until the administrator's has been made.
SignInDone(s, ok) ==
    /\ tasks[s] # NoTask /\ tasks[s].op = "signin"
    /\ ok => tasks[s].id \in adminAccounts
    /\ currentUser' = IF ok THEN tasks[s].id ELSE currentUser
    /\ IF ok /\ tasks[s].heard THEN Room /\ Start("admin") ELSE UNCHANGED starts
    /\ crowded' = (crowded \/ ~tasks[s].heard)
    /\ Done(s)
    /\ UNCHANGED <<stack, adminAccounts, adminForm, adminDialog, died, leftOthers>>

\* finish() closes the sign-up screen, wherever it is on the stack.
WithoutSignUp ==
    IF \E k \in DOMAIN stack : stack[k].screen = "signup"
    THEN LET k == CHOOSE j \in DOMAIN stack : stack[j].screen = "signup"
         IN  SubSeq(stack, 1, k - 1) \o SubSeq(stack, k + 1, Len(stack))
    ELSE stack

\* A sign-up answered.  Firebase makes the account only if the id is unused, and may
\* refuse it; the answer may be lost after the account was made.  A success signs the
\* new account in.  The screen ends in either case, if it hears the answer.
SignUpDone(s, made, ok) ==
    LET id   == tasks[s].id
        user == IF ok THEN id ELSE currentUser
        rest == WithoutSignUp
    IN
    /\ tasks[s] # NoTask /\ tasks[s].op = "signup"
    /\ ok => made
    /\ made => id \notin adminAccounts
    /\ currentUser' = user
    /\ adminAccounts' = IF made THEN adminAccounts \cup {id} ELSE adminAccounts
    /\ IF ~tasks[s].heard
       THEN Done(s) /\ UNCHANGED <<stack, starts, died>> /\ FormKept
       ELSE IF On("signup") /\ Dies(rest, user)
       THEN Die("nouser")
       ELSE /\ stack' = IF On("signup") THEN Uncovered(rest, user) ELSE rest
            /\ tasks' = [Unheard("signup") EXCEPT ![s] = NoTask]
            /\ FormGone
            /\ UNCHANGED <<starts, died>>
    /\ crowded' = (crowded \/ ~tasks[s].heard)
    /\ UNCHANGED leftOthers

-----------------------------------------------------------------------------
(* Leaving and opening screens *)

Below == SubSeq(stack, 1, Len(stack) - 1)

\* AdminActivity signs out when it is left.
AdminBack ==
    /\ On("admin")
    /\ currentUser' = NoId
    /\ IF Dies(Below, NoId) THEN Die("nouser")
       ELSE stack' = Uncovered(Below, NoId) /\ UNCHANGED <<died, starts, tasks>> /\ FormKept
    /\ leftOthers' = (leftOthers \/ AdminsOf(Below, starts))
    /\ UNCHANGED <<adminAccounts, crowded>>

\* Mutant: the form of a new vote signs out when it is left, as the screen under it does.
BackSigningOut ==
    /\ On("login") \/ On("signup") \/ On("create")
    /\ ~(On("signup") /\ adminDialog)
    /\ currentUser' = IF On("create") THEN NoId ELSE currentUser
    /\ IF Dies(Below, currentUser') THEN Die("nouser")
       ELSE /\ stack' = Uncovered(Below, currentUser')
            /\ tasks' = CASE On("login")  -> Unheard("signin")
                          [] On("signup") -> Unheard("signup")
                          [] OTHER -> tasks
            /\ IF On("signup") THEN FormGone ELSE FormKept
            /\ UNCHANGED <<died, starts>>
    /\ UNCHANGED <<adminAccounts, crowded, leftOthers>>

\* The other screens; CreatevoteActivity asks first, which changes nothing here.
Back ==
    /\ On("login") \/ On("signup") \/ On("create")
    /\ ~(On("signup") /\ adminDialog)
    /\ IF Dies(Below, currentUser) THEN Die("nouser")
       ELSE /\ stack' = Uncovered(Below, currentUser)
            /\ tasks' = CASE On("login")  -> Unheard("signin")
                          [] On("signup") -> Unheard("signup")
                          [] OTHER -> tasks
            /\ IF On("signup") THEN FormGone ELSE FormKept
            /\ UNCHANGED <<died, starts>>
    /\ UNCHANGED <<currentUser, adminAccounts, crowded, leftOthers>>

OpenCreate ==
    /\ On("admin") /\ Room
    /\ Start("create")
    /\ UNCHANGED << stack, currentUser, adminAccounts, adminForm, adminDialog, tasks, died, crowded,
                    leftOthers >>

\* A vote's dates must parse as yyyy-MM-dd HH:mm:ss in AdminActivity, and have
\* numbers between dots in AdminvoteActivity, which no date has both: one of the
\* two throws.
OpenAdminVote ==
    /\ On("admin")
    /\ Die("dates")
    /\ UNCHANGED <<currentUser, adminAccounts, crowded, leftOthers>>

\* The phone is turned: the screen is made again, which asks for the user, and
\* hears no answer to an earlier request.
TurnAdmin ==
    /\ stack # <<>>
    /\ IF (On("admin") \/ On("create")) /\ currentUser = NoId
       THEN Die("nouser")
       ELSE /\ stack' = [stack EXCEPT ![Len(stack)].owner = Showing(Top.screen, currentUser)]
            /\ tasks' = [s \in Slots |-> IF tasks[s] = NoTask THEN NoTask
                                         ELSE [tasks[s] EXCEPT !.heard = FALSE]]
            /\ IF On("signup") THEN adminForm' = Recreated(adminForm) /\ adminDialog' = FALSE
                              ELSE FormKept
            /\ UNCHANGED <<died, starts>>
    /\ UNCHANGED <<currentUser, adminAccounts, crowded, leftOthers>>

SessionNext ==
    \/ OpenAdminLogin
    \/ \E k \in DOMAIN starts : Create(k)
    \/ \E k \in DOMAIN stack : StopCovered(k)
    \/ \E id \in Texts : LogIn(id)
    \/ OpenAdminSignUp \/ AdminType \/ AdminCheckId \/ AdminConfirm \/ AdminFinish
    \/ \E s \in Slots, ok \in BOOLEAN : SignInDone(s, ok)
    \/ \E s \in Slots, made, ok \in BOOLEAN : SignUpDone(s, made, ok)
    \/ AdminBack \/ Back
    \/ OpenCreate \/ OpenAdminVote
    \/ TurnAdmin

SessionSpec == SessionInit /\ [][SessionNext]_sessionVars

-----------------------------------------------------------------------------
(* Properties *)

\* The toast of which AdminsignupActivity.java:219 says that it must absolutely
\* never appear does not, whatever was typed, turned and checked before.
ToastNever == ~AdminToast

\* Whatever requests overlap and wherever their answers arrive, an administrator's
\* screen is made, started and used with somebody signed in, unless one was left
\* while another one was there or asked for: two of them come of a second tap on a
\* login button that startActivity leaves in use (AdminloginActivity.java:104-116,
\* AdminActivity.java:75-76, 118-120, 127-128, CreatevoteActivity.java:90).
UserIsThere ==
    ~leftOthers =>
        /\ died # "nouser"
        /\ On("admin") \/ On("create") => currentUser # NoId

\* As long as a request is only made when no other is out and no administrator's
\* screen is there or asked for, and is answered before its screen is gone, what an
\* administrator's screen shows is the current user's, however the screens were
\* stopped, turned, covered and left (AdminActivity.java:75-76, 118-120, 127-128).
ShownIsCurrent ==
    ~crowded /\ (On("admin") \/ On("create")) => Top.owner = currentUser
=============================================================================
