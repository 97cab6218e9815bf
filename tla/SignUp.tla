------------------------------- MODULE SignUp -------------------------------
(***************************************************************************)
(* UsersignupActivity: a new voter types an id and has the server check    *)
(* that it is unused, types a password twice, is "verified", agrees, and   *)
(* signs up.  Both requests go to login.php and the main thread waits for  *)
(* their answers without a timeout, so no handler runs meanwhile.  Taps    *)
(* and keys are not refused meanwhile, they queue: the screen gets them    *)
(* after the handler has returned, under the dialog it has opened.         *)
(* Between the check and the sign-up anything may be edited, the screen    *)
(* may be turned, and somebody else may take the id.                       *)
(***************************************************************************)
EXTENDS CredentialForm, Naturals, Sequences

CONSTANTS
    None,       \* no request, answer, account owner
    MaxDialogs  \* bound: dialogs about ids on top of each other

ASSUME DialogsAssumption == MaxDialogs \in Nat

VARIABLES
    visit,            \* what became of the screen
    form,             \* fields and flags of the credentials
    check_name, check_number, check_userverify,
    agreed,           \* the switch, which enables the finish button
    dialogs,          \* the open dialogs about ids, the top one last: none can be cancelled
    id_check_status,  \* the last answer to a check
    request,          \* the request the main thread waits for
    accounts,         \* the server: whose account an id is
    lost,             \* a sign-up answer was lost (history)
    freed,            \* the ids called unused since the screen was made (history)
    slipped           \* a dialog about another id than the screen's was confirmed (history)

signUpVars == << visit, form, check_name, check_number, check_userverify, agreed,
                 dialogs, id_check_status, request, accounts, lost, freed, slipped >>

Ids      == {Lower[t] : t \in Texts}
Visits   == {"closed", "open", "ok", "canceled", "left", "crashed"}
Dialogs  == [id : Texts, free : BOOLEAN]
Requests == [mode : {"check", "signup"}, id : Texts, pw : Passwords]

ASSUME NoneAssumption ==
    None \notin Requests \cup {"me", "other", "fail", "success"}

SignUpTypeOK ==
    /\ visit \in Visits
    /\ form \in Forms
    /\ check_name \in BOOLEAN /\ check_number \in BOOLEAN /\ check_userverify \in BOOLEAN
    /\ agreed \in BOOLEAN
    /\ dialogs \in Seq(Dialogs)
    /\ id_check_status \in {"fail", "success", None}
    /\ request \in Requests \cup {None}
    /\ accounts \in [Texts -> {"me", "other", None}]
    /\ lost \in BOOLEAN /\ slipped \in BOOLEAN
    /\ freed \subseteq Texts

SignUpInit ==
    /\ visit = "closed"
    /\ form = EmptyForm
    /\ check_name = FALSE /\ check_number = FALSE /\ check_userverify = FALSE
    /\ agreed = FALSE /\ dialogs = <<>> /\ id_check_status = None
    /\ freed = {} /\ slipped = FALSE
    /\ request = None
    /\ accounts = [t \in Texts |-> None]
    /\ lost = FALSE

\* MainActivity opens the screen, again after an earlier visit if need be.
OpenSignUp ==
    /\ visit # "open"
    /\ visit' = "open"
    /\ form' = EmptyForm
    /\ check_name' = FALSE /\ check_number' = FALSE /\ check_userverify' = FALSE
    /\ agreed' = FALSE /\ dialogs' = <<>> /\ id_check_status' = None
    /\ freed' = {} /\ slipped' = FALSE
    /\ UNCHANGED <<request, accounts, lost>>

-----------------------------------------------------------------------------
(* Handlers.  None runs while the main thread waits for an answer.  What     *)
(* reaches the screen under a dialog was tapped or typed during that wait.   *)

Touchable == visit = "open" /\ request = None

Type ==
    /\ Touchable
    /\ \/ \E t \in Texts : form' = WithId(form, t)
       \/ \E p \in Passwords : form' = WithPw(form, p)
       \/ form.pw2Enabled /\ \E p \in Passwords : form' = WithPw2(form, p)
    /\ UNCHANGED << visit, check_name, check_number, check_userverify, agreed, dialogs,
                    id_check_status, request, accounts, lost, freed, slipped >>

\* The watchers of name and number compare the text with null, which no text
\* is: emptying the field again leaves the flag set.
TypeName ==
    /\ Touchable
    /\ \/ check_name' = TRUE /\ check_number' = check_number
       \/ check_number' = TRUE /\ check_name' = check_name
    /\ UNCHANGED << visit, form, check_userverify, agreed, dialogs, id_check_status,
                    request, accounts, lost, freed, slipped >>

Verify ==
    /\ Touchable
    /\ check_userverify' = (check_name /\ check_number)
    /\ UNCHANGED << visit, form, check_name, check_number, agreed, dialogs,
                    id_check_status, request, accounts, lost, freed, slipped >>

ToggleAgree ==
    /\ Touchable
    /\ agreed' = ~agreed
    /\ UNCHANGED << visit, form, check_name, check_number, check_userverify, dialogs,
                    id_check_status, request, accounts, lost, freed, slipped >>

\* The handler up to connect(), whose request is waited for.
CheckId ==
    /\ Touchable /\ Len(dialogs) < MaxDialogs
    /\ form' = [form EXCEPT !.userid = Lower[form.id]]
    /\ request' = [mode |-> "check", id |-> Lower[form.id], pw |-> Blank]
    /\ UNCHANGED << visit, check_name, check_number, check_userverify, agreed, dialogs,
                    id_check_status, accounts, lost, freed, slipped >>

\* "fail" is the server's word for an id nobody has.  The handler goes on to show
\* one of two dialogs; the filter of the field has let nothing else pass.
CheckAnswered ==
    /\ request # None /\ request.mode = "check"
    /\ id_check_status' = IF accounts[request.id] = None THEN "fail" ELSE "success"
    /\ dialogs' = Append(dialogs, [id |-> request.id, free |-> accounts[request.id] = None])
    /\ freed' = IF accounts[request.id] = None THEN freed \cup {request.id} ELSE freed
    /\ request' = None
    /\ UNCHANGED << visit, form, check_name, check_number, check_userverify, agreed,
                    accounts, lost, slipped >>

\* Without an answer id_check_status is null, and the handler calls a method of it.
CheckLost ==
    /\ request # None /\ request.mode = "check"
    /\ visit' = "crashed"
    /\ id_check_status' = None
    /\ request' = None
    /\ UNCHANGED << form, check_name, check_number, check_userverify, agreed, dialogs,
                    accounts, lost, freed, slipped >>

\* The flag is set whatever the field holds by now.
ConfirmDialog ==
    LET top == dialogs[Len(dialogs)] IN
    /\ Touchable /\ dialogs # <<>>
    /\ form' = [form EXCEPT !.check_id = top.free]
    /\ slipped' = (slipped \/ (top.free /\ ~(top.id = Lower[form.id] /\ top.id = form.userid)))
    /\ dialogs' = SubSeq(dialogs, 1, Len(dialogs) - 1)
    /\ UNCHANGED << visit, check_name, check_number, check_userverify, agreed,
                    id_check_status, request, accounts, lost, freed >>

\* The finish button and SignUp(): with a flag missing there is only a toast.
Finish ==
    /\ Touchable /\ agreed
    /\ form.check_id /\ form.check_pw /\ check_userverify
    /\ form.pw = form.pw2
    /\ request' = [mode |-> "signup", id |-> Lower[form.id], pw |-> form.pw]
    /\ UNCHANGED << visit, form, check_name, check_number, check_userverify, agreed,
                    dialogs, id_check_status, accounts, lost, freed, slipped >>

\* Mutant: the screen reports success whatever the server answers.
SignUpAnsweredUnread ==
    /\ request # None /\ request.mode = "signup"
    /\ visit' = "ok"
    /\ accounts' = [accounts EXCEPT ![request.id] = IF @ = None THEN "me" ELSE @]
    /\ request' = None
    /\ UNCHANGED << form, check_name, check_number, check_userverify, agreed, dialogs,
                    id_check_status, lost, freed, slipped >>

\* The server makes the account, unless the id has been taken.
SignUpAnswered ==
    /\ request # None /\ request.mode = "signup"
    /\ visit' = IF accounts[request.id] = None THEN "ok" ELSE "canceled"
    /\ accounts' = [accounts EXCEPT ![request.id] = IF @ = None THEN "me" ELSE @]
    /\ request' = None
    /\ UNCHANGED << form, check_name, check_number, check_userverify, agreed, dialogs,
                    id_check_status, lost, freed, slipped >>

\* A null result: the exception is swallowed and the screen stays as it was.  The
\* request may have arrived.
SignUpLost ==
    /\ request # None /\ request.mode = "signup"
    /\ \/ accounts' = accounts
       \/ accounts' = [accounts EXCEPT ![request.id] = IF @ = None THEN "me" ELSE @]
    /\ lost' = TRUE
    /\ request' = None
    /\ UNCHANGED << visit, form, check_name, check_number, check_userverify, agreed,
                    dialogs, id_check_status, freed, slipped >>

-----------------------------------------------------------------------------

OtherSignsUp(id) ==
    /\ accounts[id] = None
    /\ accounts' = [accounts EXCEPT ![id] = "other"]
    /\ UNCHANGED << visit, form, check_name, check_number, check_userverify, agreed,
                    dialogs, id_check_status, request, lost, freed, slipped >>

\* The phone is turned: a dialog is lost with the old activity, the switch and the
\* texts are put back, and the watchers of name and number run with any text.
Turn ==
    /\ visit = "open" /\ request = None
    /\ form' = Recreated(form)
    /\ check_name' = TRUE /\ check_number' = TRUE /\ check_userverify' = FALSE
    /\ dialogs' = <<>> /\ id_check_status' = None
    /\ freed' = {} /\ slipped' = FALSE
    /\ UNCHANGED <<visit, agreed, request, accounts, lost>>

SignUpBack ==
    /\ Touchable
    /\ visit' = "left"
    /\ UNCHANGED << form, check_name, check_number, check_userverify, agreed, dialogs,
                    id_check_status, request, accounts, lost, freed, slipped >>

SignUpNext ==
    \/ OpenSignUp
    \/ Type
    \/ TypeName
    \/ Verify
    \/ ToggleAgree
    \/ CheckId
    \/ CheckAnswered
    \/ CheckLost
    \/ ConfirmDialog
    \/ Finish
    \/ SignUpAnswered
    \/ SignUpLost
    \/ \E id \in Ids : OtherSignsUp(id)
    \/ Turn
    \/ SignUpBack

SignUpSpec == SignUpInit /\ [][SignUpNext]_signUpVars

-----------------------------------------------------------------------------
(* Properties *)

\* A sign-up request that is out carries an id that the server has called unused
\* since the screen was made, twice the same password, and a verified voter's
\* consent, over all edits, checks, dialogs and turns and whatever was tapped and
\* typed while the main thread waited, with one exception: a dialog was confirmed
\* that is about another id than the field's, or than the one last asked for, and
\* no watcher notices (UsersignupActivity.java:115-123, 187-220, 318-322).
SubmittedWasChecked ==
    request # None /\ request.mode = "signup" =>
        /\ ~slipped => request.id \in freed
        /\ request.pw = form.pw2
        /\ check_name /\ check_number /\ agreed

\* The result given to MainActivity is true: "ok" only with an account of this
\* voter, and "canceled" without a lost answer before only when the id is taken: by
\* another voter since the check, if no dialog about another id was confirmed
\* (UsersignupActivity.java:335-347).
ResultIsTrue ==
    /\ visit = "ok" => accounts[Lower[form.id]] = "me"
    /\ visit = "canceled" /\ ~lost =>
          /\ accounts[Lower[form.id]] # None
          /\ ~slipped => accounts[Lower[form.id]] = "other"
=============================================================================
