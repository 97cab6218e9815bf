------------------------------ MODULE AppProofs -----------------------------
(***************************************************************************)
(* Proofs about the screens that keep a form or a list (the voter's sign-  *)
(* up, the list of ongoing votes, the form of a new vote), the encryption  *)
(* arithmetic and the app. The parts share no state, so each has its own   *)
(* inductive invariant; at the end, the types of all parts are put together.*)
(***************************************************************************)
EXTENDS App, AdminSessionProofs, WellFoundedInduction

-----------------------------------------------------------------------------
(***************************************************************************)
(* The voter's sign-up, for any texts, passwords and other voters          *)
(***************************************************************************)

(* The invariant *)

\* A request is for the id in the field, and a check for the one kept too.
AskedFor ==
    request # None =>
        /\ visit = "open"
        /\ request.id = Lower[form.id]
        /\ request.mode = "check" => request.id = form.userid

\* A dialog that calls an id unused repeats the server.
Shown == \A k \in DOMAIN dialogs : dialogs[k].free => dialogs[k].id \in freed

\* While no dialog slipped, the flag stands for the id in the field.
Flagged ==
    form.check_id /\ ~slipped => Lower[form.id] \in freed /\ Lower[form.id] = form.userid

Verified == check_userverify => check_name /\ check_number

\* An id that was called unused is nobody's but perhaps another's, as this voter
\* has not signed up since.
Unclaimed == ~lost /\ visit = "open" => \A id \in freed : accounts[id] # "me"

SignUpInv ==
    /\ SignUpTypeOK
    /\ AskedFor /\ Shown /\ Flagged /\ Verified /\ Unclaimed
    /\ SubmittedWasChecked /\ ResultIsTrue

LEMMA NoDialogs == <<>> \in Seq(Dialogs) /\ DOMAIN <<>> = {}
OBVIOUS

LEMMA InitSignUpInv == SignUpInit => SignUpInv
<1> SUFFICES ASSUME SignUpInit PROVE SignUpInv
  OBVIOUS
<1>1. SignUpTypeOK
  BY EmptyFacts, NoDialogs DEF SignUpInit, SignUpTypeOK, Visits
<1> QED
  BY <1>1, EmptyFacts, NoDialogs DEF SignUpInit, SignUpInv, AskedFor, Shown, Flagged, Verified,
     Unclaimed, SubmittedWasChecked, ResultIsTrue

\* The top dialog is one, and the others stay when it is confirmed.
LEMMA TopDialog ==
  ASSUME NEW S, NEW s \in Seq(S), s # <<>>
  PROVE  /\ s[Len(s)] \in S /\ Len(s) \in DOMAIN s
         /\ SubSeq(s, 1, Len(s) - 1) \in Seq(S)
         /\ \A k \in DOMAIN SubSeq(s, 1, Len(s) - 1) :
                k \in DOMAIN s /\ SubSeq(s, 1, Len(s) - 1)[k] = s[k]
<1>1. Len(s) \in Nat \ {0} /\ DOMAIN s = 1 .. Len(s)
  OBVIOUS
<1>2. Len(s) \in 1 .. Len(s) /\ s[Len(s)] \in S
  BY <1>1
<1>3. SubSeq(s, 1, Len(s) - 1) \in Seq(S) /\ Len(SubSeq(s, 1, Len(s) - 1)) = Len(s) - 1
  BY <1>1
<1>4. \A k \in 1 .. Len(s) - 1 : k \in 1 .. Len(s) /\ SubSeq(s, 1, Len(s) - 1)[k] = s[k]
  BY <1>1
<1> QED
  BY <1>1, <1>2, <1>3, <1>4

LEMMA SignUpTypeStep == SignUpTypeOK /\ [SignUpNext]_signUpVars => SignUpTypeOK'
<1> SUFFICES ASSUME SignUpTypeOK, [SignUpNext]_signUpVars PROVE SignUpTypeOK'
  OBVIOUS
<1> USE DEF SignUpTypeOK, Visits
<1>0. \A t \in Texts : Lower[t] \in Texts
  BY LowerAssumption
<1>1. CASE OpenSignUp
  BY <1>1, EmptyFacts, NoDialogs DEF OpenSignUp
<1>2. CASE Type
  BY <1>2, FormTypes DEF Type
<1>3. CASE TypeName
  BY <1>3 DEF TypeName
<1>4. CASE Verify
  BY <1>4 DEF Verify
<1>5. CASE ToggleAgree
  BY <1>5 DEF ToggleAgree
<1>6. CASE CheckId
  <2>1. Lower[form.id] \in Texts
    BY <1>0 DEF Forms
  <2>2. form' \in Forms
    BY <1>6, <2>1 DEF CheckId, Forms
  <2>3. request' \in Requests
    BY <1>6, <2>1, FieldsAssumption DEF CheckId, Requests
  <2> QED
    BY <1>6, <2>2, <2>3 DEF CheckId
<1>7. CASE CheckAnswered
  <2>1. request.id \in Texts
    BY <1>7 DEF CheckAnswered, Requests
  <2>2. [id |-> request.id, free |-> accounts[request.id] = None] \in Dialogs
    BY <2>1 DEF Dialogs
  <2>3. PICK d \in Dialogs : dialogs' = Append(dialogs, d)
    BY <1>7, <2>2 DEF CheckAnswered
  <2>4. dialogs' \in Seq(Dialogs)
    BY <2>3
  <2> QED
    BY <1>7, <2>1, <2>4 DEF CheckAnswered
<1>8. CASE CheckLost
  BY <1>8 DEF CheckLost
<1>9. CASE ConfirmDialog
  <2>1. dialogs[Len(dialogs)] \in Dialogs /\ SubSeq(dialogs, 1, Len(dialogs) - 1) \in Seq(Dialogs)
    BY <1>9, TopDialog DEF ConfirmDialog
  <2>2. dialogs[Len(dialogs)].free \in BOOLEAN
    BY <2>1 DEF Dialogs
  <2>3. form' \in Forms
    BY <1>9, <2>2 DEF ConfirmDialog, Forms
  <2>4. slipped' \in BOOLEAN
    BY <1>9 DEF ConfirmDialog
  <2> QED
    BY <1>9, <2>1, <2>3, <2>4 DEF ConfirmDialog
<1>10. CASE Finish
  <2>1. request' \in Requests
    BY <1>0, <1>10 DEF Finish, Requests, Forms
  <2> QED
    BY <1>10, <2>1 DEF Finish
<1>11. CASE SignUpAnswered
  <2>1. accounts' \in [Texts -> {"me", "other", None}]
    BY <1>11 DEF SignUpAnswered
  <2> QED
    BY <1>11, <2>1 DEF SignUpAnswered
<1>12. CASE SignUpLost
  <2>1. accounts' \in [Texts -> {"me", "other", None}]
    BY <1>12 DEF SignUpLost
  <2> QED
    BY <1>12, <2>1 DEF SignUpLost
<1>13. ASSUME NEW id \in Ids, OtherSignsUp(id) PROVE SignUpTypeOK'
  <2>1. accounts' \in [Texts -> {"me", "other", None}]
    BY <1>13 DEF OtherSignsUp
  <2> QED
    BY <1>13, <2>1 DEF OtherSignsUp
<1>14. CASE Turn
  BY <1>14, RecreatedFacts, NoDialogs DEF Turn
<1>15. CASE SignUpBack
  BY <1>15 DEF SignUpBack
<1>16. CASE UNCHANGED signUpVars
  BY <1>16 DEF signUpVars
<1> QED
  BY <1>1, <1>2, <1>3, <1>4, <1>5, <1>6, <1>7, <1>8, <1>9, <1>10, <1>11, <1>12, <1>13,
     <1>14, <1>15, <1>16 DEF SignUpNext

\* No request is None.
LEMMA RequestFacts == \A q \in Requests : q # None /\ q.id \in Texts /\ q.mode \in {"check", "signup"}
BY NoneAssumption DEF Requests

LEMMA SignUpInvStep ==
  SignUpInv /\ [SignUpNext]_signUpVars =>
    AskedFor' /\ Shown' /\ Flagged' /\ Verified' /\ Unclaimed' /\ SubmittedWasChecked' /\ ResultIsTrue'
<1> DEFINE Rest == AskedFor /\ Shown /\ Flagged /\ Verified /\ Unclaimed /\ SubmittedWasChecked /\ ResultIsTrue
<1> SUFFICES ASSUME SignUpInv, [SignUpNext]_signUpVars PROVE Rest'
  OBVIOUS
<1> USE DEF SignUpInv, AskedFor, Shown, Flagged, Verified, Unclaimed, SubmittedWasChecked, ResultIsTrue
<1>0. form \in Forms /\ form.id \in Texts /\ Lower[form.id] \in Texts /\ freed \subseteq Texts
      /\ dialogs \in Seq(Dialogs)
  BY LowerAssumption DEF SignUpTypeOK, Forms
<1>n. None \notin {"me", "other", "fail", "success"}
  BY NoneAssumption
<1>1. CASE OpenSignUp
  BY <1>1, <1>n, EmptyFacts, NoDialogs DEF OpenSignUp
<1>2. CASE Type
  <2>1. /\ form'.userid = form.userid
        /\ form'.check_id => form.check_id
        /\ form'.check_id => Lower[form'.id] = Lower[form.id] \/ Lower[form'.id] = form.userid
    <3>1. ASSUME NEW t \in Texts, form' = WithId(form, t)
          PROVE  form'.userid = form.userid /\ (form'.check_id => form.check_id /\ Lower[form'.id] = form'.userid)
      BY <1>0, <3>1, FieldsAssumption, WatcherFacts
    <3>2. ASSUME NEW p \in Passwords, form' = WithPw(form, p) \/ form' = WithPw2(form, p)
          PROVE  form'.userid = form.userid /\ form'.check_id = form.check_id /\ form'.id = form.id
      BY <1>0, <3>2, WatcherFacts
    <3> QED
      BY <1>2, <3>1, <3>2 DEF Type
  <2> QED
    BY <1>2, <2>1 DEF Type, Touchable
<1>3. CASE TypeName
  BY <1>3 DEF TypeName, Touchable
<1>4. CASE Verify
  BY <1>4 DEF Verify, Touchable
<1>5. CASE ToggleAgree
  BY <1>5 DEF ToggleAgree, Touchable
<1>6. CASE CheckId
  <2>1. /\ form'.userid = Lower[form.id] /\ form'.id = form.id
        /\ form'.check_id = form.check_id
    BY <1>0, <1>6 DEF CheckId, Forms
  <2>2. request'.id = Lower[form.id] /\ request'.mode = "check" /\ request' # None
    BY <1>0, <1>6, FieldsAssumption, RequestFacts DEF CheckId, Requests
  <2> QED
    BY <1>6, <2>1, <2>2 DEF CheckId, Touchable
<1>7. CASE CheckAnswered
  <2>1. request.id \in Texts
    BY <1>7 DEF CheckAnswered, SignUpTypeOK, Requests
  <2> DEFINE new == [id |-> request.id, free |-> accounts[request.id] = None]
  <2>2. new \in Dialogs /\ (new.free => new.id \in freed')
    BY <1>7, <2>1 DEF Dialogs, CheckAnswered
  <2>3. dialogs' = Append(dialogs, new) /\ freed \subseteq freed'
    BY <1>7 DEF CheckAnswered
  <2> HIDE DEF new
  <2>4. \A k \in DOMAIN dialogs' : dialogs'[k] = new \/ (k \in DOMAIN dialogs /\ dialogs'[k] = dialogs[k])
    BY <1>0, <2>2, <2>3
  <2>5. Shown'
    BY <2>2, <2>3, <2>4
  <2>6. \A id \in freed' : id \in freed \/ accounts[id] = None
    BY <1>7 DEF CheckAnswered
  <2>7. Unclaimed'
    BY <1>7, <1>n, <2>6 DEF CheckAnswered
  <2>8. Flagged'
    BY <1>7, <2>3 DEF CheckAnswered
  <2> QED
    BY <1>7, <2>5, <2>7, <2>8 DEF CheckAnswered
<1>8. CASE CheckLost
  BY <1>8, <1>n DEF CheckLost
<1>9. CASE ConfirmDialog
  <2> DEFINE top == dialogs[Len(dialogs)]
  <2>1. top \in Dialogs /\ Len(dialogs) \in DOMAIN dialogs
        /\ \A k \in DOMAIN SubSeq(dialogs, 1, Len(dialogs) - 1) :
               k \in DOMAIN dialogs /\ SubSeq(dialogs, 1, Len(dialogs) - 1)[k] = dialogs[k]
    BY <1>0, <1>9, TopDialog DEF ConfirmDialog
  <2>2. top.free => top.id \in freed
    BY <2>1
  <2>3. /\ form'.check_id = top.free
        /\ form'.id = form.id /\ form'.userid = form.userid
        /\ form'.pw = form.pw /\ form'.pw2 = form.pw2
    BY <1>0, <1>9 DEF ConfirmDialog, Forms
  <2>4. slipped' = (slipped \/ (top.free /\ ~(top.id = Lower[form.id] /\ top.id = form.userid)))
    BY <1>9 DEF ConfirmDialog
  <2>5. dialogs' = SubSeq(dialogs, 1, Len(dialogs) - 1) /\ freed' = freed
    BY <1>9 DEF ConfirmDialog
  <2> HIDE DEF top
  <2>6. Shown'
    BY <1>9, <2>1, <2>5 DEF ConfirmDialog
  <2>7. Flagged'
    <3>1. form'.check_id /\ ~slipped' => top.id \in freed /\ top.id = Lower[form.id] /\ top.id = form.userid
      BY <2>2, <2>3, <2>4
    <3> QED
      BY <2>3, <2>5, <3>1
  <2> QED
    BY <1>9, <2>6, <2>7 DEF ConfirmDialog, Touchable
<1>10. CASE Finish
  <2>1. /\ request'.id = Lower[form.id] /\ request'.mode = "signup"
        /\ request'.pw = form.pw /\ request' # None
    BY <1>0, <1>10, RequestFacts DEF Finish, Requests, Forms
  <2> QED
    BY <1>10, <2>1 DEF Finish, Touchable
<1>11. CASE SignUpAnswered
  <2>1. request.id = Lower[form.id] /\ accounts \in [Texts -> {"me", "other", None}]
        /\ visit = "open"
    BY <1>11 DEF SignUpAnswered, SignUpTypeOK
  <2>2. ~lost /\ ~slipped => accounts[Lower[form.id]] # "me"
    BY <1>0, <1>11, <2>1 DEF SignUpAnswered
  <2>3. CASE accounts[request.id] = None
    BY <1>0, <1>11, <2>1, <2>3 DEF SignUpAnswered
  <2>4. CASE accounts[request.id] # None
    BY <1>0, <1>11, <2>1, <2>2, <2>4 DEF SignUpAnswered
  <2> QED
    BY <2>3, <2>4
<1>12. CASE SignUpLost
  BY <1>12 DEF SignUpLost
<1>13. ASSUME NEW id \in Ids, OtherSignsUp(id) PROVE Rest'
  <2>1. accounts \in [Texts -> {"me", "other", None}] /\ accounts[id] = None
    BY <1>13 DEF OtherSignsUp, SignUpTypeOK
  <2>2. accounts' = [accounts EXCEPT ![id] = "other"]
    BY <1>13 DEF OtherSignsUp
  <2>3. \A t \in Texts :
            /\ accounts'[t] = "me" <=> accounts[t] = "me"
            /\ accounts[t] = "other" => accounts'[t] = "other"
            /\ accounts[t] # None => accounts'[t] # None
    BY <1>n, <2>1, <2>2, NoneAssumption
  <2> QED
    BY <1>0, <1>13, <2>3 DEF OtherSignsUp
<1>14. CASE Turn
  BY <1>0, <1>n, <1>14, RecreatedFacts, NoDialogs DEF Turn
<1>15. CASE SignUpBack
  BY <1>15 DEF SignUpBack, Touchable
<1>16. CASE UNCHANGED signUpVars
  BY <1>16 DEF signUpVars
<1> QED
  BY <1>1, <1>2, <1>3, <1>4, <1>5, <1>6, <1>7, <1>8, <1>9, <1>10, <1>11, <1>12, <1>13,
     <1>14, <1>15, <1>16 DEF SignUpNext

LEMMA SignUpInvHolds == SignUpSpec => []SignUpInv
<1>1. SignUpInv /\ [SignUpNext]_signUpVars => SignUpInv'
  BY SignUpTypeStep, SignUpInvStep DEF SignUpInv
<1> QED
  BY InitSignUpInv, <1>1, PTL DEF SignUpSpec

-----------------------------------------------------------------------------
(* Theorems *)

\* Form, flags, dialogs, requests and accounts are of their kinds.
THEOREM SignUpTypeCorrect == SignUpSpec => []SignUpTypeOK
BY SignUpInvHolds, PTL DEF SignUpInv

\* Only a checked id with twice the same password is ever sent for sign-up, however
\* taps and keys that queued during a check meet its dialogs, unless one slipped.
THEOREM SubmittedWasCheckedHolds == SignUpSpec => []SubmittedWasChecked
BY SignUpInvHolds, PTL DEF SignUpInv

\* The screen reports what the server has done, unless an answer was lost before.
THEOREM ResultIsTrueHolds == SignUpSpec => []ResultIsTrue
BY SignUpInvHolds, PTL DEF SignUpInv

-----------------------------------------------------------------------------
(***************************************************************************)
(* The list of ongoing votes, for any votes, answers and number of loads   *)
(***************************************************************************)

LEMMA EmptyList == <<>> \in Seq(OngoingVotes) /\ <<>> \in Seq(Loads)
OBVIOUS

\* What was taken from the server is a list of votes, each at most once.
LEMMA PrefixFacts ==
  ASSUME NEW a \in Answers, NEW n \in 0 .. Len(a)
  PROVE  /\ Prefix(a, n) \in Seq(OngoingVotes)
         /\ Len(Prefix(a, n)) = n
         /\ n = 0 => Prefix(a, n) = <<>>
         /\ \A row, k \in DOMAIN Prefix(a, n) : Prefix(a, n)[row] = Prefix(a, n)[k] => row = k
         /\ \A k \in 1 .. n : a[k] \in OngoingVotes
<1>1. a \in Seq(OngoingVotes) /\ \A row, k \in DOMAIN a : a[row] = a[k] => row = k
  BY AnswersAssumption
<1>2. \A k \in 1 .. n : k \in DOMAIN a /\ a[k] \in OngoingVotes
  BY <1>1
<1>3. Prefix(a, n) \in Seq(OngoingVotes) /\ Len(Prefix(a, n)) = n
  BY <1>2 DEF Prefix
<1>4. DOMAIN Prefix(a, n) = 1 .. n /\ \A k \in 1 .. n : Prefix(a, n)[k] = a[k]
  BY DEF Prefix
<1>5. n = 0 => Prefix(a, n) = <<>>
  BY <1>3
<1> QED
  BY <1>1, <1>2, <1>3, <1>4, <1>5

-----------------------------------------------------------------------------
(* The invariant *)

\* Without a notification waiting, the list is what is shown, or was cleared.
ShownOrCleared == ~notified => votelist \in {rows, <<>>}

\* A list that is gone has no loads of its own.
GoneLoads ==
    listScreen \in {"gone", "threw", "pushed"} => \A k \in DOMAIN loads : ~loads[k].mine

\* Without overlap one load at most is this list's, and it fills an empty list.
OneFills ==
    ~overlapped =>
        /\ \A k, m \in DOMAIN loads : loads[k].mine /\ loads[m].mine => k = m
        /\ (\E k \in DOMAIN loads : loads[k].mine) => votelist = <<>>

ListInv ==
    /\ ListTypeOK /\ ShownOrCleared /\ GoneLoads /\ OneFills
    /\ OpenedWasShown /\ OnceUnlessOverlapped

LEMMA InitListInv == ListInit => ListInv
<1> SUFFICES ASSUME ListInit PROVE ListInv
  OBVIOUS
<1>1. ListTypeOK
  BY EmptyList DEF ListInit, ListTypeOK
<1>2. ShownOrCleared /\ OpenedWasShown
  BY DEF ListInit, ShownOrCleared, OpenedWasShown
<1>3. GoneLoads /\ OneFills /\ OnceUnlessOverlapped
  <2>1. DOMAIN loads = {} /\ DOMAIN votelist = {}
    BY DEF ListInit
  <2> QED
    BY <2>1 DEF GoneLoads, OneFills, OnceUnlessOverlapped
<1> QED
  BY <1>1, <1>2, <1>3 DEF ListInv

LEMMA ListTypeStep == ListTypeOK /\ [ListNext]_listVars => ListTypeOK'
<1> SUFFICES ASSUME ListTypeOK, [ListNext]_listVars PROVE ListTypeOK'
  OBVIOUS
<1> USE DEF ListTypeOK
<1>1. [mine |-> TRUE, dialog |-> TRUE] \in Loads
  BY DEF Loads
<1>2. CASE OpenList
  <2>1. Append(loads, [mine |-> TRUE, dialog |-> TRUE]) \in Seq(Loads)
    BY <1>1
  <2> QED
    BY <1>2, <2>1, EmptyList DEF OpenList
<1>3. CASE Renew
  BY <1>1, <1>3, EmptyList DEF Renew, OnStart
<1>4. CASE Leave
  BY <1>4 DEF Leave
<1>5. CASE Return
  BY <1>1, <1>5, EmptyList DEF Return, OnStart
<1>6. CASE ListBack
  <2>1. [k \in DOMAIN loads |-> [mine |-> FALSE, dialog |-> FALSE]] \in Seq(Loads)
    <3>1. [mine |-> FALSE, dialog |-> FALSE] \in Loads
      BY DEF Loads
    <3>2. DOMAIN loads = 1 .. Len(loads) /\ Len(loads) \in Nat
      OBVIOUS
    <3> QED
      BY <3>1, <3>2
  <2> QED
    BY <1>6, <2>1, EmptyList DEF ListBack
<1>7. CASE CancelDialog
  <2>1. PICK k \in DOMAIN loads : loads' = [loads EXCEPT ![k].dialog = FALSE]
    BY <1>7 DEF CancelDialog
  <2>2. [loads[k] EXCEPT !.dialog = FALSE] \in Loads
    <3>1. loads[k] \in Loads
      OBVIOUS
    <3> QED
      BY <3>1 DEF Loads
  <2>3. [loads EXCEPT ![k] = [loads[k] EXCEPT !.dialog = FALSE]] \in Seq(Loads)
    BY <2>2
  <2>4. loads' \in Seq(Loads)
    BY <2>1, <2>3
  <2> QED
    BY <1>7, <2>4 DEF CancelDialog
<1>8. ASSUME NEW answer \in Answers, NEW n \in 0 .. Len(answer), LoadDone(answer, n)
      PROVE  ListTypeOK'
  <2>1. loads' \in Seq(Loads)
    BY <1>8 DEF LoadDone
  <2>2. votelist' \in Seq(OngoingVotes) /\ notified' \in BOOLEAN
    <3>1. Prefix(answer, n) \in Seq(OngoingVotes)
      BY PrefixFacts
    <3>2. votelist \o Prefix(answer, n) \in Seq(OngoingVotes) /\ (n > 0) \in BOOLEAN
      BY <3>1
    <3>3. CASE Head(loads).mine
      BY <1>8, <3>2, <3>3 DEF LoadDone
    <3>4. CASE ~Head(loads).mine
      BY <1>8, <3>4 DEF LoadDone
    <3> QED
      BY <3>3, <3>4
  <2>3. votelistTable' \subseteq [vote : OngoingVotes, full : BOOLEAN]
    <3>1. \A k \in 1 .. n : answer[k] \in OngoingVotes
      BY PrefixFacts
    <3>2. \A k \in 1 .. n : [vote |-> answer[k], full |-> TRUE] \in [vote : OngoingVotes, full : BOOLEAN]
      BY <3>1
    <3> QED
      BY <1>8, <3>2 DEF LoadDone
  <2> QED
    BY <1>8, <2>1, <2>2, <2>3 DEF LoadDone
<1>9. CASE Layout
  BY <1>9 DEF Layout
<1>10. ASSUME NEW row \in DOMAIN rows, TapOpens(row) PROVE ListTypeOK'
  <2>1. rows[row] \in OngoingVotes /\ votelist[row] \in OngoingVotes
    BY <1>10 DEF TapOpens
  <2> QED
    BY <1>10, <2>1 DEF TapOpens
<1>11. ASSUME NEW row \in DOMAIN rows, TapThrows(row) PROVE ListTypeOK'
  BY <1>11, EmptyList DEF TapThrows, ProcessDies
<1>12. ASSUME NEW v \in OngoingVotes, NEW notification \in BOOLEAN, Push(v, notification)
       PROVE  ListTypeOK'
  <2>1. [vote |-> v, full |-> FALSE] \in [vote : OngoingVotes, full : BOOLEAN]
    OBVIOUS
  <2>2. CASE notification
    BY <1>12, <2>1, <2>2 DEF Push
  <2>3. CASE ~notification
    BY <1>12, <2>3, EmptyList DEF Push, ProcessDies
  <2> QED
    BY <2>2, <2>3
<1>13. CASE UNCHANGED listVars
  BY <1>13 DEF listVars
<1> QED
  BY <1>2, <1>3, <1>4, <1>5, <1>6, <1>7, <1>8, <1>9, <1>10, <1>11, <1>12, <1>13 DEF ListNext

LEMMA ShownStep == ListInv /\ [ListNext]_listVars => ShownOrCleared' /\ OpenedWasShown'
<1> SUFFICES ASSUME ListInv, [ListNext]_listVars PROVE ShownOrCleared' /\ OpenedWasShown'
  OBVIOUS
<1> USE DEF ListInv, ListTypeOK, ShownOrCleared, OpenedWasShown
<1>1. CASE OpenList
  BY <1>1 DEF OpenList
<1>2. CASE Renew
  BY <1>2 DEF Renew, OnStart
<1>3. CASE Leave
  BY <1>3 DEF Leave
<1>4. CASE Return
  BY <1>4 DEF Return, OnStart
<1>5. CASE ListBack
  BY <1>5 DEF ListBack
<1>6. CASE CancelDialog
  BY <1>6 DEF CancelDialog
<1>7. ASSUME NEW answer \in Answers, NEW n \in 0 .. Len(answer), LoadDone(answer, n)
      PROVE  ShownOrCleared' /\ OpenedWasShown'
  \* Appending nothing leaves the list; anything else notifies.
  <2>1. n = 0 => votelist \o Prefix(answer, n) = votelist
    <3>1. n = 0 => Prefix(answer, n) = <<>>
      BY PrefixFacts
    <3> QED
      BY <3>1
  <2>2. CASE Head(loads).mine
    <3>1. votelist' = votelist \o Prefix(answer, n) /\ notified' = (notified \/ n > 0)
      BY <1>7, <2>2 DEF LoadDone
    <3>2. rows' = rows /\ opened' = opened
      BY <1>7 DEF LoadDone
    <3>3. n \in Nat
      BY AnswersAssumption
    <3>4. n = 0 => votelist' = votelist /\ notified' = notified
      BY <2>1, <3>1
    <3>5. n # 0 => notified'
      <4>1. n # 0 => n > 0
        BY <3>3
      <4> QED
        BY <3>1, <4>1, Zenon
    <3> QED
      BY <3>2, <3>4, <3>5
  <2>3. CASE ~Head(loads).mine
    BY <1>7, <2>3 DEF LoadDone
  <2> QED
    BY <2>2, <2>3
<1>8. CASE Layout
  BY <1>8 DEF Layout
<1>9. ASSUME NEW row \in DOMAIN rows, TapOpens(row) PROVE ShownOrCleared' /\ OpenedWasShown'
  \* The list has such a row, so it was not cleared: it is what is shown.
  <2>1. votelist = rows
    BY <1>9 DEF TapOpens
  <2> QED
    BY <1>9, <2>1 DEF TapOpens
<1>10. ASSUME NEW row \in DOMAIN rows, TapThrows(row) PROVE ShownOrCleared' /\ OpenedWasShown'
  BY <1>10 DEF TapThrows, ProcessDies
<1>11. ASSUME NEW v \in OngoingVotes, NEW notification \in BOOLEAN, Push(v, notification)
       PROVE  ShownOrCleared' /\ OpenedWasShown'
  BY <1>11 DEF Push, ProcessDies
<1>12. CASE UNCHANGED listVars
  BY <1>12 DEF listVars
<1> QED
  BY <1>1, <1>2, <1>3, <1>4, <1>5, <1>6, <1>7, <1>8, <1>9, <1>10, <1>11, <1>12 DEF ListNext

-----------------------------------------------------------------------------
(* One load at a time fills the list once *)

\* Queueing a load of this list behind others of which none is.
LEMMA OnlyMine ==
  ASSUME ListTypeOK, \A k \in DOMAIN loads : ~loads[k].mine,
         loads' = Append(loads, [mine |-> TRUE, dialog |-> TRUE])
  PROVE  \A k, m \in DOMAIN loads' : loads'[k].mine /\ loads'[m].mine => k = m
<1>1. DOMAIN loads = 1 .. Len(loads) /\ Len(loads) \in Nat
  BY DEF ListTypeOK
<1>2. /\ DOMAIN loads' = 1 .. Len(loads) + 1
      /\ \A k \in 1 .. Len(loads) : loads'[k] = loads[k]
  BY DEF ListTypeOK
<1> QED
  BY <1>1, <1>2

\* onStart queues this list's only load, or the loads overlap.
LEMMA StartFills ==
  ASSUME ListInv, OnStart
  PROVE  OneFills' /\ OnceUnlessOverlapped'
<1>1. votelist' = <<>>
  BY DEF OnStart
<1>2. ASSUME ~overlapped'
      PROVE  \A k, m \in DOMAIN loads' : loads'[k].mine /\ loads'[m].mine => k = m
  <2>1. \A k \in DOMAIN loads : ~loads[k].mine
    BY <1>2 DEF OnStart
  <2> QED
    BY <2>1, OnlyMine DEF OnStart, ListInv
<1> QED
  BY <1>1, <1>2 DEF OneFills, OnceUnlessOverlapped

\* A process that is gone, and a list that is left, have neither list nor loads.
LEMMA EmptyFills ==
  ASSUME votelist' = <<>>, \A k \in DOMAIN loads' : ~loads'[k].mine
  PROVE  GoneLoads' /\ OneFills' /\ OnceUnlessOverlapped'
BY DEF GoneLoads, OneFills, OnceUnlessOverlapped

LEMMA FillStep == ListInv /\ [ListNext]_listVars => GoneLoads' /\ OneFills' /\ OnceUnlessOverlapped'
<1> SUFFICES ASSUME ListInv, [ListNext]_listVars
             PROVE  GoneLoads' /\ OneFills' /\ OnceUnlessOverlapped'
  OBVIOUS
<1>1. CASE OpenList
  <2>1. \A k \in DOMAIN loads : ~loads[k].mine
    BY <1>1 DEF OpenList, ListInv, GoneLoads
  <2>2. \A k, m \in DOMAIN loads' : loads'[k].mine /\ loads'[m].mine => k = m
    BY <1>1, <2>1, OnlyMine DEF OpenList, ListInv
  <2> QED
    BY <1>1, <2>2 DEF OpenList, GoneLoads, OneFills, OnceUnlessOverlapped
<1>2. CASE Renew
  BY <1>2, StartFills DEF Renew, Reachable, GoneLoads
<1>3. CASE Leave
  BY <1>3 DEF Leave, ListInv, GoneLoads, OneFills, OnceUnlessOverlapped
<1>4. CASE Return
  BY <1>4, StartFills DEF Return, GoneLoads
<1>5. CASE ListBack
  BY <1>5, EmptyFills DEF ListBack
<1>6. CASE CancelDialog
  <2>1. PICK x \in DOMAIN loads : loads' = [loads EXCEPT ![x].dialog = FALSE]
    BY <1>6 DEF CancelDialog
  <2>2. \A k \in DOMAIN loads : loads[k] \in Loads
    BY DEF ListInv, ListTypeOK
  <2>3. DOMAIN loads' = DOMAIN loads /\ \A k \in DOMAIN loads : loads'[k].mine = loads[k].mine
    BY <2>1, <2>2 DEF Loads
  <2> QED
    BY <1>6, <2>3 DEF CancelDialog, ListInv, GoneLoads, OneFills, OnceUnlessOverlapped
<1>7. ASSUME NEW answer \in Answers, NEW n \in 0 .. Len(answer), LoadDone(answer, n)
      PROVE  GoneLoads' /\ OneFills' /\ OnceUnlessOverlapped'
  <2>1. /\ loads' = Tail(loads) /\ loads # <<>> /\ loads \in Seq(Loads)
        /\ listScreen' = listScreen /\ overlapped' = overlapped
    BY <1>7 DEF LoadDone, ListInv, ListTypeOK
  <2>2. /\ DOMAIN loads = 1 .. Len(loads) /\ Len(loads) \in Nat \ {0}
        /\ DOMAIN loads' = 1 .. Len(loads) - 1
        /\ \A k \in DOMAIN loads' : k + 1 \in DOMAIN loads /\ loads'[k] = loads[k + 1]
    BY <2>1
  <2>3. GoneLoads'
    BY <2>1, <2>2 DEF ListInv, GoneLoads
  <2>4. CASE loads[1].mine
    <3>1. ASSUME ~overlapped PROVE votelist = <<>> /\ \A k \in DOMAIN loads' : ~loads'[k].mine
      <4>1. \A k \in DOMAIN loads : loads[k].mine => k = 1
        BY <2>2, <2>4, <3>1 DEF ListInv, OneFills
      <4>2. \A k \in DOMAIN loads' : k + 1 # 1
        BY <2>2
      <4> QED
        BY <2>2, <2>4, <3>1, <4>1, <4>2 DEF ListInv, OneFills
    <3>2. ~overlapped => votelist' = Prefix(answer, n)
      <4>1. votelist' = votelist \o Prefix(answer, n)
        BY <1>7, <2>1, <2>4 DEF LoadDone
      <4>2. Prefix(answer, n) \in Seq(OngoingVotes)
        BY PrefixFacts
      <4>3. <<>> \o Prefix(answer, n) = Prefix(answer, n)
        BY <4>2
      <4> QED
        BY <3>1, <4>1, <4>3
    <3> QED
      BY <2>1, <2>3, <3>1, <3>2, PrefixFacts DEF OneFills, OnceUnlessOverlapped
  <2>5. CASE ~loads[1].mine
    <3>1. votelist' = votelist
      BY <1>7, <2>5 DEF LoadDone
    <3>2. OneFills'
      BY <2>1, <2>2, <3>1 DEF ListInv, OneFills
    <3> QED
      BY <2>1, <2>3, <3>1, <3>2 DEF ListInv, OnceUnlessOverlapped
  <2> QED
    BY <2>4, <2>5
<1>8. CASE Layout
  BY <1>8 DEF Layout, ListInv, GoneLoads, OneFills, OnceUnlessOverlapped
<1>9. ASSUME NEW row \in DOMAIN rows, TapOpens(row) PROVE GoneLoads' /\ OneFills' /\ OnceUnlessOverlapped'
  BY <1>9 DEF TapOpens, ListInv, GoneLoads, OneFills, OnceUnlessOverlapped
<1>10. ASSUME NEW row \in DOMAIN rows, TapThrows(row) PROVE GoneLoads' /\ OneFills' /\ OnceUnlessOverlapped'
  BY <1>10, EmptyFills DEF TapThrows, ProcessDies
<1>11. ASSUME NEW v \in OngoingVotes, NEW notification \in BOOLEAN, Push(v, notification)
       PROVE  GoneLoads' /\ OneFills' /\ OnceUnlessOverlapped'
  <2>1. CASE notification
    BY <1>11, <2>1 DEF Push, ListInv, GoneLoads, OneFills, OnceUnlessOverlapped
  <2>2. CASE ~notification
    BY <1>11, <2>2, EmptyFills DEF Push, ProcessDies
  <2> QED
    BY <2>1, <2>2
<1>12. CASE UNCHANGED listVars
  BY <1>12 DEF listVars, ListInv, GoneLoads, OneFills, OnceUnlessOverlapped
<1> QED
  BY <1>1, <1>2, <1>3, <1>4, <1>5, <1>6, <1>7, <1>8, <1>9, <1>10, <1>11, <1>12 DEF ListNext

LEMMA ListInvHolds == ListSpec => []ListInv
<1>1. ListInv /\ [ListNext]_listVars => ListInv'
  BY ListTypeStep, ShownStep, FillStep DEF ListInv
<1> QED
  BY InitListInv, <1>1, PTL DEF ListSpec

-----------------------------------------------------------------------------
(* Theorems *)

\* List, rows, loads and table are of their kinds.
THEOREM ListTypeCorrect == ListSpec => []ListTypeOK
BY ListInvHolds, PTL DEF ListInv

\* A touch never opens another vote than the one shown, however often the list is
\* cleared and filled behind the rows.
THEOREM OpenedWasShownHolds == ListSpec => []OpenedWasShown
BY ListInvHolds, PTL DEF ListInv

\* Loads one at a time, of whatever answers, never put a vote on the list twice.
THEOREM OnceUnlessOverlappedHolds == ListSpec => []OnceUnlessOverlapped
BY ListInvHolds, PTL DEF ListInv

-----------------------------------------------------------------------------
(***************************************************************************)
(* The form of a new vote, for any number of days and candidates           *)
(***************************************************************************)

USE DaysAssumption, NoDateAssumption

\* A flag stands for a date in its field.
FlagsDated == (startdate => startText # NoDate) /\ (enddate => endText # NoDate)

\* Both flags stand for dates in order, unless the start was picked again.
FlagsOrdered == startdate /\ enddate /\ ~startRepicked => startText < endText

\* The counter the form checks counts the list it shows.
Counted == candidatenumber = candidates

\* Nothing changes behind the question.
Confirmed == createScreen = "confirm" => Complete

FormInv ==
    /\ FormTypeOK /\ FlagsDated /\ FlagsOrdered /\ Counted /\ Confirmed
    /\ CreatedIsComplete /\ EndsAfterStart

LEMMA Bounds == 0 \in 0 .. MaxCandidates /\ 1 \in Days /\ \A d \in Days : d \in Nat /\ d # NoDate
BY DEF Days

LEMMA InitFormInv == FormInit => FormInv
<1> SUFFICES ASSUME FormInit PROVE FormInv
  OBVIOUS
<1>1. NoVote \in Created
  BY Bounds DEF NoVote, Created
<1>2. FormTypeOK
  BY <1>1, Bounds DEF FormInit, FormTypeOK
<1>3. CreatedIsComplete /\ EndsAfterStart
  BY DEF FormInit, CreatedIsComplete, EndsAfterStart, NoVote
<1> QED
  BY <1>2, <1>3 DEF FormInit, FormInv, FlagsDated, FlagsOrdered, Counted, Confirmed

LEMMA FormTypeStep == FormTypeOK /\ Counted /\ [FormNext]_formVars => FormTypeOK'
<1> SUFFICES ASSUME FormTypeOK, Counted, [FormNext]_formVars PROVE FormTypeOK'
  OBVIOUS
<1> USE DEF FormTypeOK
<1>1. CASE OpenForm
  BY <1>1, Bounds DEF OpenForm
<1>2. CASE Fill
  BY <1>2 DEF Fill
<1>3. ASSUME NEW d \in Days, PickStart(d) PROVE FormTypeOK'
  BY <1>3 DEF PickStart
<1>4. ASSUME NEW d \in Days, PickEnd(d) PROVE FormTypeOK'
  <2>1. enddate' \in BOOLEAN
    BY <1>4 DEF PickEnd
  <2> QED
    BY <1>4, <2>1 DEF PickEnd
<1>5. CASE PickEndCrash
  BY <1>5 DEF PickEndCrash
<1>6. CASE AddCandidate
  BY <1>6 DEF AddCandidate
<1>7. ASSUME NEW ok \in BOOLEAN, CandidateDone(ok) PROVE FormTypeOK'
  BY <1>7 DEF CandidateDone, Counted
<1>8. CASE FinishForm
  BY <1>8 DEF FinishForm
<1>9. CASE CloseComplaint
  BY <1>9 DEF CloseComplaint
<1>10. CASE ConfirmCreate
  BY <1>10 DEF ConfirmCreate, Created
<1>11. CASE DeclineCreate
  BY <1>11 DEF DeclineCreate
<1>12. CASE CancelForm
  BY <1>12 DEF CancelForm
<1>13. CASE RestartForm
  BY <1>13 DEF RestartForm
<1>14. CASE TurnForm
  BY <1>14, Bounds DEF TurnForm
<1>15. CASE Midnight
  BY <1>15 DEF Midnight, Days
<1>16. CASE UNCHANGED formVars
  BY <1>16 DEF formVars
<1> QED
  BY <1>1, <1>2, <1>3, <1>4, <1>5, <1>6, <1>7, <1>8, <1>9, <1>10, <1>11, <1>12, <1>13,
     <1>14, <1>15, <1>16 DEF FormNext

\* Steps that leave the fields, the flags and the vote created alone.
LEMMA Untouched ==
  ASSUME FormInv,
         UNCHANGED << title, note, startText, endText, startdate, enddate, manual,
                      candidatenumber, candidates, startRepicked, created >>
  PROVE  /\ (FlagsDated /\ FlagsOrdered /\ Counted /\ CreatedIsComplete /\ EndsAfterStart)'
         /\ Complete' = Complete
BY DEF FormInv, FlagsDated, FlagsOrdered, Counted, CreatedIsComplete, EndsAfterStart, Complete, NoVote

LEMMA FormInvStep ==
  FormInv /\ [FormNext]_formVars =>
    (FlagsDated /\ FlagsOrdered /\ Counted /\ Confirmed /\ CreatedIsComplete /\ EndsAfterStart)'
<1> DEFINE Rest ==
      FlagsDated /\ FlagsOrdered /\ Counted /\ Confirmed /\ CreatedIsComplete /\ EndsAfterStart
<1> SUFFICES ASSUME FormInv, [FormNext]_formVars PROVE Rest'
  OBVIOUS
<1>t. FormTypeOK /\ FlagsDated /\ FlagsOrdered /\ Counted /\ Confirmed /\ CreatedIsComplete /\ EndsAfterStart
  BY DEF FormInv
<1> USE DEF FlagsDated, FlagsOrdered, Counted, Confirmed, CreatedIsComplete, EndsAfterStart
<1>1. CASE OpenForm
  BY <1>t, <1>1 DEF OpenForm, NoVote
<1>2. CASE Fill
  BY <1>t, <1>2 DEF Fill, NoVote
<1>3. ASSUME NEW d \in Days, PickStart(d) PROVE Rest'
  BY <1>t, Bounds, <1>3 DEF PickStart, NoVote
<1>4. ASSUME NEW d \in Days, PickEnd(d) PROVE Rest'
  BY <1>t, Bounds, <1>4 DEF PickEnd, NoVote
<1>5. CASE PickEndCrash
  BY <1>5, Untouched DEF PickEndCrash
<1>6. CASE AddCandidate
  BY <1>6, Untouched DEF AddCandidate
<1>7. ASSUME NEW ok \in BOOLEAN, CandidateDone(ok) PROVE Rest'
  BY <1>t, <1>7 DEF CandidateDone, NoVote
<1>8. CASE FinishForm
  BY <1>8, Untouched DEF FinishForm
<1>9. CASE CloseComplaint
  BY <1>9, Untouched DEF CloseComplaint
<1>10. CASE ConfirmCreate
  <2>1. Complete
    BY <1>t, <1>10 DEF ConfirmCreate
  <2>2. candidates \in Nat /\ candidates > 0
    BY <1>t, <2>1 DEF FormTypeOK, Complete
  <2> QED
    BY <1>t, <1>10, <2>1, <2>2 DEF ConfirmCreate, Complete, FormTypeOK
<1>11. CASE DeclineCreate
  BY <1>11, Untouched DEF DeclineCreate
<1>12. CASE CancelForm
  BY <1>12, Untouched DEF CancelForm
<1>13. CASE RestartForm
  BY <1>13, Untouched DEF RestartForm
<1>14. CASE TurnForm
  BY <1>t, <1>14 DEF TurnForm, NoVote
<1>15. CASE Midnight
  BY <1>t, <1>15, Untouched DEF Midnight
<1>16. CASE UNCHANGED formVars
  BY <1>t, <1>16, Untouched DEF formVars
<1> QED
  BY <1>1, <1>2, <1>3, <1>4, <1>5, <1>6, <1>7, <1>8, <1>9, <1>10, <1>11, <1>12, <1>13,
     <1>14, <1>15, <1>16 DEF FormNext

LEMMA FormInvHolds == FormSpec => []FormInv
<1>1. FormInv /\ [FormNext]_formVars => FormInv'
  BY FormTypeStep, FormInvStep DEF FormInv
<1> QED
  BY InitFormInv, <1>1, PTL DEF FormSpec

-----------------------------------------------------------------------------
(* Theorems *)

\* Fields, flags, counters and the vote created are of their kinds.
THEOREM FormTypeCorrect == FormSpec => []FormTypeOK
BY FormInvHolds, PTL DEF FormInv

\* A vote that is created has all its parts.
THEOREM CreatedIsCompleteHolds == FormSpec => []CreatedIsComplete
BY FormInvHolds, PTL DEF FormInv

\* Its end is after its start, unless the start was picked again after the end.
THEOREM EndsAfterStartHolds == FormSpec => []EndsAfterStart
BY FormInvHolds, PTL DEF FormInv

-----------------------------------------------------------------------------
(***************************************************************************)
(* The encryption arithmetic, for any prime field, curve, scalars and bases.*)
(* No chord or tangent leaves the curve, so every point in the table, every*)
(* sum and the encrypted vote are points of it.  The formulas divide in the*)
(* field: an inverse exists because the field is one of a prime.           *)
(***************************************************************************)

(* Arithmetic in the field: x % FIELD_PRIME and what is zero there *)

\* x is zero in the field.
Vanishes(x) == \E k \in Int : x = k * FIELD_PRIME

LEMMA PrimeIsNat == FIELD_PRIME \in Nat /\ FIELD_PRIME > 3 /\ COEFF_A \in Nat
BY CurveAssumption

LEMMA FieldRemainder ==
  ASSUME NEW x \in Int
  PROVE  x % FIELD_PRIME \in Field /\ x % FIELD_PRIME \in Int /\ Vanishes(x - (x % FIELD_PRIME))
<1>1. /\ x = (x \div FIELD_PRIME) * FIELD_PRIME + (x % FIELD_PRIME) /\ x \div FIELD_PRIME \in Int
      /\ x % FIELD_PRIME \in 0 .. FIELD_PRIME - 1
  BY PrimeIsNat
<1> PICK r \in 0 .. FIELD_PRIME - 1 : r = x % FIELD_PRIME
  BY <1>1
<1> PICK k \in Int : k = x \div FIELD_PRIME
  BY <1>1
<1>2. x - r = k * FIELD_PRIME
  BY <1>1, PrimeIsNat
<1>3. Vanishes(x - r)
  BY <1>2 DEF Vanishes
<1>4. r \in Field /\ r \in Int
  BY PrimeIsNat DEF Field
<1> QED
  BY <1>3, <1>4

LEMMA VanishesSum ==
  ASSUME NEW x \in Int, NEW y \in Int, Vanishes(x), Vanishes(y)
  PROVE  Vanishes(x + y) /\ Vanishes(x - y)
<1>1. PICK k \in Int : x = k * FIELD_PRIME
  BY DEF Vanishes
<1>2. PICK m \in Int : y = m * FIELD_PRIME
  BY DEF Vanishes
<1>3. x + y = (k + m) * FIELD_PRIME /\ x - y = (k - m) * FIELD_PRIME
  BY <1>1, <1>2, PrimeIsNat
<1> QED
  BY <1>3 DEF Vanishes

LEMMA VanishesTimes ==
  ASSUME NEW x \in Int, NEW y \in Int, Vanishes(x)
  PROVE  Vanishes(x * y) /\ Vanishes(y * x)
<1>1. PICK k \in Int : x = k * FIELD_PRIME
  BY DEF Vanishes
<1>2. x * y = (k * y) * FIELD_PRIME /\ y * x = (k * y) * FIELD_PRIME /\ k * y \in Int
  BY <1>1, PrimeIsNat
<1> QED
  BY <1>2 DEF Vanishes

\* Elements of the field are apart.
LEMMA SmallVanishes ==
  ASSUME NEW x \in Int, x < FIELD_PRIME, -x < FIELD_PRIME
  PROVE  Vanishes(x) <=> x = 0
<1>1. ASSUME Vanishes(x) PROVE x = 0
  <2>1. PICK k \in Int : x = k * FIELD_PRIME
    BY <1>1 DEF Vanishes
  <2>2. CASE k >= 1
    <3>1. k * FIELD_PRIME >= FIELD_PRIME
      BY <2>2, PrimeIsNat
    <3> QED
      BY <2>1, <3>1, PrimeIsNat
  <2>3. CASE k <= -1
    <3>1. -k >= 1 /\ -x = (-k) * FIELD_PRIME
      BY <2>1, <2>3, PrimeIsNat
    <3>2. (-k) * FIELD_PRIME >= FIELD_PRIME
      BY <3>1, PrimeIsNat
    <3> QED
      BY <3>1, <3>2, PrimeIsNat
  <2>4. CASE k = 0
    BY <2>1, <2>4, PrimeIsNat
  <2> QED
    BY <2>2, <2>3, <2>4
<1>2. ASSUME x = 0 PROVE Vanishes(x)
  <2>1. x = 0 * FIELD_PRIME
    BY <1>2, PrimeIsNat
  <2> QED
    BY <2>1 DEF Vanishes
<1> QED
  BY <1>1, <1>2

LEMMA SameRemainder ==
  ASSUME NEW x \in Int, NEW y \in Int
  PROVE  x % FIELD_PRIME = y % FIELD_PRIME <=> Vanishes(x - y)
<1> PICK r \in Int : r = x % FIELD_PRIME
  BY FieldRemainder
<1> PICK s \in Int : s = y % FIELD_PRIME
  BY FieldRemainder
<1>1. Vanishes(x - r) /\ Vanishes(y - s) /\ r \in Field /\ s \in Field
  <2>1. r \in Field /\ Vanishes(x - r)
    BY FieldRemainder
  <2>2. s \in Field /\ Vanishes(y - s)
    BY FieldRemainder
  <2> QED
    BY <2>1, <2>2
<1>2. Vanishes((x - r) - (y - s))
  BY <1>1, VanishesSum
<1>3. ASSUME r = s PROVE Vanishes(x - y)
  <2>1. (x - r) - (y - s) = x - y
    BY <1>3
  <2> QED
    BY <1>2, <2>1
<1>4. ASSUME Vanishes(x - y) PROVE r = s
  <2>1. (x - y) - ((x - r) - (y - s)) = r - s
    OBVIOUS
  <2>2. Vanishes(r - s)
    BY <1>2, <1>4, <2>1, VanishesSum
  <2>3. r - s < FIELD_PRIME /\ -(r - s) < FIELD_PRIME
    BY <1>1, PrimeIsNat DEF Field
  <2>4. r - s = 0
    BY <2>2, <2>3, SmallVanishes
  <2> QED
    BY <2>4
<1> QED
  BY <1>3, <1>4

\* The remainders of the multiples of b.
Remainders(b) == {r \in 1 .. FIELD_PRIME - 1 : \E c \in Int : Vanishes(b * c - r)}

\* Of these the least is one: FIELD_PRIME is a prime.
LEMMA LeastIsOne ==
  ASSUME NEW b \in Int, NEW r \in Remainders(b), \A s \in Remainders(b) : r <= s
  PROVE  r = 1
<1>1. r \in 1 .. FIELD_PRIME - 1 /\ \E c \in Int : Vanishes(b * c - r)
  BY DEF Remainders
<1>2. PICK c \in Int : Vanishes(b * c - r)
  BY <1>1
<1> SUFFICES ASSUME r # 1 PROVE FALSE
  OBVIOUS
<1>3. FIELD_PRIME % r # 0 /\ r \in Nat /\ r >= 2 /\ r < FIELD_PRIME
  BY <1>1, CurveAssumption
<1> PICK s : s = FIELD_PRIME % r
  OBVIOUS
<1> PICK t : t = FIELD_PRIME \div r
  OBVIOUS
<1>4. FIELD_PRIME = t * r + s /\ t \in Int /\ s \in 1 .. r - 1
  BY <1>3, PrimeIsNat
<1>5. s \in 1 .. FIELD_PRIME - 1 /\ s \in Int /\ t \in Int /\ r \in Int
  BY <1>3, <1>4
<1> PICK w \in Int : w = b * c - r
  BY <1>5
<1>6. Vanishes(w * (-t)) /\ -t \in Int
  <2>1. Vanishes(w) /\ -t \in Int
    BY <1>2, <1>5
  <2> QED
    BY <2>1, VanishesTimes
<1>7. Vanishes(FIELD_PRIME)
  <2>1. FIELD_PRIME = 1 * FIELD_PRIME
    BY PrimeIsNat
  <2> QED
    BY <2>1 DEF Vanishes
<1>8. b * (c * (-t)) - s = w * (-t) - FIELD_PRIME
  <2>1. w * (-t) = b * (c * (-t)) + t * r
    <3> PICK n \in Int : n = -t
      BY <1>6
    <3>1. (b * c - r) * n = b * (c * n) - n * r
      BY <1>5
    <3>2. -(n * r) = t * r
      BY <1>5
    <3> QED
      BY <1>5, <3>1, <3>2
  <2> QED
    BY <1>4, <1>5, <2>1
<1>9. Vanishes(b * (c * (-t)) - s)
  <2>1. w * (-t) \in Int /\ FIELD_PRIME \in Int
    BY <1>6, PrimeIsNat
  <2> QED
    BY <1>6, <1>7, <1>8, <2>1, VanishesSum
<1>10. c * (-t) \in Int
  BY <1>5
<1>11. s \in Remainders(b)
  BY <1>5, <1>9, <1>10 DEF Remainders
<1>12. r <= s
  BY <1>11
<1> QED
  BY <1>4, <1>5, <1>12

LEMMA VanishesRemainder ==
  ASSUME NEW x \in Int
  PROVE  x % FIELD_PRIME \in Int /\ (Vanishes(x % FIELD_PRIME) <=> Vanishes(x))
<1> PICK r \in Int : r = x % FIELD_PRIME
  BY FieldRemainder
<1>1. Vanishes(x - r)
  BY FieldRemainder
<1>2. ASSUME Vanishes(r) PROVE Vanishes(x)
  <2>1. x = (x - r) + r
    OBVIOUS
  <2>2. Vanishes((x - r) + r)
    BY <1>1, <1>2, VanishesSum
  <2> QED
    BY <2>1, <2>2
<1>3. ASSUME Vanishes(x) PROVE Vanishes(r)
  <2>1. r = x - (x - r)
    OBVIOUS
  <2>2. Vanishes(x - (x - r))
    BY <1>1, <1>3, VanishesSum
  <2> QED
    BY <2>1, <2>2
<1> QED
  BY <1>2, <1>3

\* A set of naturals has a least element.
LEMMA LeastNatural ==
  ASSUME NEW T, T \subseteq Nat, T # {}
  PROVE  \E r \in T : \A s \in T : r <= s
<1> DEFINE Lesser == {ss \in Nat \X Nat : ss[1] < ss[2]}
<1>1. Lesser = OpToRel(<, Nat)
  BY Zenon DEF OpToRel
<1>2. IsWellFoundedOn(Lesser, Nat)
  BY <1>1, NatLessThanWellFounded, Zenon
<1>3. PICK r \in T : \A s \in T : ~(<<s, r>> \in Lesser)
  <2> HIDE DEF Lesser
  <2> QED
    BY <1>2, WFMin
<1>4. ASSUME NEW s \in T PROVE r <= s
  <2>1. s \in Nat /\ r \in Nat /\ <<s, r>> \in Nat \X Nat
    OBVIOUS
  <2>2. ~(s < r)
    BY <1>3, <2>1
  <2> QED
    BY <2>1, <2>2
<1> QED
  BY <1>3, <1>4

\* What does not vanish has an inverse.
LEMMA InverseExists ==
  ASSUME NEW b \in Int, ~Vanishes(b)
  PROVE  \E c \in Int : Vanishes(b * c - 1)
<1> PICK r \in Int : r = b % FIELD_PRIME
  BY FieldRemainder
<1>1. Vanishes(b - r) /\ r \in Field
  BY FieldRemainder
<1>2. r # 0
  <2>1. ASSUME r = 0 PROVE FALSE
    <3>1. b - r = b
      BY <2>1
    <3> QED
      BY <1>1, <3>1
  <2> QED
    BY <2>1
<1>3. r \in 1 .. FIELD_PRIME - 1
  BY <1>1, <1>2, PrimeIsNat DEF Field
<1>4. b * 1 - r = b - r
  OBVIOUS
<1>5. r \in Remainders(b)
  <2>1. Vanishes(b * 1 - r)
    BY <1>1, <1>4
  <2>2. \E c \in Int : Vanishes(b * c - r)
    <3>1. 1 \in Int
      OBVIOUS
    <3> QED
      BY <2>1, <3>1, Zenon
  <2> QED
    BY <1>3, <2>2 DEF Remainders
<1>6. Remainders(b) \subseteq Nat
  BY PrimeIsNat DEF Remainders
<1>7. PICK m \in Remainders(b) : \A s \in Remainders(b) : m <= s
  BY <1>5, <1>6, LeastNatural
<1>8. m = 1
  BY <1>7, LeastIsOne
<1> QED
  BY <1>8 DEF Remainders

\* modInverse returns one.
LEMMA InverseWorks ==
  ASSUME NEW b \in Int, ~Vanishes(b)
  PROVE  modInverse(b % FIELD_PRIME) \in Int /\ Vanishes(b * modInverse(b % FIELD_PRIME) - 1)
<1> PICK r \in Int : r = b % FIELD_PRIME
  BY FieldRemainder
<1>1. Vanishes(b - r) /\ r \in Field /\ ~Vanishes(r)
  BY FieldRemainder, VanishesRemainder
<1>2. PICK c \in Int : Vanishes(r * c - 1)
  BY <1>1, InverseExists
<1> PICK d \in Int : d = c % FIELD_PRIME
  BY FieldRemainder
<1>3. Vanishes(c - d) /\ d \in Field
  BY FieldRemainder
<1>4. Vanishes(r * d - 1)
  <2>1. Vanishes(r * (c - d))
    BY <1>3, VanishesTimes
  <2>2. r * c - 1 \in Int /\ r * (c - d) \in Int /\ r * d - 1 = (r * c - 1) - r * (c - d)
    OBVIOUS
  <2> QED
    BY <1>2, <2>1, <2>2, VanishesSum
<1>5. 1 % FIELD_PRIME = 1
  BY PrimeIsNat
<1>6. r * d \in Int
  OBVIOUS
<1>7. (r * d) % FIELD_PRIME = 1
  BY <1>4, <1>5, <1>6, SameRemainder
<1> PICK e : e = modInverse(r)
  OBVIOUS
<1>8. e \in Field /\ (r * e) % FIELD_PRIME = 1
  BY <1>3, <1>7 DEF modInverse
<1>9. e \in Int
  BY <1>8, PrimeIsNat DEF Field
<1>10. Vanishes(r * e - 1)
  <2>1. r * e \in Int
    BY <1>9
  <2> QED
    BY <1>5, <1>8, <2>1, SameRemainder
<1>11. Vanishes(b * e - 1)
  <2>1. Vanishes((b - r) * e)
    BY <1>1, <1>9, VanishesTimes
  <2>2. (b - r) * e \in Int /\ r * e - 1 \in Int /\ b * e - 1 = (b - r) * e + (r * e - 1)
    BY <1>9
  <2> QED
    BY <1>10, <2>1, <2>2, VanishesSum
<1> QED
  BY <1>9, <1>11

\* A field has no divisors of zero.
LEMMA NoZeroDivisors ==
  ASSUME NEW a \in Int, NEW b \in Int, Vanishes(a * b), ~Vanishes(a)
  PROVE  Vanishes(b)
<1>1. PICK c \in Int : Vanishes(a * c - 1)
  BY InverseExists
<1>2. Vanishes((a * c - 1) * b)
  BY <1>1, VanishesTimes
<1>3. Vanishes(c * (a * b))
  <2>1. a * b \in Int
    OBVIOUS
  <2> QED
    BY <2>1, VanishesTimes
<1>4. c * (a * b) \in Int /\ (a * c - 1) * b \in Int /\ b = c * (a * b) - (a * c - 1) * b
  OBVIOUS
<1> QED
  BY <1>2, <1>3, <1>4, VanishesSum

\* FieldDivision divides.
LEMMA DivisionDivides ==
  ASSUME NEW a \in Int, NEW b \in Int, ~Vanishes(b)
  PROVE  FieldDivision(a, b) \in Int /\ Vanishes(FieldDivision(a, b) * b - a)
<1> PICK c \in Int : c = modInverse(b % FIELD_PRIME)
  BY InverseWorks
<1>1. Vanishes(b * c - 1)
  BY InverseWorks
<1>2. a * c \in Int
  OBVIOUS
<1> PICK q \in Int : q = (a * c) % FIELD_PRIME
  BY <1>2, FieldRemainder
<1>3. Vanishes(a * c - q)
  BY <1>2, FieldRemainder
<1>4. Vanishes((a * c - q) * b) /\ Vanishes(a * (b * c - 1))
  <2>1. a * c - q \in Int /\ b * c - 1 \in Int
    OBVIOUS
  <2> QED
    BY <1>1, <1>3, <2>1, VanishesTimes
<1>5. /\ (a * c - q) * b \in Int /\ a * (b * c - 1) \in Int
      /\ q * b - a = a * (b * c - 1) - (a * c - q) * b
  OBVIOUS
<1>6. Vanishes(q * b - a)
  BY <1>4, <1>5, VanishesSum
<1> QED
  BY <1>6 DEF FieldDivision

(* Chords and tangents *)

\* The right side of the curve's equation, and a point's distance from it.
Cubic(x) == x * x * x + COEFF_A * x * x + x
Off(x, y) == Cubic(x) - y * y

\* The line of slope q through (x1, y1), put into the equation.
AlongLine(q, x1, y1, x) == Off(x, q * (x - x1) + y1)

LEMMA OffIsInt ==
  ASSUME NEW x \in Int, NEW y \in Int
  PROVE  Off(x, y) \in Int
BY PrimeIsNat DEF Off, Cubic

\* Along the line the equation is a cubic whose three zeros add up to s.
LEMMA AlongLineIsCubic ==
  ASSUME NEW q \in Int, NEW x1 \in Int, NEW y1 \in Int, NEW x \in Int
  PROVE  AlongLine(q, x1, y1, x)
           = x * x * x - (q * q - COEFF_A) * x * x + (1 + 2 * q * q * x1 - 2 * q * y1) * x
             + (2 * q * y1 * x1 - q * q * x1 * x1 - y1 * y1)
BY PrimeIsNat DEF AlongLine, Off, Cubic

\* Two zeros of such a cubic make the third; a double zero does too.
LEMMA ThirdZero ==
  ASSUME NEW x1 \in Int, NEW x2 \in Int, NEW x3 \in Int, NEW a \in Int, NEW b \in Int
  PROVE  LET g(x) == x * x * x - (x1 + x2 + x3) * x * x + a * x + b
         IN  g(x3) * (x1 - x2) = g(x1) * (x3 - x2) - g(x2) * (x3 - x1)
OBVIOUS

LEMMA ThirdOfDouble ==
  ASSUME NEW x1 \in Int, NEW x3 \in Int, NEW a \in Int, NEW b \in Int
  PROVE  LET g(x) == x * x * x - (x1 + x1 + x3) * x * x + a * x + b
         IN  g(x3) = g(x1) + (x3 - x1) * (3 * x1 * x1 - 2 * (x1 + x1 + x3) * x1 + a)
OBVIOUS

\* The chord's third point, negated, is on the curve.
LEMMA ChordOnCurve ==
  ASSUME NEW x1 \in Int, NEW y1 \in Int, NEW x2 \in Int, NEW y2 \in Int, NEW q \in Int,
         Vanishes(Off(x1, y1)), Vanishes(Off(x2, y2)), ~Vanishes(x1 - x2),
         Vanishes(q * (x1 - x2) - (y1 - y2))
  PROVE  LET x3 == q * q - COEFF_A - x1 - x2
             y3 == (2 * x1 + x2 + COEFF_A) * q - q * q * q - y1
         IN  Vanishes(Off(x3, y3))
<1> PICK A \in Int : A = COEFF_A
  BY PrimeIsNat
<1> PICK x3 \in Int : x3 = q * q - A - x1 - x2
  OBVIOUS
<1> PICK y3 \in Int : y3 = (2 * x1 + x2 + A) * q - q * q * q - y1
  OBVIOUS
<1> PICK g1 \in Int : g1 = AlongLine(q, x1, y1, x1)
  BY OffIsInt DEF AlongLine
<1> PICK g2 \in Int : g2 = AlongLine(q, x1, y1, x2)
  BY OffIsInt DEF AlongLine
<1> PICK g3 \in Int : g3 = AlongLine(q, x1, y1, x3)
  BY OffIsInt DEF AlongLine
<1>1. g3 * (x1 - x2) = g1 * (x3 - x2) - g2 * (x3 - x1)
  <2> PICK a \in Int : a = 1 + 2 * q * q * x1 - 2 * q * y1
    OBVIOUS
  <2>0. 2 * q * y1 * x1 - q * q * x1 * x1 - y1 * y1 \in Int
    OBVIOUS
  <2> PICK b \in Int : b = 2 * q * y1 * x1 - q * q * x1 * x1 - y1 * y1
    BY <2>0
  <2>1. q * q - A = x1 + x2 + x3
    OBVIOUS
  <2>2. /\ g1 = x1 * x1 * x1 - (q * q - A) * x1 * x1 + a * x1 + b
        /\ g2 = x2 * x2 * x2 - (q * q - A) * x2 * x2 + a * x2 + b
        /\ g3 = x3 * x3 * x3 - (q * q - A) * x3 * x3 + a * x3 + b
    <3>1. g1 = x1 * x1 * x1 - (q * q - A) * x1 * x1 + a * x1 + b
      BY AlongLineIsCubic
    <3>2. g2 = x2 * x2 * x2 - (q * q - A) * x2 * x2 + a * x2 + b
      BY AlongLineIsCubic
    <3>3. g3 = x3 * x3 * x3 - (q * q - A) * x3 * x3 + a * x3 + b
      <4>1. \A x \in Int : AlongLine(q, x1, y1, x) = x * x * x - (q * q - A) * x * x + a * x + b
        BY AlongLineIsCubic
      <4> QED
        BY <4>1, Zenon
    <3> QED
      BY <3>1, <3>2, <3>3
  <2> DEFINE g(x) == x * x * x - (x1 + x2 + x3) * x * x + a * x + b
  <2>3. g(x3) * (x1 - x2) = g(x1) * (x3 - x2) - g(x2) * (x3 - x1)
    BY ThirdZero
  <2>4. g1 = g(x1) /\ g2 = g(x2) /\ g3 = g(x3)
    BY <2>1, <2>2
  <2> HIDE DEF g
  <2> QED
    BY <2>3, <2>4
<1>2. Vanishes(g1)
  <2>1. q * (x1 - x1) + y1 = y1
    OBVIOUS
  <2> QED
    BY <2>1 DEF AlongLine
<1>3. Vanishes(g2)
  <2> PICK w \in Int : w = q * (x1 - x2) - (y1 - y2)
    OBVIOUS
  <2>1. q * (x2 - x1) + y1 = y2 - w
    OBVIOUS
  <2>2. g2 = Off(x2, y2 - w)
    BY <2>1 DEF AlongLine
  <2>3. Off(x2, y2 - w) = Off(x2, y2) + w * (2 * y2 - w)
    BY PrimeIsNat DEF Off, Cubic
  <2> PICK v \in Int : v = 2 * y2 - w
    OBVIOUS
  <2>4. Vanishes(w * v) /\ w * v \in Int
    <3>1. Vanishes(w)
      OBVIOUS
    <3>2. Vanishes(w * v)
      BY <3>1, VanishesTimes, Zenon
    <3> QED
      BY <3>2
  <2>5. g2 = Off(x2, y2) + w * v /\ Off(x2, y2) \in Int
    BY <2>2, <2>3, OffIsInt
  <2> QED
    BY <2>4, <2>5, VanishesSum
<1>4. Vanishes(g3 * (x1 - x2))
  <2>1. Vanishes(g1 * (x3 - x2)) /\ Vanishes(g2 * (x3 - x1))
    <3>1. x3 - x2 \in Int /\ x3 - x1 \in Int
      OBVIOUS
    <3> QED
      BY <1>2, <1>3, <3>1, VanishesTimes
  <2>2. g1 * (x3 - x2) \in Int /\ g2 * (x3 - x1) \in Int
    OBVIOUS
  <2> QED
    BY <1>1, <2>1, <2>2, VanishesSum
<1>5. Vanishes(g3)
  <2>1. (x1 - x2) * g3 = g3 * (x1 - x2) /\ x1 - x2 \in Int
    OBVIOUS
  <2> QED
    BY <1>4, <2>1, NoZeroDivisors
<1>6. g3 = Off(x3, y3)
  <2>1. q * (x3 - x1) + y1 = -y3
    OBVIOUS
  <2>2. Off(x3, -y3) = Off(x3, y3)
    BY DEF Off
  <2> QED
    BY <2>1, <2>2 DEF AlongLine
<1> QED
  BY <1>5, <1>6

\* So is the tangent's.
LEMMA TangentOnCurve ==
  ASSUME NEW x1 \in Int, NEW y1 \in Int, NEW q \in Int, Vanishes(Off(x1, y1)),
         Vanishes(q * (2 * y1) - (3 * x1 * x1 + 2 * COEFF_A * x1 + 1))
  PROVE  LET x3 == q * q - COEFF_A - x1 - x1
             y3 == (2 * x1 + x1 + COEFF_A) * q - q * q * q - y1
         IN  Vanishes(Off(x3, y3))
<1> PICK A \in Int : A = COEFF_A
  BY PrimeIsNat
<1> PICK x3 \in Int : x3 = q * q - A - x1 - x1
  OBVIOUS
<1> PICK y3 \in Int : y3 = (2 * x1 + x1 + A) * q - q * q * q - y1
  OBVIOUS
<1> PICK g1 \in Int : g1 = AlongLine(q, x1, y1, x1)
  BY OffIsInt DEF AlongLine
<1> PICK g3 \in Int : g3 = AlongLine(q, x1, y1, x3)
  BY OffIsInt DEF AlongLine
<1> PICK w \in Int : w = q * (2 * y1) - (3 * x1 * x1 + 2 * A * x1 + 1)
  OBVIOUS
<1>1. g3 = g1 - (x3 - x1) * w
  <2> PICK a \in Int : a = 1 + 2 * q * q * x1 - 2 * q * y1
    OBVIOUS
  <2>0. 2 * q * y1 * x1 - q * q * x1 * x1 - y1 * y1 \in Int
    OBVIOUS
  <2> PICK b \in Int : b = 2 * q * y1 * x1 - q * q * x1 * x1 - y1 * y1
    BY <2>0
  <2>1. q * q - A = x1 + x1 + x3
    OBVIOUS
  <2>2. /\ g1 = x1 * x1 * x1 - (q * q - A) * x1 * x1 + a * x1 + b
        /\ g3 = x3 * x3 * x3 - (q * q - A) * x3 * x3 + a * x3 + b
    <3>1. g1 = x1 * x1 * x1 - (q * q - A) * x1 * x1 + a * x1 + b
      BY AlongLineIsCubic
    <3>2. g3 = x3 * x3 * x3 - (q * q - A) * x3 * x3 + a * x3 + b
      BY AlongLineIsCubic
    <3> QED
      BY <3>1, <3>2
  <2>3. 3 * x1 * x1 - 2 * (q * q - A) * x1 + a = -w
    OBVIOUS
  <2>4. g3 = g1 + (x3 - x1) * (3 * x1 * x1 - 2 * (x1 + x1 + x3) * x1 + a)
    BY <2>1, <2>2, ThirdOfDouble
  <2>5. g3 = g1 + (x3 - x1) * (-w)
    BY <2>1, <2>3, <2>4
  <2> QED
    BY <2>5
<1>2. Vanishes(g1)
  <2>1. q * (x1 - x1) + y1 = y1
    OBVIOUS
  <2> QED
    BY <2>1 DEF AlongLine
<1>3. Vanishes(g3)
  <2>1. x3 - x1 \in Int /\ (x3 - x1) * w \in Int
    OBVIOUS
  <2>2. Vanishes((x3 - x1) * w)
    BY <2>1, VanishesTimes
  <2> QED
    BY <1>1, <1>2, <2>1, <2>2, VanishesSum
<1>4. g3 = Off(x3, y3)
  <2>1. q * (x3 - x1) + y1 = -y3
    OBVIOUS
  <2>2. Off(x3, -y3) = Off(x3, y3)
    BY DEF Off
  <2> QED
    BY <2>1, <2>2 DEF AlongLine
<1> QED
  BY <1>3, <1>4

(* Points *)

\* Being on the curve is a matter of remainders.
LEMMA OffModPrime ==
  ASSUME NEW x \in Int, NEW y \in Int, NEW u \in Int, NEW v \in Int,
         Vanishes(x - u), Vanishes(y - v), Vanishes(Off(x, y))
  PROVE  Vanishes(Off(u, v))
<1> PICK A \in Int : A = COEFF_A
  BY PrimeIsNat
<1>1. x * x + x * u + u * u + A * (x + u) + 1 \in Int
  OBVIOUS
<1> PICK m \in Int : m = x * x + x * u + u * u + A * (x + u) + 1
  BY <1>1
<1> PICK s \in Int : s = (x - u) * m
  OBVIOUS
<1> PICK t \in Int : t = (y - v) * (y + v)
  OBVIOUS
<1>2. Off(u, v) = (Off(x, y) - s) + t
  <2>1. s = (x * x * x + A * x * x + x) - (u * u * u + A * u * u + u)
    OBVIOUS
  <2>2. t = y * y - v * v
    OBVIOUS
  <2> QED
    BY <2>1, <2>2 DEF Off, Cubic
<1>3. Vanishes(s)
  <2>1. Vanishes((x - u) * m)
    <3>1. x - u \in Int
      OBVIOUS
    <3> QED
      BY <3>1, VanishesTimes, Zenon
  <2> QED
    BY <2>1, Zenon
<1>4. Vanishes(t)
  <2>1. Vanishes((y - v) * (y + v))
    <3>1. y - v \in Int /\ y + v \in Int
      OBVIOUS
    <3> QED
      BY <3>1, VanishesTimes, Zenon
  <2> QED
    BY <2>1, Zenon
<1>5. Vanishes(Off(x, y) - s) /\ Off(x, y) - s \in Int
  <2> PICK o \in Int : o = Off(x, y)
    BY OffIsInt
  <2>1. Vanishes(o - s)
    BY <1>3, VanishesSum
  <2> QED
    BY <2>1
<1>6. Vanishes((Off(x, y) - s) + t)
  BY <1>4, <1>5, VanishesSum
<1> QED
  BY <1>2, <1>6

LEMMA PointIsOnCurve ==
  ASSUME NEW x \in Field, NEW y \in Field
  PROVE  <<x, y>> \in Points <=> Vanishes(Off(x, y))
<1>1. x \in Int /\ y \in Int
  BY PrimeIsNat DEF Field
<1>2. Cubic(x) \in Int /\ y * y \in Int
  BY <1>1, PrimeIsNat DEF Cubic
<1>3. <<x, y>> \in Points <=> (y * y) % FIELD_PRIME = Cubic(x) % FIELD_PRIME
  <2> DEFINE Root(q) == (q[2] * q[2]) % FIELD_PRIME
                          = (q[1] * q[1] * q[1] + COEFF_A * q[1] * q[1] + q[1]) % FIELD_PRIME
  <2>1. Root(<<x, y>>) <=> (y * y) % FIELD_PRIME = Cubic(x) % FIELD_PRIME
    BY DEF Cubic
  <2>2. <<x, y>> \in Field \X Field
    OBVIOUS
  <2>3. Points = {q \in Field \X Field : Root(q)}
    BY DEF Points
  <2> HIDE DEF Root
  <2> QED
    BY <2>1, <2>2, <2>3
<1>4. Vanishes(Cubic(x) - y * y) <=> (y * y) % FIELD_PRIME = Cubic(x) % FIELD_PRIME
  BY <1>2, SameRemainder
<1> QED
  BY <1>3, <1>4 DEF Off

LEMMA PointFacts ==
  ASSUME NEW p \in Points
  PROVE  /\ p[1] \in Field /\ p[2] \in Field /\ p[1] \in Int /\ p[2] \in Int
         /\ Vanishes(Off(p[1], p[2])) /\ p = <<p[1], p[2]>>
<1>1. p[1] \in Field /\ p[2] \in Field /\ p = <<p[1], p[2]>>
  BY DEF Points
<1>2. p[1] \in Int /\ p[2] \in Int
  BY <1>1, PrimeIsNat DEF Field
<1> QED
  BY <1>1, <1>2, PointIsOnCurve

LEMMA FieldIsApart ==
  ASSUME NEW x \in Field, NEW y \in Field, x # y
  PROVE  ~Vanishes(x - y)
<1>1. x \in Int /\ y \in Int /\ x - y < FIELD_PRIME /\ -(x - y) < FIELD_PRIME /\ x - y # 0
  BY PrimeIsNat DEF Field
<1>2. x - y \in Int
  BY <1>1
<1> QED
  BY <1>1, <1>2, SmallVanishes

\* A point made of remainders.
LEMMA RemaindersOnCurve ==
  ASSUME NEW x \in Int, NEW y \in Int, Vanishes(Off(x, y))
  PROVE  <<x % FIELD_PRIME, y % FIELD_PRIME>> \in Points
<1> PICK u \in Int : u = x % FIELD_PRIME
  BY FieldRemainder
<1> PICK v \in Int : v = y % FIELD_PRIME
  BY FieldRemainder
<1>1. u \in Field /\ v \in Field /\ Vanishes(x - u) /\ Vanishes(y - v)
  BY FieldRemainder
<1>2. Vanishes(Off(u, v))
  BY <1>1, OffModPrime
<1> QED
  BY <1>1, <1>2, PointIsOnCurve

\* The chord's formula stays on the curve, unless the points have the same x.
LEMMA SumIsPoint ==
  ASSUME NEW p1 \in Points, NEW p2 \in Points, p1[1] # p2[1]
  PROVE  addBigIntegerAffinePoints(p1, p2) \in Points
<1> PICK x1 \in Int, y1 \in Int, x2 \in Int, y2 \in Int :
      x1 = p1[1] /\ y1 = p1[2] /\ x2 = p2[1] /\ y2 = p2[2]
  BY PointFacts
<1>1. ~Vanishes(x1 - x2) /\ Vanishes(Off(x1, y1)) /\ Vanishes(Off(x2, y2))
  BY PointFacts, FieldIsApart
<1>2. y1 - y2 \in Int /\ x1 - x2 \in Int
  OBVIOUS
<1> PICK q \in Int : q = FieldDivision(y1 - y2, x1 - x2)
  BY <1>1, <1>2, DivisionDivides
<1>3. Vanishes(q * (x1 - x2) - (y1 - y2))
  BY <1>1, <1>2, DivisionDivides
<1> DEFINE x3 == q * q - COEFF_A - x1 - x2
           y3 == (2 * x1 + x2 + COEFF_A) * q - q * q * q - y1
<1>4. Vanishes(Off(x3, y3))
  BY <1>1, <1>3, ChordOnCurve
<1>5. x3 \in Int /\ y3 \in Int
  BY PrimeIsNat
<1>6. addBigIntegerAffinePoints(p1, p2) = <<x3 % FIELD_PRIME, y3 % FIELD_PRIME>>
  BY DEF addBigIntegerAffinePoints, OnLine
<1> HIDE DEF x3, y3
<1> QED
  BY <1>4, <1>5, <1>6, RemaindersOnCurve

\* So does a doubling, unless the y is zero.
LEMMA DoubleIsPoint ==
  ASSUME NEW p \in Points, p[2] # 0
  PROVE  doubleBigIntegerAffinePoint(p) \in Points
<1> PICK x1 \in Int, y1 \in Int : x1 = p[1] /\ y1 = p[2]
  BY PointFacts
<1>1. Vanishes(Off(x1, y1)) /\ y1 \in Field /\ y1 # 0
  BY PointFacts
<1>2. ~Vanishes(2) /\ ~Vanishes(y1)
  <2>1. 2 # 0 /\ 2 \in Int /\ 2 < FIELD_PRIME /\ -2 < FIELD_PRIME
    BY PrimeIsNat
  <2>2. y1 < FIELD_PRIME /\ -y1 < FIELD_PRIME
    BY <1>1, PrimeIsNat DEF Field
  <2> QED
    BY <1>1, <2>1, <2>2, SmallVanishes
<1>3. ~Vanishes(2 * y1)
  BY <1>2, NoZeroDivisors
<1>4. 3 * x1 * x1 + 2 * COEFF_A * x1 + 1 \in Int /\ 2 * y1 \in Int
  BY PrimeIsNat
<1> PICK q \in Int : q = FieldDivision(3 * x1 * x1 + 2 * COEFF_A * x1 + 1, 2 * y1)
  BY <1>3, <1>4, DivisionDivides
<1>5. Vanishes(q * (2 * y1) - (3 * x1 * x1 + 2 * COEFF_A * x1 + 1))
  BY <1>3, <1>4, DivisionDivides
<1> DEFINE x3 == q * q - COEFF_A - x1 - x1
           y3 == (2 * x1 + x1 + COEFF_A) * q - q * q * q - y1
<1>6. Vanishes(Off(x3, y3))
  BY <1>1, <1>5, TangentOnCurve
<1>7. x3 \in Int /\ y3 \in Int
  BY PrimeIsNat
<1>8. doubleBigIntegerAffinePoint(p) = <<x3 % FIELD_PRIME, y3 % FIELD_PRIME>>
  BY DEF doubleBigIntegerAffinePoint, OnLine
<1> HIDE DEF x3, y3
<1> QED
  BY <1>6, <1>7, <1>8, RemaindersOnCurve

LEMMA DifferenceInField ==
  ASSUME NEW p1 \in Points, NEW p2 \in Points, p1[1] # p2[1]
  PROVE  subAffinePoints(p1, p2)[1] \in Field
<1> PICK x1 \in Int, y1 \in Int, x2 \in Int, y2 \in Int :
      x1 = p1[1] /\ y1 = p1[2] /\ x2 = p2[1] /\ y2 = p2[2]
  BY PointFacts
<1>1. ~Vanishes(x1 - x2)
  BY PointFacts, FieldIsApart
<1>2. y1 + y2 \in Int /\ x1 - x2 \in Int
  OBVIOUS
<1> PICK q \in Int : q = FieldDivision(y1 + y2, x1 - x2)
  BY <1>1, <1>2, DivisionDivides
<1>3. q * q - COEFF_A - x1 - x2 \in Int
  BY PrimeIsNat
<1>4. subAffinePoints(p1, p2)[1] = (q * q - COEFF_A - x1 - x2) % FIELD_PRIME
  BY DEF subAffinePoints, OnLine
<1> QED
  BY <1>3, <1>4, FieldRemainder

(* The invariant *)

\* The table holds points.  A product has a base, a scalar that was given, and an x.
TableOfPoints == table \in Seq(Points)
KeptProducts ==
  products \in Seq([base : Points, scalar : {Scalar(k) : k \in Inputs \cup {0}}, x : Field])

\* While the table is made it has an entry and no more than it may; while entries are
\* added it is whole and there is a sum; in both a product is still missing.
Underway ==
  /\ ecStep \in {"table", "add"} => Len(products) < 2 /\ table # <<>>
  /\ ecStep = "table" => Len(table) <= SECRET_BITWIDTH + 1
  /\ ecStep = "add" => Len(table) = SECRET_BITWIDTH + 1 /\ result \in Points
                       /\ j \in -1 .. SECRET_BITWIDTH - 1

CurveInv == CurveTypeOK /\ TableOfPoints /\ KeptProducts /\ Underway

LEMMA BitsAreNat == SECRET_BITWIDTH \in Nat
BY CurveAssumption

LEMMA InitCurveInv == CurveInit => CurveInv
<1> SUFFICES ASSUME CurveInit PROVE CurveInv
  OBVIOUS
<1>1. table = <<>> /\ products = <<>> /\ ecStep = "idle" /\ exponent = 0 /\ result = NoPoint /\ j = 0
  BY DEF CurveInit
<1>2. \A S : <<>> \in Seq(S) /\ Len(<<>>) = 0 /\ DOMAIN <<>> = {}
  OBVIOUS
<1>3. TableOfPoints /\ KeptProducts
  BY <1>1, <1>2 DEF TableOfPoints, KeptProducts
<1>4. Underway
  BY <1>1 DEF Underway
<1>5. CurveTypeOK
  BY <1>1, <1>2, BitsAreNat DEF CurveTypeOK
<1> QED
  BY <1>3, <1>4, <1>5 DEF CurveInv

\* The last entry, and the entry of a turn.
LEMMA Entries ==
  ASSUME TableOfPoints, table # <<>>
  PROVE  Last \in Points /\ \A k \in 1 .. Len(table) : table[k] \in Points
<1>1. Len(table) \in 1 .. Len(table) /\ \A k \in 1 .. Len(table) : table[k] \in Points
  BY DEF TableOfPoints
<1> QED
  BY <1>1 DEF Last

LEMMA SeqDomain ==
  ASSUME NEW S, NEW s \in Seq(S)
  PROVE  \A k \in DOMAIN s : s[k] \in S
OBVIOUS

LEMMA CurveInvStep == CurveInv /\ [CurveNext]_curveVars => CurveInv'
<1> SUFFICES ASSUME CurveInv, [CurveNext]_curveVars PROVE CurveInv'
  OBVIOUS
<1>1. CurveTypeOK /\ TableOfPoints /\ KeptProducts /\ Underway
  BY DEF CurveInv
<1> DEFINE Product == [base : Points, scalar : {Scalar(k) : k \in Inputs \cup {0}}, x : Field]
<1>2. table \in Seq(Points) /\ products \in Seq(Product) /\ Len(table) \in Nat /\ Len(products) \in Nat
  BY <1>1 DEF TableOfPoints, KeptProducts
<1> HIDE DEF Product
<1>3. ASSUME NEW base \in Points, NEW exp \in Inputs, BeginProduct(base, exp) PROVE CurveInv'
  <2>1. /\ ecStep' = "table" /\ exponent' = exp /\ table' = <<base>>
        /\ result' = result /\ j' = j /\ products' = products /\ Len(products) < 2
    BY <1>3 DEF BeginProduct
  <2>2. <<base>> \in Seq(Points) /\ Len(<<base>>) = 1 /\ <<base>> # <<>>
    OBVIOUS
  <2>3. TableOfPoints' /\ KeptProducts'
    BY <1>1, <2>1, <2>2 DEF TableOfPoints, KeptProducts
  <2>4. CurveTypeOK'
    <3>1. \A k \in DOMAIN table' : table'[k] \in Points
      BY <2>3, SeqDomain DEF TableOfPoints
    <3> QED
      BY <1>1, <2>1, <3>1 DEF CurveTypeOK
  <2>5. Underway'
    BY <2>1, <2>2, BitsAreNat DEF Underway
  <2> QED
    BY <2>3, <2>4, <2>5 DEF CurveInv
<1>4. ASSUME ecStep' = "thrown", UNCHANGED <<exponent, table, result, j, products>> PROVE CurveInv'
  <2>1. TableOfPoints' /\ KeptProducts'
    BY <1>1, <1>4 DEF TableOfPoints, KeptProducts
  <2>2. CurveTypeOK'
    BY <1>1, <1>4 DEF CurveTypeOK
  <2>3. Underway'
    BY <1>4 DEF Underway
  <2> QED
    BY <2>1, <2>2, <2>3 DEF CurveInv
<1>5. ASSUME Double PROVE CurveInv'
  <2>1. CASE Throw(Last[2] = 0)
    BY <1>4, <2>1 DEF Throw
  <2>2. CASE ~Throw(Last[2] = 0)
    <3>1. /\ ecStep = "table" /\ Len(table) <= SECRET_BITWIDTH /\ Last[2] # 0
          /\ table' = Append(table, doubleBigIntegerAffinePoint(Last))
          /\ UNCHANGED <<ecStep, exponent, result, j, products>>
      BY <1>5, <2>2 DEF Double
    <3>2. doubleBigIntegerAffinePoint(Last) \in Points
      BY <1>1, <3>1, Entries, DoubleIsPoint DEF Underway
    <3> PICK d \in Points : d = doubleBigIntegerAffinePoint(Last)
      BY <3>2
    <3>3. table' \in Seq(Points) /\ Len(table') = Len(table) + 1 /\ table' # <<>>
      BY <1>2, <3>1
    <3>4. TableOfPoints' /\ KeptProducts'
      BY <1>1, <3>1, <3>3 DEF TableOfPoints, KeptProducts
    <3>5. CurveTypeOK'
      <4>1. \A k \in DOMAIN table' : table'[k] \in Points
        BY <3>3, SeqDomain
      <4> QED
        BY <1>1, <3>1, <4>1 DEF CurveTypeOK
    <3>6. Underway'
      BY <1>1, <1>2, <3>1, <3>3, BitsAreNat DEF Underway
    <3> QED
      BY <3>4, <3>5, <3>6 DEF CurveInv
  <2> QED
    BY <2>1, <2>2
<1>6. ASSUME BeginLoop PROVE CurveInv'
  <2>1. /\ ecStep = "table" /\ Len(table) = SECRET_BITWIDTH + 1
        /\ ecStep' = "add" /\ result' = Last /\ j' = SECRET_BITWIDTH - 1
        /\ UNCHANGED <<exponent, table, products>>
    BY <1>6 DEF BeginLoop
  <2>2. Last \in Points
    BY <1>1, <2>1, Entries DEF Underway
  <2>3. j' \in -1 .. SECRET_BITWIDTH - 1 /\ j' \in -1 .. SECRET_BITWIDTH
    BY <2>1, BitsAreNat
  <2>4. TableOfPoints' /\ KeptProducts'
    BY <1>1, <2>1 DEF TableOfPoints, KeptProducts
  <2>5. CurveTypeOK'
    BY <1>1, <2>1, <2>2, <2>3 DEF CurveTypeOK
  <2>6. Underway'
    BY <1>1, <2>1, <2>2, <2>3 DEF Underway
  <2> QED
    BY <2>4, <2>5, <2>6 DEF CurveInv
<1>7. ASSUME Add PROVE CurveInv'
  <2>1. CASE Throw(result[1] = table[j + 1][1])
    BY <1>4, <2>1 DEF Throw
  <2>2. CASE ~Throw(result[1] = table[j + 1][1])
    <3>1. /\ ecStep = "add" /\ j >= 0 /\ result[1] # table[j + 1][1]
          /\ result' = IF secretBit(j) = 1 THEN addBigIntegerAffinePoints(result, table[j + 1])
                                           ELSE result
          /\ j' = j - 1
          /\ UNCHANGED <<ecStep, exponent, table, products>>
      BY <1>7, <2>2 DEF Add
    <3>2. /\ result \in Points /\ table # <<>> /\ Len(table) = SECRET_BITWIDTH + 1
          /\ j \in -1 .. SECRET_BITWIDTH - 1
      BY <1>1, <3>1 DEF Underway
    <3>3. j + 1 \in 1 .. Len(table) /\ j' \in -1 .. SECRET_BITWIDTH - 1 /\ j' \in -1 .. SECRET_BITWIDTH
      BY <3>1, <3>2, BitsAreNat
    <3>4. table[j + 1] \in Points
      BY <1>1, <3>2, <3>3, Entries
    <3>5. addBigIntegerAffinePoints(result, table[j + 1]) \in Points
      BY <3>1, <3>2, <3>4, SumIsPoint
    <3>6. result' \in Points
      BY <3>1, <3>2, <3>5
    <3>7. TableOfPoints' /\ KeptProducts'
      BY <1>1, <3>1 DEF TableOfPoints, KeptProducts
    <3>8. CurveTypeOK'
      BY <1>1, <3>1, <3>3, <3>6 DEF CurveTypeOK
    <3>9. Underway'
      BY <1>1, <3>1, <3>3, <3>6 DEF Underway
    <3> QED
      BY <3>7, <3>8, <3>9 DEF CurveInv
  <2> QED
    BY <2>1, <2>2
<1>8. ASSUME Subtract PROVE CurveInv'
  <2>1. CASE Throw(result[1] = Last[1])
    BY <1>4, <2>1 DEF Throw
  <2>2. CASE ~Throw(result[1] = Last[1])
    <3> DEFINE made == [ base |-> table[1], scalar |-> Scalar(exponent),
                         x |-> subAffinePoints(result, Last)[1] ]
    <3>1. /\ ecStep = "add" /\ result[1] # Last[1] /\ ecStep' = "idle"
          /\ products' = Append(products, made)
          /\ exponent' = 0 /\ table' = <<>> /\ result' = NoPoint /\ j' = 0
      BY <1>8, <2>2 DEF Subtract
    <3>2. result \in Points /\ table # <<>> /\ Len(products) < 2 /\ Len(table) = SECRET_BITWIDTH + 1
      BY <1>1, <3>1 DEF Underway
    <3>3. Last \in Points /\ table[1] \in Points
      <4>1. 1 \in 1 .. Len(table)
        BY <3>2, BitsAreNat
      <4> QED
        BY <1>1, <3>2, <4>1, Entries
    <3>4. made \in Product
      <4>1. subAffinePoints(result, Last)[1] \in Field
        BY <3>1, <3>2, <3>3, DifferenceInField
      <4>2. exponent \in Inputs \cup {0}
        BY <1>1 DEF CurveTypeOK
      <4> QED
        BY <3>3, <4>1, <4>2 DEF Product
    <3> HIDE DEF made
    <3>5. products' \in Seq(Product) /\ Len(products') = Len(products) + 1
      BY <1>2, <3>1, <3>4
    <3>6. \A S : <<>> \in Seq(S) /\ Len(<<>>) = 0 /\ DOMAIN <<>> = {}
      OBVIOUS
    <3>7. TableOfPoints' /\ KeptProducts'
      BY <3>1, <3>5, <3>6 DEF TableOfPoints, KeptProducts, Product
    <3>8. CurveTypeOK'
      <4>1. Len(products') <= 2 /\ 0 \in -1 .. SECRET_BITWIDTH
        BY <1>2, <3>2, <3>5, BitsAreNat
      <4> QED
        BY <3>1, <3>6, <4>1 DEF CurveTypeOK
    <3>9. Underway'
      BY <3>1 DEF Underway
    <3> QED
      BY <3>7, <3>8, <3>9 DEF CurveInv
  <2> QED
    BY <2>1, <2>2
<1>9. ASSUME NEW p1 \in Points, NEW p2 \in Points, Combine(p1, p2) PROVE CurveInv'
  <2>1. CASE Throw(p1[1] = p2[1])
    BY <1>4, <2>1 DEF Throw
  <2>2. CASE ~Throw(p1[1] = p2[1])
    <3>1. /\ p1[1] # p2[1] /\ ecStep' = "encrypted"
          /\ result' = addBigIntegerAffinePoints(p1, p2)
          /\ UNCHANGED <<exponent, table, j, products>>
      BY <1>9, <2>2 DEF Combine
    <3>2. result' \in Points
      BY <3>1, SumIsPoint
    <3>3. TableOfPoints' /\ KeptProducts'
      BY <1>1, <3>1 DEF TableOfPoints, KeptProducts
    <3>4. CurveTypeOK'
      BY <1>1, <3>1, <3>2 DEF CurveTypeOK
    <3>5. Underway'
      BY <3>1 DEF Underway
    <3> QED
      BY <3>3, <3>4, <3>5 DEF CurveInv
  <2> QED
    BY <2>1, <2>2
<1>10. ASSUME UNCHANGED curveVars PROVE CurveInv'
  BY <1>1, <1>10 DEF curveVars, CurveInv, CurveTypeOK, TableOfPoints, KeptProducts, Underway, Last
<1> QED
  BY <1>3, <1>5, <1>6, <1>7, <1>8, <1>9, <1>10 DEF CurveNext

LEMMA CurveInvHolds == CurveSpec => []CurveInv
<1> QED
  BY InitCurveInv, CurveInvStep, PTL DEF CurveSpec

\* The type invariant of CurveMul: the arithmetic never leaves the curve.
THEOREM CurveTypeCorrect == CurveSpec => []CurveTypeOK
<1>1. CurveInv => CurveTypeOK
  BY DEF CurveInv
<1> QED
  BY <1>1, CurveInvHolds, PTL

-----------------------------------------------------------------------------
(***************************************************************************)
(* The app: a part takes its own steps only, and its variables change in   *)
(* no other's, so what is proved of a part is true of the app.             *)
(***************************************************************************)

LEMMA PartsRun ==
  AppSpec => SignUpSpec /\ ListSpec /\ SessionSpec /\ FormSpec /\ CurveSpec
<1>1. AppInit => SignUpInit /\ ListInit /\ SessionInit /\ FormInit /\ CurveInit
  BY DEF AppInit
<1>2. [AppNext]_appVars => /\ [SignUpNext]_signUpVars /\ [ListNext]_listVars
                          /\ [SessionNext]_sessionVars /\ [FormNext]_formVars
                          /\ [CurveNext]_curveVars
  BY DEF AppNext, appVars
<1> QED
  BY <1>1, <1>2, PTL DEF AppSpec, SignUpSpec, ListSpec, SessionSpec, FormSpec, CurveSpec

\* Every part's state has its type, whichever runs; for the arithmetic this says
\* that it stays on the curve.
THEOREM AppTypeCorrect == AppSpec => []AppTypeOK
<1>1. AppSpec => [](part \in Parts)
  <2>1. AppInit => part \in Parts
    BY DEF AppInit
  <2>2. part \in Parts /\ [AppNext]_appVars => (part \in Parts)'
    BY DEF AppNext, appVars, Parts
  <2> QED
    BY <2>1, <2>2, PTL DEF AppSpec
<1>2. part \in Parts /\ SignUpTypeOK /\ ListTypeOK /\ SessionTypeOK /\ FormTypeOK /\ CurveTypeOK
      => AppTypeOK
  BY DEF AppTypeOK
<1> QED
  BY <1>1, <1>2, PartsRun, SignUpTypeCorrect, ListTypeCorrect, SessionTypeCorrect,
     FormTypeCorrect, CurveTypeCorrect, PTL
=============================================================================
