-------------------------- MODULE AdminSessionProofs --------------------------
(***************************************************************************)
(* Proofs about AdminSession, for any texts, passwords, screens and        *)
(* requests and any order in which screens are made: the sign-up form,     *)
(* type correctness, that somebody is signed in where an administrator's   *)
(* screen asks for the user, and that it shows the current one.            *)
(***************************************************************************)
EXTENDS AdminSession, SequenceTheorems, TLAPS

-----------------------------------------------------------------------------
(* The form that the two sign-up screens share *)

\* The watchers keep a form a form.
LEMMA FormTypes ==
  ASSUME NEW f \in Forms
  PROVE  /\ \A t \in Texts : WithId(f, t) \in Forms
         /\ \A p \in Passwords : WithPw(f, p) \in Forms /\ WithPw2(f, p) \in Forms
<1>1. ASSUME NEW t \in Texts PROVE WithId(f, t) \in Forms
  <2>1. (f.check_id /\ Lower[t] = f.userid) \in BOOLEAN
    OBVIOUS
  <2> QED
    BY <2>1 DEF Forms, WithId
<1>2. ASSUME NEW p \in Passwords PROVE WithPw(f, p) \in Forms
  <2>1. (p = f.pw2) \in BOOLEAN /\ (p \in Long) \in BOOLEAN
    OBVIOUS
  <2> QED
    BY <2>1 DEF Forms, WithPw
<1>3. ASSUME NEW p \in Passwords PROVE WithPw2(f, p) \in Forms
  <2>1. (p = f.pw) \in BOOLEAN
    OBVIOUS
  <2> QED
    BY <2>1 DEF Forms, WithPw2
<1> QED
  BY <1>1, <1>2, <1>3

\* What the watchers leave alone.
LEMMA WatcherFacts ==
  ASSUME NEW f \in Forms, NEW t \in Texts, NEW p \in Passwords
  PROVE  /\ WithId(f, t).id = t /\ WithId(f, t).userid = f.userid
         /\ WithId(f, t).check_id => f.check_id /\ Lower[t] = f.userid
         /\ WithPw(f, p).id = f.id /\ WithPw(f, p).userid = f.userid
         /\ WithPw(f, p).check_id = f.check_id
         /\ WithPw2(f, p).id = f.id /\ WithPw2(f, p).userid = f.userid
         /\ WithPw2(f, p).check_id = f.check_id
BY DEF Forms, WithId, WithPw, WithPw2

LEMMA EmptyFacts == EmptyForm \in Forms /\ ~EmptyForm.check_id
BY FieldsAssumption DEF EmptyForm, Forms

\* A screen made again has an unchecked id.
LEMMA RecreatedFacts ==
  ASSUME NEW f \in Forms
  PROVE  Recreated(f) \in Forms /\ ~Recreated(f).check_id
<1>1. f.id \in Texts /\ f.pw \in Passwords /\ f.pw2 \in Passwords
  BY DEF Forms
<1>2. WithId(EmptyForm, f.id) \in Forms /\ ~WithId(EmptyForm, f.id).check_id
  BY <1>1, EmptyFacts, FormTypes, WatcherFacts
<1>3. /\ WithPw(WithId(EmptyForm, f.id), f.pw) \in Forms
      /\ ~WithPw(WithId(EmptyForm, f.id), f.pw).check_id
  BY <1>1, <1>2, FormTypes, WatcherFacts
<1> DEFINE g == WithPw(WithId(EmptyForm, f.id), f.pw)
<1>4. Recreated(f) = WithPw2(g, f.pw2)
  BY DEF Recreated
<1>5. WithPw2(g, f.pw2) \in Forms /\ WithPw2(g, f.pw2).check_id = g.check_id
  <2> HIDE DEF g
  <2>1. g \in Forms
    BY <1>3 DEF g
  <2>2. WithPw2(g, f.pw2) \in Forms
    BY <1>1, <2>1, FormTypes
  <2>3. WithPw2(g, f.pw2).check_id = g.check_id
    BY <1>1, <2>1, FieldsAssumption, WatcherFacts
  <2> QED
    BY <2>2, <2>3
<1> QED
  BY <1>3, <1>4, <1>5

\* What a set flag of the passwords stands for.
PasswordsAgree(f) == f.check_pw => f.pw = f.pw2

\* The watchers keep it so.
LEMMA FlagKept ==
  ASSUME NEW f \in Forms, PasswordsAgree(f)
  PROVE  /\ \A t \in Texts : PasswordsAgree(WithId(f, t))
         /\ \A p \in Passwords : PasswordsAgree(WithPw(f, p)) /\ PasswordsAgree(WithPw2(f, p))
BY DEF PasswordsAgree, Forms, WithId, WithPw, WithPw2

LEMMA FlagAfresh ==
  /\ PasswordsAgree(EmptyForm)
  /\ \A f \in Forms : PasswordsAgree(Recreated(f))
<1>1. PasswordsAgree(EmptyForm)
  BY DEF PasswordsAgree, EmptyForm
<1>2. ASSUME NEW f \in Forms PROVE PasswordsAgree(Recreated(f))
  <2> DEFINE g == WithId(EmptyForm, f.id)
             h == WithPw(g, f.pw)
  <2>1. f.id \in Texts /\ f.pw \in Passwords /\ f.pw2 \in Passwords
    BY DEF Forms
  <2>2. g \in Forms /\ PasswordsAgree(g)
    BY <1>1, <2>1, EmptyFacts, FormTypes, FlagKept
  <2> HIDE DEF g
  <2>3. h \in Forms /\ PasswordsAgree(h)
    BY <2>1, <2>2, FormTypes, FlagKept
  <2>4. Recreated(f) = WithPw2(h, f.pw2)
    BY DEF Recreated, g
  <2> HIDE DEF h
  <2> QED
    BY <2>1, <2>3, <2>4, FlagKept
<1> QED
  BY <1>1, <1>2

-----------------------------------------------------------------------------
(* The administrator's sign-up *)

CredentialsInv == adminForm \in Forms /\ adminDialog \in BOOLEAN /\ PasswordsAgree(adminForm)

LEMMA InitCredentialsInv == SessionInit => CredentialsInv
BY EmptyFacts, FlagAfresh DEF SessionInit, CredentialsInv

LEMMA CredentialsInvStep == CredentialsInv /\ [SessionNext]_sessionVars => CredentialsInv'
<1> SUFFICES ASSUME CredentialsInv, [SessionNext]_sessionVars PROVE CredentialsInv'
  OBVIOUS
<1> USE DEF CredentialsInv
<1>0. adminForm.id \in Texts /\ Lower[adminForm.id] \in Texts
  BY LowerAssumption DEF Forms
<1>1. FormKept \/ FormGone => CredentialsInv'
  BY EmptyFacts, FlagAfresh DEF FormKept, FormGone, PasswordsAgree
<1>2. \A cause : Die(cause) => CredentialsInv'
  BY <1>1 DEF Die
<1>3. CASE AdminType
  BY <1>3, FormTypes, FlagKept DEF AdminType
<1>4. CASE AdminCheckId
  <2>1. adminForm' = [ adminForm EXCEPT !.userid = Lower[adminForm.id],
                       !.check_id = @ /\ Lower[adminForm.id] \in Lettered ]
    BY <1>4 DEF AdminCheckId
  <2>2. (adminForm.check_id /\ Lower[adminForm.id] \in Lettered) \in BOOLEAN
    OBVIOUS
  <2>3. adminForm' \in Forms
    BY <1>0, <2>1, <2>2 DEF Forms
  <2>4. /\ adminForm'.check_pw = adminForm.check_pw
        /\ adminForm'.pw = adminForm.pw /\ adminForm'.pw2 = adminForm.pw2
    BY <1>0, <2>1 DEF Forms
  <2>5. (Lower[adminForm.id] \in Lettered) \in BOOLEAN
    OBVIOUS
  <2>6. adminDialog' \in BOOLEAN
    BY <1>4, <2>5, Zenon DEF AdminCheckId
  <2> QED
    BY <2>3, <2>4, <2>6 DEF PasswordsAgree
<1>5. CASE AdminConfirm
  <2>1. adminForm' = [adminForm EXCEPT !.check_id = TRUE] /\ adminDialog' = FALSE
    BY <1>5 DEF AdminConfirm
  <2>2. /\ adminForm' \in Forms
        /\ adminForm'.check_pw = adminForm.check_pw
        /\ adminForm'.pw = adminForm.pw /\ adminForm'.pw2 = adminForm.pw2
    BY <2>1 DEF Forms
  <2> QED
    BY <2>1, <2>2 DEF PasswordsAgree
<1>6. CASE TurnAdmin
  <2>1. \/ FormKept \/ Die("nouser")
        \/ adminForm' = Recreated(adminForm) /\ adminDialog' = FALSE
    BY <1>6 DEF TurnAdmin
  <2> QED
    BY <1>1, <1>2, <2>1, RecreatedFacts, FlagAfresh
<1>7. CASE OpenAdminLogin
  BY <1>1, <1>7 DEF OpenAdminLogin, FormKept
<1>8. ASSUME NEW k \in DOMAIN stack, StopCovered(k) PROVE CredentialsInv'
  BY <1>1, <1>8 DEF StopCovered, FormKept
<1>9. ASSUME NEW id \in Texts, LogIn(id) PROVE CredentialsInv'
  BY <1>1, <1>9 DEF LogIn, FormKept
<1>10. CASE AdminFinish
  BY <1>1, <1>10 DEF AdminFinish, FormKept
<1>11. ASSUME NEW s \in Slots, NEW ok \in BOOLEAN, SignInDone(s, ok) PROVE CredentialsInv'
  BY <1>1, <1>11 DEF SignInDone, FormKept
<1>12. ASSUME NEW s \in Slots, NEW made \in BOOLEAN, NEW ok \in BOOLEAN, SignUpDone(s, made, ok)
       PROVE  CredentialsInv'
  BY <1>1, <1>2, <1>12 DEF SignUpDone
<1>13. CASE AdminBack \/ Back \/ OpenAdminVote
  BY <1>1, <1>2, <1>13 DEF AdminBack, Back, OpenAdminVote
<1>14. CASE OpenCreate \/ OpenAdminSignUp
  BY <1>1, <1>14 DEF OpenCreate, OpenAdminSignUp, FormKept
<1>15. ASSUME NEW k \in DOMAIN starts, Create(k) PROVE CredentialsInv'
  BY <1>1, <1>2, <1>15 DEF Create, FormKept
<1>16. CASE UNCHANGED sessionVars
  BY <1>1, <1>16 DEF sessionVars, FormKept
<1> QED
  BY <1>3, <1>4, <1>5, <1>6, <1>7, <1>8, <1>9, <1>10, <1>11, <1>12, <1>13, <1>14, <1>15, <1>16
     DEF SessionNext

LEMMA CredentialsInvHolds == SessionSpec => []CredentialsInv
BY InitCredentialsInv, CredentialsInvStep, PTL DEF SessionSpec

\* The toast that must never appear does not, whatever screens come and go.
THEOREM ToastNeverHolds == SessionSpec => []ToastNever
<1>1. CredentialsInv => ToastNever
  BY DEF CredentialsInv, PasswordsAgree, ToastNever, AdminToast
<1> QED
  BY <1>1, CredentialsInvHolds, PTL

-----------------------------------------------------------------------------
(* Lemmas about the stack of screens and the requests *)

Stacks == Seq(Screens)
Users  == Texts \cup {NoId}
Asked  == [Slots -> Tasks \cup {NoTask}]

USE FieldsAssumption, LowerAssumption, SessionAssumption

\* Leaving the top screen keeps those below it.
LEMMA BelowFacts ==
  ASSUME stack \in Stacks, stack # <<>>
  PROVE  /\ Below \in Stacks /\ Len(Below) = Len(stack) - 1 /\ Len(stack) \in Nat \ {0}
         /\ \A k \in 1 .. Len(Below) : Below[k] = stack[k]
<1>1. Len(stack) \in Nat \ {0} /\ \A k \in 1 .. Len(stack) - 1 : stack[k] \in Screens
  BY DEF Stacks
<1>2. Len(stack) - 1 \in Nat /\ 1 \in Int /\ Len(stack) - 1 \in Int
  BY <1>1
<1>3. /\ SubSeq(stack, 1, Len(stack) - 1) \in Seq(Screens)
      /\ Len(SubSeq(stack, 1, Len(stack) - 1)) =
            IF 1 <= Len(stack) - 1 THEN (Len(stack) - 1) - 1 + 1 ELSE 0
      /\ \A k \in 1 .. (Len(stack) - 1) - 1 + 1 :
            SubSeq(stack, 1, Len(stack) - 1)[k] = stack[1 + k - 1]
  BY <1>1, <1>2, SubSeqProperties
<1>4. \A n \in Nat : (IF 1 <= n THEN n - 1 + 1 ELSE 0) = n /\ n - 1 + 1 = n /\ 1 + n - 1 = n
  OBVIOUS
<1>5. Below = SubSeq(stack, 1, Len(stack) - 1)
  BY DEF Below
<1> HIDE DEF Below
<1>6. Len(Below) = Len(stack) - 1
  BY <1>2, <1>3, <1>4, <1>5
<1>7. \A k \in 1 .. Len(Below) : Below[k] = stack[k]
  BY <1>2, <1>3, <1>4, <1>5, <1>6
<1> QED
  BY <1>1, <1>3, <1>5, <1>6, <1>7 DEF Stacks

\* The screen that comes back is the one it was, of its owner or of the user.
LEMMA UncoveredFacts ==
  ASSUME NEW below \in Stacks, NEW user \in Users
  PROVE  /\ Uncovered(below, user) \in Stacks
         /\ Len(Uncovered(below, user)) = Len(below)
         /\ \A k \in 1 .. Len(below) :
               /\ Uncovered(below, user)[k].screen = below[k].screen
               /\ Uncovered(below, user)[k].owner \in {below[k].owner, Showing(below[k].screen, user)}
<1>1. CASE below = <<>>
  BY <1>1 DEF Uncovered
<1>2. CASE below # <<>>
  <2> DEFINE n == Len(below)
             shown == Showing(below[n].screen, user)
             top == [below[n] EXCEPT !.stopped = FALSE,
                                     !.owner = IF below[n].stopped THEN shown ELSE below[n].owner]
  <2>1. n \in Nat \ {0} /\ n \in 1 .. n /\ below[n] \in Screens /\ shown \in Users
    BY <1>2 DEF Stacks, Showing, Users
  <2> HIDE DEF shown
  <2>2. top \in Screens /\ top.screen = below[n].screen /\ top.owner \in {below[n].owner, shown}
    BY <2>1 DEF Screens, Users
  <2>3. Uncovered(below, user) = [below EXCEPT ![n] = top]
    BY <1>2, <2>1 DEF Uncovered, Stacks, Screens, shown
  <2> HIDE DEF top
  <2>4. [below EXCEPT ![n] = top] \in Seq(Screens) /\ Len([below EXCEPT ![n] = top]) = n
    BY <2>1, <2>2 DEF Stacks
  <2>5. \A k \in 1 .. n : [below EXCEPT ![n] = top][k] = IF k = n THEN top ELSE below[k]
    BY <2>1 DEF Stacks
  <2> QED
    BY <2>2, <2>3, <2>4, <2>5 DEF Stacks, shown
<1> QED
  BY <1>1, <1>2

\* Closing the sign-up screen adds no screen.
LEMMA WithoutSignUpFacts ==
  ASSUME stack \in Stacks
  PROVE  /\ WithoutSignUp \in Stacks
         /\ \A i \in 1 .. Len(WithoutSignUp) : \E k \in 1 .. Len(stack) : WithoutSignUp[i] = stack[k]
<1>1. CASE \E k \in DOMAIN stack : stack[k].screen = "signup"
  <2> DEFINE k == CHOOSE j \in DOMAIN stack : stack[j].screen = "signup"
             lower == SubSeq(stack, 1, k - 1)
             upper == SubSeq(stack, k + 1, Len(stack))
             Kept == {stack[j] : j \in 1 .. Len(stack)}
  <2>1. k \in DOMAIN stack /\ WithoutSignUp = lower \o upper
    BY <1>1 DEF WithoutSignUp
  <2> HIDE DEF k
  <2>2. k \in 1 .. Len(stack) /\ Len(stack) \in Nat /\ 1 \in Int /\ k - 1 \in Int /\ k + 1 \in Int /\ Len(stack) \in Int
    BY <2>1 DEF Stacks
  <2>3. (\A i \in 1 .. k - 1 : stack[i] \in Kept) /\ (\A i \in k + 1 .. Len(stack) : stack[i] \in Kept)
    BY <2>2
  <2> HIDE DEF Kept
  <2>4. lower \in Seq(Kept) /\ upper \in Seq(Kept)
    BY <2>2, <2>3, SubSeqProperties
  <2> HIDE DEF lower, upper
  <2>5. lower \o upper \in Seq(Kept)
    BY <2>4
  <2> PICK w : w = WithoutSignUp
    OBVIOUS
  <2>6. w \in Seq(Kept)
    BY <2>1, <2>5
  <2>7. Kept \subseteq Screens
    BY DEF Kept, Stacks
  <2>8. w \in Seq(Screens)
    BY <2>6, <2>7
  <2>9. \A i \in 1 .. Len(w) : w[i] \in Kept
    BY <2>6
  <2> QED
    BY <2>8, <2>9 DEF Kept, Stacks
<1>2. CASE ~ \E k \in DOMAIN stack : stack[k].screen = "signup"
  BY <1>2 DEF WithoutSignUp, Stacks
<1> QED
  BY <1>1, <1>2

LEMMA TaskFacts ==
  /\ NoTask \notin Tasks
  /\ \A op \in {"signin", "signup"}, id \in Texts : [op |-> op, id |-> id, heard |-> TRUE] \in Tasks
  /\ \A t \in Tasks : /\ [t EXCEPT !.heard = FALSE] \in Tasks
                      /\ [t EXCEPT !.heard = FALSE].op = t.op
                      /\ ~[t EXCEPT !.heard = FALSE].heard
BY DEF NoTask, Tasks

\* Deafness makes no request and answers none.
LEMMA UnheardFacts ==
  ASSUME tasks \in Asked, NEW op \in {"signin", "signup"}
  PROVE  /\ Unheard(op) \in Asked
         /\ \A s \in Slots :
               /\ (Unheard(op)[s] = NoTask) <=> (tasks[s] = NoTask)
               /\ (tasks[s] # NoTask /\ Unheard(op)[s].heard) => Unheard(op)[s] = tasks[s] /\ tasks[s].op # op
<1>1. \A s \in Slots : Unheard(op)[s] = IF tasks[s].op = op THEN [tasks[s] EXCEPT !.heard = FALSE] ELSE tasks[s]
  BY DEF Unheard
<1>2. \A s \in Slots : tasks[s] \in Tasks \/ (tasks[s] = NoTask /\ tasks[s].op # op)
  BY DEF Asked, NoTask
<1>3. \A s \in Slots : Unheard(op)[s] \in Tasks \cup {NoTask}
  BY <1>1, <1>2, TaskFacts
<1>4. Unheard(op) = [s \in Slots |-> Unheard(op)[s]]
  BY DEF Unheard
<1>5. Unheard(op) \in Asked
  BY <1>3, <1>4 DEF Asked
<1>6. ASSUME NEW s \in Slots
      PROVE  /\ (Unheard(op)[s] = NoTask) <=> (tasks[s] = NoTask)
             /\ (tasks[s] # NoTask /\ Unheard(op)[s].heard) => Unheard(op)[s] = tasks[s] /\ tasks[s].op # op
  <2>1. CASE tasks[s] = NoTask
    BY <1>1, <1>2, <2>1, TaskFacts
  <2>2. CASE tasks[s] \in Tasks /\ tasks[s].op = op
    BY <1>1, <2>2, TaskFacts
  <2>3. CASE tasks[s] \in Tasks /\ tasks[s].op # op
    BY <1>1, <2>3, TaskFacts
  <2> QED
    BY <1>2, <2>1, <2>2, <2>3
<1> QED
  BY <1>5, <1>6

\* A screen made is put on top of the others.
LEMMA PushFacts ==
  ASSUME stack \in Stacks, NEW screen \in Names, NEW user \in Users
  PROVE  LET new == Append(stack, [screen |-> screen, stopped |-> FALSE, owner |-> user])
         IN  /\ new \in Stacks /\ Len(new) = Len(stack) + 1 /\ Len(stack) \in Nat
             /\ \A k \in 1 .. Len(stack) : new[k] = stack[k]
             /\ new[Len(new)].screen = screen /\ new[Len(new)].owner = user
<1> DEFINE x == [screen |-> screen, stopped |-> FALSE, owner |-> user]
<1>1. x \in Screens /\ x.screen = screen /\ x.owner = user
  BY DEF Screens, Users
<1> HIDE DEF x
<1>2. /\ Append(stack, x) \in Seq(Screens) /\ Len(Append(stack, x)) = Len(stack) + 1 /\ Len(stack) \in Nat
      /\ \A k \in 1 .. Len(stack) : Append(stack, x)[k] = stack[k]
      /\ Append(stack, x)[Len(stack) + 1] = x
  BY <1>1 DEF Stacks
<1> QED
  BY <1>1, <1>2 DEF Stacks, x

\* A screen stopped, or shown again, is the screen it was.
LEMMA TouchFacts ==
  ASSUME stack \in Stacks, NEW k \in 1 .. Len(stack), NEW user \in Users
  PROVE  LET stoppedOne == [stack EXCEPT ![k].stopped = TRUE]
             shownOne   == [stack EXCEPT ![k].owner = user]
         IN  /\ stoppedOne \in Stacks /\ shownOne \in Stacks
             /\ Len(stoppedOne) = Len(stack) /\ Len(shownOne) = Len(stack)
             /\ \A j \in 1 .. Len(stack) :
                   /\ stoppedOne[j].screen = stack[j].screen /\ stoppedOne[j].owner = stack[j].owner
                   /\ shownOne[j].screen = stack[j].screen
                   /\ shownOne[j].owner = IF j = k THEN user ELSE stack[j].owner
<1> DEFINE x == [stack[k] EXCEPT !.stopped = TRUE]
           y == [stack[k] EXCEPT !.owner = user]
<1>1. stack[k] \in Screens
  BY DEF Stacks
<1>2. /\ x \in Screens /\ x.screen = stack[k].screen /\ x.owner = stack[k].owner
      /\ y \in Screens /\ y.screen = stack[k].screen /\ y.owner = user
  BY <1>1 DEF Screens, Users
<1>3. [stack EXCEPT ![k].stopped = TRUE] = [stack EXCEPT ![k] = x] /\ [stack EXCEPT ![k].owner = user] = [stack EXCEPT ![k] = y]
  BY Zenon
<1> HIDE DEF x, y
<1>4. /\ [stack EXCEPT ![k] = x] \in Seq(Screens) /\ Len([stack EXCEPT ![k] = x]) = Len(stack)
      /\ [stack EXCEPT ![k] = y] \in Seq(Screens) /\ Len([stack EXCEPT ![k] = y]) = Len(stack)
  BY <1>2 DEF Stacks
<1>5. \A j \in 1 .. Len(stack) : /\ [stack EXCEPT ![k] = x][j] = IF j = k THEN x ELSE stack[j]
                                /\ [stack EXCEPT ![k] = y][j] = IF j = k THEN y ELSE stack[j]
  BY DEF Stacks
<1> PICK a, b : a = [stack EXCEPT ![k].stopped = TRUE] /\ b = [stack EXCEPT ![k].owner = user]
  OBVIOUS
<1>6. /\ a \in Stacks /\ b \in Stacks /\ Len(a) = Len(stack) /\ Len(b) = Len(stack)
      /\ \A j \in 1 .. Len(stack) : a[j] = (IF j = k THEN x ELSE stack[j]) /\ b[j] = (IF j = k THEN y ELSE stack[j])
  BY <1>3, <1>4, <1>5 DEF Stacks
<1>7. \A j \in 1 .. Len(stack) :
         /\ a[j].screen = stack[j].screen /\ a[j].owner = stack[j].owner
         /\ b[j].screen = stack[j].screen /\ b[j].owner = IF j = k THEN user ELSE stack[j].owner
  BY <1>2, <1>6
<1> QED
  BY <1>6, <1>7

\* The starts that are left when one has been served, in their order.
Others(k) == [j \in 1 .. Len(starts) - 1 |-> IF j < k THEN starts[j] ELSE starts[j + 1]]

LEMMA OthersFacts ==
  ASSUME starts \in Seq(Names), NEW k \in DOMAIN starts
  PROVE  /\ Others(k) \in Seq(Names) /\ starts[k] \in Names
         /\ \A j \in 1 .. Len(Others(k)) :
               \E i \in 1 .. Len(starts) : i # k /\ Others(k)[j] = starts[i] /\ i = IF j < k THEN j ELSE j + 1
<1>1. Len(starts) \in Nat /\ k \in 1 .. Len(starts) /\ Len(starts) - 1 \in Nat
  OBVIOUS
<1>2. \A j \in 1 .. Len(starts) - 1 :
         /\ (IF j < k THEN j ELSE j + 1) \in 1 .. Len(starts) /\ (IF j < k THEN j ELSE j + 1) # k
         /\ Others(k)[j] = starts[IF j < k THEN j ELSE j + 1]
  BY <1>1 DEF Others
<1>3. \A j \in 1 .. Len(starts) - 1 : Others(k)[j] \in Names
  BY <1>2
<1>4. Others(k) = [j \in 1 .. Len(starts) - 1 |-> Others(k)[j]]
  BY DEF Others
<1> HIDE DEF Others
<1>5. Others(k) \in Seq(Names) /\ Len(Others(k)) = Len(starts) - 1
  BY <1>1, <1>3, <1>4
<1> QED
  BY <1>1, <1>2, <1>5

LEMMA AskFacts ==
  ASSUME starts \in Seq(Names), NEW screen \in Names
  PROVE  /\ Append(starts, screen) \in Seq(Names) /\ Len(starts) \in Nat
         /\ Len(Append(starts, screen)) = Len(starts) + 1
         /\ \A j \in 1 .. Len(starts) : Append(starts, screen)[j] = starts[j]
         /\ Append(starts, screen)[Len(starts) + 1] = screen
OBVIOUS

-----------------------------------------------------------------------------
(* Type correctness *)

LEMMA SessionTypeInit == SessionInit => SessionTypeOK
<1> SUFFICES ASSUME SessionInit PROVE SessionTypeOK
  OBVIOUS
<1>1. stack \in Seq(Screens) /\ starts \in Seq(Names) /\ adminForm \in Forms
  BY EmptyFacts DEF SessionInit
<1> QED
  BY <1>1 DEF SessionInit, SessionTypeOK

\* The type invariant but for the form.
Typed ==
    /\ stack \in Stacks /\ starts \in Seq(Names)
    /\ currentUser \in Users /\ adminAccounts \subseteq Texts /\ tasks \in Asked
    /\ died \in {"no", "nouser", "dates"} /\ crowded \in BOOLEAN /\ leftOthers \in BOOLEAN

LEMMA TypeParts == SessionTypeOK /\ CredentialsInv <=> Typed /\ CredentialsInv
BY DEF SessionTypeOK, Typed, Stacks, Users, Asked, CredentialsInv

LEMMA ShowingFacts == \A screen \in Names, user \in Users : Showing(screen, user) \in Users
BY DEF Showing, Users

LEMMA DieTyped == \A cause \in {"nouser", "dates"} :
  Die(cause) => /\ stack' \in Stacks /\ starts' \in Seq(Names) /\ tasks' \in Asked
                /\ died' \in {"no", "nouser", "dates"}
<1>1. <<>> \in Stacks /\ <<>> \in Seq(Names) /\ [s \in Slots |-> NoTask] \in Asked
  BY DEF Stacks, Asked
<1> QED
  BY <1>1 DEF Die

LEMMA TypedStep == Typed /\ CredentialsInv /\ [SessionNext]_sessionVars => Typed'
<1> SUFFICES ASSUME Typed, CredentialsInv, [SessionNext]_sessionVars PROVE Typed'
  OBVIOUS
<1> USE DEF Typed
<1>1. NoId \in Users /\ Texts \subseteq Users
  BY DEF Users
<1>2. stack # <<>> => Below \in Stacks /\ \A user \in Users : Uncovered(Below, user) \in Stacks
  BY BelowFacts, UncoveredFacts
<1>3. Unheard("signin") \in Asked /\ Unheard("signup") \in Asked
  BY UnheardFacts
<1>4. \A s \in Slots :
         /\ [tasks EXCEPT ![s] = NoTask] \in Asked
         /\ [Unheard("signup") EXCEPT ![s] = NoTask] \in Asked
         /\ tasks[s] # NoTask => tasks[s].id \in Texts /\ tasks[s].heard \in BOOLEAN
  BY <1>3 DEF Asked, Tasks
<1>5. \A op \in {"signin", "signup"}, id \in Texts :
        Request(op, id) => tasks' \in Asked /\ crowded' \in BOOLEAN
  <2> SUFFICES ASSUME NEW op \in {"signin", "signup"}, NEW id \in Texts, Request(op, id)
               PROVE  tasks' \in Asked /\ crowded' \in BOOLEAN
    OBVIOUS
  <2>1. tasks' \in Asked
    BY TaskFacts DEF Request, Asked
  <2>2. crowded' = TRUE \/ crowded' = FALSE
    BY Zenon DEF Request
  <2> QED
    BY <2>1, <2>2
<1>6. \A screen \in Names : Start(screen) => starts' \in Seq(Names)
  BY AskFacts DEF Start
<1>7. "login" \in Names /\ "signup" \in Names /\ "admin" \in Names /\ "create" \in Names
  BY DEF Names
<1>10. CASE OpenAdminLogin
  BY <1>6, <1>7, <1>10 DEF OpenAdminLogin
<1>11. ASSUME NEW k \in DOMAIN stack, StopCovered(k) PROVE Typed'
  <2>1. stack' \in Stacks
    <3>1. k \in 1 .. Len(stack)
      BY DEF Stacks
    <3> QED
      BY <1>1, <1>11, <3>1, TouchFacts DEF StopCovered
  <2>2. tasks' \in Asked
    BY <1>3, <1>11 DEF StopCovered
  <2> QED
    BY <1>11, <2>1, <2>2 DEF StopCovered
<1>12. ASSUME NEW id \in Texts, LogIn(id) PROVE Typed'
  <2>1. Lower[id] \in Texts
    BY LowerAssumption
  <2> QED
    BY <1>5, <1>12, <2>1 DEF LogIn
<1>13. CASE OpenAdminSignUp \/ OpenCreate
  BY <1>6, <1>7, <1>13 DEF OpenAdminSignUp, OpenCreate
<1>14. CASE AdminType \/ AdminCheckId \/ AdminConfirm \/ UNCHANGED sessionVars
  BY <1>14 DEF AdminType, AdminCheckId, AdminConfirm, sessionVars
<1>15. CASE AdminFinish
  <2>1. Lower[adminForm.id] \in Texts
    BY LowerAssumption DEF CredentialsInv, Forms
  <2> QED
    BY <1>5, <1>15, <2>1 DEF AdminFinish
<1>16. ASSUME NEW s \in Slots, NEW ok \in BOOLEAN, SignInDone(s, ok) PROVE Typed'
  <2>1. crowded' \in BOOLEAN /\ currentUser' \in Users
    BY <1>1, <1>4, <1>16 DEF SignInDone
  <2>2. starts' \in Seq(Names)
    BY <1>6, <1>7, <1>16 DEF SignInDone
  <2>3. tasks' \in Asked
    BY <1>4, <1>16, Zenon DEF SignInDone, Done
  <2>4. UNCHANGED <<stack, adminAccounts, died, leftOthers>>
    BY <1>16 DEF SignInDone
  <2> QED
    BY <2>1, <2>2, <2>3, <2>4
<1>17. ASSUME NEW s \in Slots, NEW made \in BOOLEAN, NEW ok \in BOOLEAN, SignUpDone(s, made, ok)
       PROVE  Typed'
  <2>0. tasks[s].id \in Texts /\ tasks[s].heard \in BOOLEAN
    BY <1>4, <1>17, Zenon DEF SignUpDone
  <2>1. currentUser' \in Users /\ adminAccounts' \subseteq Texts /\ crowded' \in BOOLEAN
    <3>1. currentUser' = tasks[s].id \/ currentUser' = currentUser
      BY <1>17 DEF SignUpDone
    <3>2. adminAccounts' = adminAccounts \cup {tasks[s].id} \/ adminAccounts' = adminAccounts
      BY <1>17 DEF SignUpDone
    <3>3. crowded' = (crowded \/ ~tasks[s].heard)
      BY <1>17 DEF SignUpDone
    <3> QED
      BY <1>1, <2>0, <3>1, <3>2, <3>3
  <2>2. WithoutSignUp \in Stacks /\ \A user \in Users : Uncovered(WithoutSignUp, user) \in Stacks
    BY WithoutSignUpFacts, UncoveredFacts
  <2>3. /\ stack' \in Stacks /\ starts' \in Seq(Names) /\ tasks' \in Asked
        /\ died' \in {"no", "nouser", "dates"} /\ leftOthers' = leftOthers
    <3>1. \/ Done(s) /\ UNCHANGED <<stack, starts, died>>
          \/ Die("nouser")
          \/ /\ stack' \in {WithoutSignUp, Uncovered(WithoutSignUp, currentUser')}
             /\ tasks' = [Unheard("signup") EXCEPT ![s] = NoTask] /\ UNCHANGED <<starts, died>>
      BY <1>17 DEF SignUpDone
    <3>2. leftOthers' = leftOthers
      BY <1>17 DEF SignUpDone
    <3>3. CASE Done(s) /\ UNCHANGED <<stack, starts, died>>
      <4>1. tasks' \in Asked
        BY <1>4, <3>3, Zenon DEF Done
      <4> QED
        BY <3>2, <3>3, <4>1
    <3>4. CASE Die("nouser")
      BY <3>2, <3>4, DieTyped
    <3>5. CASE /\ stack' \in {WithoutSignUp, Uncovered(WithoutSignUp, currentUser')}
               /\ tasks' = [Unheard("signup") EXCEPT ![s] = NoTask] /\ UNCHANGED <<starts, died>>
      <4>1. tasks' \in Asked
        BY <1>4, <3>5, Zenon
      <4>2. stack' \in Stacks
        BY <2>1, <2>2, <3>5
      <4> QED
        BY <3>2, <3>5, <4>1, <4>2
    <3> QED
      BY <3>1, <3>3, <3>4, <3>5
  <2> QED
    BY <2>1, <2>3
<1>18. CASE AdminBack
  <2>1. leftOthers' \in BOOLEAN
    BY <1>18, Zenon DEF AdminBack
  <2> QED
    BY <1>1, <1>2, <1>18, <2>1, DieTyped DEF AdminBack, On
<1>19. CASE Back
  BY <1>2, <1>3, <1>19, DieTyped DEF Back, On
<1>20. CASE OpenAdminVote
  BY <1>20, DieTyped DEF OpenAdminVote
<1>21. CASE TurnAdmin
  <2>1. stack # <<>> /\ Len(stack) \in 1 .. Len(stack) /\ Top.screen \in Names
    <3>1. stack # <<>> /\ Len(stack) \in 1 .. Len(stack)
      BY <1>21 DEF TurnAdmin, Stacks
    <3>2. stack[Len(stack)] \in Screens
      BY <3>1 DEF Stacks
    <3> QED
      BY <3>1, <3>2 DEF Top, Screens
  <2>2. [stack EXCEPT ![Len(stack)].owner = Showing(Top.screen, currentUser)] \in Stacks
    BY <2>1, TouchFacts, ShowingFacts
  <2>3. [s \in Slots |-> IF tasks[s] = NoTask THEN NoTask ELSE [tasks[s] EXCEPT !.heard = FALSE]] \in Asked
    <3>1. \A s \in Slots : (IF tasks[s] = NoTask THEN NoTask ELSE [tasks[s] EXCEPT !.heard = FALSE])
                             \in Tasks \cup {NoTask}
      BY TaskFacts DEF Asked
    <3> QED
      BY <3>1 DEF Asked
  <2> QED
    BY <1>21, <2>2, <2>3, DieTyped DEF TurnAdmin
<1>22. ASSUME NEW k \in DOMAIN starts, Create(k) PROVE Typed'
  <2>1. Others(k) \in Seq(Names) /\ starts[k] \in Names
    BY OthersFacts
  <2>2. Append(stack, [ screen |-> starts[k], stopped |-> FALSE,
                        owner |-> Showing(starts[k], currentUser) ]) \in Stacks
    BY <2>1, ShowingFacts, PushFacts
  <2> QED
    BY <1>22, <2>1, <2>2, DieTyped DEF Create, Others
<1> QED
  BY <1>10, <1>11, <1>12, <1>13, <1>14, <1>15, <1>16, <1>17, <1>18, <1>19, <1>20, <1>21, <1>22
     DEF SessionNext

-----------------------------------------------------------------------------
(* Somebody is signed in where an administrator's screen is *)

\* Nobody is signed in only when no administrator's screen is there or asked for.
UserInv ==
    ~leftOthers => died # "nouser" /\ (currentUser = NoId => ~AdminsOf(stack, starts))

LEMMA DomainFacts ==
  ASSUME Typed
  PROVE  /\ DOMAIN stack = 1 .. Len(stack) /\ DOMAIN starts = 1 .. Len(starts)
         /\ Len(stack) \in Nat /\ Len(starts) \in Nat
         /\ stack # <<>> => Len(stack) \in 1 .. Len(stack)
         /\ \A k \in 1 .. Len(stack) : stack[k].screen \in Names
<1>1. \A k \in 1 .. Len(stack) : stack[k] \in Screens
  BY DEF Typed, Stacks
<1> QED
  BY <1>1 DEF Typed, Stacks, Screens

\* What no screen and no start becomes, nobody is shown on.
LEMMA NoAdmins ==
  ASSUME Typed, Typed', ~AdminsOf(stack, starts),
         \A i \in 1 .. Len(stack') : \E k \in 1 .. Len(stack) : stack'[i].screen = stack[k].screen,
         \A i \in 1 .. Len(starts') : starts'[i] \notin Admins \/ \E k \in 1 .. Len(starts) : starts'[i] = starts[k]
  PROVE  ~AdminsOf(stack', starts')
<1>1. DOMAIN stack = 1 .. Len(stack) /\ DOMAIN starts = 1 .. Len(starts)
  BY DomainFacts
<1>2. DOMAIN stack' = 1 .. Len(stack') /\ DOMAIN starts' = 1 .. Len(starts')
  BY DEF Typed, Stacks
<1> QED
  BY <1>1, <1>2 DEF AdminsOf

LEMMA OnFacts ==
  ASSUME Typed, NEW screen, On(screen)
  PROVE  /\ stack # <<>> /\ Len(stack) \in 1 .. Len(stack) /\ stack[Len(stack)].screen = screen
         /\ screen \in Admins => AdminsOf(stack, starts)
BY DomainFacts DEF On, Top, AdminsOf

\* The screens below the top one, when the next of them has come back.
LEMMA BackFacts ==
  ASSUME Typed, stack # <<>>, NEW user \in Users
  PROVE  LET new == Uncovered(Below, user)
         IN  /\ new \in Stacks /\ Len(new) = Len(stack) - 1 /\ Len(Below) = Len(stack) - 1 /\ Len(stack) - 1 \in Nat
             /\ \A k \in 1 .. Len(new) :
                   /\ k \in 1 .. Len(stack) /\ k # Len(stack) /\ new[k].screen = stack[k].screen
                   /\ new[k].owner \in {stack[k].owner, Showing(stack[k].screen, user)}
             /\ NeedsUser(Below) => AdminsOf(stack, starts) /\ AdminsOf(Below, starts)
<1> DEFINE new == Uncovered(Below, user)
<1>1. /\ Below \in Stacks /\ Len(Below) = Len(stack) - 1 /\ Len(stack) \in Nat \ {0}
      /\ \A k \in 1 .. Len(Below) : Below[k] = stack[k]
  BY BelowFacts DEF Typed
<1>2. /\ new \in Stacks /\ Len(new) = Len(Below)
      /\ \A k \in 1 .. Len(Below) :
            /\ new[k].screen = Below[k].screen
            /\ new[k].owner \in {Below[k].owner, Showing(Below[k].screen, user)}
  BY <1>1, UncoveredFacts
<1> HIDE DEF new
<1> PICK b \in Stacks : b = Below
  BY <1>1
<1>3. ASSUME NeedsUser(Below) PROVE AdminsOf(stack, starts) /\ AdminsOf(Below, starts)
  <2>1. b # <<>> /\ b[Len(b)].screen = "admin"
    BY <1>3 DEF NeedsUser
  <2>2. Len(b) \in 1 .. Len(b) /\ DOMAIN b = 1 .. Len(b)
    BY <2>1 DEF Stacks
  <2>3. Len(b) \in DOMAIN stack /\ stack[Len(b)].screen = "admin"
    BY <1>1, <2>1, <2>2, DomainFacts
  <2> QED
    BY <2>1, <2>2, <2>3 DEF AdminsOf, Admins
<1>4. \A k \in 1 .. Len(new) : /\ k \in 1 .. Len(stack) /\ k # Len(stack) /\ new[k].screen = stack[k].screen
                               /\ new[k].owner \in {stack[k].owner, Showing(stack[k].screen, user)}
  BY <1>1, <1>2
<1> QED
  BY <1>1, <1>2, <1>3, <1>4 DEF new

\* What an answered sign-up leaves on the stack.
LEMMA ClosedFacts ==
  ASSUME Typed, NEW user \in Users
  PROVE  /\ \A new \in {WithoutSignUp, Uncovered(WithoutSignUp, user)} :
               /\ new \in Stacks
               /\ \A i \in 1 .. Len(new) : \E k \in 1 .. Len(stack) : new[i].screen = stack[k].screen
         /\ NeedsUser(WithoutSignUp) => AdminsOf(stack, starts)
<1> PICK w \in Stacks : w = WithoutSignUp
  BY WithoutSignUpFacts DEF Typed
<1>1. \A i \in 1 .. Len(w) : \E k \in 1 .. Len(stack) : w[i] = stack[k]
  BY WithoutSignUpFacts DEF Typed
<1>2. /\ Uncovered(w, user) \in Stacks /\ Len(Uncovered(w, user)) = Len(w)
      /\ \A k \in 1 .. Len(w) : Uncovered(w, user)[k].screen = w[k].screen
  BY UncoveredFacts
<1>3. ASSUME NeedsUser(w) PROVE AdminsOf(stack, starts)
  <2>1. Len(w) \in 1 .. Len(w) /\ w[Len(w)].screen = "admin"
    BY <1>3 DEF NeedsUser, Stacks
  <2> QED
    BY <1>1, <2>1, DomainFacts DEF AdminsOf, Admins
<1> QED
  BY <1>1, <1>2, <1>3

LEMMA InitUserInv == SessionInit => UserInv
BY DEF SessionInit, UserInv, AdminsOf

LEMMA UserInvStep == Typed /\ Typed' /\ UserInv /\ [SessionNext]_sessionVars => UserInv'
<1> SUFFICES ASSUME Typed, Typed', UserInv, [SessionNext]_sessionVars, ~leftOthers'
             PROVE  died' # "nouser" /\ (currentUser' = NoId => ~AdminsOf(stack', starts'))
  BY DEF UserInv
<1> DEFINE Goal == died' # "nouser" /\ (currentUser' = NoId => ~AdminsOf(stack', starts'))
           Same == UNCHANGED <<stack, starts, currentUser, died>>
<1>1. ASSUME ~leftOthers PROVE died # "nouser" /\ (currentUser = NoId => ~AdminsOf(stack, starts))
  BY <1>1 DEF UserInv
<1>2. ASSUME UNCHANGED leftOthers, Same PROVE Goal
  BY <1>1, <1>2
\* A step that keeps the user and adds no administrator's screen.
<1>3. ASSUME UNCHANGED <<leftOthers, currentUser>>, died' # "nouser",
             \A i \in 1 .. Len(stack') : \E k \in 1 .. Len(stack) : stack'[i].screen = stack[k].screen,
             \A i \in 1 .. Len(starts') : starts'[i] \notin Admins \/ \E k \in 1 .. Len(starts) : starts'[i] = starts[k]
      PROVE  Goal
  BY <1>1, <1>3, NoAdmins
<1>4. ASSUME NEW cause, Die(cause), cause # "nouser", UNCHANGED leftOthers PROVE Goal
  BY <1>4 DEF Die, AdminsOf
\* A screen asked for while somebody is signed in, or not an administrator's.
<1>5. ASSUME UNCHANGED <<leftOthers, currentUser, stack>>, died' # "nouser", NEW screen \in Names,
             Start(screen), screen \in Admins => currentUser # NoId
      PROVE  Goal
  <2>1. CASE screen \in Admins
    BY <1>5, <2>1
  <2>2. CASE screen \notin Admins
    <3>1. \A i \in 1 .. Len(starts') : starts'[i] \notin Admins \/ \E k \in 1 .. Len(starts) : starts'[i] = starts[k]
      BY <1>5, <2>2, AskFacts DEF Start, Typed
    <3> QED
      BY <1>3, <1>5, <3>1
  <2> QED
    BY <2>1, <2>2
<1>10. CASE OpenAdminLogin
  BY <1>5, <1>10 DEF OpenAdminLogin, Names, Admins
<1>11. ASSUME NEW k \in DOMAIN stack, StopCovered(k) PROVE Goal
  <2>1. k \in 1 .. Len(stack) /\ currentUser \in Users
    BY DomainFacts DEF Typed
  <2>2. \A i \in 1 .. Len(stack') : \E j \in 1 .. Len(stack) : stack'[i].screen = stack[j].screen
    BY <1>11, <2>1, TouchFacts DEF StopCovered, Typed
  <2> QED
    BY <1>1, <1>3, <1>11, <2>2 DEF StopCovered
<1>12. ASSUME NEW id \in Texts, LogIn(id) PROVE Goal
  BY <1>2, <1>12 DEF LogIn
<1>13. CASE OpenAdminSignUp
  BY <1>1, <1>5, <1>13 DEF OpenAdminSignUp, Names, Admins
<1>14. CASE AdminType \/ AdminCheckId \/ AdminConfirm \/ AdminFinish \/ UNCHANGED sessionVars
  BY <1>2, <1>14 DEF AdminType, AdminCheckId, AdminConfirm, AdminFinish, sessionVars
<1>15. CASE OpenCreate
  <2>1. On("admin") /\ "admin" \in Admins /\ "create" \in Names
    BY <1>15 DEF OpenCreate, Admins, Names
  <2>2. currentUser # NoId
    BY <1>1, <1>15, <2>1, OnFacts DEF OpenCreate
  <2> QED
    BY <1>1, <1>5, <1>15, <2>1, <2>2 DEF OpenCreate
<1>16. ASSUME NEW s \in Slots, NEW ok \in BOOLEAN, SignInDone(s, ok) PROVE Goal
  <2>1. UNCHANGED <<leftOthers, died, stack>> /\ "admin" \in Names
    BY <1>16 DEF SignInDone, Names
  <2>2. CASE ok
    <3>1. currentUser' = tasks[s].id /\ tasks[s] \in Tasks
      BY <1>16, <2>2 DEF SignInDone, Typed, Asked
    <3>2. currentUser' # NoId
      BY <3>1 DEF Tasks
    <3> QED
      BY <1>1, <2>1, <3>2
  <2>3. CASE ~ok
    BY <1>2, <1>16, <2>1, <2>3 DEF SignInDone
  <2> QED
    BY <2>2, <2>3
<1>17. ASSUME NEW s \in Slots, NEW made \in BOOLEAN, NEW ok \in BOOLEAN, SignUpDone(s, made, ok)
       PROVE  Goal
  <2>1. UNCHANGED leftOthers /\ currentUser' \in Users
    BY <1>17 DEF SignUpDone, Typed
  <2>2. currentUser' = NoId => currentUser = NoId
    <3>1. tasks[s] \in Tasks /\ (ok => currentUser' = tasks[s].id) /\ (~ok => currentUser' = currentUser)
      BY <1>17 DEF SignUpDone, Typed, Asked
    <3> QED
      BY <3>1 DEF Tasks
  <2>3. \/ Done(s) /\ UNCHANGED <<stack, starts, died>>
        \/ Dies(WithoutSignUp, currentUser')
        \/ /\ stack' \in {WithoutSignUp, Uncovered(WithoutSignUp, currentUser')}
           /\ UNCHANGED <<starts, died>>
    BY <1>17 DEF SignUpDone
  <2>4. CASE UNCHANGED <<stack, starts, died>>
    BY <1>1, <2>1, <2>2, <2>4
  <2>5. CASE Dies(WithoutSignUp, currentUser')
    BY <1>1, <2>1, <2>2, <2>5, ClosedFacts DEF Dies
  <2>6. CASE /\ stack' \in {WithoutSignUp, Uncovered(WithoutSignUp, currentUser')}
             /\ UNCHANGED <<starts, died>>
    <3>1. \A i \in 1 .. Len(stack') : \E k \in 1 .. Len(stack) : stack'[i].screen = stack[k].screen
      BY <2>1, <2>6, ClosedFacts
    <3> QED
      BY <1>1, <2>1, <2>2, <2>6, <3>1, NoAdmins
  <2> QED
    BY <2>3, <2>4, <2>5, <2>6
<1>18. CASE AdminBack
  <2>1. /\ stack # <<>> /\ currentUser' = NoId /\ NoId \in Users /\ ~leftOthers /\ ~AdminsOf(Below, starts)
    BY <1>18 DEF AdminBack, On, Users
  <2>2. ~NeedsUser(Below)
    BY <2>1, BackFacts
  <2>3. stack' = Uncovered(Below, NoId) /\ UNCHANGED <<died, starts>>
    BY <1>18, <2>2 DEF AdminBack, Dies
  <2>4. \A k \in 1 .. Len(stack') : k \in DOMAIN Below /\ stack'[k].screen = Below[k].screen
    <3>1. Below \in Stacks
      BY <2>1, BelowFacts DEF Typed
    <3> PICK b \in Stacks : b = Below
      BY <3>1
    <3>2. Len(Uncovered(b, NoId)) = Len(b) /\ \A k \in 1 .. Len(b) : Uncovered(b, NoId)[k].screen = b[k].screen
      BY <2>1, UncoveredFacts
    <3> QED
      BY <2>3, <3>2 DEF Stacks
  <2>5. DOMAIN stack' = 1 .. Len(stack')
    BY DEF Typed, Stacks
  <2>6. ~AdminsOf(stack', starts')
    BY <2>1, <2>3, <2>4, <2>5 DEF AdminsOf
  <2> QED
    BY <1>1, <2>1, <2>3, <2>6
<1>19. CASE Back
  <2>1. stack # <<>> /\ currentUser' = currentUser /\ currentUser \in Users /\ UNCHANGED leftOthers
    BY <1>19 DEF Back, On, Typed
  <2>2. ~Dies(Below, currentUser)
    BY <1>1, <2>1, BackFacts DEF Dies
  <2>3. stack' = Uncovered(Below, currentUser) /\ UNCHANGED <<died, starts>>
    BY <1>19, <2>2 DEF Back
  <2>4. \A i \in 1 .. Len(stack') : \E k \in 1 .. Len(stack) : stack'[i].screen = stack[k].screen
    BY <2>1, <2>3, BackFacts
  <2> QED
    BY <1>1, <1>3, <2>1, <2>3, <2>4
<1>20. CASE OpenAdminVote
  BY <1>4, <1>20 DEF OpenAdminVote
<1>21. CASE TurnAdmin
  <2>1. stack # <<>> /\ UNCHANGED <<currentUser, leftOthers>> /\ Len(stack) \in 1 .. Len(stack)
    BY <1>21, DomainFacts DEF TurnAdmin
  <2>2. ~((On("admin") \/ On("create")) /\ currentUser = NoId)
    BY <1>1, <2>1, OnFacts DEF Admins
  <2>3. /\ stack' = [stack EXCEPT ![Len(stack)].owner = Showing(Top.screen, currentUser)]
        /\ UNCHANGED <<died, starts>>
    BY <1>21, <2>2 DEF TurnAdmin
  <2>4. Showing(Top.screen, currentUser) \in Users
    BY <2>1, DomainFacts, ShowingFacts DEF Top, Typed
  <2>5. \A i \in 1 .. Len(stack') : \E k \in 1 .. Len(stack) : stack'[i].screen = stack[k].screen
    BY <2>1, <2>3, <2>4, TouchFacts DEF Typed
  <2> QED
    BY <1>1, <1>3, <2>1, <2>3, <2>5
<1>22. ASSUME NEW k \in DOMAIN starts, Create(k) PROVE Goal
  <2>1. UNCHANGED <<currentUser, leftOthers>> /\ starts[k] \in Names /\ currentUser \in Users
    BY <1>22, OthersFacts DEF Create, Typed
  <2>2. currentUser = NoId => starts[k] \notin Admins
    BY <1>1, <2>1 DEF AdminsOf
  <2>3. /\ stack' = Append(stack, [ screen |-> starts[k], stopped |-> FALSE,
                                    owner |-> Showing(starts[k], currentUser) ])
        /\ starts' = Others(k) /\ UNCHANGED died
    BY <1>22, <2>2 DEF Create, Others
  <2>4. ASSUME currentUser = NoId PROVE ~AdminsOf(stack', starts')
    <3>1. Showing(starts[k], currentUser) \in Users
      BY <2>1, ShowingFacts
    <3>2. \A i \in 1 .. Len(stack') : (i \in 1 .. Len(stack) /\ stack'[i] = stack[i]) \/ stack'[i].screen = starts[k]
      BY <2>1, <2>3, <3>1, PushFacts DEF Typed
    <3>3. \A i \in 1 .. Len(starts') : \E j \in 1 .. Len(starts) : starts'[i] = starts[j]
      BY <2>3, OthersFacts DEF Typed
    <3>4. DOMAIN stack' = 1 .. Len(stack') /\ DOMAIN starts' = 1 .. Len(starts')
      BY DEF Typed, Stacks
    <3> QED
      BY <1>1, <2>1, <2>2, <2>4, <3>2, <3>3, <3>4, DomainFacts DEF AdminsOf
  <2> QED
    BY <1>1, <2>1, <2>3, <2>4
<1> QED
  BY <1>10, <1>11, <1>12, <1>13, <1>14, <1>15, <1>16, <1>17, <1>18, <1>19, <1>20, <1>21, <1>22
     DEF SessionNext

-----------------------------------------------------------------------------
(* Whose screen it is, as long as requests do not crowd *)

\* There is one administrator's main screen at most, here or asked for.  Forms of new
\* votes are above it; one that was asked for from it may outlive it, but then nobody
\* is signed in any more.
OneAdmin ==
    /\ \A j, k \in 1 .. Len(stack) : stack[j].screen = "admin" /\ stack[k].screen = "admin" => j = k
    /\ \A j, k \in 1 .. Len(starts) : starts[j] = "admin" /\ starts[k] = "admin" => j = k
    /\ \A j \in 1 .. Len(starts) : starts[j] = "admin" =>
          /\ \A k \in 1 .. Len(stack) : stack[k].screen \notin Admins
          /\ \A k \in 1 .. Len(starts) : starts[k] # "create"
    /\ \A k \in 1 .. Len(stack) : stack[k].screen = "create" =>
          \E j \in 1 .. Len(stack) : j < k /\ stack[j].screen = "admin"
    /\ \A j \in 1 .. Len(starts) : starts[j] = "create" =>
          currentUser = NoId \/ \E k \in 1 .. Len(stack) : stack[k].screen = "admin"

\* Every administrator's screen, covered or not, shows who is signed in.
Owned == \A k \in 1 .. Len(stack) : stack[k].screen \in Admins => stack[k].owner = currentUser

\* One request is out at most, and none while an administrator's screen is there or
\* asked for.
OneRequest ==
    \A s \in Slots : tasks[s] # NoTask =>
        ~AdminsOf(stack, starts) /\ \A r \in Slots : tasks[r] # NoTask => r = s

CalmInv == ~crowded => OneAdmin /\ Owned /\ OneRequest

LEMMA InitCalmInv == SessionInit => CalmInv
<1> SUFFICES ASSUME SessionInit PROVE CalmInv
  OBVIOUS
<1>1. Len(stack) = 0 /\ Len(starts) = 0 /\ \A s \in Slots : tasks[s] = NoTask
  BY DEF SessionInit
<1> QED
  BY <1>1 DEF CalmInv, OneAdmin, Owned, OneRequest

\* No administrator's screen and one request at most: calm.
LEMMA CalmAlone ==
  ASSUME Typed, ~AdminsOf(stack, starts),
         \A r, s \in Slots : tasks[r] # NoTask /\ tasks[s] # NoTask => r = s
  PROVE  OneAdmin /\ Owned /\ OneRequest
<1>1. /\ \A k \in 1 .. Len(stack) : stack[k].screen \notin Admins
      /\ \A k \in 1 .. Len(starts) : starts[k] \notin Admins
  BY DomainFacts DEF AdminsOf
<1> QED
  BY <1>1 DEF OneAdmin, Owned, OneRequest, Admins

\* Screens that come back, are stopped or turned keep calm.
LEMMA CalmKept ==
  ASSUME Typed, Typed', OneAdmin, Owned, OneRequest, UNCHANGED <<starts, currentUser>>,
         \A k \in 1 .. Len(stack') :
            /\ k \in 1 .. Len(stack) /\ stack'[k].screen = stack[k].screen
            /\ stack'[k].owner \in {stack[k].owner, Showing(stack[k].screen, currentUser)},
         \A k \in 1 .. Len(stack) : stack[k].screen = "admin" => k \in 1 .. Len(stack'),
         \A s \in Slots : tasks'[s] # NoTask => tasks[s] # NoTask
  PROVE  (OneAdmin /\ Owned /\ OneRequest)'
<1>1. OneAdmin'
  BY DEF OneAdmin
<1>2. Owned'
  BY DEF Owned, Showing
<1>3. OneRequest'
  <2>1. ASSUME ~AdminsOf(stack, starts) PROVE ~AdminsOf(stack', starts')
    <3>1. \A i \in 1 .. Len(stack') : \E k \in 1 .. Len(stack) : stack'[i].screen = stack[k].screen
      OBVIOUS
    <3> QED
      BY <2>1, <3>1, NoAdmins
  <2> QED
    BY <2>1 DEF OneRequest
<1> QED
  BY <1>1, <1>2, <1>3

LEMMA RequestCalm ==
  ASSUME Typed, Typed', CalmInv, UNCHANGED <<stack, starts, currentUser>>,
         NEW op, NEW id, Request(op, id)
  PROVE  CalmInv'
<1> SUFFICES ASSUME ~crowded' PROVE (OneAdmin /\ Owned /\ OneRequest)'
  BY DEF CalmInv
<1>1. ~AdminsOf(stack, starts) /\ \A s \in Slots : tasks[s] = NoTask
  BY DEF Request
<1>2. PICK s \in Slots : tasks' = [tasks EXCEPT ![s] = [op |-> op, id |-> id, heard |-> TRUE]]
  BY DEF Request
<1>3. \A r \in Slots : tasks'[r] # NoTask => r = s
  BY <1>1, <1>2 DEF Typed, Asked
<1>4. Typed /\ OneAdmin /\ Owned
  BY <1>1, CalmAlone
<1> QED
  BY <1>1, <1>3, <1>4 DEF OneAdmin, Owned, OneRequest, AdminsOf

\* A screen that is no administrator's is asked for.
LEMMA OtherStartCalm ==
  ASSUME Typed, Typed', OneAdmin, Owned, OneRequest, UNCHANGED <<stack, currentUser, tasks>>,
         NEW screen \in {"login", "signup"}, Start(screen)
  PROVE  (OneAdmin /\ Owned /\ OneRequest)'
<1>1. \A j \in 1 .. Len(starts') : (j \in 1 .. Len(starts) /\ starts'[j] = starts[j]) \/ starts'[j] = screen
  BY AskFacts DEF Start, Typed, Names
<1>2. OneAdmin'
  BY <1>1 DEF OneAdmin
<1>3. OneRequest'
  <2>1. ASSUME ~AdminsOf(stack, starts) PROVE ~AdminsOf(stack', starts')
    BY <1>1, <2>1, NoAdmins DEF Admins
  <2> QED
    BY <2>1 DEF OneRequest
<1> QED
  BY <1>2, <1>3 DEF Owned

\* The form of a new vote is asked for from the administrator's screen.
LEMMA CreateStartCalm ==
  ASSUME Typed, Typed', CalmInv, OpenCreate
  PROVE  CalmInv'
<1> SUFFICES ASSUME ~crowded' PROVE (OneAdmin /\ Owned /\ OneRequest)'
  BY DEF CalmInv
<1>1. /\ OneAdmin /\ Owned /\ OneRequest /\ On("admin")
      /\ UNCHANGED <<stack, currentUser, tasks>> /\ starts' = Append(starts, "create")
  BY DEF OpenCreate, Start, CalmInv
<1>2. Len(stack) \in 1 .. Len(stack) /\ stack[Len(stack)].screen = "admin" /\ AdminsOf(stack, starts)
  BY <1>1, OnFacts DEF Admins
<1>3. \A j \in 1 .. Len(starts') : (j \in 1 .. Len(starts) /\ starts'[j] = starts[j]) \/ starts'[j] = "create"
  BY <1>1, AskFacts DEF Typed, Names
<1>4. \A j \in 1 .. Len(starts) : starts[j] # "admin"
  BY <1>1, <1>2 DEF OneAdmin, Admins
<1>5. OneAdmin'
  BY <1>1, <1>2, <1>3, <1>4 DEF OneAdmin
<1>6. OneRequest'
  BY <1>1, <1>2 DEF OneRequest
<1> QED
  BY <1>1, <1>5, <1>6 DEF Owned

\* A login answered asks for the administrator's screen where there is none.
LEMMA SignInCalm ==
  ASSUME Typed, Typed', CalmInv, NEW s \in Slots, NEW ok \in BOOLEAN, SignInDone(s, ok)
  PROVE  CalmInv'
<1> SUFFICES ASSUME ~crowded' PROVE (OneAdmin /\ Owned /\ OneRequest)'
  BY DEF CalmInv
<1>1. /\ OneAdmin /\ Owned /\ OneRequest /\ tasks[s] # NoTask
      /\ stack' = stack /\ tasks' = [tasks EXCEPT ![s] = NoTask]
      /\ starts' = starts \/ starts' = Append(starts, "admin")
  BY DEF SignInDone, Done, Start, CalmInv
<1>2. /\ ~AdminsOf(stack, starts)
      /\ \A r \in Slots : tasks'[r] = NoTask
  BY <1>1 DEF OneRequest, Typed, Asked
<1>3. /\ \A k \in 1 .. Len(stack) : stack[k].screen \notin Admins
      /\ \A k \in 1 .. Len(starts) : starts[k] \notin Admins
  BY <1>2, DomainFacts DEF AdminsOf
<1>4. CASE starts' = starts
  BY <1>1, <1>2, <1>3, <1>4 DEF OneAdmin, Owned, OneRequest, Admins
<1>5. CASE starts' = Append(starts, "admin")
  <2>1. /\ Len(starts) \in Nat /\ Len(starts') = Len(starts) + 1
        /\ \A j \in 1 .. Len(starts') : IF j = Len(starts) + 1 THEN starts'[j] = "admin"
                                        ELSE j \in 1 .. Len(starts) /\ starts'[j] = starts[j]
    BY <1>5, AskFacts DEF Typed, Names
  <2>2. \A j \in 1 .. Len(starts') : /\ starts'[j] = "admin" => j = Len(starts) + 1
                                     /\ starts'[j] # "create"
    BY <1>3, <2>1 DEF Admins
  <2>3. OneAdmin'
    BY <1>1, <1>3, <2>2 DEF OneAdmin, Admins
  <2> QED
    BY <1>1, <1>2, <1>3, <2>3 DEF Owned, OneRequest
<1> QED
  BY <1>1, <1>4, <1>5

LEMMA DieCalm ==
  ASSUME NEW cause, Die(cause)
  PROVE  (OneAdmin /\ Owned /\ OneRequest)'
<1>1. Len(stack') = 0 /\ Len(starts') = 0 /\ \A s \in Slots : tasks'[s] = NoTask
  BY DEF Die
<1> QED
  BY <1>1 DEF OneAdmin, Owned, OneRequest

LEMMA SignUpCalm ==
  ASSUME Typed, Typed', CalmInv, NEW s \in Slots, NEW made \in BOOLEAN, NEW ok \in BOOLEAN,
         SignUpDone(s, made, ok)
  PROVE  CalmInv'
<1> SUFFICES ASSUME ~crowded' PROVE (OneAdmin /\ Owned /\ OneRequest)'
  BY DEF CalmInv
<1>1. /\ ~crowded /\ tasks[s] # NoTask /\ tasks[s].heard /\ currentUser' \in Users
      /\ \/ Die("nouser")
         \/ /\ stack' \in {WithoutSignUp, Uncovered(WithoutSignUp, currentUser')}
            /\ starts' = starts /\ tasks' = [Unheard("signup") EXCEPT ![s] = NoTask]
  BY DEF SignUpDone, Typed
<1>2. CASE Die("nouser")
  BY <1>2, DieCalm
<1>3. CASE /\ stack' \in {WithoutSignUp, Uncovered(WithoutSignUp, currentUser')}
           /\ starts' = starts /\ tasks' = [Unheard("signup") EXCEPT ![s] = NoTask]
  <2>1. ~AdminsOf(stack, starts) /\ \A r \in Slots : tasks[r] # NoTask => r = s
    BY <1>1 DEF CalmInv, OneRequest
  <2>2. \A i \in 1 .. Len(stack') : \E k \in 1 .. Len(stack) : stack'[i].screen = stack[k].screen
    BY <1>1, <1>3, ClosedFacts
  <2>3. ~AdminsOf(stack', starts')
    BY <1>3, <2>1, <2>2, NoAdmins
  <2>4. \A r \in Slots : tasks'[r] = NoTask
    <3>1. Unheard("signup") \in Asked /\ \A r \in Slots : Unheard("signup")[r] = NoTask <=> tasks[r] = NoTask
      BY UnheardFacts DEF Typed
    <3> QED
      BY <1>3, <2>1, <3>1 DEF Asked
  <2>5. /\ \A k \in 1 .. Len(stack') : stack'[k].screen \notin Admins
        /\ \A k \in 1 .. Len(starts') : starts'[k] \notin Admins
    <3>1. DOMAIN stack' = 1 .. Len(stack') /\ DOMAIN starts' = 1 .. Len(starts')
      BY DEF Typed, Stacks
    <3> QED
      BY <2>3, <3>1 DEF AdminsOf
  <2> QED
    BY <2>4, <2>5 DEF OneAdmin, Owned, OneRequest, Admins
<1> QED
  BY <1>1, <1>2, <1>3

\* Leaving an administrator's screen signs out, and leaves none that could show it.
LEMMA AdminBackCalm ==
  ASSUME Typed, Typed', CalmInv, AdminBack
  PROVE  CalmInv'
<1> SUFFICES ASSUME ~crowded' PROVE (OneAdmin /\ Owned /\ OneRequest)'
  BY DEF CalmInv
<1>1. OneAdmin /\ OneRequest /\ On("admin") /\ currentUser' = NoId /\ NoId \in Users
  BY DEF AdminBack, CalmInv, Users
<1>2. /\ stack # <<>> /\ Len(stack) \in 1 .. Len(stack) /\ stack[Len(stack)].screen = "admin"
      /\ AdminsOf(stack, starts)
  BY <1>1, OnFacts DEF Admins
<1>3. CASE Dies(Below, NoId)
  BY <1>3, DieCalm DEF AdminBack
<1>4. CASE ~Dies(Below, NoId)
  <2>1. stack' = Uncovered(Below, NoId) /\ UNCHANGED <<starts, tasks>>
    BY <1>4 DEF AdminBack
  <2>2. /\ Len(stack') = Len(stack) - 1 /\ Len(stack) - 1 \in Nat
        /\ \A k \in 1 .. Len(stack') : /\ k \in 1 .. Len(stack) /\ k # Len(stack)
                                        /\ stack'[k].screen = stack[k].screen
    BY <1>1, <1>2, <2>1, BackFacts
  <2>3. \A k \in 1 .. Len(stack') : stack'[k].screen \notin Admins
    <3> SUFFICES ASSUME NEW k \in 1 .. Len(stack'), stack[k].screen \in Admins PROVE FALSE
      BY <2>2
    <3>1. stack[k].screen # "admin"
      BY <1>1, <1>2, <2>2 DEF OneAdmin
    <3>2. PICK j \in 1 .. Len(stack) : j < k /\ stack[j].screen = "admin"
      BY <1>1, <2>2, <3>1 DEF OneAdmin, Admins
    <3>3. j = Len(stack)
      BY <1>1, <1>2 , <3>2 DEF OneAdmin
    <3> QED
      BY <2>2, <3>2, <3>3
  <2>4. \A j \in 1 .. Len(starts) : starts[j] # "admin"
    BY <1>1, <1>2 DEF OneAdmin, Admins
  <2>5. \A s \in Slots : tasks'[s] = NoTask
    BY <1>1, <1>2, <2>1 DEF OneRequest
  <2>6. OneAdmin'
    BY <1>1, <2>1, <2>3, <2>4 DEF OneAdmin, Admins
  <2> QED
    BY <2>3, <2>5, <2>6 DEF Owned, OneRequest
<1> QED
  BY <1>3, <1>4

LEMMA BackCalm ==
  ASSUME Typed, Typed', CalmInv, Back
  PROVE  CalmInv'
<1> SUFFICES ASSUME ~crowded' PROVE (OneAdmin /\ Owned /\ OneRequest)'
  BY DEF CalmInv
<1>1. /\ OneAdmin /\ Owned /\ OneRequest /\ UNCHANGED currentUser /\ currentUser \in Users
      /\ stack # <<>> /\ Len(stack) \in 1 .. Len(stack) /\ stack[Len(stack)].screen # "admin"
  <2>1. On("login") \/ On("signup") \/ On("create")
    BY DEF Back
  <2>2. stack # <<>> /\ Len(stack) \in 1 .. Len(stack) /\ stack[Len(stack)].screen # "admin"
    BY <2>1, OnFacts
  <2> QED
    BY <2>2 DEF Back, CalmInv, Typed
<1>2. CASE Dies(Below, currentUser)
  BY <1>2, DieCalm DEF Back
<1>3. CASE ~Dies(Below, currentUser)
  <2>1. /\ stack' = Uncovered(Below, currentUser) /\ UNCHANGED starts
        /\ tasks' \in {Unheard("signin"), Unheard("signup"), tasks}
    BY <1>3 DEF Back
  <2>2. \A s \in Slots : tasks'[s] # NoTask => tasks[s] # NoTask
    BY <2>1, UnheardFacts DEF Typed
  <2>3. \A k \in 1 .. Len(stack') :
            /\ k \in 1 .. Len(stack) /\ stack'[k].screen = stack[k].screen
            /\ stack'[k].owner \in {stack[k].owner, Showing(stack[k].screen, currentUser)}
    BY <1>1, <2>1, BackFacts
  <2>4. Len(stack') = Len(stack) - 1 /\ Len(stack) - 1 \in Nat
    BY <1>1, <2>1, BackFacts
  <2>5. \A k \in 1 .. Len(stack) : stack[k].screen = "admin" => k \in 1 .. Len(stack')
    BY <1>1, <2>4
  <2> QED
    BY <1>1, <2>1, <2>2, <2>3, <2>5, CalmKept
<1> QED
  BY <1>2, <1>3

LEMMA StopCalm ==
  ASSUME Typed, Typed', CalmInv, NEW k \in DOMAIN stack, StopCovered(k)
  PROVE  CalmInv'
<1> SUFFICES ASSUME ~crowded' PROVE (OneAdmin /\ Owned /\ OneRequest)'
  BY DEF CalmInv
<1>1. /\ OneAdmin /\ Owned /\ OneRequest /\ UNCHANGED <<starts, currentUser>> /\ currentUser \in Users
      /\ stack' = [stack EXCEPT ![k].stopped = TRUE]
      /\ tasks' \in {Unheard("signin"), Unheard("signup"), tasks}
  BY DEF StopCovered, CalmInv, Typed
<1>2. k \in 1 .. Len(stack)
  BY DomainFacts
<1>3. /\ Len(stack') = Len(stack)
      /\ \A j \in 1 .. Len(stack) : stack'[j].screen = stack[j].screen /\ stack'[j].owner = stack[j].owner
  BY <1>1, <1>2, TouchFacts DEF Typed
<1>4. \A s \in Slots : tasks'[s] # NoTask => tasks[s] # NoTask
  BY <1>1, UnheardFacts DEF Typed
<1> QED
  BY <1>1, <1>3, <1>4, CalmKept

LEMMA TurnCalm ==
  ASSUME Typed, Typed', CalmInv, TurnAdmin
  PROVE  CalmInv'
<1> SUFFICES ASSUME ~crowded' PROVE (OneAdmin /\ Owned /\ OneRequest)'
  BY DEF CalmInv
<1>1. /\ OneAdmin /\ Owned /\ OneRequest /\ UNCHANGED currentUser /\ currentUser \in Users
      /\ Len(stack) \in 1 .. Len(stack)
  BY DomainFacts DEF TurnAdmin, CalmInv, Typed
<1>2. \/ Die("nouser")
      \/ /\ stack' = [stack EXCEPT ![Len(stack)].owner = Showing(Top.screen, currentUser)]
         /\ tasks' = [s \in Slots |-> IF tasks[s] = NoTask THEN NoTask ELSE [tasks[s] EXCEPT !.heard = FALSE]]
         /\ starts' = starts
  BY DEF TurnAdmin
<1>3. CASE Die("nouser")
  BY <1>3, DieCalm
<1>4. CASE /\ stack' = [stack EXCEPT ![Len(stack)].owner = Showing(Top.screen, currentUser)]
           /\ tasks' = [s \in Slots |-> IF tasks[s] = NoTask THEN NoTask ELSE [tasks[s] EXCEPT !.heard = FALSE]]
           /\ starts' = starts
  <2>1. Showing(Top.screen, currentUser) \in Users
    BY <1>1, DomainFacts, ShowingFacts DEF Top
  <2>2. /\ Len(stack') = Len(stack)
        /\ \A j \in 1 .. Len(stack) :
              /\ stack'[j].screen = stack[j].screen
              /\ stack'[j].owner \in {stack[j].owner, Showing(stack[j].screen, currentUser)}
    BY <1>1, <1>4, <2>1, TouchFacts DEF Typed, Top
  <2>3. \A s \in Slots : tasks'[s] # NoTask => tasks[s] # NoTask
    BY <1>4
  <2> QED
    BY <1>1, <1>4, <2>2, <2>3, CalmKept
<1> QED
  BY <1>2, <1>3, <1>4

\* A screen that is made takes the place of its start.
LEMMA CreateCalm ==
  ASSUME Typed, Typed', CalmInv, NEW k \in DOMAIN starts, Create(k)
  PROVE  CalmInv'
<1> SUFFICES ASSUME ~crowded' PROVE (OneAdmin /\ Owned /\ OneRequest)'
  BY DEF CalmInv
<1>1. /\ OneAdmin /\ Owned /\ OneRequest /\ UNCHANGED currentUser /\ currentUser \in Users
      /\ starts[k] \in Names /\ k \in 1 .. Len(starts)
  BY OthersFacts, DomainFacts DEF Create, CalmInv, Typed
<1>2. CASE starts[k] \in Admins /\ currentUser = NoId
  BY <1>2, DieCalm DEF Create
<1>3. CASE ~(starts[k] \in Admins /\ currentUser = NoId)
  <2>1. /\ stack' = Append(stack, [ screen |-> starts[k], stopped |-> FALSE,
                                    owner |-> Showing(starts[k], currentUser) ])
        /\ starts' = Others(k) /\ UNCHANGED tasks
    BY <1>3 DEF Create, Others
  <2>2. /\ Len(stack) \in Nat /\ Len(stack') = Len(stack) + 1
        /\ \A i \in 1 .. Len(stack) : stack'[i] = stack[i]
        /\ stack'[Len(stack')].screen = starts[k]
        /\ stack'[Len(stack')].owner = Showing(starts[k], currentUser)
    BY <1>1, <2>1, ShowingFacts, PushFacts DEF Typed
  <2>3. \A i \in 1 .. Len(stack') : i \in 1 .. Len(stack) \/ i = Len(stack')
    BY <2>2
  <2>4. \A j \in 1 .. Len(starts') :
            \E i \in 1 .. Len(starts) : i # k /\ starts'[j] = starts[i] /\ i = IF j < k THEN j ELSE j + 1
    BY <2>1, OthersFacts DEF Typed
  <2>5. starts[k] = "create" => \E i \in 1 .. Len(stack) : stack[i].screen = "admin"
    BY <1>1, <1>3 DEF OneAdmin, Admins
  <2>6. starts[k] = "admin" =>
            /\ \A i \in 1 .. Len(stack) : stack[i].screen \notin Admins
            /\ \A i \in 1 .. Len(starts) : i # k => starts[i] \notin Admins
    BY <1>1 DEF OneAdmin, Admins
  <2>7. OneAdmin'
    <3>1. \A i, j \in 1 .. Len(stack') : stack'[i].screen = "admin" /\ stack'[j].screen = "admin" => i = j
      BY <1>1, <2>2, <2>3, <2>6 DEF OneAdmin, Admins
    <3>2. \A i, j \in 1 .. Len(starts') : starts'[i] = "admin" /\ starts'[j] = "admin" => i = j
      <4> SUFFICES ASSUME NEW i \in 1 .. Len(starts'), NEW j \in 1 .. Len(starts'),
                          starts'[i] = "admin", starts'[j] = "admin"
                   PROVE  i = j
        OBVIOUS
      <4>1. (IF i < k THEN i ELSE i + 1) = (IF j < k THEN j ELSE j + 1)
        BY <1>1, <2>4 DEF OneAdmin
      <4> QED
        BY <1>1, <4>1
    <3>3. ASSUME NEW j \in 1 .. Len(starts'), starts'[j] = "admin"
          PROVE  /\ \A i \in 1 .. Len(stack') : stack'[i].screen \notin Admins
                 /\ \A i \in 1 .. Len(starts') : starts'[i] # "create"
      <4>1. PICK m \in 1 .. Len(starts) : m # k /\ starts[m] = "admin"
        BY <2>4, <3>3
      <4>2. starts[k] \notin Admins
        BY <1>1, <2>6, <4>1 DEF OneAdmin, Admins
      <4>3. /\ \A i \in 1 .. Len(stack) : stack[i].screen \notin Admins
            /\ \A i \in 1 .. Len(starts) : starts[i] # "create"
        BY <1>1, <4>1 DEF OneAdmin
      <4> QED
        BY <2>2, <2>3, <2>4, <4>2, <4>3
    <3>4. ASSUME NEW i \in 1 .. Len(stack'), stack'[i].screen = "create"
          PROVE  \E j \in 1 .. Len(stack') : j < i /\ stack'[j].screen = "admin"
      <4>1. CASE i \in 1 .. Len(stack)
        <5>1. PICK j \in 1 .. Len(stack) : j < i /\ stack[j].screen = "admin"
          BY <1>1, <2>2, <3>4, <4>1 DEF OneAdmin
        <5> QED
          BY <2>2, <5>1
      <4>2. CASE i = Len(stack')
        <5>1. PICK j \in 1 .. Len(stack) : stack[j].screen = "admin"
          BY <2>2, <2>5, <3>4, <4>2
        <5> QED
          BY <2>2, <4>2, <5>1
      <4> QED
        BY <2>3, <4>1, <4>2
    <3>5. ASSUME NEW j \in 1 .. Len(starts'), starts'[j] = "create"
          PROVE  currentUser' = NoId \/ \E i \in 1 .. Len(stack') : stack'[i].screen = "admin"
      <4>1. PICK m \in 1 .. Len(starts) : starts[m] = "create"
        BY <2>4, <3>5
      <4>2. currentUser = NoId \/ \E i \in 1 .. Len(stack) : stack[i].screen = "admin"
        BY <1>1, <4>1 DEF OneAdmin
      <4> QED
        BY <1>1, <2>2, <4>2
    <3> QED
      BY <3>1, <3>2, <3>3, <3>4, <3>5 DEF OneAdmin
  <2>8. Owned'
    BY <1>1, <2>2, <2>3 DEF Owned, Showing
  <2>9. OneRequest'
    <3>1. ASSUME ~AdminsOf(stack, starts) PROVE ~AdminsOf(stack', starts')
      <4>1. starts[k] \notin Admins
        BY <3>1 DEF AdminsOf
      <4>2. DOMAIN stack' = 1 .. Len(stack') /\ DOMAIN starts' = 1 .. Len(starts')
        BY DEF Typed, Stacks
      <4> QED
        BY <2>2, <2>3, <2>4, <3>1, <4>1, <4>2, DomainFacts DEF AdminsOf
    <3> QED
      BY <1>1, <2>1, <3>1 DEF OneRequest
  <2> QED
    BY <2>7, <2>8, <2>9
<1> QED
  BY <1>2, <1>3

LEMMA CalmInvStep == Typed /\ Typed' /\ CalmInv /\ [SessionNext]_sessionVars => CalmInv'
<1> SUFFICES ASSUME Typed, Typed', CalmInv, [SessionNext]_sessionVars PROVE CalmInv'
  OBVIOUS
<1>1. CASE AdminType \/ AdminCheckId \/ AdminConfirm \/ UNCHANGED sessionVars
  <2>1. UNCHANGED <<stack, starts, currentUser, tasks, crowded>>
    BY <1>1 DEF AdminType, AdminCheckId, AdminConfirm, sessionVars
  <2> QED
    BY <2>1 DEF CalmInv, OneAdmin, Owned, OneRequest, AdminsOf
<1>2. ASSUME NEW id \in Texts, LogIn(id) PROVE CalmInv'
  BY <1>2, RequestCalm DEF LogIn
<1>3. CASE AdminFinish
  BY <1>3, RequestCalm DEF AdminFinish
<1>4. CASE OpenAdminVote
  BY <1>4, DieCalm DEF OpenAdminVote, CalmInv
<1>5. CASE OpenAdminLogin
  BY <1>5, OtherStartCalm DEF OpenAdminLogin, CalmInv
<1>6. CASE OpenAdminSignUp
  BY <1>6, OtherStartCalm DEF OpenAdminSignUp, CalmInv
<1> QED
  BY <1>1, <1>2, <1>3, <1>4, <1>5, <1>6, StopCalm, CreateStartCalm, SignInCalm, SignUpCalm,
     AdminBackCalm, BackCalm, TurnCalm, CreateCalm DEF SessionNext

-----------------------------------------------------------------------------
(* Theorems *)

SessionInv == Typed /\ CredentialsInv /\ UserInv /\ CalmInv

LEMMA SessionInvHolds == SessionSpec => []SessionInv
<1>1. SessionInit => SessionInv
  BY SessionTypeInit, InitCredentialsInv, InitUserInv, InitCalmInv, TypeParts DEF SessionInv
<1>2. SessionInv /\ [SessionNext]_sessionVars => SessionInv'
  BY CredentialsInvStep, TypedStep, UserInvStep, CalmInvStep DEF SessionInv
<1> QED
  BY <1>1, <1>2, PTL DEF SessionSpec

\* Screens, starts, requests, accounts and the form are of their kind, for any texts
\* and passwords, any number of screens and requests.
THEOREM SessionTypeCorrect == SessionSpec => []SessionTypeOK
<1>1. SessionInv => SessionTypeOK
  BY TypeParts DEF SessionInv
<1> QED
  BY <1>1, SessionInvHolds, PTL

\* Whatever requests overlap and in whatever order screens are made, asking for the
\* user finds somebody, unless one administrator's screen was left with another one
\* there (AdminActivity.java:75-76, 118-120, 127-128, CreatevoteActivity.java:90).
THEOREM UserIsThereHolds == SessionSpec => []UserIsThere
<1>1. SessionInv => UserIsThere
  <2> SUFFICES ASSUME SessionInv, ~leftOthers
               PROVE  died # "nouser" /\ (On("admin") \/ On("create") => currentUser # NoId)
    BY DEF UserIsThere
  <2>1. Typed /\ died # "nouser" /\ (currentUser = NoId => ~AdminsOf(stack, starts))
    BY DEF SessionInv, UserInv
  <2>2. On("admin") \/ On("create") => AdminsOf(stack, starts)
    BY <2>1, OnFacts DEF Admins
  <2> QED
    BY <2>1, <2>2
<1> QED
  BY <1>1, SessionInvHolds, PTL

\* As long as requests do not crowd, an administrator's screen shows who is signed in,
\* however screens are stopped, turned, covered and left and in whatever order they
\* are made (AdminActivity.java:75-76, 118-120, 127-128).
THEOREM ShownIsCurrentHolds == SessionSpec => []ShownIsCurrent
<1>1. SessionInv => ShownIsCurrent
  <2> SUFFICES ASSUME SessionInv, ~crowded, On("admin") \/ On("create")
               PROVE  Top.owner = currentUser
    BY DEF ShownIsCurrent
  <2>1. Typed /\ Owned
    BY DEF SessionInv, CalmInv
  <2>2. Len(stack) \in 1 .. Len(stack) /\ stack[Len(stack)].screen \in Admins
    BY <2>1, OnFacts DEF Admins
  <2> QED
    BY <2>1, <2>2 DEF Owned, Top
<1> QED
  BY <1>1, SessionInvHolds, PTL
=============================================================================
