--------------------------- MODULE CredentialForm ---------------------------
(***************************************************************************)
(* The fields and flags that UsersignupActivity and AdminsignupActivity    *)
(* share: an id that must be checked, a password and its repetition, and   *)
(* the text watchers that keep the flags.  The two screens have the same   *)
(* watchers line by line; a form is a record, an edit maps it to the next. *)
(***************************************************************************)
CONSTANTS
    Texts,      \* what can be typed into the id field, upper case letters included
    Lower,      \* toLowerCase, as a function on Texts
    Passwords,  \* what can be typed into the password fields
    Long,       \* the passwords of eight characters or more
    Blank,      \* the empty text, of an id or a password
    NoId        \* userid before the first check: null

ASSUME LowerAssumption ==
    /\ Lower \in [Texts -> Texts]
    /\ \A t \in Texts : Lower[Lower[t]] = Lower[t]
ASSUME FieldsAssumption ==
    /\ Blank \in Texts \cap Passwords
    /\ Long \subseteq Passwords \ {Blank}
    /\ NoId \notin Texts

Forms == [ id : Texts, userid : Texts \cup {NoId}, check_id : BOOLEAN,
           pw : Passwords, pw2 : Passwords, check_pw : BOOLEAN, pw2Enabled : BOOLEAN ]

\* The layout: empty fields, the repetition disabled; the activity's fields.
EmptyForm == [ id |-> Blank, userid |-> NoId, check_id |-> FALSE,
               pw |-> Blank, pw2 |-> Blank, check_pw |-> FALSE, pw2Enabled |-> FALSE ]

\* Mutant: no watcher on the id.
WithIdUnwatched(f, t) == [f EXCEPT !.id = t]

\* Watcher of the id: another text than the one checked clears the flag; the
\* same text never sets it again.
WithId(f, t) == [f EXCEPT !.id = t, !.check_id = @ /\ Lower[t] = f.userid]

\* Mutant: the password's watcher only looks at its length.
WithPwUncompared(f, p) == [f EXCEPT !.pw = p, !.pw2Enabled = p \in Long]

\* Watcher of the password: its length enables the repetition; the two are
\* compared although the repetition may be disabled.
WithPw(f, p) == [f EXCEPT !.pw = p, !.pw2Enabled = p \in Long, !.check_pw = p = f.pw2]

\* Watcher of the repetition.
WithPw2(f, p) == [f EXCEPT !.pw2 = p, !.check_pw = p = f.pw]

\* The activity is made again (the phone is turned): its fields start afresh,
\* and the texts are put back one after the other, each under its watcher.
Recreated(f) == WithPw2(WithPw(WithId(EmptyForm, f.id), f.pw), f.pw2)
=============================================================================
