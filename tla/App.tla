----------------------------------- MODULE App ---------------------------------
(***************************************************************************)
(* The parts of the app around the casting of a vote: sign-up, the list of *)
(* votes, administrators and the form of a new vote, and the arithmetic of *)
(* an encrypted vote.  They share code (the credentials' form) but no      *)
(* variable, so a behaviour of the app is an interleaving of theirs, and a *)
(* property of one part holds of the app if it holds of the part.  This    *)
(* module therefore runs one part per behaviour.                           *)
(***************************************************************************)
EXTENDS SignUp, VoteList, VoteForm, AdminSession, CurveMul

VARIABLE part   \* the part that runs

appVars == <<part, signUpVars, listVars, sessionVars, formVars, curveVars>>

Parts == {"signup", "list", "session", "form", "curve"}

AppInit ==
    /\ part \in Parts
    /\ SignUpInit /\ ListInit /\ SessionInit /\ FormInit /\ CurveInit

AppNext ==
    \/ /\ part = "signup" /\ SignUpNext
       /\ UNCHANGED <<part, listVars, sessionVars, formVars, curveVars>>
    \/ /\ part = "list" /\ ListNext
       /\ UNCHANGED <<part, signUpVars, sessionVars, formVars, curveVars>>
    \/ /\ part = "session" /\ SessionNext
       /\ UNCHANGED <<part, signUpVars, listVars, formVars, curveVars>>
    \/ /\ part = "form" /\ FormNext
       /\ UNCHANGED <<part, signUpVars, listVars, sessionVars, curveVars>>
    \/ /\ part = "curve" /\ CurveNext
       /\ UNCHANGED <<part, signUpVars, listVars, sessionVars, formVars>>

AppSpec == AppInit /\ [][AppNext]_appVars

\* The state of every part has its type; a part that does not run is as it started.
AppTypeOK ==
    /\ part \in Parts
    /\ SignUpTypeOK /\ ListTypeOK /\ SessionTypeOK /\ FormTypeOK /\ CurveTypeOK
================================================================================
