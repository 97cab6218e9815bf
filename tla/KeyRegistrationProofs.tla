----------------------- MODULE KeyRegistrationProofs -----------------------
(***************************************************************************)
(* Proofs about KeyRegistration, for any voters, votes and keys.           *)
(***************************************************************************)
EXTENDS KeyRegistration, TLAPS

USE BoundsAssumption, NoneAssumption

-----------------------------------------------------------------------------
(* The invariant *)

Known(v) == \E u \in Users : registered[<<u, v>>] # None

\* The table, the ballots, what an open screen has read from the table and an
\* answer on its way all speak of votes the server has a key for.
RowsKnown    == \A r \in pk : Known(r.vote)
BallotsKnown == \A b \in ballots : Known(b.vote)
ScreenKnown  == screen # None /\ screen.check_pk => Known(screen.vote)
AnswerKnown  == request # None /\ request.status \in {"succ", "done"} => Known(screen.vote)

\* An open screen of an ongoing vote without a key, or of a vote that is over,
\* never has its button enabled.
ButtonClosed ==
    screen # None /\ screen.button =>
        screen.state = "before" \/ (screen.state = "ing" /\ screen.check_pk)

IInv ==
    /\ TypeOK
    /\ RowsKnown /\ BallotsKnown /\ ScreenKnown /\ AnswerKnown
    /\ ButtonClosed /\ NoKeyOnceStarted

LEMMA InitInv == Init => IInv
BY DEF Init, IInv, TypeOK, Phases, RowsKnown, BallotsKnown, ScreenKnown, AnswerKnown,
       ButtonClosed, NoKeyOnceStarted

\* The values of open screens and of requests are none of None.
LEMMA NotNone ==
  /\ \A s \in Screens : s # None
  /\ \A q \in Requests : q # None
BY DEF Screens, Requests, Phases, Keys

LEMMA TypeStep == TypeOK /\ [Next]_vars => TypeOK'
<1> SUFFICES ASSUME TypeOK, [Next]_vars PROVE TypeOK'
  OBVIOUS
<1> USE DEF TypeOK
<1>1. ASSUME NEW u \in Users, Login(u) PROVE TypeOK'
  BY <1>1 DEF Login
<1>2. CASE Logout
  BY <1>2 DEF Logout
<1>3. ASSUME NEW v \in Votes, OpenVote(v) PROVE TypeOK'
  <2>1. screen' \in Screens
    BY <1>3 DEF OpenVote, Screens, HasRow
  <2>2. request = None
    BY <1>3 DEF OpenVote
  <2> QED
    BY <1>3, <2>1, <2>2 DEF OpenVote
<1>4. CASE VoteBack
  BY <1>4 DEF VoteBack
<1>5. CASE SelectCandidate
  <2>1. screen' \in Screens
    BY <1>5 DEF SelectCandidate, Screens
  <2> QED
    BY <1>5, <2>1 DEF SelectCandidate
<1>6. CASE ConfirmVote
  <2>1. screen \in Screens /\ user \in Users
    BY <1>6 DEF ConfirmVote
  <2>2. [user |-> user, vote |-> screen.vote, phase |-> phase[screen.vote]]
            \in [user : Users, vote : Votes, phase : Phases]
    BY <2>1 DEF Screens
  <2> QED
    BY <1>6, <2>2 DEF ConfirmVote
<1>7. CASE SendKey \/ SendFakeKey
  <2>1. PICK real \in BOOLEAN : Send(real)
    BY <1>7 DEF SendKey, SendFakeKey
  <2>2. keys + 1 \in Keys /\ keys' \in 0 .. MaxKeys
    BY <2>1 DEF Send, Keys
  <2>3. request' \in Requests
    BY <2>1, <2>2 DEF Send, Requests
  <2>4. screen # None
    BY <1>7 DEF SendKey, SendFakeKey
  <2> QED
    BY <2>1, <2>2, <2>3, <2>4 DEF Send
<1>8. CASE ServerRegisters
  <2>1. request \in Requests /\ screen \in Screens /\ user \in Users
    BY <1>8 DEF ServerRegisters
  <2>2. request' \in Requests
    BY <1>8, <2>1 DEF ServerRegisters, Requests
  <2>3. registered' \in [Users \X Votes -> Keys \cup {None}]
    BY <1>8, <2>1 DEF ServerRegisters, Requests, Screens
  <2> QED
    BY <1>8, <2>2, <2>3 DEF ServerRegisters
<1>9. CASE ServerFails
  <2>1. request' \in Requests
    BY <1>9 DEF ServerFails, Requests
  <2> QED
    BY <1>9, <2>1 DEF ServerFails
<1>10. CASE NetworkFails
  <2>1. request' \in Requests
    BY <1>10 DEF NetworkFails, Requests
  <2> QED
    BY <1>10, <2>1 DEF NetworkFails
<1>11. CASE FinishRegister \/ FinishFakeKey
  <2>1. [vote |-> screen.vote, key |-> request.key] \in [vote : Votes, key : Keys]
    BY <1>11 DEF FinishRegister, FinishFakeKey, Answered, Screens, Requests
  <2> QED
    BY <1>11, <2>1 DEF FinishRegister, FinishFakeKey, Answered
<1>12. CASE NullAnswerCrash
  BY <1>12 DEF NullAnswerCrash, Restarted
<1>13. CASE Kill
  <2>1. kills' \in 0 .. MaxKills
    BY <1>13 DEF Kill
  <2> QED
    BY <1>13, <2>1 DEF Kill, Restarted
<1>14. ASSUME NEW v \in Votes, Tick(v) PROVE TypeOK'
  BY <1>14 DEF Tick, Phases
<1>15. CASE UNCHANGED vars
  BY <1>15 DEF vars
<1> QED
  BY <1>1, <1>2, <1>3, <1>4, <1>5, <1>6, <1>7, <1>8, <1>9, <1>10, <1>11, <1>12, <1>13, <1>14,
     <1>15 DEF Next

\* What the server knows it never forgets: registrations only add keys.
LEMMA KnownStays ==
  ASSUME TypeOK, [Next]_vars, NEW v \in Votes, Known(v)
  PROVE  Known(v)'
<1>1. PICK u \in Users : registered[<<u, v>>] # None
  BY DEF Known
<1>2. registered'[<<u, v>>] # None
  <2>1. CASE ServerRegisters
    <3> DEFINE uv == <<user, screen.vote>>
    <3>1. request \in Requests /\ request.key # None
      BY <2>1 DEF ServerRegisters, TypeOK, Requests, Keys
    <3>2. registered \in [Users \X Votes -> Keys \cup {None}]
      BY DEF TypeOK
    <3>3. registered' = registered \/ registered' = [registered EXCEPT ![uv] = request.key]
      BY <2>1 DEF ServerRegisters
    <3> QED
      BY <1>1, <3>1, <3>2, <3>3
  <2>2. CASE ~ServerRegisters
    <3>1. registered' = registered
      BY <2>2 DEF Next, Login, Logout, OpenVote, VoteBack, SelectCandidate, ConfirmVote, SendKey, SendFakeKey, Send,
           ServerFails, NetworkFails, FinishRegister, FinishFakeKey, Answered, NullAnswerCrash, Kill, Tick, vars
    <3> QED
      BY <1>1, <3>1
  <2> QED
    BY <2>1, <2>2
<1> QED
  BY <1>2 DEF Known

LEMMA InvStep == IInv /\ [Next]_vars => IInv'
<1> SUFFICES ASSUME IInv, [Next]_vars PROVE IInv'
  OBVIOUS
<1>1. TypeOK /\ TypeOK'
  BY TypeStep DEF IInv
<1>2. \A v \in Votes : Known(v) => Known(v)'
  BY <1>1, KnownStays
<1>3. RowsKnown /\ BallotsKnown /\ ScreenKnown /\ AnswerKnown /\ ButtonClosed /\ NoKeyOnceStarted
  BY DEF IInv
<1>4. /\ \A r \in pk : r.vote \in Votes
      /\ \A b \in ballots : b.vote \in Votes
      /\ screen # None => screen.vote \in Votes /\ screen.state \in Phases
  BY <1>1 DEF TypeOK, Screens
<1>5. RowsKnown'
  <2>1. CASE FinishRegister
    <3>1. \A r \in pk' : r \in pk \/ (r.vote = screen.vote /\ request.status \in {"succ", "done"})
      BY <2>1 DEF FinishRegister, Answered
    <3>2. request # None /\ screen # None
      BY <1>1, <2>1 DEF FinishRegister, Answered, TypeOK
    <3> QED
      BY <1>2, <1>3, <1>4, <3>1, <3>2 DEF RowsKnown, AnswerKnown
  <2>2. CASE ~FinishRegister
    <3>1. pk' = pk
      BY <2>2 DEF Next, Login, Logout, OpenVote, VoteBack, SelectCandidate, ConfirmVote, SendKey, SendFakeKey, Send,
           ServerRegisters, ServerFails, NetworkFails, FinishFakeKey, Answered, NullAnswerCrash, Kill, Tick, vars
    <3> QED
      BY <1>2, <1>3, <1>4, <3>1 DEF RowsKnown
  <2> QED
    BY <2>1, <2>2
<1>6. BallotsKnown'
  <2>1. CASE ConfirmVote
    <3>1. \A b \in ballots' : b \in ballots \/ (b.vote = screen.vote /\ screen.check_pk)
      BY <2>1 DEF ConfirmVote, CanVote
    <3>2. screen # None
      BY <2>1 DEF ConfirmVote
    <3> QED
      BY <1>2, <1>3, <1>4, <3>1, <3>2 DEF BallotsKnown, ScreenKnown
  <2>2. CASE ~ConfirmVote
    <3>1. ballots' = ballots
      BY <2>2 DEF Next, Login, Logout, OpenVote, VoteBack, SelectCandidate, SendKey, SendFakeKey, Send, FinishRegister, FinishFakeKey,
       Answered,
           ServerRegisters, ServerFails, NetworkFails, NullAnswerCrash, Kill, Tick, vars
    <3> QED
      BY <1>2, <1>3, <1>4, <3>1 DEF BallotsKnown
  <2> QED
    BY <2>1, <2>2
<1>7. ScreenKnown' /\ ButtonClosed'
  <2>1. ASSUME NEW v \in Votes, OpenVote(v) PROVE ScreenKnown' /\ ButtonClosed'
    <3>1. screen' = [vote |-> v, state |-> phase[v], check_pk |-> HasRow(v), button |-> phase[v] = "before"]
      BY <2>1 DEF OpenVote
    <3>2. HasRow(v) => Known(v)
      BY <1>3 DEF HasRow, RowsKnown
    <3> QED
      BY <1>2, <3>1, <3>2 DEF ScreenKnown, ButtonClosed
  <2>2. CASE SelectCandidate
    <3>1. /\ screen # None /\ screen.state = "ing" /\ screen.check_pk
          /\ screen' = [screen EXCEPT !.button = TRUE] /\ screen \in Screens
      BY <1>1, <2>2 DEF SelectCandidate, TypeOK
    <3>2. screen'.vote = screen.vote /\ screen'.state = "ing" /\ screen'.check_pk
      BY <3>1 DEF Screens
    <3> QED
      BY <1>2, <1>3, <1>4, <3>1, <3>2 DEF ScreenKnown, ButtonClosed
  <2>3. CASE screen' \in {screen, None}
    BY <1>2, <1>3, <1>4, <2>3 DEF ScreenKnown, ButtonClosed
  <2> QED
    BY <2>1, <2>2, <2>3 DEF Next, Login, Logout, VoteBack, ConfirmVote, SendKey, SendFakeKey, Send, FinishRegister, FinishFakeKey,
       Answered,
       ServerRegisters, ServerFails, NetworkFails, NullAnswerCrash, Restarted, Kill, Tick, vars
<1>8. AnswerKnown' /\ NoKeyOnceStarted'
  <2>1. CASE SendKey \/ SendFakeKey
    <3>1. request'.status = "sent" /\ screen' = screen /\ screen # None
      BY <2>1 DEF SendKey, SendFakeKey, Send
    <3>2. screen.state = "before"
      BY <1>3, <2>1, <3>1 DEF SendKey, SendFakeKey, CanVote, ButtonClosed
    <3> QED
      BY <3>1, <3>2 DEF AnswerKnown, NoKeyOnceStarted
  <2>2. CASE ServerRegisters
    <3> DEFINE uv == <<user, screen.vote>>
    <3>1. /\ screen' = screen /\ request # None /\ request \in Requests
          /\ user \in Users /\ screen.vote \in Votes
      BY <1>1, <1>4, <2>2 DEF ServerRegisters, TypeOK
    <3>2. registered[uv] # None => registered' = registered
      BY <2>2 DEF ServerRegisters
    <3>3. registered[uv] = None => registered'[uv] = request.key
      BY <1>1, <2>2, <3>1 DEF ServerRegisters, TypeOK
    <3>4. request.key # None
      BY <3>1 DEF Requests, Keys
    <3>5. registered'[<<user, screen.vote>>] # None
      BY <3>2, <3>3, <3>4
    <3>6. Known(screen.vote)'
      BY <3>1, <3>5 DEF Known
    <3> QED
      BY <1>3, <3>1, <3>6 DEF AnswerKnown, NoKeyOnceStarted
  <2>3. CASE ServerFails \/ NetworkFails
    <3>1. request # None /\ request \in Requests /\ screen' = screen
      BY <1>1, <2>3 DEF ServerFails, NetworkFails, TypeOK
    <3>2. request'.status \in {"error", "null"}
      BY <2>3, <3>1 DEF ServerFails, NetworkFails, Requests
    <3> QED
      BY <1>3, <3>1, <3>2 DEF AnswerKnown, NoKeyOnceStarted
  <2>4. CASE request' = None
    BY <2>4 DEF AnswerKnown, NoKeyOnceStarted
  <2>5. CASE request' = request /\ screen' = screen
    BY <1>1, <1>2, <1>3, <1>4, <2>5 DEF AnswerKnown, NoKeyOnceStarted, TypeOK
  <2>6. ASSUME NEW v \in Votes, OpenVote(v) PROVE request' = None
    BY <1>1, <2>6 DEF OpenVote, TypeOK
  <2> QED
    BY <2>1, <2>2, <2>3, <2>4, <2>5, <2>6 DEF Next, Login, Logout, VoteBack, SelectCandidate,
       ConfirmVote, FinishRegister, FinishFakeKey, Answered, NullAnswerCrash, Restarted, Kill, Tick, vars
<1> QED
  BY <1>1, <1>5, <1>6, <1>7, <1>8 DEF IInv

THEOREM Invariance == Spec => []IInv
BY InitInv, InvStep, PTL DEF Spec

-----------------------------------------------------------------------------
(* The theorems *)

\* Users, screens, requests, rows and keys are of their kinds, for any voters
\* and votes.
THEOREM TypeCorrect == Spec => []TypeOK
BY Invariance, PTL DEF IInv

\* The phone keeps keys, and lets somebody vote, only for votes the server has a
\* key for, whatever answers are lost (VoteActivity.java:150-158, 300-308).
THEOREM KeptKeyIsRegisteredHolds == Spec => []KeptKeyIsRegistered
<1>1. ASSUME IInv, NEW v \in {r.vote : r \in pk} \cup {b.vote : b \in ballots}
      PROVE  Known(v)
  <2>1. CASE v \in {r.vote : r \in pk}
    BY <1>1, <2>1 DEF IInv, RowsKnown
  <2>2. CASE v \in {b.vote : b \in ballots}
    BY <1>1, <2>2 DEF IInv, BallotsKnown
  <2> QED
    BY <1>1, <2>1, <2>2
<1>2. IInv => KeptKeyIsRegistered
  BY <1>1 DEF Known, KeptKeyIsRegistered
<1> QED
  BY Invariance, <1>2, PTL

\* No key registration leaves the phone from a screen opened once the vote was
\* on (VoteActivity.java:187-204, 275-318).
THEOREM NoKeyOnceStartedHolds == Spec => []NoKeyOnceStarted
BY Invariance, PTL DEF IInv
=============================================================================
