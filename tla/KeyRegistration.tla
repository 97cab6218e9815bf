-------------------------- MODULE KeyRegistration --------------------------
(***************************************************************************)
(* Voting keys on one phone: VoteActivity registers a key with the server  *)
(* before a vote starts, keeps it in the local table pk, and lets the user *)
(* vote while the vote is on if the table has a row for it.                *)
(*                                                                         *)
(* What VoteActivity knows is read once, when the screen opens: the phase  *)
(* of the vote from the clock, check_pk from the table.  The registration  *)
(* request blocks the main thread without a timeout; meanwhile the clock   *)
(* goes on, the request or its answer may be lost and the process may die. *)
(* The table is on disk, and it is not kept per user.                      *)
(***************************************************************************)
EXTENDS Naturals, FiniteSets

CONSTANTS
    Users,     \* the voters who log in on this phone
    Votes,     \* vote ids
    MaxKeys,   \* bound: how many keys are made (salted hashes, all different)
    MaxKills,  \* bound: how often the process dies
    None       \* no user, screen, request or key

ASSUME BoundsAssumption == MaxKeys \in Nat /\ MaxKills \in Nat
ASSUME NoneAssumption ==
    /\ None \notin Users \cup Nat
    /\ None \notin [vote : Votes, state : {"before", "ing", "end"},
                    check_pk : BOOLEAN, button : BOOLEAN]
    /\ None \notin [key : Nat, real : BOOLEAN, status : {"sent", "succ", "done", "error", "null"}]

VARIABLES
    phase,       \* where the clock is in the term of each vote
    user,        \* user_id logged in
    screen,      \* the open VoteActivity
    request,     \* the register_key request the main thread waits for
    pk,          \* rows of the local table pk
    registered,  \* the server's key of each user and vote
    ballots,     \* confirmed votes, with the phase at that moment
    keys,        \* keys made so far
    kills        \* deaths of the process so far, for the bound only

vars == <<phase, user, screen, request, pk, registered, ballots, keys, kills>>

Phases   == {"before", "ing", "end"}
Keys     == 1 .. MaxKeys
Screens  == [vote : Votes, state : Phases, check_pk : BOOLEAN, button : BOOLEAN]
Requests == [key : Keys, real : BOOLEAN, status : {"sent", "succ", "done", "error", "null"}]

TypeOK ==
    /\ phase \in [Votes -> Phases]
    /\ user \in Users \cup {None}
    /\ screen \in Screens \cup {None}
    /\ screen # None => user # None
    /\ request \in Requests \cup {None}
    /\ request # None => screen # None
    /\ pk \subseteq [vote : Votes, key : Keys]
    /\ registered \in [Users \X Votes -> Keys \cup {None}]
    /\ ballots \subseteq [user : Users, vote : Votes, phase : Phases]
    /\ keys \in 0 .. MaxKeys
    /\ kills \in 0 .. MaxKills

Init ==
    /\ phase = [v \in Votes |-> "before"]
    /\ user = None /\ screen = None /\ request = None
    /\ pk = {}
    /\ registered = [uv \in Users \X Votes |-> None]
    /\ ballots = {}
    /\ keys = 0 /\ kills = 0

-----------------------------------------------------------------------------
(* The user's screens; the main thread serves them when no request is out *)

Login(u) ==
    /\ user = None
    /\ user' = u
    /\ UNCHANGED <<phase, screen, request, pk, registered, ballots, keys, kills>>

Logout ==
    /\ user # None /\ screen = None
    /\ user' = None
    /\ UNCHANGED <<phase, screen, request, pk, registered, ballots, keys, kills>>

HasRow(v) == \E r \in pk : r.vote = v

\* Mutant: the button is enabled in every phase.
OpenVoteEnabled(v) ==
    /\ user # None /\ screen = None
    /\ screen' = [vote |-> v, state |-> phase[v], check_pk |-> HasRow(v), button |-> TRUE]
    /\ UNCHANGED <<phase, user, request, pk, registered, ballots, keys, kills>>

\* VoteActivity.onCreate: the button starts disabled, unless the vote has not
\* started and a key can be registered.
OpenVote(v) ==
    /\ user # None /\ screen = None
    /\ screen' = [ vote |-> v, state |-> phase[v], check_pk |-> HasRow(v),
                   button |-> phase[v] = "before" ]
    /\ UNCHANGED <<phase, user, request, pk, registered, ballots, keys, kills>>

\* Mutant: the main thread does not wait for the request (no get()).
VoteBackAnytime ==
    /\ screen # None
    /\ screen' = None
    /\ UNCHANGED <<phase, user, request, pk, registered, ballots, keys, kills>>

VoteBack ==
    /\ screen # None /\ request = None
    /\ screen' = None
    /\ UNCHANGED <<phase, user, request, pk, registered, ballots, keys, kills>>

\* onItemClick: only the adapter of an ongoing vote with a key has listeners.
SelectCandidate ==
    /\ screen # None /\ request = None
    /\ screen.state = "ing" /\ screen.check_pk
    /\ screen' = [screen EXCEPT !.button = TRUE]
    /\ UNCHANGED <<phase, user, request, pk, registered, ballots, keys, kills>>

CanVote == screen.check_pk /\ screen.state = "ing"

\* The complete button in its voting branch; the screen closes.
ConfirmVote ==
    /\ screen # None /\ request = None
    /\ screen.button /\ CanVote
    /\ ballots' = ballots \cup {[user |-> user, vote |-> screen.vote, phase |-> phase[screen.vote]]}
    /\ screen' = None
    /\ UNCHANGED <<phase, user, request, pk, registered, keys, kills>>

\* A new key goes to the server; the handler blocks in get().
Send(real) ==
    /\ request = None
    /\ keys < MaxKeys
    /\ keys' = keys + 1
    /\ request' = [key |-> keys + 1, real |-> real, status |-> "sent"]
    /\ UNCHANGED <<phase, user, screen, pk, registered, ballots, kills>>

\* The complete button in its other branch.
SendKey == screen # None /\ screen.button /\ ~CanVote /\ Send(TRUE)

\* The menu item for a fake key, there as long as the vote has not started.
SendFakeKey == screen # None /\ screen.state = "before" /\ Send(FALSE)

-----------------------------------------------------------------------------
(* The server and the network, as register_key uses them *)

ServerRegisters ==
    /\ request # None /\ request.status = "sent"
    /\ LET uv == <<user, screen.vote>>
       IN  IF registered[uv] = None
           THEN /\ registered' = [registered EXCEPT ![uv] = request.key]
                /\ request' = [request EXCEPT !.status = "succ"]
           ELSE /\ request' = [request EXCEPT !.status = "done"]
                /\ UNCHANGED registered
    /\ UNCHANGED <<phase, user, screen, pk, ballots, keys, kills>>

\* The server answers with something else.
ServerFails ==
    /\ request # None /\ request.status = "sent"
    /\ request' = [request EXCEPT !.status = "error"]
    /\ UNCHANGED <<phase, user, screen, pk, registered, ballots, keys, kills>>

\* The request or its answer is lost: doInBackground returns null.
NetworkFails ==
    /\ request # None /\ request.status # "null"
    /\ request' = [request EXCEPT !.status = "null"]
    /\ UNCHANGED <<phase, user, screen, pk, registered, ballots, keys, kills>>

-----------------------------------------------------------------------------
(* The rest of the click handler *)

Answered(real) ==
    /\ request # None /\ request.real = real /\ request.status \in {"succ", "done", "error"}
    /\ request' = None
    /\ UNCHANGED <<phase, user, screen, registered, ballots, keys, kills>>

\* Mutant: every answer stores the key, as if the handler did not look at it.
FinishRegisterAlways ==
    /\ Answered(TRUE)
    /\ pk' = pk \cup {[vote |-> screen.vote, key |-> request.key]}

\* "succ" and "done" both store the key just made; check_pk is not read again.
FinishRegister ==
    /\ Answered(TRUE)
    /\ pk' = IF request.status \in {"succ", "done"}
             THEN pk \cup {[vote |-> screen.vote, key |-> request.key]} ELSE pk

\* A fake key is not kept, whatever the answer.
FinishFakeKey == Answered(FALSE) /\ UNCHANGED pk

Restarted == user' = None /\ screen' = None /\ request' = None

\* A null answer ends in a NullPointerException on the main thread.
NullAnswerCrash ==
    /\ request # None /\ request.status = "null"
    /\ Restarted
    /\ UNCHANGED <<phase, pk, registered, ballots, keys, kills>>

Kill ==
    /\ kills < MaxKills
    /\ kills' = kills + 1
    /\ Restarted
    /\ UNCHANGED <<phase, pk, registered, ballots, keys>>

Tick(v) ==
    /\ phase[v] # "end"
    /\ phase' = [phase EXCEPT ![v] = IF @ = "before" THEN "ing" ELSE "end"]
    /\ UNCHANGED <<user, screen, request, pk, registered, ballots, keys, kills>>

Next ==
    \/ \E u \in Users : Login(u)
    \/ Logout
    \/ \E v \in Votes : OpenVote(v)
    \/ VoteBack
    \/ SelectCandidate
    \/ ConfirmVote
    \/ SendKey
    \/ SendFakeKey
    \/ ServerRegisters
    \/ ServerFails
    \/ NetworkFails
    \/ FinishRegister
    \/ FinishFakeKey
    \/ NullAnswerCrash
    \/ Kill
    \/ \E v \in Votes : Tick(v)

Spec == Init /\ [][Next]_vars

-----------------------------------------------------------------------------
(* Properties *)

\* Whatever answers were lost and wherever the process died, the phone keeps a
\* key, and lets somebody vote, only for votes the server has a key for
\* (VoteActivity.java:150-158, 188-191, 300-308).
KeptKeyIsRegistered ==
    \A v \in {r.vote : r \in pk} \cup {b.vote : b \in ballots} :
        \E u \in Users : registered[<<u, v>>] # None

\* Without a key no key can be registered once a vote is on: the click handler's
\* other branch is only reached from a screen opened before the start
\* (VoteActivity.java:191 "투표키 등록이 없으면 투표, 키등록 불가").
NoKeyOnceStarted == request # None => screen.state = "before"

\* Who votes has registered a key for that vote (VoteActivity.java:188).
VoterIsRegistered == \A b \in ballots : registered[<<b.user, b.vote>>] # None

\* Votes are cast while the vote is on (VoteActivity.java:179-204).
VotesWithinTerm == \A b \in ballots : b.phase = "ing"
=============================================================================
