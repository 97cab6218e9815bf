------------------------------ MODULE VoteCast ------------------------------
(***************************************************************************)
(* Casting a vote on the phone: VoteActivity encrypts the choice and asks  *)
(* Android to start one makevoteinput activity per segment of the circuit  *)
(* input votein.dat and then SubActivity, whose native code makes the CRS  *)
(* if there is none and writes the proof.  The same click handler uploads  *)
(* vote_Proof.dat and vote_CRS_vk.dat and closes the screen.               *)
(*                                                                         *)
(* All activities run on the one main thread, so what a handler asks       *)
(* Android to start only starts after the handler has returned.  Until     *)
(* then it waits in `pending`; `launch` is the order in which Android      *)
(* creates what waits: as requested, or any, for it promises none.  Files  *)
(* survive the death of the process, everything else does not.             *)
(***************************************************************************)
EXTENDS Integers, Sequences, FiniteSets, SequencesExt

CONSTANTS
    Votes,       \* vote ids
    Candidates,  \* candidate ids the server hands out
    First,       \* the segments of the first ciphertext, as encrypt_vote writes them
    Second,      \* those of the second
    Fixed,       \* the segments that do not depend on the choice
    Launches,    \* orders in which Android may start activities: "fifo", "any"
    MaxTaps,     \* bound: rows tapped before a vote's screen comes up
    MaxCasts,    \* bound: how often the user confirms a vote
    MaxKills,    \* bound: how often the process dies
    None,        \* no such file, or nothing yet
    Part,        \* a file opened for writing and not yet complete
    Full,        \* a complete key file
    Raw,         \* a line of the input file the app ships
    Rand         \* a segment that depends on the fixed randomness only

ASSUME VotesAssumption == Votes \subseteq Nat \ {0}
ASSUME CandidatesAssumption == Candidates \subseteq Nat \ {15, 115}  \* 15 sets the sign bit
ASSUME SegmentsAssumption ==
    /\ First \in Seq(STRING) /\ Second \in Seq(STRING)
    /\ "e_id" \notin ToSet(First) \cup ToSet(Second)
    /\ ToSet(First) \cap ToSet(Second) = {}
ASSUME LaunchesAssumption == Launches \subseteq {"fifo", "any"}
ASSUME BoundsAssumption == MaxTaps \in Nat /\ MaxCasts \in Nat /\ MaxKills \in Nat
ASSUME TokensAssumption ==
    /\ None \notin {Part, Full, Raw, Rand} /\ Part \notin {Full, Raw, Rand}
    /\ Full \notin {Raw, Rand} /\ Raw # Rand
    /\ {None, Part, Full, Raw, Rand} \cap Nat = {}

VARIABLES
    screen,    \* logged out or in
    stack,     \* the votes of the VoteActivities above the list, the upper one last
    handler,   \* where the positive button's handler of the upper one is
    chosen,    \* the candidate being confirmed
    launch,    \* the order in which this Android starts activities
    pending,   \* activities asked for and not yet created
    sub,       \* SubActivity and its native call
    votein, pk, vk, proof,   \* the files votein.dat, vote_CRS_pk/vk.dat, vote_Proof.dat
    server,    \* files the server has received
    reported,  \* votes the user was told are cast
    lastHalf,  \* the last vote whose first ciphertext encrypt_vote got to ask for
    lastCast,  \* the last vote encrypt_vote asked for whole, with a run (history)
    stacked,   \* a row was tapped again before its screen came up (history)
    casts,     \* confirmed votes so far, for the bound only
    kills      \* deaths of the process so far, for the bound only

files   == <<votein, pk, vk, proof>>
ui      == <<screen, stack, handler, chosen>>
history == <<reported, lastHalf, lastCast, stacked, casts, kills>>
vars    == <<ui, launch, pending, sub, files, server, history>>

-----------------------------------------------------------------------------
(* Data *)

FirstHalf  == ToSet(First)
SecondHalf == ToSet(Second)
Segments   == {"e_id"} \cup FirstHalf \cup SecondHalf

\* The bit encrypt_vote sets for a candidate; outside 0..15 the array index is
\* out of bounds and the exception ends the encoding before any activity starts.
Slot(c)   == IF c > 100 THEN c - 100 ELSE c
Encodes(c) == Slot(c) \in 0 .. 15

\* What encrypt_vote stores in a segment of a ciphertext.
Content(seg, c) == IF seg \in Fixed THEN Rand ELSE Slot(c)

RawInput == [s \in Segments |-> Raw]

\* A half of the file is as shipped, or as encrypt_vote writes it for candidate c.
Shipped(f, half) == \A s \in half : f[s] = Raw
Of(f, half, c)   == \A s \in half : f[s] = Content(s, c)

\* Does the file hold the encryption of candidate c, whatever the vote?
Encrypts(f, c) == Of(f, FirstHalf, c) /\ Of(f, SecondHalf, c)

\* The circuit accepts one whole encryption, or the example the app ships.
Satisfied(f) ==
    \/ Shipped(f, FirstHalf \cup SecondHalf)
    \/ \E c \in Candidates : Encodes(c) /\ Encrypts(f, c)

\* Votes are numbers, so a segment value is a number or a token.
SegmentValues == {Raw, Rand} \cup Nat

InputIntent(s, x) == [act |-> "input", seg |-> s, val |-> x]
IdIntent(v)       == InputIntent("e_id", v)
PPIntent          == [act |-> "PP"]
VoteIntent(v)     == [act |-> "vote", vote |-> v]
SnarkIntent(m)    == [act |-> "snark", mode |-> m]

Intents ==
    [act : {"input"}, seg : Segments, val : SegmentValues]
    \cup [act : {"PP"}] \cup [act : {"vote"}, vote : Votes]
    \cup [act : {"snark"}, mode : {"run", "verify"}]

\* One ciphertext: an activity for each of its segments.
Writes(half, c) == [n \in DOMAIN half |-> InputIntent(half[n], Content(half[n], c))]

\* Mutant: SubActivity is started before the last segment is written.
EncodeIntentsEarly(c, reach) ==
    CASE reach = 0 -> <<>>
      [] reach = 1 -> Writes(First, c)
      [] OTHER     -> Writes(First, c) \o Front(Writes(Second, c))
                      \o <<SnarkIntent("run"), Last(Writes(Second, c))>>

\* Mutant: the last segment of the second ciphertext (op2) is not written.
EncodeIntentsNoOp(c, reach) ==
    CASE reach = 0 -> <<>>
      [] reach = 1 -> Writes(First, c)
      [] OTHER     -> Writes(First, c) \o Front(Writes(Second, c)) \o <<SnarkIntent("run")>>

\* The activities encrypt_vote starts, in its order, when an exception stops it
\* before the first encryption, between the two, or not at all.
EncodeIntents(c, reach) ==
    CASE reach = 0 -> <<>>
      [] reach = 1 -> Writes(First, c)
      [] OTHER     -> Writes(First, c) \o Writes(Second, c) \o <<SnarkIntent("run")>>

SubIdle == [pc |-> "idle", mode |-> None, input |-> None]

Ready == pending = <<>> /\ sub = SubIdle /\ handler = "idle"

-----------------------------------------------------------------------------

Input == [Segments -> SegmentValues]
Proof == [input : Input, crs : {Part, Full}]

ASSUME FilesAssumption ==   \* the tokens for no file are no file's content, and no vote
    {None, Part} \cap (Input \cup Proof) = {} /\ None \notin Votes \X Candidates

TypeOK ==
    /\ screen \in {"main", "list"}
    /\ stack \in Seq(Votes)
    /\ handler \in {"idle", "upload", "sendvk"}
    /\ chosen \in Candidates \cup {None}
    /\ handler # "idle" => stack # <<>> /\ chosen # None
    /\ launch \in Launches
    /\ pending \in Seq(Intents)
    /\ sub \in [ pc    : {"idle", "setup", "openvk", "writepk", "writevk", "prove",
                        "writeproof", "verify", "dialog"},
                mode  : {"setuprun", "run", "verify", None},
                input : Input \cup {None} ]
    /\ IF sub.pc = "idle" THEN sub = SubIdle ELSE sub.input \in Input
    /\ casts \in 0 .. MaxCasts /\ kills \in 0 .. MaxKills
    /\ votein \in Input \cup {None}
    /\ pk \in {None, Part, Full}
    /\ vk \in {None, Part, Full}
    /\ proof \in Proof \cup {None, Part}
    /\ reported \subseteq Votes \X Candidates
    /\ lastHalf \in (Votes \X Candidates) \cup {None}
    /\ lastCast \in (Votes \X Candidates) \cup {None}
    /\ stacked \in BOOLEAN

Init ==
    /\ screen = "main" /\ stack = <<>> /\ handler = "idle" /\ chosen = None
    /\ launch \in Launches /\ pending = <<>>
    /\ sub = SubIdle
    /\ votein = None /\ pk = None /\ vk = None /\ proof = None
    /\ server = {} /\ reported = {} /\ lastHalf = None /\ lastCast = None
    /\ stacked = FALSE /\ casts = 0 /\ kills = 0

-----------------------------------------------------------------------------
(* The user's screens *)

Ask(intents) == pending' = pending \o intents

\* The list comes up and asks for the shipped file.
Login ==
    /\ Ready /\ screen = "main"
    /\ screen' = "list"
    /\ Ask(<<PPIntent>>)
    /\ UNCHANGED <<stack, handler, chosen, sub, files, server, history>>

Logout ==
    /\ Ready /\ screen = "list" /\ stack = <<>>
    /\ screen' = "main"
    /\ UNCHANGED <<stack, handler, chosen, pending, sub, files, server, history>>

\* The test buttons of MainActivity.
PressSnark ==
    /\ Ready /\ screen = "main"
    /\ Ask(<<SnarkIntent("verify")>>)
    /\ UNCHANGED <<ui, sub, files, server, history>>

PressDb ==
    /\ Ready /\ screen = "main"
    /\ Ask(<<IdIntent(1)>>)
    /\ UNCHANGED <<ui, sub, files, server, history>>

\* A row of the list is tapped: the vote's screen is only asked for, and until it
\* comes up the list takes more taps.
OpenVote(v) ==
    /\ screen = "list" /\ stack = <<>> /\ handler = "idle" /\ sub = SubIdle
    /\ Len(pending) < MaxTaps /\ \A k \in DOMAIN pending : pending[k].act = "vote"
    /\ Ask(<<VoteIntent(v)>>)
    /\ stacked' = (stacked \/ pending # <<>>)
    /\ UNCHANGED <<ui, sub, files, server, reported, lastHalf, lastCast, casts, kills>>

VoteBack ==
    /\ Ready /\ stack # <<>>
    /\ stack' = Front(stack)
    /\ UNCHANGED <<screen, handler, chosen, pending, sub, files, server, history>>

-----------------------------------------------------------------------------
(* The positive button of the vote dialog *)

\* encrypt_vote gets nowhere, through the first encryption or to its end: its
\* exceptions are swallowed and the handler goes on with what is asked for.
Confirm(c, reach) ==
    /\ Ready /\ stack # <<>>
    /\ casts < MaxCasts /\ casts' = casts + 1
    /\ reach > 0 => Encodes(c) /\ votein # None
    /\ chosen' = c
    /\ Ask(EncodeIntents(c, reach))
    /\ lastHalf' = IF reach > 0 THEN <<Last(stack), c>> ELSE lastHalf
    /\ lastCast' = IF reach > 1 THEN <<Last(stack), c>> ELSE lastCast
    /\ handler' = "upload"
    /\ UNCHANGED <<screen, stack, sub, files, server, reported, stacked, kills>>

\* connect().execute("vote").get(): a missing file or no network is only logged.
UploadProof(online) ==
    /\ handler = "upload"
    /\ server' = IF online /\ proof # None
                 THEN server \cup {[kind |-> "proof", vote |-> Last(stack), file |-> proof]}
                 ELSE server
    /\ handler' = "sendvk"
    /\ UNCHANGED <<screen, stack, chosen, pending, sub, files, history>>

\* connect().execute("sendvk").get(), then setResult(RESULT_OK) and finish().
UploadVk(online) ==
    /\ handler = "sendvk"
    /\ server' = IF online /\ vk # None
                 THEN server \cup {[kind |-> "vk", vote |-> Last(stack), file |-> vk]}
                 ELSE server
    /\ reported' = reported \cup {<<Last(stack), chosen>>}
    /\ handler' = "idle" /\ chosen' = None /\ stack' = Front(stack)
    /\ UNCHANGED <<screen, pending, sub, files, lastHalf, lastCast, stacked, casts, kills>>

-----------------------------------------------------------------------------
(* Activities that Android creates *)

\* The k-th of the waiting activities is the next: the main thread is free, or
\* shows the result of a native run.
CanLaunch(k) ==
    /\ handler = "idle" /\ sub.pc \in {"idle", "dialog"}
    /\ launch = "fifo" => k = 1

Others(k) == RemoveAt(pending, k)

\* makevoteinput mode 0 copies the shipped file over votein.dat.
MakePP(k) ==
    /\ CanLaunch(k) /\ pending[k].act = "PP"
    /\ votein' = RawInput
    /\ pending' = Others(k)
    /\ UNCHANGED <<ui, sub, pk, vk, proof, server, history>>

\* Mutant: opening a vote does not write its id.
MakeVoteNoId(k) ==
    /\ CanLaunch(k) /\ pending[k].act = "vote"
    /\ stack' = Append(stack, pending[k].vote)
    /\ pending' = Others(k)
    /\ UNCHANGED <<screen, handler, chosen, sub, files, server, history>>

\* VoteActivity.onCreate asks for the vote's id to be written.
MakeVote(k) ==
    /\ CanLaunch(k) /\ pending[k].act = "vote"
    /\ stack' = Append(stack, pending[k].vote)
    /\ pending' = Append(Others(k), IdIntent(pending[k].vote))
    /\ UNCHANGED <<screen, handler, chosen, sub, files, server, history>>

\* makevoteinput mode 1 rewrites the lines of one segment.
MakeInput(k) ==
    /\ CanLaunch(k) /\ pending[k].act = "input" /\ votein # None
    /\ votein' = [votein EXCEPT ![pending[k].seg] = pending[k].val]
    /\ pending' = Others(k)
    /\ UNCHANGED <<ui, sub, pk, vk, proof, server, history>>

\* What the death of the process leaves: the files.
Restarted ==
    /\ screen' = "main" /\ stack' = <<>> /\ handler' = "idle" /\ chosen' = None
    /\ pending' = <<>> /\ sub' = SubIdle

\* Without votein.dat fwTmp stays null and its close() throws.
MakeInputCrash(k) ==
    /\ CanLaunch(k) /\ pending[k].act = "input" /\ votein = None
    /\ Restarted
    /\ UNCHANGED <<files, server, history>>

\* Mutant: a missing votein.dat is not copied.
StartSnarkNoCopy(k) ==
    /\ CanLaunch(k) /\ sub = SubIdle /\ pending[k].act = "snark"
    /\ LET mode == IF pk = None THEN "setuprun" ELSE pending[k].mode
       IN  sub' = [ mode |-> mode, input |-> votein,
                    pc |-> CASE mode = "setuprun" -> "setup"
                             [] mode = "run"      -> "prove"
                             [] OTHER             -> "verify" ]
    /\ pending' = Others(k)
    /\ UNCHANGED <<ui, files, server, history>>

\* SubActivity.onCreate: without a pk every mode becomes setuprun; a missing
\* votein.dat is copied; the native code then reads the whole input.
StartSnark(k) ==
    /\ CanLaunch(k) /\ sub = SubIdle /\ pending[k].act = "snark"
    /\ votein' = IF votein = None THEN RawInput ELSE votein
    /\ LET mode == IF pk = None THEN "setuprun" ELSE pending[k].mode
       IN  sub' = [ mode |-> mode, input |-> votein',
                    pc |-> CASE mode = "setuprun" -> "setup"
                             [] mode = "run"      -> "prove"
                             [] OTHER             -> "verify" ]
    /\ pending' = Others(k)
    /\ UNCHANGED <<ui, pk, vk, proof, server, history>>

NativeStep(from, to) ==
    /\ sub.pc = from
    /\ sub' = [sub EXCEPT !.pc = to]
    /\ UNCHANGED <<ui, pending, votein, server, history>>

\* run_r1cs_gg_ppzksnark_setup: open (and empty) both files, then write them;
\* the streams are buffered, so a file is complete when it is closed.
OpenPk  == NativeStep("setup", "openvk")    /\ pk' = Part /\ UNCHANGED <<vk, proof>>
OpenVk  == NativeStep("openvk", "writepk")  /\ vk' = Part /\ UNCHANGED <<pk, proof>>

\* Mutant: the verification key is written first.
WriteVkEarly == NativeStep("writepk", "writevk") /\ vk' = Full /\ UNCHANGED <<pk, proof>>

WritePk == NativeStep("writepk", "writevk") /\ pk' = Full /\ UNCHANGED <<vk, proof>>
WriteVk == NativeStep("writevk", "prove")   /\ vk' = Full /\ UNCHANGED <<pk, proof>>

\* run_r1cs_gg_ppzksnark: read whatever pk file there is, prove, write the proof.
\* An input that does not satisfy the constraints is logged and proved anyway.
OpenProof == NativeStep("prove", "writeproof") /\ proof' = Part /\ UNCHANGED <<pk, vk>>

\* Mutant: the run does not come to its end.
WriteProofAgain ==
    NativeStep("writeproof", "prove")
    /\ proof' = [input |-> sub.input, crs |-> pk] /\ UNCHANGED <<pk, vk>>

WriteProof ==
    NativeStep("writeproof", "dialog")
    /\ proof' = [input |-> sub.input, crs |-> pk] /\ UNCHANGED <<pk, vk>>

\* Reading a pk file cut short leaves the sizes of its vectors uninitialised: the
\* prover goes on with what it has, or the process dies here.
CutKeyCrash ==
    /\ sub.pc = "prove" /\ pk = Part
    /\ Restarted
    /\ UNCHANGED <<files, server, history>>

\* run_r1cs_gg_ppzksnark_verify reads whatever key and proof there are and answers.
Verify == NativeStep("verify", "dialog") /\ UNCHANGED <<pk, vk, proof>>

\* A key or a proof that is missing or cut short is used all the same: there is an
\* answer, or the process dies here.
VerifyCrash ==
    /\ sub.pc = "verify" /\ (vk # Full \/ proof \in {None, Part})
    /\ Restarted
    /\ UNCHANGED <<files, server, history>>

\* The user confirms the result dialog; it cannot be cancelled.
DismissResult ==
    /\ sub.pc = "dialog"
    /\ sub' = SubIdle
    /\ UNCHANGED <<ui, pending, files, server, history>>

Kill ==
    /\ kills < MaxKills
    /\ kills' = kills + 1
    /\ Restarted
    /\ UNCHANGED <<files, server, reported, lastHalf, lastCast, stacked, casts>>

-----------------------------------------------------------------------------

UserStep ==
    \/ Login
    \/ Logout
    \/ PressSnark
    \/ PressDb
    \/ \E v \in Votes : OpenVote(v)
    \/ VoteBack
    \/ \E c \in Candidates, reach \in 0 .. 2 : Confirm(c, reach)
    \/ DismissResult

UploadStep ==
    \/ \E online \in BOOLEAN : UploadProof(online)
    \/ \E online \in BOOLEAN : UploadVk(online)

SystemStep ==
    \/ \E k \in DOMAIN pending :
          \/ MakePP(k)
          \/ MakeVote(k)
          \/ MakeInput(k)
          \/ MakeInputCrash(k)
          \/ StartSnark(k)
    \/ OpenPk
    \/ OpenVk
    \/ WritePk
    \/ WriteVk
    \/ OpenProof
    \/ WriteProof
    \/ CutKeyCrash
    \/ Verify
    \/ VerifyCrash

Next == (UserStep \/ UploadStep \/ SystemStep \/ Kill) /\ UNCHANGED launch

Spec == Init /\ [][Next]_vars

\* The main thread keeps running what Android hands it.  Users owe nothing, nor does
\* the server: an upload has no timeout.
FairSpec == Spec /\ WF_vars(SystemStep /\ UNCHANGED launch)

-----------------------------------------------------------------------------
(* Properties *)

HasProof == proof \notin {None, Part}

\* The votes the user has confirmed, the one being uploaded included.
Confirmed == reported \cup (IF handler = "idle" THEN {} ELSE {<<Last(stack), chosen>>})

\* f is the input of vote r = <<id, candidate>>; the id may be another's once a row
\* was tapped again before its screen came up.
IsVote(f, r) == Encrypts(f, r[2]) /\ (~stacked => f["e_id"] = r[1])

\* As long as the process does not die, once all that was asked for has run each
\* half of the input file is as shipped, or written whole for the last vote whose
\* encryption got that far, over votes encoded partly, screens and logins between
\* and whatever order Android starts activities in.  The vote id is that of the vote
\* on top, unless a row was tapped again before its screen came up
\* (VoteActivity.java:128-136, 868-1046, makevoteinput.java:89-153).
InputIsOfLastVotes ==
    kills = 0 /\ pending = <<>> /\ votein # None =>
        /\ Shipped(votein, FirstHalf) \/ (lastHalf # None /\ Of(votein, FirstHalf, lastHalf[2]))
        /\ Shipped(votein, SecondHalf) \/ (lastCast # None /\ Of(votein, SecondHalf, lastCast[2]))
        /\ stack # <<>> /\ ~stacked => votein["e_id"] = Last(stack)

\* Started in request order, once everything a vote asked for has run the proof
\* on the phone is that of the last vote encoded whole, for its vote id unless a row
\* was tapped twice (VoteActivity.java:128-136, 1048-1052).
ProofIsOfLastVote ==
    launch = "fifo" /\ kills = 0 /\ Ready /\ lastCast # None =>
        HasProof /\ IsVote(proof.input, lastCast)

\* As long as the process does not die, the server receives no half-written proof,
\* and one made from nothing but the shipped input and votes confirmed before.
\* Started in request order, it is of one of these votes, ids included unless a row
\* was tapped twice, or of an input whose second half is as shipped: only in another
\* order is a proof made of two votes (VoteActivity.java:475-548).
UploadsAreOfReportedVotes ==
    \A u \in server : kills = 0 /\ u.kind = "proof" =>
        /\ u.file # Part
        /\ \A s \in FirstHalf \cup SecondHalf :
              u.file.input[s] = Raw \/ \E r \in Confirmed : u.file.input[s] = Content(s, r[2])
        /\ launch = "fifo" =>
              \/ \E r \in Confirmed : IsVote(u.file.input, r)
              \/ /\ Shipped(u.file.input, SecondHalf)
                 /\ \/ Shipped(u.file.input, FirstHalf)
                    \/ \E r \in Confirmed : Of(u.file.input, FirstHalf, r[2])

\* However often the process dies, a complete verification key has a complete
\* proving key beside it (run_r1cs_gg_ppzksnark.tcc:91-98, SubActivity.java:72-79).
VkHasPk == vk = Full => pk = Full

\* The native run a vote asked for comes to its result, whatever order Android
\* starts activities in, unless the process dies: from the end of the handler, for
\* an upload may take for ever (VoteActivity.java:1052, SubActivity.java:101-115).
RunReachesResult ==
    (handler = "idle" /\ \E k \in DOMAIN pending : pending[k] = SnarkIntent("run"))
        ~> (sub.pc = "dialog" \/ screen = "main")

\* A vote the user is told is cast (UsermainActivity.java:183-188) has reached
\* the server as a proof of that choice for that vote.
ReportedIsUploaded ==
    \A r \in reported : \E u \in server :
        /\ u.kind = "proof" /\ u.vote = r[1] /\ u.file # Part
        /\ Encrypts(u.file.input, r[2])

\* The prover runs on a proving key that the generator has made
\* (run_r1cs_gg_ppzksnark.tcc:67-70, SubActivity.java:75).
ProverHasKey == sub.pc = "prove" => pk = Full

\* native-lib.cpp:101 logs that it terminates on an unsatisfied system, so no
\* such input is ever proved.
UnsatisfiedTerminates == [][proof' # proof /\ proof' \notin {None, Part} => Satisfied(sub.input)]_vars
=============================================================================
