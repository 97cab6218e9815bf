--------------------------- MODULE VoteCastProofs ---------------------------
(***************************************************************************)
(* Proofs about VoteCast: type correctness; that a complete verification   *)
(* key always lies beside a complete proving key, however often the        *)
(* process dies; and, as long as it does not die, what the input file, the *)
(* proof and the uploads are made of, in whichever order Android starts    *)
(* activities and in the order they were asked for.                        *)
(***************************************************************************)
EXTENDS VoteCast, SequenceTheorems, TLAPS

-----------------------------------------------------------------------------
(* What the native run relies on at each of its steps *)

\* The setup only starts without a proving key, and nobody else makes one.
SetupHasNoPk == sub.pc = "setup" => pk = None

\* While the proving key is being written no complete verification key exists.
WritingPkHasNoVk == sub.pc \in {"openvk", "writepk"} => pk = Part /\ vk # Full

\* The verification key is only completed after the proving key.
WritingVkHasPk == sub.pc = "writevk" => pk = Full

\* The prover finds some proving key file, perhaps one cut short by a crash.
ProvingHasPk == sub.pc \in {"prove", "writeproof"} => pk # None

KeyInv ==
    /\ VkHasPk
    /\ SetupHasNoPk
    /\ WritingPkHasNoVk
    /\ WritingVkHasPk
    /\ ProvingHasPk

IInv == TypeOK /\ KeyInv

-----------------------------------------------------------------------------
(* Lemmas about the intents *)

USE VotesAssumption, CandidatesAssumption, TokensAssumption, BoundsAssumption

\* The elements of a queue.
LEMMA ElementsOf == \A s, x : x \in ToSet(s) <=> \E i \in DOMAIN s : x = s[i]
  BY DEF ToSet

\* The shipped file is an input of the right shape.
LEMMA RawIsInput == RawInput \in Input
  BY DEF RawInput, Input, SegmentValues

\* What the screens ask for are activities that the app has.
LEMMA IntentKinds ==
  /\ PPIntent \in Intents /\ SnarkIntent("verify") \in Intents /\ SnarkIntent("run") \in Intents
  /\ \A v \in Nat : IdIntent(v) \in Intents
  /\ \A v \in Votes : VoteIntent(v) \in Intents
BY DEF PPIntent, SnarkIntent, IdIntent, InputIntent, VoteIntent, Intents, Segments, SegmentValues

\* A ciphertext is written by one activity for each of its segments.
LEMMA WritesKinds ==
  ASSUME NEW c \in Candidates, NEW half \in Seq(STRING), ToSet(half) \subseteq Segments
  PROVE  /\ Writes(half, c) \in Seq(Intents)
         /\ ToSet(Writes(half, c)) = {InputIntent(s, Content(s, c)) : s \in ToSet(half)}
<1>1. DOMAIN half = 1 .. Len(half) /\ Len(half) \in Nat
  OBVIOUS
<1>2. Slot(c) \in Nat
  BY DEF Slot
<1>3. \A s \in Segments : InputIntent(s, Content(s, c)) \in Intents
  BY <1>2 DEF InputIntent, Content, SegmentValues, Intents
<1>4. \A n \in 1 .. Len(half) : half[n] \in ToSet(half)
  BY <1>1 DEF ToSet
<1>5. \A n \in 1 .. Len(half) : InputIntent(half[n], Content(half[n], c)) \in Intents
  BY <1>3, <1>4
<1>6. Writes(half, c) \in [1 .. Len(half) -> Intents]
  BY <1>1, <1>5 DEF Writes
<1>7. Writes(half, c) \in Seq(Intents)
  BY <1>1, <1>6
<1>8. DOMAIN Writes(half, c) = DOMAIN half
  BY DEF Writes
<1>9. \A n \in DOMAIN half : Writes(half, c)[n] = InputIntent(half[n], Content(half[n], c))
  BY DEF Writes
<1>10. ASSUME NEW x
       PROVE  x \in ToSet(Writes(half, c)) <=> \E s \in ToSet(half) : x = InputIntent(s, Content(s, c))
  <2>1. x \in ToSet(Writes(half, c)) <=> \E n \in DOMAIN half : x = InputIntent(half[n], Content(half[n], c))
    BY <1>8, <1>9, ElementsOf
  <2>2. \A s : s \in ToSet(half) <=> \E n \in DOMAIN half : s = half[n]
    BY ElementsOf
  <2> QED
    BY <2>1, <2>2
<1> QED
  BY <1>7, <1>10

\* The elements of two queues one after the other.
LEMMA ConcatKinds ==
  ASSUME NEW p \in Seq(Intents), NEW q \in Seq(Intents)
  PROVE  p \o q \in Seq(Intents) /\ ToSet(p \o q) = ToSet(p) \cup ToSet(q)
<1>1. /\ p \o q \in Seq(Intents) /\ Len(p \o q) = Len(p) + Len(q)
      /\ Len(p) \in Nat /\ Len(q) \in Nat
      /\ DOMAIN p = 1 .. Len(p) /\ DOMAIN q = 1 .. Len(q) /\ DOMAIN (p \o q) = 1 .. Len(p \o q)
  OBVIOUS
<1>2. \A i \in 1 .. Len(p) + Len(q) : (p \o q)[i] = IF i <= Len(p) THEN p[i] ELSE q[i - Len(p)]
  OBVIOUS
<1>3. \A i \in DOMAIN (p \o q) :
        (i \in DOMAIN p /\ (p \o q)[i] = p[i]) \/ (i - Len(p) \in DOMAIN q /\ (p \o q)[i] = q[i - Len(p)])
  BY <1>1, <1>2
<1>4. \A i \in DOMAIN p : i \in DOMAIN (p \o q) /\ (p \o q)[i] = p[i]
  BY <1>1, <1>2
<1>5. \A i \in DOMAIN q : i + Len(p) \in DOMAIN (p \o q) /\ (p \o q)[i + Len(p)] = q[i]
  <2> SUFFICES ASSUME NEW i \in DOMAIN q
               PROVE  i + Len(p) \in DOMAIN (p \o q) /\ (p \o q)[i + Len(p)] = q[i]
    OBVIOUS
  <2>1. i \in 1 .. Len(q) /\ i + Len(p) \in 1 .. Len(p) + Len(q) /\ ~(i + Len(p) <= Len(p))
        /\ i + Len(p) - Len(p) = i
    BY <1>1
  <2> QED
    BY <1>1, <1>2, <2>1
<1>6. ASSUME NEW x
      PROVE  x \in ToSet(p \o q) <=> x \in ToSet(p) \/ x \in ToSet(q)
  <2>1. /\ x \in ToSet(p \o q) <=> \E i \in DOMAIN (p \o q) : x = (p \o q)[i]
        /\ x \in ToSet(p) <=> \E i \in DOMAIN p : x = p[i]
        /\ x \in ToSet(q) <=> \E i \in DOMAIN q : x = q[i]
    BY ElementsOf
  <2>2. ASSUME x \in ToSet(p \o q) PROVE x \in ToSet(p) \/ x \in ToSet(q)
    <3>1. PICK i \in DOMAIN (p \o q) : x = (p \o q)[i]
      BY <2>1, <2>2
    <3> QED
      BY <1>3, <2>1, <3>1
  <2>3. ASSUME x \in ToSet(p) PROVE x \in ToSet(p \o q)
    <3>1. PICK i \in DOMAIN p : x = p[i]
      BY <2>1, <2>3
    <3> QED
      BY <1>4, <2>1, <3>1
  <2>4. ASSUME x \in ToSet(q) PROVE x \in ToSet(p \o q)
    <3>1. PICK i \in DOMAIN q : x = q[i]
      BY <2>1, <2>4
    <3> QED
      BY <1>5, <2>1, <3>1
  <2> QED
    BY <2>2, <2>3, <2>4
<1> QED
  BY <1>1, <1>6

\* encrypt_vote asks for nothing, for the first ciphertext, or for both and the run.
LEMMA EncodeKinds ==
  ASSUME NEW c \in Candidates, NEW reach \in 0 .. 2
  PROVE  /\ EncodeIntents(c, reach) \in Seq(Intents)
         /\ ToSet(EncodeIntents(c, reach)) =
               CASE reach = 0 -> {}
                 [] reach = 1 -> {InputIntent(s, Content(s, c)) : s \in FirstHalf}
                 [] OTHER -> {InputIntent(s, Content(s, c)) : s \in FirstHalf \cup SecondHalf}
                             \cup {SnarkIntent("run")}
<1>1. /\ Writes(First, c) \in Seq(Intents)
      /\ ToSet(Writes(First, c)) = {InputIntent(s, Content(s, c)) : s \in FirstHalf}
  BY WritesKinds, SegmentsAssumption DEF FirstHalf, Segments
<1>2. /\ Writes(Second, c) \in Seq(Intents)
      /\ ToSet(Writes(Second, c)) = {InputIntent(s, Content(s, c)) : s \in SecondHalf}
  BY WritesKinds, SegmentsAssumption DEF SecondHalf, Segments
<1>3. CASE reach = 0
  BY <1>3 DEF EncodeIntents, ToSet
<1>4. CASE reach = 1
  BY <1>1, <1>4 DEF EncodeIntents
<1>5. CASE reach = 2
  <2> DEFINE run == <<SnarkIntent("run")>>
  <2>1. run \in Seq(Intents) /\ ToSet(run) = {SnarkIntent("run")}
    BY IntentKinds DEF ToSet
  <2>2. EncodeIntents(c, reach) = Writes(First, c) \o Writes(Second, c) \o run
    BY <1>5 DEF EncodeIntents
  <2> HIDE DEF run
  <2>3. /\ Writes(First, c) \o Writes(Second, c) \in Seq(Intents)
        /\ ToSet(Writes(First, c) \o Writes(Second, c)) =
              {InputIntent(s, Content(s, c)) : s \in FirstHalf \cup SecondHalf}
    <3>1. {InputIntent(s, Content(s, c)) : s \in FirstHalf}
             \cup {InputIntent(s, Content(s, c)) : s \in SecondHalf}
          = {InputIntent(s, Content(s, c)) : s \in FirstHalf \cup SecondHalf}
      OBVIOUS
    <3> QED
      BY <1>1, <1>2, <3>1, ConcatKinds
  <2>4. EncodeIntents(c, reach) = (Writes(First, c) \o Writes(Second, c)) \o run
    BY <1>1, <1>2, <2>1, <2>2
  <2>5. /\ (Writes(First, c) \o Writes(Second, c)) \o run \in Seq(Intents)
        /\ ToSet((Writes(First, c) \o Writes(Second, c)) \o run) =
              ToSet(Writes(First, c) \o Writes(Second, c)) \cup ToSet(run)
    BY <2>1, <2>3, ConcatKinds
  <2>6. EncodeIntents(c, reach) \in Seq(Intents)
    BY <2>4, <2>5
  <2>7. ToSet(EncodeIntents(c, reach)) =
          {InputIntent(s, Content(s, c)) : s \in FirstHalf \cup SecondHalf} \cup {SnarkIntent("run")}
    BY <2>1, <2>3, <2>4, <2>5
  <2> QED
    BY <1>5, <2>6, <2>7
<1> QED
  BY <1>3, <1>4, <1>5

\* Creating the k-th of the waiting activities leaves the others, in their order.
LEMMA OthersKinds ==
  ASSUME pending \in Seq(Intents), NEW k \in DOMAIN pending
  PROVE  /\ pending[k] \in Intents /\ pending[k] \in ToSet(pending)
         /\ Others(k) \in Seq(Intents)
         /\ ToSet(Others(k)) \subseteq ToSet(pending)
         /\ ToSet(pending) \ {pending[k]} \subseteq ToSet(Others(k))
         /\ Len(Others(k)) = Len(pending) - 1
         /\ \A j \in DOMAIN Others(k) : k = 1 => Others(k)[j] = pending[j + 1]
<1>1. /\ Len(pending) \in Nat /\ DOMAIN pending = 1 .. Len(pending)
      /\ k \in 1 .. Len(pending) /\ k \in Nat /\ k - 1 \in Nat /\ k + 1 \in Nat
  OBVIOUS
<1> DEFINE L == SubSeq(pending, 1, k - 1)
           R == SubSeq(pending, k + 1, Len(pending))
<1>2. /\ L \in Seq(Intents) /\ Len(L) = k - 1
      /\ \A j \in 1 .. k - 1 : L[j] = pending[j]
  <2>1. \A j \in 1 .. k - 1 : pending[j] \in Intents
    BY <1>1
  <2>2. /\ L \in Seq(Intents)
        /\ Len(L) = IF 1 <= k - 1 THEN (k - 1) - 1 + 1 ELSE 0
        /\ \A i \in 1 .. ((k - 1) - 1 + 1) : L[i] = pending[1 + i - 1]
    BY <1>1, <2>1, SubSeqProperties
  <2>3. (IF 1 <= k - 1 THEN (k - 1) - 1 + 1 ELSE 0) = k - 1 /\ (k - 1) - 1 + 1 = k - 1
    BY <1>1
  <2>4. \A i \in 1 .. k - 1 : 1 + i - 1 = i
    OBVIOUS
  <2> QED
    BY <2>2, <2>3, <2>4
<1>3. /\ R \in Seq(Intents) /\ Len(R) = Len(pending) - k
      /\ \A j \in 1 .. Len(pending) - k : R[j] = pending[k + j]
  <2>1. \A j \in k + 1 .. Len(pending) : pending[j] \in Intents
    BY <1>1
  <2>2. /\ R \in Seq(Intents)
        /\ Len(R) = IF k + 1 <= Len(pending) THEN Len(pending) - (k + 1) + 1 ELSE 0
        /\ \A i \in 1 .. (Len(pending) - (k + 1) + 1) : R[i] = pending[(k + 1) + i - 1]
    BY <1>1, <2>1, SubSeqProperties
  <2>3. /\ (IF k + 1 <= Len(pending) THEN Len(pending) - (k + 1) + 1 ELSE 0) = Len(pending) - k
        /\ Len(pending) - (k + 1) + 1 = Len(pending) - k
    BY <1>1
  <2>4. \A i \in 1 .. Len(pending) - k : (k + 1) + i - 1 = k + i
    BY <1>1
  <2> QED
    BY <2>2, <2>3, <2>4
<1>4. Others(k) = L \o R
  BY DEF Others, RemoveAt
<1> HIDE DEF L, R
<1>5. Others(k) \in Seq(Intents) /\ ToSet(Others(k)) = ToSet(L) \cup ToSet(R)
  BY <1>2, <1>3, <1>4, ConcatKinds
<1>6. Len(Others(k)) = Len(pending) - 1
  <2>1. Len(L \o R) = Len(L) + Len(R)
    <3>1. L \in Seq(Intents) /\ R \in Seq(Intents)
      BY <1>2, <1>3
    <3> QED
      BY <3>1
  <2> QED
    BY <1>1, <1>2, <1>3, <1>4, <2>1
<1>7. /\ \A x : x \in ToSet(L) <=> \E j \in 1 .. k - 1 : x = pending[j]
      /\ \A x : x \in ToSet(R) <=> \E j \in 1 .. Len(pending) - k : x = pending[k + j]
      /\ \A x : x \in ToSet(pending) <=> \E j \in 1 .. Len(pending) : x = pending[j]
  <2>1. DOMAIN L = 1 .. k - 1 /\ DOMAIN R = 1 .. Len(pending) - k
    BY <1>2, <1>3
  <2>2. \A x : x \in ToSet(L) <=> \E j \in DOMAIN L : x = L[j]
    BY ElementsOf
  <2>3. \A x : x \in ToSet(R) <=> \E j \in DOMAIN R : x = R[j]
    BY ElementsOf
  <2>4. \A x : x \in ToSet(pending) <=> \E j \in DOMAIN pending : x = pending[j]
    BY ElementsOf
  <2>5. \A x : x \in ToSet(L) <=> \E j \in 1 .. k - 1 : x = pending[j]
    <3> SUFFICES ASSUME NEW x PROVE x \in ToSet(L) <=> \E j \in 1 .. k - 1 : x = pending[j]
      OBVIOUS
    <3>1. x \in ToSet(L) <=> \E j \in 1 .. k - 1 : x = L[j]
      BY <2>1, <2>2
    <3> QED
      BY <1>2, <3>1
  <2>6. \A x : x \in ToSet(R) <=> \E j \in 1 .. Len(pending) - k : x = pending[k + j]
    <3> SUFFICES ASSUME NEW x
                 PROVE x \in ToSet(R) <=> \E j \in 1 .. Len(pending) - k : x = pending[k + j]
      OBVIOUS
    <3>1. x \in ToSet(R) <=> \E j \in 1 .. Len(pending) - k : x = R[j]
      BY <2>1, <2>3
    <3> QED
      BY <1>3, <3>1
  <2> QED
    BY <1>1, <2>4, <2>5, <2>6
<1>8. ToSet(Others(k)) \subseteq ToSet(pending)
  <2>1. \A j \in 1 .. k - 1 : j \in 1 .. Len(pending)
    BY <1>1
  <2>2. \A j \in 1 .. Len(pending) - k : k + j \in 1 .. Len(pending)
    BY <1>1
  <2> QED
    BY <1>5, <1>7, <2>1, <2>2
<1>10. ToSet(pending) \ {pending[k]} \subseteq ToSet(Others(k))
  <2> SUFFICES ASSUME NEW i \in 1 .. Len(pending), i # k
               PROVE  pending[i] \in ToSet(L) \/ pending[i] \in ToSet(R)
    BY <1>5, <1>7
  <2>1. CASE i < k
    <3>1. i \in 1 .. k - 1
      BY <1>1, <2>1
    <3> QED
      BY <1>7, <3>1
  <2>2. CASE i > k
    <3>1. i - k \in 1 .. Len(pending) - k /\ k + (i - k) = i
      BY <1>1, <2>2
    <3> QED
      BY <1>7, <3>1
  <2> QED
    BY <1>1, <2>1, <2>2
<1>9. ASSUME NEW j \in DOMAIN Others(k), k = 1 PROVE Others(k)[j] = pending[j + 1]
  <2>1. L = <<>>
    BY <1>2, <1>9, EmptySeq
  <2>2. Others(k) = R
    BY <1>3, <1>4, <2>1
  <2>3. j \in 1 .. Len(pending) - k
    BY <1>3, <2>2
  <2> QED
    BY <1>3, <1>9, <2>2, <2>3
<1>11. pending[k] \in Intents /\ pending[k] \in ToSet(pending)
  BY <1>1, <1>7
<1> QED
  BY <1>5, <1>6, <1>8, <1>9, <1>10, <1>11

\* The same for a queue of one.
LEMMA OthersOfOne ==
  ASSUME NEW x \in Intents, pending = <<x>>, NEW k \in DOMAIN pending
  PROVE  pending[k] = x /\ Others(k) = <<>>
<1>1. k = 1 /\ pending \in Seq(Intents) /\ Len(pending) = 1
  OBVIOUS
<1>2. Others(k) \in Seq(Intents) /\ Len(Others(k)) = 0
  BY <1>1, OthersKinds
<1> QED
  BY <1>1, <1>2, EmptySeq

-----------------------------------------------------------------------------
(* The invariant is inductive *)

LEMMA InitInv == Init => IInv
<1> SUFFICES ASSUME Init PROVE IInv
  OBVIOUS
<1>1. TypeOK
  <2>1. pending \in Seq(Intents) /\ stack \in Seq(Votes)
    BY DEF Init
  <2>2. /\ sub \in [ pc   : {"idle", "setup", "openvk", "writepk", "writevk", "prove",
                            "writeproof", "verify", "dialog"},
                    mode  : {"setuprun", "run", "verify", None},
                    input : Input \cup {None} ]
        /\ sub.pc = "idle" /\ sub = SubIdle
    BY DEF Init, SubIdle
  <2>3. casts \in 0 .. MaxCasts /\ kills \in 0 .. MaxKills /\ launch \in Launches
    BY DEF Init
  <2> QED
    BY <2>1, <2>2, <2>3 DEF Init, TypeOK
<1>2. KeyInv
  BY DEF Init, KeyInv, VkHasPk, SetupHasNoPk, WritingPkHasNoVk, WritingVkHasPk, ProvingHasPk, SubIdle
<1> QED
  BY <1>1, <1>2 DEF IInv

\* A step that starts no native code, leaves the keys alone and keeps or ends
\* the native run disturbs nothing that the keys depend on.
LEMMA KeysUntouched ==
  ASSUME KeyInv, pk' = pk, vk' = vk, sub' = sub \/ sub' = SubIdle \/ sub'.pc = "dialog"
  PROVE  KeyInv'
BY DEF KeyInv, VkHasPk, SetupHasNoPk, WritingPkHasNoVk, WritingVkHasPk, ProvingHasPk, SubIdle

\* The upper vote's screen, and those under it.
LEMMA StackKinds ==
  ASSUME stack \in Seq(Votes)
  PROVE  /\ \A v \in Votes : Append(stack, v) \in Seq(Votes) /\ Append(stack, v) # <<>>
         /\ stack # <<>> => Front(stack) \in Seq(Votes) /\ Last(stack) \in Votes
<1>1. Len(stack) \in Nat /\ \A v \in Votes : Append(stack, v) \in Seq(Votes) /\ Len(Append(stack, v)) = Len(stack) + 1
  OBVIOUS
<1>2. \A v \in Votes : Append(stack, v) # <<>>
  <2>1. Len(<<>>) = 0 /\ Len(stack) + 1 # 0
    BY <1>1
  <2> QED
    BY <1>1, <2>1
<1>3. ASSUME stack # <<>> PROVE Front(stack) \in Seq(Votes) /\ Last(stack) \in Votes
  <2>1. Len(stack) \in Nat \ {0}
    BY <1>3
  <2>2. \A i \in 1 .. Len(stack) - 1 : stack[i] \in Votes
    OBVIOUS
  <2>3. Front(stack) \in Seq(Votes)
    BY <2>1, <2>2, SubSeqProperties DEF Front
  <2> QED
    BY <2>1, <2>3 DEF Last
<1> QED
  BY <1>1, <1>2, <1>3

LEMMA UserStepInv == IInv /\ UserStep /\ UNCHANGED launch => IInv'
<1> SUFFICES ASSUME IInv, UserStep, UNCHANGED launch PROVE IInv'
  OBVIOUS
<1> USE DEF IInv
<1>1. \A x \in Intents : <<x>> \in Seq(Intents) /\ pending \o <<x>> \in Seq(Intents)
  BY DEF TypeOK
<1>2. stack \in Seq(Votes)
  BY DEF TypeOK
<1>5. CASE Login
  <2>1. pending' \in Seq(Intents)
    BY IntentKinds, <1>1, <1>5 DEF Login, Ask
  <2>2. TypeOK'
    BY <1>5, <2>1 DEF Login, Ready, TypeOK, files, history
  <2> QED
    BY <1>5, <2>2, KeysUntouched DEF Login, files
<1>6. CASE Logout
  <2>1. TypeOK'
    BY <1>6 DEF Logout, Ready, TypeOK, files, history
  <2> QED
    BY <1>6, <2>1, KeysUntouched DEF Logout, files
<1>7. CASE PressSnark
  <2>1. pending' \in Seq(Intents)
    BY IntentKinds, <1>1, <1>7 DEF PressSnark, Ask
  <2>2. TypeOK'
    BY <1>7, <2>1 DEF PressSnark, TypeOK, files, ui, history
  <2> QED
    BY <1>7, <2>2, KeysUntouched DEF PressSnark, files
<1>8. CASE PressDb
  <2>1. pending' \in Seq(Intents)
    BY IntentKinds, <1>1, <1>8 DEF PressDb, Ask
  <2>2. TypeOK'
    BY <1>8, <2>1 DEF PressDb, TypeOK, files, ui, history
  <2> QED
    BY <1>8, <2>2, KeysUntouched DEF PressDb, files
<1>9. ASSUME NEW v \in Votes, OpenVote(v) PROVE IInv'
  <2>1. pending' \in Seq(Intents)
    BY IntentKinds, <1>1, <1>9 DEF OpenVote, Ask
  <2>2. stacked' \in BOOLEAN
    BY <1>9 DEF OpenVote, TypeOK
  <2>3. TypeOK'
    BY <1>9, <2>1, <2>2 DEF OpenVote, TypeOK, files, ui
  <2> QED
    BY <1>9, <2>3, KeysUntouched DEF OpenVote, files
<1>10. CASE VoteBack
  <2>1. stack' \in Seq(Votes)
    BY <1>2, <1>10, StackKinds DEF VoteBack
  <2>2. handler = "idle"
    BY <1>10 DEF VoteBack, Ready, TypeOK
  <2>3. TypeOK'
    BY <1>10, <2>1, <2>2 DEF VoteBack, TypeOK, files, history
  <2> QED
    BY <1>10, <2>3, KeysUntouched DEF VoteBack, files
<1>11. ASSUME NEW c \in Candidates, NEW reach \in 0 .. 2, Confirm(c, reach) PROVE IInv'
  <2>1. pending' \in Seq(Intents)
    <3>1. pending' = pending \o EncodeIntents(c, reach)
      BY <1>11 DEF Confirm, Ask
    <3> QED
      BY <3>1, EncodeKinds, ConcatKinds DEF TypeOK
  <2>2. Last(stack) \in Votes /\ stack # <<>>
    BY <1>2, <1>11, StackKinds DEF Confirm
  <2>3. /\ lastHalf' \in (Votes \X Candidates) \cup {None}
        /\ lastCast' \in (Votes \X Candidates) \cup {None}
    BY <1>11, <2>2 DEF Confirm, TypeOK
  <2>4. casts' \in 0 .. MaxCasts
    BY <1>11 DEF Confirm, TypeOK
  <2>5. /\ handler' = "upload" /\ chosen' = c
        /\ UNCHANGED <<launch, screen, stack, sub, votein, pk, vk, proof, server, reported, stacked, kills>>
    BY <1>11 DEF Confirm, files
  <2>6. c # None
    BY CandidatesAssumption, TokensAssumption
  <2>7. (sub \in [ pc   : {"idle", "setup", "openvk", "writepk", "writevk", "prove",
                        "writeproof", "verify", "dialog"},
                mode  : {"setuprun", "run", "verify", None},
                input : Input \cup {None} ])'
        /\ (IF sub.pc = "idle" THEN sub = SubIdle ELSE sub.input \in Input)'
    BY <2>5, Zenon DEF TypeOK
  <2>8. TypeOK'
    BY <2>1, <2>2, <2>3, <2>4, <2>5, <2>6, <2>7 DEF TypeOK
  <2> QED
    BY <2>5, <2>8, KeysUntouched
<1>12. CASE DismissResult
  <2>1. TypeOK'
    BY <1>12 DEF DismissResult, TypeOK, files, ui, SubIdle, history
  <2> QED
    BY <1>12, <2>1, KeysUntouched DEF DismissResult, files
<1> QED
  BY <1>5, <1>6, <1>7, <1>8, <1>9, <1>10, <1>11, <1>12 DEF UserStep

LEMMA UploadStepInv == IInv /\ UploadStep /\ UNCHANGED launch => IInv'
<1> SUFFICES ASSUME IInv, UploadStep, UNCHANGED launch PROVE IInv'
  OBVIOUS
<1> USE DEF IInv
<1>2. ASSUME NEW online \in BOOLEAN, UploadProof(online) PROVE IInv'
  <2>1. TypeOK'
    BY <1>2 DEF UploadProof, TypeOK, files, history
  <2> QED
    BY <1>2, <2>1, KeysUntouched DEF UploadProof, files
<1>3. ASSUME NEW online \in BOOLEAN, UploadVk(online) PROVE IInv'
  <2>1. stack \in Seq(Votes) /\ stack # <<>> /\ chosen \in Candidates
    BY <1>3 DEF UploadVk, TypeOK
  <2>2. Last(stack) \in Votes /\ stack' \in Seq(Votes)
    BY <1>3, <2>1, StackKinds DEF UploadVk
  <2>3. reported' \subseteq Votes \X Candidates
    BY <1>3, <2>1, <2>2 DEF UploadVk, TypeOK
  <2>4. TypeOK'
    BY <1>3, <2>1, <2>2, <2>3 DEF UploadVk, TypeOK, files
  <2> QED
    BY <1>3, <2>4, KeysUntouched DEF UploadVk, files
<1> QED
  BY <1>2, <1>3 DEF UploadStep

LEMMA RestartedInv ==
  ASSUME IInv, Restarted, pk' = pk, vk' = vk, votein' = votein, proof' = proof, UNCHANGED launch,
         kills' \in 0 .. MaxKills, UNCHANGED <<reported, lastHalf, lastCast, stacked, casts>>
  PROVE  IInv'
<1>1. pending' \in Seq(Intents) /\ stack' \in Seq(Votes)
  BY DEF Restarted
<1>2. TypeOK'
  BY <1>1 DEF IInv, Restarted, TypeOK, SubIdle
<1> QED
  BY <1>2, KeysUntouched DEF IInv, Restarted

LEMMA LaunchInv ==
  ASSUME IInv, UNCHANGED launch, NEW k \in DOMAIN pending,
         MakePP(k) \/ MakeVote(k) \/ MakeInput(k) \/ MakeInputCrash(k) \/ StartSnark(k)
  PROVE  IInv'
<1> USE DEF IInv
<1>1. pending[k] \in Intents /\ Others(k) \in Seq(Intents) /\ kills \in 0 .. MaxKills
  BY OthersKinds DEF TypeOK
<1>4. CASE MakePP(k)
  <2>1. TypeOK'
    BY <1>1, <1>4, RawIsInput DEF MakePP, TypeOK, ui, history
  <2> QED
    BY <1>4, <2>1, KeysUntouched DEF MakePP
<1>5. CASE MakeVote(k)
  <2>1. pending[k].vote \in Votes
    BY <1>1, <1>5 DEF MakeVote, Intents
  <2>2. stack' \in Seq(Votes) /\ stack' # <<>>
    BY <1>5, <2>1, StackKinds DEF MakeVote, TypeOK
  <2>3. pending' \in Seq(Intents)
    <3>1. IdIntent(pending[k].vote) \in Intents
      BY <2>1, IntentKinds
    <3>2. pending' = Append(Others(k), IdIntent(pending[k].vote))
      BY <1>5 DEF MakeVote
    <3> QED
      BY <1>1, <3>1, <3>2
  <2>4. handler = "idle"
    BY <1>5 DEF MakeVote, CanLaunch
  <2>6. TypeOK'
    BY <1>5, <2>2, <2>3, <2>4 DEF MakeVote, TypeOK, files, history
  <2> QED
    BY <1>5, <2>6, KeysUntouched DEF MakeVote, files
<1>6. CASE MakeInput(k)
  <2>1. pending[k].seg \in Segments /\ pending[k].val \in SegmentValues
    BY <1>1, <1>6 DEF MakeInput, Intents
  <2>2. votein' \in Input
    BY <1>6, <2>1 DEF MakeInput, TypeOK, Input
  <2>3. TypeOK'
    BY <1>1, <1>6, <2>2 DEF MakeInput, TypeOK, ui, history
  <2> QED
    BY <1>6, <2>3, KeysUntouched DEF MakeInput
<1>7. CASE MakeInputCrash(k)
  BY <1>1, <1>7, RestartedInv DEF MakeInputCrash, files, history
<1>8. CASE StartSnark(k)
  <2>1. votein' \in Input
    BY <1>8, RawIsInput DEF StartSnark, TypeOK
  <2>2. pending[k].mode \in {"run", "verify"}
    BY <1>1, <1>8 DEF StartSnark, Intents
  <2> DEFINE mode == IF pk = None THEN "setuprun" ELSE pending[k].mode
  <2>3. /\ sub'.mode = mode /\ sub'.input = votein'
        /\ sub'.pc = CASE mode = "setuprun" -> "setup" [] mode = "run" -> "prove" [] OTHER -> "verify"
        /\ sub' = [mode |-> sub'.mode, input |-> sub'.input, pc |-> sub'.pc]
    BY <1>8 DEF StartSnark
  <2>4. sub'.pc \in {"setup", "prove", "verify"}
    BY <2>3
  <2>5. TypeOK'
    BY <1>1, <1>8, <2>1, <2>2, <2>3, <2>4 DEF StartSnark, TypeOK, ui, history
  <2>6. KeyInv'
    BY <1>8, <2>2, <2>3
       DEF StartSnark, KeyInv, VkHasPk, SetupHasNoPk, WritingPkHasNoVk, WritingVkHasPk, ProvingHasPk
  <2> QED
    BY <2>5, <2>6
<1> QED
  BY <1>4, <1>5, <1>6, <1>7, <1>8

\* The steps of a native run that do not end the process.
NativeSteps == OpenPk \/ OpenVk \/ WritePk \/ WriteVk \/ OpenProof \/ WriteProof \/ Verify

LEMMA NativeInv == IInv /\ NativeSteps /\ UNCHANGED launch => IInv'
<1> SUFFICES ASSUME IInv, NativeSteps, UNCHANGED launch PROVE IInv'
  OBVIOUS
<1> USE DEF IInv
<1> USE DEF NativeSteps, OpenPk, OpenVk, WritePk, WriteVk, OpenProof, WriteProof, Verify, NativeStep
<1>1. sub.input \in Input /\ (sub.pc = "writeproof" => pk \in {Part, Full})
  BY DEF TypeOK, KeyInv, ProvingHasPk
<1>2. proof' \in Proof \cup {None, Part}
  BY <1>1 DEF TypeOK, Proof
<1>3. TypeOK'
  BY <1>1, <1>2 DEF TypeOK, ui, history
<1>4. KeyInv'
  BY DEF TypeOK, KeyInv, VkHasPk, SetupHasNoPk, WritingPkHasNoVk, WritingVkHasPk, ProvingHasPk
<1> QED
  BY <1>3, <1>4

LEMMA KillInv == IInv /\ (Kill \/ CutKeyCrash \/ VerifyCrash) /\ UNCHANGED launch => IInv'
<1> SUFFICES ASSUME IInv, Kill \/ CutKeyCrash \/ VerifyCrash, UNCHANGED launch PROVE IInv'
  OBVIOUS
<1>1. kills' \in 0 .. MaxKills
  BY DEF IInv, TypeOK, Kill, CutKeyCrash, VerifyCrash, history
<1> QED
  BY <1>1, RestartedInv DEF Kill, CutKeyCrash, VerifyCrash, files, history

LEMMA StutterInv == IInv /\ UNCHANGED vars => IInv'
BY DEF IInv, TypeOK, KeyInv, VkHasPk, SetupHasNoPk, WritingPkHasNoVk, WritingVkHasPk,
       ProvingHasPk, vars, ui, files, history

\* A step of the specification, by what it is.
LEMMA Steps ==
  ASSUME [Next]_vars
  PROVE  \/ UNCHANGED launch /\ UserStep
         \/ UNCHANGED launch /\ UploadStep
         \/ /\ UNCHANGED launch
            /\ \E k \in DOMAIN pending :
                  MakePP(k) \/ MakeVote(k) \/ MakeInput(k) \/ MakeInputCrash(k) \/ StartSnark(k)
         \/ UNCHANGED launch /\ NativeSteps
         \/ UNCHANGED launch /\ (Kill \/ CutKeyCrash \/ VerifyCrash)
         \/ UNCHANGED vars
BY DEF Next, SystemStep, NativeSteps

THEOREM Invariance == Spec => []IInv
<1>1. IInv /\ [Next]_vars => IInv'
  <2> SUFFICES ASSUME IInv, [Next]_vars PROVE IInv'
    OBVIOUS
  <2> QED
    BY Steps, UserStepInv, UploadStepInv, LaunchInv, NativeInv, KillInv, StutterInv
<1> QED
  BY InitInv, <1>1, PTL DEF Spec

-----------------------------------------------------------------------------
(* The theorems *)

\* Every screen, file, queued activity and native step is of its kind, for any
\* votes, candidates, segments, launch order and number of crashes.
THEOREM TypeCorrect == Spec => []TypeOK
BY Invariance, PTL DEF IInv

\* A complete verification key has a complete proving key beside it, whatever
\* crashes and restarts (run_r1cs_gg_ppzksnark.tcc:91-98, SubActivity.java:72-79).
THEOREM VkHasPkHolds == Spec => []VkHasPk
BY Invariance, PTL DEF IInv, KeyInv

-----------------------------------------------------------------------------
(* The input file, as long as the process does not die *)

Waiting == ToSet(pending)

\* Does the intent write a part of a choice, or prove it?
OfChoice(x) == x = SnarkIntent("run") \/ (x.act = "input" /\ x.seg # "e_id")

\* Is a write of segment s waiting?
Awaits(s) == \E x \in Waiting : x.act = "input" /\ x.seg = s

\* The activities of one vote wait by themselves, and so do the shipped file and
\* the test button's run.
KindsInv ==
    /\ (\E x \in Waiting : OfChoice(x)) => \A x \in Waiting : OfChoice(x)
    /\ PPIntent \in Waiting => pending = <<PPIntent>>
    /\ SnarkIntent("verify") \in Waiting => pending = <<SnarkIntent("verify")>>

\* What is waiting to be written is of the last vote encoded that far.
WritesInv ==
    \A x \in Waiting : x.act = "input" =>
        /\ x.seg \in FirstHalf => lastHalf # None /\ x.val = Content(x.seg, lastHalf[2])
        /\ x.seg \in SecondHalf => lastCast # None /\ x.val = Content(x.seg, lastCast[2])

\* The queue completes the file to the vote that a waiting run is to prove.
FillInv ==
    /\ (\E x \in Waiting : OfChoice(x)) => votein # None
    /\ SnarkIntent("run") \in Waiting =>
          /\ lastCast # None /\ lastHalf = lastCast
          /\ \A s \in FirstHalf \cup SecondHalf : votein[s] = Content(s, lastCast[2]) \/ Awaits(s)

\* A half of the file is as shipped, or the queue completes it to the last vote.
HalfInv(half, last) ==
    votein # None =>
        \/ Shipped(votein, half) /\ \A s \in half : ~Awaits(s)
        \/ last # None /\ \A s \in half : votein[s] = Content(s, last[2]) \/ Awaits(s)

HalvesInv == HalfInv(FirstHalf, lastHalf) /\ HalfInv(SecondHalf, lastCast)

\* Unless a row was tapped twice, the screen on top is the only one and has its id
\* in the file or is about to write it, and a waiting run finds that of its vote.
IdInv ==
    ~stacked =>
        /\ \A v \in Votes : VoteIntent(v) \in Waiting => pending = <<VoteIntent(v)>> /\ stack = <<>>
        /\ stack # <<>> =>
              /\ Len(stack) = 1
              /\ \/ pending = <<IdIntent(stack[1])>>
                 \/ /\ votein # None /\ votein["e_id"] = stack[1]
                    /\ \A x \in Waiting : OfChoice(x)
        /\ SnarkIntent("run") \in Waiting => votein["e_id"] = lastCast[1]

\* Votes are opened from the list, which stays while their screens do.
ScreenInv == screen = "main" => stack = <<>> /\ \A x \in Waiting : x.act # "vote"

\* The positive button's handler never overlaps a native run, nothing waits for the
\* test button's run, and without a death the proving key is only cut short while
\* it is made.
QuietInv ==
    /\ handler # "idle" => sub = SubIdle
    /\ sub.pc = "verify" => pending = <<>>
    /\ pk = Part => sub.pc \in {"openvk", "writepk"}

\* The last votes encoded are votes that were confirmed.
LastInv ==
    /\ lastHalf # None => lastHalf \in Confirmed
    /\ lastCast # None => lastCast \in Confirmed

QueueInv == KindsInv /\ WritesInv /\ FillInv /\ HalvesInv

InputInv == QueueInv /\ IdInv /\ ScreenInv /\ QuietInv /\ LastInv

-----------------------------------------------------------------------------
(* How a step changes the queue *)

\* The halves of the file share no segment, and the vote's id is in neither.
LEMMA HalvesDisjoint ==
  /\ FirstHalf \subseteq Segments /\ SecondHalf \subseteq Segments
  /\ "e_id" \notin FirstHalf \cup SecondHalf /\ FirstHalf \cap SecondHalf = {}
BY SegmentsAssumption DEF FirstHalf, SecondHalf, Segments

\* What waits are intents.
LEMMA WaitingKinds ==
  ASSUME pending \in Seq(Intents)
  PROVE  /\ Waiting \subseteq Intents
         /\ \A x \in Waiting : \E k \in DOMAIN pending : x = pending[k]
<1>1. \A x \in Waiting : \E k \in DOMAIN pending : x = pending[k]
  BY ElementsOf DEF Waiting
<1>2. \A k \in DOMAIN pending : pending[k] \in Intents
  OBVIOUS
<1> QED
  BY <1>1, <1>2

\* Which intents are of a choice.
LEMMA ChoiceKinds ==
  /\ ~OfChoice(PPIntent) /\ ~OfChoice(SnarkIntent("verify")) /\ OfChoice(SnarkIntent("run"))
  /\ \A v : ~OfChoice(IdIntent(v)) /\ ~OfChoice(VoteIntent(v))
  /\ \A s, v : s # "e_id" => OfChoice(InputIntent(s, v))
BY DEF OfChoice, PPIntent, SnarkIntent, IdIntent, InputIntent, VoteIntent

\* One activity, asked for when nothing waits.
LEMMA WaitingOne ==
  ASSUME NEW x
  PROVE  /\ ToSet(<<x>>) = {x} /\ ToSet(<<>>) = {}
         /\ pending = <<>> => pending \o <<x>> = <<x>>
<1>1. \A y : y \in ToSet(<<x>>) <=> \E i \in DOMAIN <<x>> : y = <<x>>[i]
  BY ElementsOf
<1>2. \A y : y \in ToSet(<<>>) <=> \E i \in DOMAIN <<>> : y = <<>>[i]
  BY ElementsOf
<1>3. DOMAIN <<x>> = {1} /\ <<x>>[1] = x /\ DOMAIN <<>> = {}
  OBVIOUS
<1>4. \A y : y \in ToSet(<<x>>) <=> y = x
  BY <1>1, <1>3
<1>5. \A y : y \notin ToSet(<<>>)
  BY <1>2, <1>3
<1>6. pending = <<>> => pending \o <<x>> = <<x>>
  OBVIOUS
<1> QED
  BY <1>4, <1>5, <1>6

\* Where nothing of a choice waits before or after, and the step leaves the halves of
\* the file alone, the queue stays as it should be.
LEMMA NoChoice ==
  ASSUME WritesInv, HalvesInv,
         \A x \in Waiting : ~OfChoice(x), \A x \in Waiting' : ~OfChoice(x),
         votein # None <=> votein' # None,
         \A s \in FirstHalf \cup SecondHalf : votein'[s] = votein[s],
         UNCHANGED <<lastHalf, lastCast>>,
         (PPIntent \in Waiting => pending = <<PPIntent>>)',
         (SnarkIntent("verify") \in Waiting => pending = <<SnarkIntent("verify")>>)'
  PROVE  QueueInv'
<1>1. \A s \in FirstHalf \cup SecondHalf : ~Awaits(s) /\ ~Awaits(s)'
  BY HalvesDisjoint DEF Awaits, OfChoice
<1>2. KindsInv' /\ FillInv'
  BY ChoiceKinds DEF KindsInv, FillInv
<1>3. WritesInv'
  BY HalvesDisjoint DEF WritesInv, OfChoice
<1>4. HalfInv(FirstHalf, lastHalf)'
  BY <1>1 DEF HalvesInv, HalfInv, Shipped
<1>5. HalfInv(SecondHalf, lastCast)'
  BY <1>1 DEF HalvesInv, HalfInv, Shipped
<1> QED
  BY <1>2, <1>3, <1>4, <1>5 DEF QueueInv, HalvesInv

\* A step that leaves the queue and the file alone, and closes a screen at most.
LEMMA QueueUntouched ==
  ASSUME TypeOK, QueueInv, IdInv, UNCHANGED <<pending, votein, lastHalf, lastCast, stacked>>,
         stack' = stack \/ stack' = <<>> \/ (stack # <<>> /\ stack' = Front(stack))
  PROVE  QueueInv' /\ IdInv'
<1>1. Waiting' = Waiting /\ \A s : Awaits(s)' = Awaits(s)
  BY DEF Waiting, Awaits
<1>2. QueueInv'
  BY <1>1 DEF QueueInv, KindsInv, WritesInv, FillInv, HalvesInv, HalfInv, Shipped
<1>3. ASSUME stack # <<>>, stack' = Front(stack), Len(stack) = 1
      PROVE  stack' = <<>>
  <2>1. Front(stack) = SubSeq(stack, 1, 0)
    BY <1>3 DEF Front
  <2> QED
    BY <1>3, <2>1, SubSeqEmpty
<1>4. ASSUME ~stacked
      PROVE  stack' = stack \/ stack' = <<>>
  BY <1>3, <1>4 DEF IdInv
<1>5. IdInv'
  BY <1>1, <1>4 DEF IdInv
<1> QED
  BY <1>2, <1>5

\* Without a death of the process the proving key stays as it is.
LEMMA KeyWholeKept ==
  ASSUME QuietInv, pk' = pk, sub' = sub \/ sub.pc \notin {"openvk", "writepk"}
  PROVE  (pk = Part => sub.pc \in {"openvk", "writepk"})'
BY DEF QuietInv

\* Confirmed votes stay confirmed while no handler ends or begins.
LEMMA LastKept ==
  ASSUME LastInv, UNCHANGED <<lastHalf, lastCast, reported>>, handler = "idle"
  PROVE  LastInv'
BY DEF LastInv, Confirmed

\* With nothing waiting, a file as shipped or unchanged is as it should be.
LEMMA NothingWaits ==
  ASSUME TypeOK, HalvesInv, pending' = <<>>, UNCHANGED <<lastHalf, lastCast>>,
         votein' = RawInput \/ votein' = None \/ (votein' = votein /\ \A x \in Waiting : ~OfChoice(x))
  PROVE  QueueInv'
<1>1. Waiting' = {}
  BY WaitingOne DEF Waiting
<1>2. \A s : ~Awaits(s)'
  BY <1>1 DEF Awaits
<1>3. KindsInv' /\ WritesInv' /\ FillInv'
  BY <1>1 DEF KindsInv, WritesInv, FillInv
<1>4. HalvesInv'
  <2>1. CASE votein' = RawInput
    <3>1. Shipped(votein, FirstHalf)' /\ Shipped(votein, SecondHalf)'
      BY <2>1, HalvesDisjoint DEF Shipped, RawInput
    <3> QED
      BY <1>2, <3>1 DEF HalvesInv, HalfInv
  <2>2. CASE votein' = None
    BY <2>2 DEF HalvesInv, HalfInv
  <2>3. CASE votein' = votein /\ \A x \in Waiting : ~OfChoice(x)
    <3>1. \A s \in FirstHalf \cup SecondHalf : ~Awaits(s)
      BY <2>3, HalvesDisjoint DEF Awaits, OfChoice
    <3> QED
      BY <1>2, <2>3, <3>1 DEF HalvesInv, HalfInv, Shipped
  <2> QED
    BY <2>1, <2>2, <2>3
<1> QED
  BY <1>3, <1>4 DEF QueueInv

LEMMA InputInit == Init => InputInv
<1> SUFFICES ASSUME Init PROVE InputInv
  OBVIOUS
<1>1. Waiting = {}
  BY WaitingOne DEF Init, Waiting
<1>2. QueueInv
  BY <1>1 DEF Init, QueueInv, KindsInv, WritesInv, FillInv, HalvesInv, HalfInv
<1>3. IdInv /\ ScreenInv /\ QuietInv /\ LastInv
  BY <1>1 DEF Init, IdInv, ScreenInv, QuietInv, LastInv, SubIdle
<1> QED
  BY <1>2, <1>3 DEF InputInv

-----------------------------------------------------------------------------
(* The user's steps *)

\* An activity of no choice is asked for while none of a choice waits.
LEMMA AskKept ==
  ASSUME TypeOK, QueueInv, NEW x \in Intents, ~OfChoice(x), pending' = pending \o <<x>>,
         \A y \in Waiting : ~OfChoice(y) /\ y # PPIntent /\ y # SnarkIntent("verify"),
         x \in {PPIntent, SnarkIntent("verify")} => pending = <<>>,
         UNCHANGED <<votein, lastHalf, lastCast>>
  PROVE  QueueInv' /\ Waiting' = Waiting \cup {x}
<1>1. pending \in Seq(Intents) /\ <<x>> \in Seq(Intents)
  BY DEF TypeOK
<1>2. Waiting' = Waiting \cup {x}
  BY <1>1, ConcatKinds, WaitingOne DEF Waiting
<1>3. /\ (PPIntent \in Waiting => pending = <<PPIntent>>)'
      /\ (SnarkIntent("verify") \in Waiting => pending = <<SnarkIntent("verify")>>)'
  BY <1>2, WaitingOne
<1>4. WritesInv /\ HalvesInv
  BY DEF QueueInv
<1> QED
  BY <1>2, <1>3, <1>4, NoChoice

LEMMA InputUserStep ==
  ASSUME IInv, InputInv, UserStep, UNCHANGED launch
  PROVE  InputInv'
<1> USE DEF InputInv
<1>1. TypeOK
  BY DEF IInv
<1>2. pending = <<>> => Waiting = {}
  BY WaitingOne DEF Waiting
<1>3. CASE Login
  <2>1. pending = <<>> /\ pending' = pending \o <<PPIntent>> /\ screen = "main" /\ screen' = "list"
    BY <1>3 DEF Login, Ready, Ask
  <2>2. UNCHANGED <<stack, handler, chosen, sub, votein, pk, reported, lastHalf, lastCast, stacked>>
    BY <1>3 DEF Login, files, history
  <2>3. QueueInv' /\ Waiting' = {PPIntent}
    BY <1>1, <1>2, <2>1, <2>2, IntentKinds, ChoiceKinds, AskKept
  <2>4. IdInv'
    BY <2>1, <2>2, <2>3, ChoiceKinds DEF IdInv, ScreenInv, PPIntent, VoteIntent
  <2>5. ScreenInv' /\ LastInv'
    BY <1>3, <2>1, <2>2, LastKept DEF ScreenInv, Login, Ready
  <2>6. QuietInv'
    BY <1>3, <2>2 DEF QuietInv, Login, Ready, SubIdle
  <2> QED
    BY <2>3, <2>4, <2>5, <2>6
<1>4. CASE Logout
  <2>1. pending = <<>> /\ UNCHANGED <<stack, handler, chosen, pending, sub, votein, pk, reported, lastHalf, lastCast, stacked>>
    BY <1>4 DEF Logout, Ready, files, history
  <2>2. QueueInv' /\ IdInv'
    BY <1>1, <2>1, QueueUntouched
  <2>3. Waiting' = {} /\ stack' = <<>>
    BY <1>2, <1>4, <2>1 DEF Logout, Waiting
  <2>4. ScreenInv' /\ LastInv' /\ QuietInv'
    BY <1>4, <2>1, <2>3, LastKept DEF ScreenInv, Logout, Ready, QuietInv
  <2> QED
    BY <2>2, <2>4
<1>5. ASSUME NEW x \in {SnarkIntent("verify"), IdIntent(1)},
             Ready, screen = "main", Ask(<<x>>), UNCHANGED <<ui, sub, files, server, history>>
      PROVE  InputInv'
  <2>1. pending = <<>> /\ pending' = pending \o <<x>> /\ handler = "idle" /\ sub = SubIdle
    BY <1>5 DEF Ready, Ask
  <2>2. UNCHANGED <<screen, stack, handler, chosen, sub, votein, pk, reported, lastHalf, lastCast, stacked>>
    BY <1>5 DEF files, history, ui
  <2>3. x \in Intents /\ ~OfChoice(x) /\ x.act # "vote"
    BY IntentKinds, ChoiceKinds DEF SnarkIntent, IdIntent, InputIntent
  <2>4. QueueInv' /\ Waiting' = {x}
    BY <1>1, <1>2, <2>1, <2>2, <2>3, AskKept
  <2>5. IdInv'
    BY <1>5, <2>2, <2>3, <2>4, ChoiceKinds DEF IdInv, ScreenInv, VoteIntent
  <2>6. ScreenInv' /\ LastInv' /\ QuietInv'
    BY <1>5, <2>1, <2>2, <2>3, <2>4, LastKept DEF ScreenInv, QuietInv, SubIdle
  <2> QED
    BY <2>4, <2>5, <2>6
<1>6. CASE PressSnark
  BY <1>5, <1>6 DEF PressSnark
<1>7. CASE PressDb
  BY <1>5, <1>7 DEF PressDb
<1>8. ASSUME NEW v \in Votes, OpenVote(v) PROVE InputInv'
  <2>1. /\ screen = "list" /\ stack = <<>> /\ handler = "idle" /\ sub = SubIdle
        /\ \A k \in DOMAIN pending : pending[k].act = "vote"
        /\ pending' = pending \o <<VoteIntent(v)>>
        /\ stacked' = (stacked \/ pending # <<>>)
        /\ UNCHANGED <<screen, stack, handler, chosen, sub, votein, pk, reported, lastHalf, lastCast>>
    BY <1>8 DEF OpenVote, Ask, files, ui
  <2>2. \A x \in Waiting : x.act = "vote"
    BY <1>1, <2>1, WaitingKinds DEF TypeOK
  <2>3. \A x \in Waiting : ~OfChoice(x) /\ x # PPIntent /\ x # SnarkIntent("verify")
    BY <2>2 DEF OfChoice, PPIntent, SnarkIntent
  <2>4. VoteIntent(v) \in Intents /\ ~OfChoice(VoteIntent(v)) /\ VoteIntent(v) \notin {PPIntent, SnarkIntent("verify")}
    BY IntentKinds, ChoiceKinds DEF VoteIntent, PPIntent, SnarkIntent
  <2>5. QueueInv' /\ Waiting' = Waiting \cup {VoteIntent(v)}
    BY <1>1, <2>1, <2>3, <2>4, AskKept
  <2>6. IdInv'
    <3> SUFFICES ASSUME ~stacked' PROVE IdInv'
      BY DEF IdInv
    <3>1. pending = <<>> /\ pending' = <<VoteIntent(v)>> /\ Waiting' = {VoteIntent(v)}
      BY <1>2, <2>1, <2>5, WaitingOne
    <3>2. \A w \in Votes : VoteIntent(w) = VoteIntent(v) => w = v
      BY DEF VoteIntent
    <3>3. SnarkIntent("run") # VoteIntent(v)
      BY ChoiceKinds
    <3> QED
      BY <2>1, <3>1, <3>2, <3>3 DEF IdInv
  <2>7. ScreenInv' /\ LastInv' /\ QuietInv'
    BY <2>1, LastKept DEF ScreenInv, QuietInv, SubIdle
  <2> QED
    BY <2>5, <2>6, <2>7
<1>9. CASE VoteBack
  <2>1. /\ pending = <<>> /\ stack # <<>> /\ stack' = Front(stack) /\ handler = "idle"
        /\ UNCHANGED <<screen, handler, chosen, pending, sub, votein, pk, reported, lastHalf, lastCast, stacked>>
    BY <1>9 DEF VoteBack, Ready, files, history
  <2>2. QueueInv' /\ IdInv'
    BY <1>1, <2>1, QueueUntouched
  <2>3. screen # "main" /\ screen' = screen
    BY <2>1 DEF ScreenInv
  <2>4. ScreenInv' /\ LastInv' /\ QuietInv'
    BY <2>1, <2>3, LastKept DEF ScreenInv, QuietInv
  <2> QED
    BY <2>2, <2>4
<1>10. CASE DismissResult
  <2>1. /\ sub.pc = "dialog" /\ sub' = SubIdle
        /\ UNCHANGED <<screen, stack, handler, chosen, pending, votein, pk, reported, lastHalf, lastCast, stacked>>
    BY <1>10 DEF DismissResult, ui, files, history
  <2>2. QueueInv' /\ IdInv'
    BY <1>1, <2>1, QueueUntouched
  <2>3. ScreenInv' /\ QuietInv'
    BY <2>1 DEF ScreenInv, QuietInv, SubIdle, Waiting
  <2>4. LastInv'
    BY <2>1 DEF LastInv, Confirmed
  <2> QED
    BY <2>2, <2>3, <2>4
<1>11. ASSUME NEW c \in Candidates, NEW reach \in 0 .. 2, Confirm(c, reach) PROVE InputInv'
  <2>1. /\ pending = <<>> /\ sub = SubIdle /\ handler = "idle" /\ stack # <<>>
        /\ reach > 0 => votein # None
        /\ pending' = pending \o EncodeIntents(c, reach)
        /\ lastHalf' = (IF reach > 0 THEN <<Last(stack), c>> ELSE lastHalf)
        /\ lastCast' = (IF reach > 1 THEN <<Last(stack), c>> ELSE lastCast)
        /\ handler' = "upload" /\ chosen' = c
        /\ UNCHANGED <<screen, stack, sub, votein, pk, reported, stacked>>
    BY <1>11 DEF Confirm, Ready, Ask, files
  <2>2. Waiting = {} /\ \A s : ~Awaits(s)
    BY <1>2, <2>1 DEF Awaits
  <2>3. Waiting' = ToSet(EncodeIntents(c, reach))
    BY <2>1, <2>2, EncodeKinds, ConcatKinds DEF Waiting, TypeOK, IInv
  <2> DEFINE Ws(half) == {InputIntent(s, Content(s, c)) : s \in half}
  <2>4. /\ reach = 0 => Waiting' = {}
        /\ reach = 1 => Waiting' = Ws(FirstHalf)
        /\ reach = 2 => Waiting' = Ws(FirstHalf \cup SecondHalf) \cup {SnarkIntent("run")}
    BY <2>3, EncodeKinds
  <2>5. \A x \in Waiting' :
          \/ x = SnarkIntent("run") /\ reach = 2 /\ x.act = "snark"
          \/ /\ x.act = "input" /\ x.val = Content(x.seg, c) /\ reach > 0
             /\ x.seg \in FirstHalf \/ (x.seg \in SecondHalf /\ reach = 2)
    BY <2>4 DEF InputIntent, SnarkIntent
  <2>6. /\ reach > 0 => \A s \in FirstHalf : Awaits(s)'
        /\ reach = 2 => \A s \in SecondHalf : Awaits(s)'
        /\ reach < 2 => \A s \in SecondHalf : ~Awaits(s)'
        /\ reach = 0 => \A s \in FirstHalf : ~Awaits(s)'
    <3>1. \A s : InputIntent(s, Content(s, c)).act = "input" /\ InputIntent(s, Content(s, c)).seg = s
      BY DEF InputIntent
    <3>2. reach > 0 => \A s \in FirstHalf : InputIntent(s, Content(s, c)) \in Waiting'
      BY <2>4
    <3>3. reach = 2 => \A s \in SecondHalf : InputIntent(s, Content(s, c)) \in Waiting'
      BY <2>4
    <3>4. reach < 2 => \A s \in SecondHalf : ~Awaits(s)'
      BY <2>5, HalvesDisjoint DEF Awaits
    <3>5. reach = 0 => \A s \in FirstHalf : ~Awaits(s)'
      BY <2>5 DEF Awaits
    <3> QED
      BY <3>1, <3>2, <3>3, <3>4, <3>5 DEF Awaits
  <2> HIDE DEF Ws
  <2>7. \A x \in Waiting' : OfChoice(x)
    BY <2>5, HalvesDisjoint DEF OfChoice
  <2>8. KindsInv'
    BY <2>7, ChoiceKinds DEF KindsInv
  <2>9. c \in Candidates /\ <<Last(stack), c>>[2] = c /\ <<Last(stack), c>> # None
    <3>1. Last(stack) \in Votes
      BY <1>1, <2>1, StackKinds DEF TypeOK
    <3> QED
      BY <3>1, FilesAssumption
  <2>10. WritesInv'
    BY <2>1, <2>5, <2>9, HalvesDisjoint DEF WritesInv
  <2>11. FillInv'
    <3>1. SnarkIntent("run") \in Waiting' => reach = 2
      BY <2>5 DEF SnarkIntent
    <3>2. (\E x \in Waiting' : OfChoice(x)) => reach > 0
      BY <2>4
    <3> QED
      BY <2>1, <2>6, <2>9, <3>1, <3>2 DEF FillInv
  <2>12. HalvesInv'
    <3>1. HalfInv(FirstHalf, lastHalf)'
      BY <2>1, <2>2, <2>6, <2>9 DEF InputInv, QueueInv, HalvesInv, HalfInv, Shipped
    <3>2. HalfInv(SecondHalf, lastCast)'
      BY <2>1, <2>2, <2>6, <2>9 DEF InputInv, QueueInv, HalvesInv, HalfInv, Shipped
    <3> QED
      BY <3>1, <3>2 DEF HalvesInv
  <2>13. IdInv'
    <3> SUFFICES ASSUME ~stacked' PROVE IdInv'
      BY DEF IdInv
    <3>1. \A v \in Votes : VoteIntent(v) \notin Waiting'
      BY <2>7, ChoiceKinds
    <3>2. Len(stack) = 1 /\ votein # None /\ votein["e_id"] = stack[1]
      BY <2>1 DEF IdInv
    <3>3. SnarkIntent("run") \in Waiting' => lastCast'[1] = stack[1]
      <4>1. SnarkIntent("run") \in Waiting' => reach = 2
        BY <2>5 DEF SnarkIntent
      <4>2. <<Last(stack), c>>[1] = stack[1]
        BY <3>2 DEF Last
      <4> QED
        BY <2>1, <4>1, <4>2
    <3> QED
      BY <2>1, <2>7, <3>1, <3>2, <3>3 DEF IdInv
  <2>14. ScreenInv' /\ QuietInv'
    BY <2>1 DEF ScreenInv, QuietInv, SubIdle
  <2>15. LastInv'
    BY <2>1 DEF LastInv, Confirmed
  <2> QED
    BY <2>8, <2>10, <2>11, <2>12, <2>13, <2>14, <2>15 DEF QueueInv
<1> QED
  BY <1>3, <1>4, <1>6, <1>7, <1>8, <1>9, <1>10, <1>11 DEF UserStep

-----------------------------------------------------------------------------
(* The handler's and the native code's steps *)

LEMMA InputUploadStep ==
  ASSUME IInv, InputInv, UploadStep, UNCHANGED launch
  PROVE  InputInv'
<1> USE DEF InputInv
<1>1. TypeOK
  BY DEF IInv
<1>2. ASSUME NEW online \in BOOLEAN, UploadProof(online) PROVE InputInv'
  <2>1. /\ handler = "upload" /\ handler' = "sendvk"
        /\ UNCHANGED <<screen, stack, chosen, pending, sub, votein, pk, reported, lastHalf, lastCast, stacked>>
    BY <1>2 DEF UploadProof, files, history
  <2>2. QueueInv' /\ IdInv'
    BY <1>1, <2>1, QueueUntouched
  <2>3. ScreenInv' /\ QuietInv'
    BY <2>1 DEF ScreenInv, QuietInv, Waiting
  <2>4. LastInv'
    BY <2>1 DEF LastInv, Confirmed
  <2> QED
    BY <2>2, <2>3, <2>4
<1>3. ASSUME NEW online \in BOOLEAN, UploadVk(online) PROVE InputInv'
  <2>1. /\ handler = "sendvk" /\ handler' = "idle" /\ stack # <<>> /\ stack' = Front(stack)
        /\ reported' = reported \cup {<<Last(stack), chosen>>}
        /\ UNCHANGED <<screen, pending, sub, votein, pk, lastHalf, lastCast, stacked>>
    BY <1>1, <1>3 DEF UploadVk, files, TypeOK
  <2>2. QueueInv' /\ IdInv'
    BY <1>1, <2>1, QueueUntouched
  <2>3. ScreenInv' /\ QuietInv'
    BY <2>1 DEF ScreenInv, QuietInv, Waiting
  <2>4. LastInv'
    BY <2>1 DEF LastInv, Confirmed
  <2> QED
    BY <2>2, <2>3, <2>4
<1> QED
  BY <1>2, <1>3 DEF UploadStep

\* The native code moves on, and touches neither the queue nor the input file.
LEMMA NativeKeeps ==
  ASSUME TypeOK, NativeSteps
  PROVE  /\ sub.pc \notin {"idle", "dialog"} /\ sub'.pc # "idle" /\ sub'.pc # "verify"
         /\ sub'.input = sub.input
         /\ UNCHANGED <<screen, stack, handler, chosen, pending, votein, server, reported, lastHalf, lastCast, stacked, kills>>
         /\ pk' = Part => sub'.pc \in {"openvk", "writepk"} \/ (pk = Part /\ sub.pc \notin {"openvk", "writepk"})
BY DEF TypeOK, NativeSteps, OpenPk, OpenVk, WritePk, WriteVk, OpenProof, WriteProof, Verify,
       NativeStep, ui, history

LEMMA InputNativeStep ==
  ASSUME IInv, InputInv, NativeSteps, UNCHANGED launch
  PROVE  InputInv'
<1> USE DEF InputInv
<1> USE DEF IInv
<1>1. QueueInv' /\ IdInv'
  BY NativeKeeps, QueueUntouched
<1>2. handler = "idle"
  BY NativeKeeps DEF QuietInv, SubIdle
<1>3. ScreenInv' /\ QuietInv' /\ LastInv'
  BY <1>2, NativeKeeps DEF ScreenInv, QuietInv, LastInv, Confirmed, Waiting
<1> QED
  BY <1>1, <1>3

\* A crash without a complete key or proof happens where nothing is lost.
LEMMA InputCrashStep ==
  ASSUME IInv, InputInv, CutKeyCrash \/ VerifyCrash, UNCHANGED launch
  PROVE  InputInv'
<1> USE DEF InputInv
<1>1. /\ sub.pc = "verify" /\ pending = <<>> /\ handler = "idle"
      /\ Restarted /\ UNCHANGED <<votein, pk, reported, lastHalf, lastCast, stacked>>
  BY DEF CutKeyCrash, VerifyCrash, QuietInv, files, history, SubIdle
<1>2. /\ screen' = "main" /\ stack' = <<>> /\ handler' = "idle" /\ pending' = pending /\ sub' = SubIdle
  BY <1>1 DEF Restarted
<1>3. QueueInv' /\ IdInv'
  BY <1>1, <1>2, QueueUntouched DEF IInv
<1>4. Waiting' = {}
  BY <1>1, <1>2, WaitingOne DEF Waiting
<1>5. ScreenInv' /\ QuietInv' /\ LastInv'
  BY <1>1, <1>2, <1>4, LastKept DEF ScreenInv, QuietInv, SubIdle
<1> QED
  BY <1>3, <1>5

-----------------------------------------------------------------------------
(* The activities Android creates *)

\* A write of a choice's segment, or its run, is taken from the queue: the queue still
\* completes the file to the vote.
LEMMA TakeOfChoice ==
  ASSUME QueueInv, Waiting \subseteq Intents, NEW x \in Waiting, OfChoice(x),
         Waiting' \subseteq Waiting, Waiting \ {x} \subseteq Waiting',
         UNCHANGED <<lastHalf, lastCast>>, votein \in Input \cup {None},
         votein' = IF x.act = "input" THEN [votein EXCEPT ![x.seg] = x.val] ELSE votein
  PROVE  QueueInv' /\ votein' # None /\ votein'["e_id"] = votein["e_id"]
<1>1. votein # None /\ \A y \in Waiting : OfChoice(y)
  BY DEF QueueInv, KindsInv, FillInv
<1>2. votein \in [Segments -> SegmentValues]
  BY <1>1 DEF Input
<1>3. x.act = "input" => x.seg \in Segments /\ x.seg # "e_id" /\ x.val \in SegmentValues
  BY DEF OfChoice, Intents, SnarkIntent
<1>4. /\ votein' \in [Segments -> SegmentValues]
      /\ \A s \in Segments : votein'[s] = IF x.act = "input" /\ s = x.seg THEN x.val ELSE votein[s]
  <2>1. CASE x.act = "input"
    BY <1>2, <1>3, <2>1
  <2>2. CASE x.act # "input"
    BY <1>2, <2>2
  <2> QED
    BY <2>1, <2>2
<1>5. votein' # None
  BY <1>4, FilesAssumption DEF Input
<1>6. \A s : Awaits(s)' => Awaits(s)
  BY DEF Awaits
<1>7. \A s : Awaits(s) => Awaits(s)' \/ (x.act = "input" /\ x.seg = s)
  BY DEF Awaits
<1>8. KindsInv'
  BY <1>1, ChoiceKinds DEF KindsInv
<1>9. WritesInv'
  BY DEF QueueInv, WritesInv
<1>10. x.act = "input" => /\ x.seg \in FirstHalf => lastHalf # None /\ x.val = Content(x.seg, lastHalf[2])
                          /\ x.seg \in SecondHalf => lastCast # None /\ x.val = Content(x.seg, lastCast[2])
  BY DEF QueueInv, WritesInv
<1>11. FillInv'
  <2> SUFFICES ASSUME SnarkIntent("run") \in Waiting', NEW s \in FirstHalf \cup SecondHalf
               PROVE  votein'[s] = Content(s, lastCast[2]) \/ Awaits(s)'
    BY <1>5 DEF QueueInv, FillInv
  <2>1. lastHalf = lastCast /\ (votein[s] = Content(s, lastCast[2]) \/ Awaits(s))
    BY DEF QueueInv, FillInv
  <2>2. s \in Segments
    BY HalvesDisjoint
  <2> QED
    BY <1>4, <1>7, <1>10, <2>1, <2>2
<1>12. ASSUME NEW half \in {FirstHalf, SecondHalf}, NEW last,
              HalfInv(half, last),
              x.act = "input" /\ x.seg \in half => last # None /\ x.val = Content(x.seg, last[2])
       PROVE  \/ \A s \in half : votein'[s] = Raw /\ ~Awaits(s)'
              \/ last # None /\ \A s \in half : votein'[s] = Content(s, last[2]) \/ Awaits(s)'
  <2>1. half \subseteq Segments
    BY HalvesDisjoint
  <2>2. CASE Shipped(votein, half) /\ \A s \in half : ~Awaits(s)
    <3>1. \A s \in half : ~(x.act = "input" /\ x.seg = s)
      BY <2>2 DEF Awaits
    <3> QED
      BY <1>4, <1>6, <2>1, <2>2, <3>1 DEF Shipped
  <2>3. CASE last # None /\ \A s \in half : votein[s] = Content(s, last[2]) \/ Awaits(s)
    <3>1. ASSUME NEW s \in half PROVE votein'[s] = Content(s, last[2]) \/ Awaits(s)'
      BY <1>4, <1>7, <1>12, <2>1, <2>3
    <3> QED
      BY <2>3, <3>1
  <2> QED
    BY <1>1, <1>12, <2>2, <2>3 DEF HalfInv
<1>13. HalvesInv'
  <2>1. HalfInv(FirstHalf, lastHalf)'
    BY <1>10, <1>12 DEF QueueInv, HalvesInv, HalfInv, Shipped
  <2>2. HalfInv(SecondHalf, lastCast)'
    BY <1>10, <1>12 DEF QueueInv, HalvesInv, HalfInv, Shipped
  <2> QED
    BY <2>1, <2>2 DEF HalvesInv
<1>14. votein'["e_id"] = votein["e_id"]
  BY <1>3, <1>4 DEF Segments
<1> QED
  BY <1>5, <1>8, <1>9, <1>11, <1>13, <1>14 DEF QueueInv

LEMMA InputLaunchStep ==
  ASSUME IInv, InputInv, UNCHANGED launch, NEW k \in DOMAIN pending,
         MakePP(k) \/ MakeVote(k) \/ MakeInput(k) \/ MakeInputCrash(k) \/ StartSnark(k)
  PROVE  InputInv'
<1> USE DEF InputInv
<1>1. TypeOK /\ pending \in Seq(Intents) /\ votein \in Input \cup {None}
  BY DEF IInv, TypeOK
<1> DEFINE x == pending[k]
<1>2. /\ x \in Intents /\ x \in Waiting /\ Others(k) \in Seq(Intents)
      /\ ToSet(Others(k)) \subseteq Waiting /\ Waiting \ {x} \subseteq ToSet(Others(k))
  BY <1>1, OthersKinds DEF Waiting
<1>3. Waiting \subseteq Intents
  BY <1>1, WaitingKinds
<1>4. ASSUME NEW y \in Intents, pending = <<y>> PROVE x = y /\ Others(k) = <<>>
  BY <1>4, OthersOfOne
<1> HIDE DEF x
<1>5. handler = "idle" /\ sub.pc \in {"idle", "dialog"} /\ HalvesInv /\ WritesInv
  BY DEF MakePP, MakeVote, MakeInput, MakeInputCrash, StartSnark, CanLaunch, QueueInv
<1>6. pending # <<>>
  BY <1>2, WaitingOne DEF Waiting
<1>7. CASE MakePP(k)
  <2>1. /\ x.act = "PP" /\ votein' = RawInput /\ pending' = Others(k)
        /\ UNCHANGED <<screen, stack, handler, chosen, sub, pk, reported, lastHalf, lastCast, stacked>>
    BY <1>7 DEF MakePP, ui, history, x
  <2>2. x = PPIntent
    BY <1>2, <2>1 DEF Intents, PPIntent
  <2>3. pending = <<PPIntent>> /\ pending' = <<>>
    BY <1>2, <1>4, <2>1, <2>2, IntentKinds DEF QueueInv, KindsInv
  <2>4. Waiting' = {}
    BY <2>3, WaitingOne DEF Waiting
  <2>5. QueueInv'
    BY <1>1, <1>5, <2>1, <2>3, NothingWaits
  <2>6. IdInv'
    <3> SUFFICES ASSUME ~stacked, stack # <<>> PROVE FALSE
      BY <2>1, <2>4 DEF IdInv
    <3>1. PPIntent # IdIntent(stack[1]) /\ ~OfChoice(PPIntent) /\ PPIntent \in Waiting
      BY <1>2, <2>2, ChoiceKinds DEF PPIntent, IdIntent, InputIntent
    <3>2. <<PPIntent>> # <<IdIntent(stack[1])>>
      BY <3>1
    <3> QED
      BY <2>3, <3>1, <3>2 DEF IdInv
  <2>7. ScreenInv' /\ QuietInv' /\ LastInv'
    BY <1>5, <2>1, <2>3, <2>4, LastKept DEF ScreenInv, QuietInv
  <2> QED
    BY <2>5, <2>6, <2>7
<1>8. CASE MakeVote(k)
  <2>1. /\ x.act = "vote" /\ stack' = Append(stack, x.vote)
        /\ pending' = Append(Others(k), IdIntent(x.vote))
        /\ UNCHANGED <<screen, handler, chosen, sub, votein, pk, reported, lastHalf, lastCast, stacked>>
    BY <1>8 DEF MakeVote, files, history, x
  <2>2. x.vote \in Votes /\ x = VoteIntent(x.vote) /\ IdIntent(x.vote) \in Intents
    <3>1. x.vote \in Votes /\ x = VoteIntent(x.vote)
      BY <1>2, <2>1 DEF Intents, VoteIntent
    <3> QED
      BY <3>1, IntentKinds
  <2>3. Waiting' = ToSet(Others(k)) \cup {IdIntent(x.vote)}
    <3>1. pending' = Others(k) \o <<IdIntent(x.vote)>>
      BY <1>2, <2>1, <2>2
    <3>2. <<IdIntent(x.vote)>> \in Seq(Intents)
      BY <2>2
    <3> QED
      BY <1>2, <3>1, <3>2, ConcatKinds, WaitingOne DEF Waiting
  <2>4. ~OfChoice(x) /\ x # PPIntent /\ x # SnarkIntent("verify")
    BY <2>1, <2>2, ChoiceKinds DEF PPIntent, SnarkIntent
  <2>5. \A y \in Waiting : ~OfChoice(y) /\ y # PPIntent /\ y # SnarkIntent("verify")
    <3>1. \A y \in Intents : pending = <<y>> => x = y
      BY <1>4
    <3> QED
      BY <1>2, <2>4, <3>1, IntentKinds DEF QueueInv, KindsInv
  <2>6. \A y \in Waiting' : ~OfChoice(y) /\ y # PPIntent /\ y # SnarkIntent("verify")
    BY <1>2, <2>3, <2>5, ChoiceKinds DEF IdIntent, InputIntent, PPIntent, SnarkIntent
  <2>7. QueueInv'
    BY <1>5, <2>1, <2>5, <2>6, NoChoice
  <2>8. IdInv'
    <3> SUFFICES ASSUME ~stacked PROVE IdInv'
      BY <2>1 DEF IdInv
    <3>1. pending = <<x>> /\ stack = <<>>
      BY <1>2, <2>2 DEF IdInv
    <3>2. Others(k) = <<>>
      BY <1>2, <1>4, <3>1
    <3>3. stack' = <<x.vote>> /\ pending' = <<IdIntent(x.vote)>> /\ Waiting' = {IdIntent(x.vote)}
      BY <2>1, <2>3, <3>1, <3>2, WaitingOne
    <3>4. \A v : VoteIntent(v) # IdIntent(x.vote)
      BY DEF VoteIntent, IdIntent, InputIntent
    <3>5. SnarkIntent("run") # IdIntent(x.vote)
      BY ChoiceKinds
    <3>6. Len(stack') = 1 /\ stack'[1] = x.vote
      BY <3>3
    <3> QED
      BY <3>3, <3>4, <3>5, <3>6 DEF IdInv
  <2>9. screen # "main"
    BY <1>2, <2>1 DEF ScreenInv
  <2>10. ScreenInv' /\ QuietInv' /\ LastInv'
    BY <1>5, <2>1, <2>9, LastKept DEF ScreenInv, QuietInv
  <2> QED
    BY <2>7, <2>8, <2>10
<1>9. CASE MakeInput(k)
  <2>1. /\ x.act = "input" /\ votein # None /\ pending' = Others(k)
        /\ votein' = [votein EXCEPT ![x.seg] = x.val]
        /\ UNCHANGED <<screen, stack, handler, chosen, sub, pk, reported, lastHalf, lastCast, stacked>>
    BY <1>9 DEF MakeInput, ui, history, x
  <2>2. Waiting' \subseteq Waiting /\ Waiting \ {x} \subseteq Waiting'
    BY <1>2, <2>1 DEF Waiting
  <2>3. ScreenInv' /\ QuietInv' /\ LastInv'
    BY <1>5, <2>1, <2>2, LastKept DEF ScreenInv, QuietInv
  <2>4. CASE OfChoice(x)
    <3>1. QueueInv' /\ votein' # None /\ votein'["e_id"] = votein["e_id"]
      BY <1>1, <1>2, <1>3, <2>1, <2>2, <2>4, TakeOfChoice
    <3>2. IdInv'
      <4> SUFFICES ASSUME ~stacked PROVE IdInv'
        BY <2>1 DEF IdInv
      <4>1. \A y \in Waiting : OfChoice(y)
        BY <1>2, <2>4 DEF QueueInv, KindsInv
      <4>2. \A v \in Votes : VoteIntent(v) \notin Waiting
        BY <4>1, ChoiceKinds
      <4>3. stack # <<>> => pending # <<IdIntent(stack[1])>>
        <5>1. stack # <<>> => stack[1] \in Votes
          BY <1>1 DEF TypeOK
        <5> QED
          BY <4>1, <5>1, WaitingOne, ChoiceKinds DEF Waiting
      <4>4. stack # <<>> => Len(stack) = 1 /\ votein["e_id"] = stack[1]
        BY <4>3 DEF IdInv
      <4>5. SnarkIntent("run") \in Waiting => votein["e_id"] = lastCast[1]
        BY DEF IdInv
      <4> QED
        BY <2>1, <2>2, <3>1, <4>1, <4>2, <4>4, <4>5 DEF IdInv
    <3> QED
      BY <2>3, <3>1, <3>2
  <2>5. CASE ~OfChoice(x)
    <3>1. x.seg = "e_id" /\ x.val \in SegmentValues
      BY <1>2, <2>1, <2>5 DEF OfChoice, Intents
    <3>2. \A y \in Waiting : ~OfChoice(y)
      BY <1>2, <2>5 DEF QueueInv, KindsInv
    <3>3. votein \in [Segments -> SegmentValues] /\ votein' \in [Segments -> SegmentValues]
      BY <1>1, <2>1, <3>1 DEF Input, Segments
    <3>4. /\ votein' # None /\ votein'["e_id"] = x.val
          /\ \A s \in FirstHalf \cup SecondHalf : votein'[s] = votein[s]
      <4>1. votein' # None
        BY <3>3, FilesAssumption DEF Input
      <4> QED
        BY <2>1, <3>1, <3>3, <4>1, HalvesDisjoint DEF Segments
    <3>5. \A y \in Waiting' : y # PPIntent /\ y # SnarkIntent("verify")
      <4>1. x # PPIntent /\ x # SnarkIntent("verify")
        BY <2>1 DEF PPIntent, SnarkIntent
      <4>2. \A y \in Intents : pending = <<y>> => x = y
        BY <1>4
      <4> QED
        BY <2>2, <4>1, <4>2, IntentKinds DEF QueueInv, KindsInv
    <3>6. QueueInv'
      BY <1>5, <2>1, <2>2, <3>2, <3>4, <3>5, NoChoice
    <3>7. IdInv'
      <4> SUFFICES ASSUME ~stacked PROVE IdInv'
        BY <2>1 DEF IdInv
      <4>1. \A v \in Votes : VoteIntent(v) \notin Waiting
        <5>1. \A v : VoteIntent(v).act = "vote"
          BY DEF VoteIntent
        <5>2. \A v \in Votes : VoteIntent(v) \in Intents /\ VoteIntent(v) # x
          BY <2>1, <5>1, IntentKinds
        <5> QED
          BY <1>4, <5>2 DEF IdInv
      <4>2. SnarkIntent("run") \notin Waiting'
        BY <2>2, <3>2, ChoiceKinds
      <4>3. ASSUME stack # <<>>
            PROVE  Len(stack) = 1 /\ votein'["e_id"] = stack[1] /\ pending' = <<>>
        <5>1. Len(stack) = 1 /\ stack[1] \in Votes /\ pending = <<IdIntent(stack[1])>>
          <6>1. Len(stack) = 1
            BY <4>3 DEF IdInv
          <6>2. stack[1] \in Votes
            <7>1. stack \in Seq(Votes)
              BY <1>1 DEF TypeOK
            <7> QED
              BY <6>1, <7>1
          <6>3. pending = <<IdIntent(stack[1])>>
            BY <1>2, <2>5, <4>3 DEF IdInv
          <6> QED
            BY <6>1, <6>2, <6>3
        <5>2. x = IdIntent(stack[1]) /\ Others(k) = <<>>
          <6>1. IdIntent(stack[1]) \in Intents
            BY <5>1, IntentKinds
          <6> QED
            BY <1>4, <5>1, <6>1
        <5>3. x.val = stack[1]
          BY <5>2 DEF IdIntent, InputIntent
        <5> QED
          BY <2>1, <3>4, <5>1, <5>2, <5>3
      <4>4. stack # <<>> => \A y \in Waiting' : OfChoice(y)
        BY <4>3, WaitingOne DEF Waiting
      <4> QED
        BY <2>1, <2>2, <3>4, <4>1, <4>2, <4>3, <4>4 DEF IdInv
    <3> QED
      BY <2>3, <3>6, <3>7
  <2> QED
    BY <2>4, <2>5
<1>10. CASE MakeInputCrash(k)
  <2>1. /\ votein = None /\ votein' = None /\ Restarted
        /\ UNCHANGED <<pk, reported, lastHalf, lastCast, stacked>>
    BY <1>10 DEF MakeInputCrash, files, history
  <2>2. /\ screen' = "main" /\ stack' = <<>> /\ handler' = "idle" /\ pending' = <<>> /\ sub' = SubIdle
        /\ Waiting' = {}
    BY <2>1, WaitingOne DEF Restarted, Waiting
  <2>3. QueueInv'
    BY <1>1, <1>5, <2>1, <2>2, NothingWaits
  <2>4. IdInv' /\ ScreenInv' /\ QuietInv' /\ LastInv'
    BY <1>5, <2>1, <2>2, LastKept DEF IdInv, ScreenInv, QuietInv, SubIdle
  <2> QED
    BY <2>3, <2>4
<1>11. CASE StartSnark(k)
  <2>1. /\ x.act = "snark" /\ sub = SubIdle /\ pending' = Others(k)
        /\ votein' = (IF votein = None THEN RawInput ELSE votein)
        /\ UNCHANGED <<screen, stack, handler, chosen, pk, reported, lastHalf, lastCast, stacked>>
    BY <1>11 DEF StartSnark, ui, history, x
  <2>2. /\ sub'.pc \in {"setup", "prove", "verify"} /\ (sub'.pc = "verify" => x.mode # "run")
        /\ x.mode \in {"run", "verify"} /\ x = SnarkIntent(x.mode)
    <3>1. x.mode \in {"run", "verify"} /\ x = SnarkIntent(x.mode)
      BY <1>2, <2>1 DEF Intents, SnarkIntent
    <3> QED
      BY <1>11, <3>1 DEF StartSnark, x
  <2>3. Waiting' \subseteq Waiting /\ Waiting \ {x} \subseteq Waiting'
    BY <1>2, <2>1 DEF Waiting
  <2>4. x = SnarkIntent("verify") => pending = <<SnarkIntent("verify")>> /\ pending' = <<>> /\ Waiting' = {}
    <3> SUFFICES ASSUME x = SnarkIntent("verify")
                 PROVE  pending = <<SnarkIntent("verify")>> /\ pending' = <<>> /\ Waiting' = {}
      OBVIOUS
    <3>1. pending = <<SnarkIntent("verify")>>
      BY <1>2 DEF QueueInv, KindsInv
    <3>2. pending' = <<>>
      BY <1>4, <2>1, <3>1, IntentKinds
    <3> QED
      BY <3>1, <3>2, WaitingOne DEF Waiting
  <2>5. QuietInv'
    <3>1. pk # Part
      BY <1>5 DEF QuietInv
    <3> QED
      BY <1>5, <2>1, <2>2, <2>4, <3>1 DEF QuietInv
  <2>6. ScreenInv' /\ LastInv'
    BY <1>5, <2>1, <2>3, LastKept DEF ScreenInv
  <2>7. CASE x = SnarkIntent("verify")
    <3>1. \A y \in Waiting : ~OfChoice(y)
      BY <2>4, <2>7, WaitingOne, ChoiceKinds DEF Waiting
    <3>2. QueueInv'
      BY <1>1, <1>5, <2>1, <2>4, <2>7, <3>1, NothingWaits
    <3>3. IdInv'
      <4> SUFFICES ASSUME ~stacked, stack # <<>> PROVE FALSE
        BY <2>1, <2>4, <2>7 DEF IdInv
      <4>1. SnarkIntent("verify") # IdIntent(stack[1]) /\ ~OfChoice(SnarkIntent("verify"))
        BY ChoiceKinds DEF SnarkIntent, IdIntent, InputIntent
      <4>2. <<SnarkIntent("verify")>> # <<IdIntent(stack[1])>>
        BY <4>1
      <4> QED
        BY <1>2, <2>4, <2>7, <4>1, <4>2 DEF IdInv
    <3> QED
      BY <2>5, <2>6, <3>2, <3>3
  <2>8. CASE x = SnarkIntent("run")
    <3>1. OfChoice(x) /\ x.act # "input" /\ votein # None
      BY <1>2, <2>1, <2>8, ChoiceKinds DEF QueueInv, FillInv
    <3>2. votein' = votein
      BY <2>1, <3>1
    <3>3. QueueInv'
      BY <1>1, <1>2, <1>3, <2>1, <2>3, <3>1, <3>2, TakeOfChoice
    <3>4. IdInv'
      <4>1. \A y \in Waiting : OfChoice(y)
        BY <1>2, <3>1 DEF QueueInv, KindsInv
      <4>2. \A v : VoteIntent(v) \notin Waiting
        BY <4>1, ChoiceKinds
      <4>3. \A v : pending # <<IdIntent(v)>>
        BY <4>1, WaitingOne, ChoiceKinds DEF Waiting
      <4> QED
        BY <2>1, <2>3, <3>1, <3>2, <4>1, <4>2, <4>3 DEF IdInv
    <3> QED
      BY <2>5, <2>6, <3>3, <3>4
  <2> QED
    BY <2>2, <2>7, <2>8
<1> QED
  BY <1>7, <1>8, <1>9, <1>10, <1>11

\* A process that has not died after a step had not died before, nor dies in it.
LEMMA AliveBefore ==
  ASSUME IInv, [Next]_vars, kills' = 0
  PROVE  kills = 0 /\ ~Kill
<1>1. kills \in Nat
  BY DEF IInv, TypeOK
<1>2. UserStep => kills' = kills
  BY DEF UserStep, Login, Logout, PressSnark, PressDb, OpenVote, VoteBack, Confirm, DismissResult, history
<1>3. UploadStep => kills' = kills
  BY DEF UploadStep, UploadProof, UploadVk, history
<1>4. \A k \in DOMAIN pending :
         MakePP(k) \/ MakeVote(k) \/ MakeInput(k) \/ MakeInputCrash(k) \/ StartSnark(k) => kills' = kills
  BY DEF MakePP, MakeVote, MakeInput, MakeInputCrash, StartSnark, history
<1>5. CutKeyCrash \/ VerifyCrash => kills' = kills
  BY DEF CutKeyCrash, VerifyCrash, history
<1>6. Kill => kills' = kills + 1
  BY DEF Kill
<1>7. UNCHANGED vars => kills' = kills
  BY DEF vars, history
<1>8. TypeOK
  BY DEF IInv
<1> QED
  BY Steps, NativeKeeps, <1>1, <1>2, <1>3, <1>4, <1>5, <1>6, <1>7, <1>8

\* The whole step: only the death of the process ends the guarantees.
WInv == kills = 0 => InputInv

LEMMA InputStep == IInv /\ WInv /\ [Next]_vars => WInv'
<1> SUFFICES ASSUME IInv, WInv, [Next]_vars, kills' = 0 PROVE InputInv'
  BY DEF WInv
<1>1. kills = 0 /\ ~Kill
  BY AliveBefore
<1>2. InputInv
  BY <1>1 DEF WInv
<1>3. ASSUME UNCHANGED vars PROVE InputInv'
  BY <1>2, <1>3 DEF InputInv, QueueInv, KindsInv, WritesInv, FillInv, HalvesInv, HalfInv, Shipped, Awaits,
                    Waiting, IdInv, ScreenInv, QuietInv, LastInv, Confirmed, vars, ui, files, history
<1> QED
  BY <1>1, <1>2, <1>3, Steps, InputUserStep, InputUploadStep, InputLaunchStep, InputNativeStep, InputCrashStep

THEOREM InputInvariance == Spec => []WInv
<1>1. Init => WInv
  BY InputInit DEF WInv
<1> QED
  BY <1>1, InputStep, Invariance, PTL DEF Spec

\* As long as the process does not die, once all that was asked for has run each half
\* of the input file is as shipped or whole for the last vote encoded that far, and the
\* id is that of the screen on top, in whatever order Android starts activities
\* (VoteActivity.java:128-136, 868-1046, makevoteinput.java:89-153).
THEOREM InputIsOfLastVotesHolds == Spec => []InputIsOfLastVotes
<1>1. WInv => InputIsOfLastVotes
  <2> SUFFICES ASSUME InputInv, pending = <<>>, votein # None
               PROVE  /\ \/ Shipped(votein, FirstHalf)
                         \/ lastHalf # None /\ Of(votein, FirstHalf, lastHalf[2])
                      /\ \/ Shipped(votein, SecondHalf)
                         \/ lastCast # None /\ Of(votein, SecondHalf, lastCast[2])
                      /\ stack # <<>> /\ ~stacked => votein["e_id"] = Last(stack)
    BY DEF WInv, InputIsOfLastVotes
  <2>1. \A s : ~Awaits(s)
    BY WaitingOne DEF Awaits, Waiting
  <2>2. \A v : pending # <<IdIntent(v)>>
    OBVIOUS
  <2>3. stack # <<>> /\ ~stacked => votein["e_id"] = Last(stack)
    BY <2>2 DEF InputInv, IdInv, Last
  <2> QED
    BY <2>1, <2>3 DEF InputInv, QueueInv, HalvesInv, HalfInv, Of
<1> QED
  BY <1>1, InputInvariance, PTL

-----------------------------------------------------------------------------
(* What is proved and uploaded, as long as the process does not die *)

\* An input made of the shipped file and of votes of V; in request order it is one of
\* these votes, or its second half is as shipped.  With `loose` the ids may differ.
Traced(f, V, loose, order) ==
    /\ \A s \in FirstHalf \cup SecondHalf :
          f[s] = Raw \/ \E r \in V : f[s] = Content(s, r[2])
    /\ order = "fifo" =>
          \/ \E r \in V : Encrypts(f, r[2]) /\ (~loose => f["e_id"] = r[1])
          \/ /\ Shipped(f, SecondHalf)
             /\ Shipped(f, FirstHalf) \/ \E r \in V : Of(f, FirstHalf, r[2])

Proving == sub.pc \notin {"idle", "dialog", "verify"}

OriginInv ==
    /\ votein # None => Traced(votein, Confirmed, stacked, "any")
    /\ Proving => Traced(sub.input, Confirmed, stacked, launch)
    /\ proof = Part => sub.pc = "writeproof"
    /\ HasProof => Traced(proof.input, Confirmed, stacked, launch)
    /\ \A u \in server : u.kind = "proof" =>
          u.file # Part /\ Traced(u.file.input, Confirmed, stacked, launch)

\* In request order a vote's run comes after its writes.
RunLast ==
    launch = "fifo" =>
        \A i \in DOMAIN pending : pending[i] = SnarkIntent("run") => i = Len(pending)

\* In request order the last vote encoded whole waits for its run, is being proved,
\* or is what the proof is of.
CastInv ==
    launch = "fifo" /\ lastCast # None =>
        \/ SnarkIntent("run") \in Waiting /\ sub = SubIdle
        \/ Proving /\ IsVote(sub.input, lastCast)
        \/ ~Proving /\ HasProof /\ IsVote(proof.input, lastCast) /\ pk # None

OrderInv == OriginInv /\ RunLast /\ CastInv

\* What is made of some votes is made of more votes, too.
LEMMA TracedMore ==
  ASSUME NEW f, NEW V, NEW W, V \subseteq W, NEW loose, NEW more, loose => more, NEW order,
         Traced(f, V, loose, order)
  PROVE  Traced(f, W, more, order)
<1>1. \A s \in FirstHalf \cup SecondHalf : f[s] = Raw \/ \E r \in W : f[s] = Content(s, r[2])
  BY DEF Traced
<1>2. ASSUME order = "fifo"
      PROVE  \/ \E r \in W : Encrypts(f, r[2]) /\ (~more => f["e_id"] = r[1])
             \/ /\ Shipped(f, SecondHalf)
                /\ Shipped(f, FirstHalf) \/ \E r \in W : Of(f, FirstHalf, r[2])
  BY <1>2 DEF Traced
<1> QED
  BY <1>1, <1>2 DEF Traced

\* Confirmed votes stay confirmed, and a row tapped twice stays noted.
LEMMA ConfirmedGrows ==
  ASSUME IInv, InputInv, [Next]_vars, ~Kill
  PROVE  Confirmed \subseteq Confirmed' /\ (stacked => stacked') /\ UNCHANGED launch
<1>1. TypeOK
  BY DEF IInv
<1>2. ASSUME UserStep PROVE Confirmed \subseteq Confirmed' /\ (stacked => stacked')
  <2>1. reported' = reported /\ (handler = "idle" \/ UNCHANGED <<stack, handler, chosen>>)
    BY <1>2 DEF UserStep, Login, Logout, PressSnark, PressDb, OpenVote, VoteBack, Confirm, DismissResult,
               Ready, ui, history
  <2>2. stacked => stacked'
    BY <1>2 DEF UserStep, Login, Logout, PressSnark, PressDb, OpenVote, VoteBack, Confirm, DismissResult,
               history
  <2> QED
    BY <2>1, <2>2 DEF Confirmed
<1>3. ASSUME UploadStep PROVE Confirmed \subseteq Confirmed' /\ (stacked => stacked')
  BY <1>3 DEF UploadStep, UploadProof, UploadVk, Confirmed, history
<1>4. ASSUME NEW k \in DOMAIN pending,
             MakePP(k) \/ MakeVote(k) \/ MakeInput(k) \/ MakeInputCrash(k) \/ StartSnark(k)
      PROVE  Confirmed \subseteq Confirmed' /\ (stacked => stacked')
  BY <1>4 DEF MakePP, MakeVote, MakeInput, MakeInputCrash, StartSnark, CanLaunch, Restarted,
             Confirmed, ui, history
<1>5. ASSUME NativeSteps PROVE Confirmed \subseteq Confirmed' /\ (stacked => stacked')
  BY <1>1, <1>5, NativeKeeps DEF Confirmed
<1>6. ASSUME CutKeyCrash \/ VerifyCrash PROVE Confirmed \subseteq Confirmed' /\ (stacked => stacked')
  <2>1. handler = "idle"
    BY <1>6 DEF CutKeyCrash, VerifyCrash, InputInv, QuietInv, SubIdle
  <2> QED
    BY <1>6, <2>1 DEF CutKeyCrash, VerifyCrash, Restarted, Confirmed, history
<1>7. ASSUME UNCHANGED vars PROVE Confirmed \subseteq Confirmed' /\ (stacked => stacked')
  BY <1>7 DEF vars, ui, history, Confirmed
<1>8. UNCHANGED launch
  BY DEF Next, vars
<1> QED
  BY <1>2, <1>3, <1>4, <1>5, <1>6, <1>7, <1>8, Steps

\* A step that leaves the files and the server alone and starts no proof.
LEMMA OriginKept ==
  ASSUME OriginInv, Confirmed \subseteq Confirmed', stacked => stacked', UNCHANGED launch,
         UNCHANGED <<proof, server>>, sub' = sub \/ (~Proving' /\ proof # Part),
         votein' # None => Traced(votein', Confirmed', stacked', "any")
  PROVE  OriginInv'
<1>1. ASSUME Proving' PROVE Traced(sub'.input, Confirmed', stacked', launch')
  <2>1. sub' = sub /\ Traced(sub.input, Confirmed, stacked, launch)
    BY <1>1 DEF OriginInv, Proving
  <2>2. Traced(sub.input, Confirmed', stacked', launch)
    BY <2>1, TracedMore
  <2> QED
    BY <2>1, <2>2
<1>2. ASSUME HasProof' PROVE Traced(proof'.input, Confirmed', stacked', launch')
  <2>1. Traced(proof.input, Confirmed, stacked, launch)
    BY <1>2 DEF OriginInv, HasProof
  <2>2. Traced(proof.input, Confirmed', stacked', launch)
    BY <2>1, TracedMore
  <2> QED
    BY <2>2
<1>3. ASSUME NEW u \in server', u.kind = "proof"
      PROVE  u.file # Part /\ Traced(u.file.input, Confirmed', stacked', launch')
  <2>1. u.file # Part /\ Traced(u.file.input, Confirmed, stacked, launch)
    BY <1>3 DEF OriginInv
  <2>2. Traced(u.file.input, Confirmed', stacked', launch)
    BY <2>1, TracedMore
  <2> QED
    BY <2>1, <2>2
<1>4. proof' = Part => sub'.pc = "writeproof"
  BY DEF OriginInv
<1> QED
  BY <1>1, <1>2, <1>3, <1>4 DEF OriginInv

\* The same for a step that leaves the input file alone, too.
LEMMA FileKept ==
  ASSUME OriginInv, Confirmed \subseteq Confirmed', stacked => stacked', votein' = votein
  PROVE  votein' # None => Traced(votein', Confirmed', stacked', "any")
BY TracedMore DEF OriginInv

\* A step that touches neither the proof nor its key, with no native run under way
\* before or after.
LEMMA CastKept ==
  ASSUME CastInv, stacked => stacked', UNCHANGED <<launch, lastCast, proof, pk>>,
         sub' = sub \/ (~Proving /\ ~Proving'),
         SnarkIntent("run") \in Waiting /\ sub = SubIdle =>
            SnarkIntent("run") \in Waiting' /\ sub' = SubIdle
  PROVE  CastInv'
<1>1. \A f, r : IsVote(f, r) => Encrypts(f, r[2]) /\ (~stacked' => f["e_id"] = r[1])
  BY DEF IsVote
<1> QED
  BY <1>1 DEF CastInv, Proving, HasProof, IsVote

\* Where no run waits there is none to come last.
LEMMA NoRunLast ==
  ASSUME SnarkIntent("run") \notin Waiting'
  PROVE  RunLast'
BY ElementsOf DEF RunLast, Waiting

\* An element that only ends a queue.
LEMMA LastOnly ==
  ASSUME NEW q \in Seq(Intents), NEW x \in Intents, x \notin ToSet(q)
  PROVE  \A i \in DOMAIN (q \o <<x>>) : (q \o <<x>>)[i] = x => i = Len(q \o <<x>>)
<1>1. q \o <<x>> = Append(q, x)
  OBVIOUS
<1>2. /\ Len(q) \in Nat /\ DOMAIN q = 1 .. Len(q)
      /\ Append(q, x) \in Seq(Intents) /\ Len(Append(q, x)) = Len(q) + 1
      /\ \A i \in 1 .. Len(q) : Append(q, x)[i] = q[i]
  OBVIOUS
<1>3. \A i \in 1 .. Len(q) : q[i] # x
  BY <1>2, ElementsOf
<1>4. DOMAIN Append(q, x) = 1 .. Len(q) + 1
  BY <1>2
<1>5. \A i \in 1 .. Len(q) + 1 : Append(q, x)[i] = x => i = Len(q) + 1
  BY <1>2, <1>3
<1> QED
  BY <1>1, <1>2, <1>4, <1>5

LEMMA OrderInit == Init => OrderInv
<1> SUFFICES ASSUME Init PROVE OrderInv
  OBVIOUS
<1>1. OriginInv
  BY DEF Init, OriginInv, Proving, HasProof, SubIdle
<1>2. CastInv
  BY DEF Init, CastInv
<1>3. RunLast
  BY DEF Init, RunLast
<1> QED
  BY <1>1, <1>2, <1>3 DEF OrderInv

-----------------------------------------------------------------------------
(* The steps *)

LEMMA OrderUserStep ==
  ASSUME IInv, InputInv, OrderInv, UserStep,
         Confirmed \subseteq Confirmed', stacked => stacked', UNCHANGED launch
  PROVE  OrderInv'
<1> USE DEF OrderInv
<1>1. TypeOK /\ pending \in Seq(Intents)
  BY DEF IInv, TypeOK
<1>2. UNCHANGED <<votein, pk, proof, server>>
  BY DEF UserStep, Login, Logout, PressSnark, PressDb, OpenVote, VoteBack, Confirm, DismissResult, files
<1>3. sub' = sub \/ (sub.pc = "dialog" /\ sub' = SubIdle)
  BY DEF UserStep, Login, Logout, PressSnark, PressDb, OpenVote, VoteBack, Confirm, DismissResult
<1>4. OriginInv'
  <2>1. votein' # None => Traced(votein', Confirmed', stacked', "any")
    BY <1>2, FileKept
  <2>2. sub' = sub \/ (~Proving' /\ proof # Part)
    BY <1>3 DEF OriginInv, Proving, SubIdle
  <2> QED
    BY <1>2, <2>1, <2>2, OriginKept
<1>5. ASSUME NEW c \in Candidates, NEW reach \in 0 .. 2, Confirm(c, reach) PROVE RunLast' /\ CastInv'
  <2>1. /\ pending = <<>> /\ sub = SubIdle /\ sub' = SubIdle
        /\ pending' = pending \o EncodeIntents(c, reach)
        /\ lastCast' = IF reach > 1 THEN <<Last(stack), c>> ELSE lastCast
    BY <1>5 DEF Confirm, Ready, Ask
  <2>2. Waiting = {} /\ Waiting' = ToSet(EncodeIntents(c, reach))
    <3>1. EncodeIntents(c, reach) \in Seq(Intents)
      BY EncodeKinds
    <3>2. Waiting = {}
      BY <2>1, WaitingOne DEF Waiting
    <3>3. ToSet(pending \o EncodeIntents(c, reach)) = ToSet(pending) \cup ToSet(EncodeIntents(c, reach))
      BY <1>1, <3>1, ConcatKinds
    <3> QED
      BY <2>1, <3>2, <3>3 DEF Waiting
  <2>3. \A s, v : InputIntent(s, v) # SnarkIntent("run")
    BY DEF InputIntent, SnarkIntent
  <2>4. CASE reach < 2
    <3>1. SnarkIntent("run") \notin Waiting'
      BY <2>2, <2>3, <2>4, EncodeKinds
    <3>2. lastCast' = lastCast
      BY <2>1, <2>4
    <3> QED
      BY <1>2, <2>1, <2>2, <3>1, <3>2, NoRunLast, CastKept
  <2>5. CASE reach = 2
    <3> DEFINE ws == Writes(First, c) \o Writes(Second, c)
               run == <<SnarkIntent("run")>>
    <3>1. ws \in Seq(Intents) /\ SnarkIntent("run") \notin ToSet(ws) /\ run \in Seq(Intents)
      <4>1. /\ Writes(First, c) \in Seq(Intents)
            /\ ToSet(Writes(First, c)) = {InputIntent(s, Content(s, c)) : s \in FirstHalf}
        BY WritesKinds, SegmentsAssumption DEF FirstHalf, Segments
      <4>2. /\ Writes(Second, c) \in Seq(Intents)
            /\ ToSet(Writes(Second, c)) = {InputIntent(s, Content(s, c)) : s \in SecondHalf}
        BY WritesKinds, SegmentsAssumption DEF SecondHalf, Segments
      <4>3. ws \in Seq(Intents) /\ ToSet(ws) = ToSet(Writes(First, c)) \cup ToSet(Writes(Second, c))
        BY <4>1, <4>2, ConcatKinds
      <4> QED
        BY <2>3, <4>1, <4>2, <4>3, IntentKinds
    <3>2. EncodeIntents(c, reach) = ws \o run
      <4>1. EncodeIntents(c, reach) = Writes(First, c) \o Writes(Second, c) \o run
        BY <2>5 DEF EncodeIntents
      <4> QED
        BY <4>1
    <3> HIDE DEF ws, run
    <3>3. pending' = ws \o run
      BY <2>1, <3>1, <3>2
    <3>4. \A i \in DOMAIN (ws \o run) : (ws \o run)[i] = SnarkIntent("run") => i = Len(ws \o run)
      BY <3>1, LastOnly, IntentKinds DEF run
    <3>5. RunLast'
      BY <3>3, <3>4 DEF RunLast
    <3>6. SnarkIntent("run") \in Waiting'
      BY <2>2, <2>5, EncodeKinds
    <3> QED
      BY <2>1, <3>5, <3>6 DEF CastInv
  <2> QED
    BY <2>4, <2>5
<1>6. ASSUME NEW x, pending' = pending \o <<x>>, x \in Intents, x # SnarkIntent("run"),
             \A y \in Waiting : y # SnarkIntent("run"), UNCHANGED <<lastCast, sub>>
      PROVE  RunLast' /\ CastInv'
  <2>1. <<x>> \in Seq(Intents)
    BY <1>6
  <2>2. Waiting' = Waiting \cup {x}
    BY <1>1, <1>6, <2>1, ConcatKinds, WaitingOne DEF Waiting
  <2>3. SnarkIntent("run") \notin Waiting' /\ SnarkIntent("run") \notin Waiting
    BY <1>6, <2>2
  <2> QED
    BY <1>2, <1>6, <2>3, NoRunLast, CastKept
<1>7. ASSUME UNCHANGED <<pending, lastCast>> PROVE RunLast' /\ CastInv'
  <2>1. Waiting' = Waiting
    BY <1>7 DEF Waiting
  <2>2. RunLast'
    BY <1>7 DEF RunLast
  <2>3. CastInv'
    BY <1>2, <1>3, <1>7, <2>1, CastKept DEF Proving, SubIdle
  <2> QED
    BY <2>2, <2>3
<1>8. /\ PPIntent # SnarkIntent("run") /\ SnarkIntent("verify") # SnarkIntent("run")
      /\ \A v : IdIntent(v) # SnarkIntent("run") /\ VoteIntent(v) # SnarkIntent("run")
  BY ChoiceKinds DEF SnarkIntent
<1>9. pending = <<>> => Waiting = {}
  BY WaitingOne DEF Waiting
<1>10. CASE Login
  BY <1>4, <1>6, <1>8, <1>9, <1>10, IntentKinds DEF Login, Ready, Ask, history
<1>11. CASE PressSnark
  BY <1>4, <1>6, <1>8, <1>9, <1>11, IntentKinds DEF PressSnark, Ready, Ask, history
<1>12. CASE PressDb
  BY <1>4, <1>6, <1>8, <1>9, <1>12, IntentKinds DEF PressDb, Ready, Ask, history
<1>13. ASSUME NEW v \in Votes, OpenVote(v) PROVE OrderInv'
  <2>1. /\ \A k \in DOMAIN pending : pending[k].act = "vote"
        /\ pending' = pending \o <<VoteIntent(v)>> /\ UNCHANGED <<lastCast, sub>>
    BY <1>13 DEF OpenVote, Ask
  <2>2. \A y \in Waiting : y # SnarkIntent("run")
    BY <1>1, <2>1, WaitingKinds DEF SnarkIntent
  <2> QED
    BY <1>4, <1>6, <1>8, <2>1, <2>2, IntentKinds
<1>14. CASE Logout \/ VoteBack \/ DismissResult
  BY <1>4, <1>7, <1>14 DEF Logout, VoteBack, DismissResult, history
<1> QED
  BY <1>4, <1>5, <1>10, <1>11, <1>12, <1>13, <1>14 DEF UserStep

LEMMA OrderUploadStep ==
  ASSUME IInv, InputInv, OrderInv, UploadStep,
         Confirmed \subseteq Confirmed', stacked => stacked', UNCHANGED launch
  PROVE  OrderInv'
<1> USE DEF OrderInv
<1>1. /\ UNCHANGED <<pending, sub, votein, pk, proof, lastCast>>
      /\ handler # "idle"
  BY DEF UploadStep, UploadProof, UploadVk, files, history
<1>2. sub = SubIdle /\ proof # Part
  BY <1>1 DEF InputInv, QuietInv, OriginInv, SubIdle
<1>3. RunLast' /\ CastInv'
  BY <1>1, CastKept DEF RunLast, Waiting
<1>4. ASSUME NEW u \in server', u.kind = "proof"
      PROVE  u.file # Part /\ Traced(u.file.input, Confirmed', stacked', launch')
  <2>1. CASE u \in server
    <3>1. u.file # Part /\ Traced(u.file.input, Confirmed, stacked, launch)
      BY <1>4, <2>1 DEF OriginInv
    <3> QED
      BY <3>1, TracedMore
  <2>2. CASE u \notin server
    <3>1. u.file = proof /\ proof # None
      BY <1>4, <2>2 DEF UploadStep, UploadProof, UploadVk
    <3>2. Traced(proof.input, Confirmed, stacked, launch)
      BY <1>2, <3>1 DEF OriginInv, HasProof
    <3>3. Traced(proof.input, Confirmed', stacked', launch)
      BY <3>2, TracedMore
    <3> QED
      BY <1>2, <3>1, <3>3
  <2> QED
    BY <2>1, <2>2
<1>5. votein' # None => Traced(votein', Confirmed', stacked', "any")
  BY <1>1, FileKept
<1>6. HasProof' => Traced(proof'.input, Confirmed', stacked', launch')
  <2> SUFFICES ASSUME HasProof' PROVE Traced(proof'.input, Confirmed', stacked', launch')
    OBVIOUS
  <2>1. Traced(proof.input, Confirmed, stacked, launch)
    BY <1>1 DEF OriginInv, HasProof
  <2>2. Traced(proof.input, Confirmed', stacked', launch)
    BY <2>1, TracedMore
  <2> QED
    BY <1>1, <2>2
<1>7. ~Proving' /\ proof' # Part
  BY <1>1, <1>2 DEF Proving, SubIdle
<1>8. OriginInv'
  BY <1>4, <1>5, <1>6, <1>7 DEF OriginInv
<1> QED
  BY <1>3, <1>8

LEMMA OrderNativeStep ==
  ASSUME IInv, InputInv, OrderInv, NativeSteps,
         Confirmed \subseteq Confirmed', stacked => stacked', UNCHANGED launch
  PROVE  OrderInv'
<1> USE DEF OrderInv
<1>1. TypeOK /\ KeyInv
  BY DEF IInv
<1>2. /\ sub.pc \notin {"idle", "dialog"} /\ sub'.input = sub.input
      /\ UNCHANGED <<pending, votein, server, lastCast>>
  BY <1>1, NativeKeeps DEF NativeSteps, OpenPk, OpenVk, WritePk, WriteVk, OpenProof, WriteProof, Verify,
                           NativeStep, history
<1>3. sub # SubIdle
  BY <1>2 DEF SubIdle
<1>4. Waiting' = Waiting /\ RunLast'
  BY <1>2 DEF Waiting, RunLast
<1>5. ASSUME NEW f, Traced(f, Confirmed, stacked, launch)
      PROVE  Traced(f, Confirmed', stacked', launch')
  BY <1>5, TracedMore
<1>6. votein' # None => Traced(votein', Confirmed', stacked', "any")
  BY <1>2, FileKept
<1>7. \A u \in server' : u.kind = "proof" =>
          u.file # Part /\ Traced(u.file.input, Confirmed', stacked', launch')
  BY <1>2, <1>5 DEF OriginInv
<1>9. CASE OpenPk \/ OpenVk \/ WritePk \/ WriteVk \/ OpenProof
  <2>1. /\ Proving /\ Proving' /\ proof # Part
        /\ proof' = proof \/ (proof' = Part /\ sub'.pc = "writeproof")
    BY <1>1, <1>9 DEF OpenPk, OpenVk, WritePk, WriteVk, OpenProof, NativeStep, Proving, TypeOK, OriginInv
  <2>2. Traced(sub'.input, Confirmed', stacked', launch')
    BY <1>2, <1>5, <2>1 DEF OriginInv
  <2>3. HasProof' => Traced(proof'.input, Confirmed', stacked', launch')
    BY <1>5, <2>1 DEF OriginInv, HasProof
  <2>4. OriginInv'
    BY <1>6, <1>7, <2>1, <2>2, <2>3 DEF OriginInv
  <2>5. CastInv'
    BY <1>2, <1>3, <2>1 DEF CastInv, IsVote
  <2> QED
    BY <1>4, <2>4, <2>5
<1>10. CASE WriteProof
  <2>1. /\ Proving /\ ~Proving' /\ proof' = [input |-> sub.input, crs |-> pk] /\ pk # None /\ pk' = pk
        /\ sub.input \in Input /\ pk \in {Part, Full}
    BY <1>1, <1>10 DEF WriteProof, NativeStep, Proving, TypeOK, KeyInv, ProvingHasPk
  <2>2. proof' \in Proof /\ proof'.input = sub.input
    BY <2>1 DEF Proof
  <2>3. proof' # Part /\ proof' # None /\ HasProof'
    BY <2>2, FilesAssumption DEF HasProof
  <2>4. Traced(proof'.input, Confirmed', stacked', launch')
    BY <1>5, <2>1, <2>2 DEF OriginInv
  <2>5. OriginInv'
    BY <1>6, <1>7, <2>1, <2>3, <2>4 DEF OriginInv
  <2>6. CastInv'
    BY <1>2, <1>3, <2>1, <2>2, <2>3 DEF CastInv, IsVote
  <2> QED
    BY <1>4, <2>5, <2>6
<1>11. CASE Verify
  <2>1. ~Proving /\ ~Proving' /\ UNCHANGED <<pk, proof>> /\ proof # Part
    BY <1>1, <1>11 DEF Verify, NativeStep, Proving, TypeOK, OriginInv
  <2>2. OriginInv'
    BY <1>2, <1>6, <2>1, OriginKept
  <2>3. CastInv'
    BY <1>2, <1>3, <2>1, CastKept
  <2> QED
    BY <1>4, <2>2, <2>3
<1> QED
  BY <1>9, <1>10, <1>11 DEF NativeSteps

LEMMA OrderCrashStep ==
  ASSUME IInv, InputInv, OrderInv, CutKeyCrash \/ VerifyCrash,
         Confirmed \subseteq Confirmed', stacked => stacked', UNCHANGED launch
  PROVE  OrderInv'
<1> USE DEF OrderInv
<1>1. /\ sub.pc = "verify" /\ pending' = <<>> /\ sub' = SubIdle
      /\ UNCHANGED <<votein, pk, proof, server, lastCast>>
  BY DEF CutKeyCrash, VerifyCrash, InputInv, QuietInv, Restarted, files, history
<1>2. ~Proving /\ ~Proving' /\ sub # SubIdle /\ proof # Part
  BY <1>1 DEF Proving, SubIdle, OriginInv
<1>3. SnarkIntent("run") \notin Waiting'
  BY <1>1, WaitingOne DEF Waiting
<1>4. OriginInv'
  BY <1>1, <1>2, FileKept, OriginKept
<1>5. CastInv'
  BY <1>1, <1>2, CastKept
<1> QED
  BY <1>3, <1>4, <1>5, NoRunLast

LEMMA OrderLaunchStep ==
  ASSUME IInv, InputInv, OrderInv, NEW k \in DOMAIN pending,
         MakePP(k) \/ MakeVote(k) \/ MakeInput(k) \/ MakeInputCrash(k) \/ StartSnark(k),
         Confirmed \subseteq Confirmed', stacked => stacked', UNCHANGED launch
  PROVE  OrderInv'
<1> USE DEF OrderInv
<1>1. TypeOK /\ pending \in Seq(Intents) /\ votein \in Input \cup {None}
  BY DEF IInv, TypeOK
<1> DEFINE x == pending[k]
           run == SnarkIntent("run")
<1>2. /\ x \in Intents /\ x \in Waiting /\ Others(k) \in Seq(Intents)
      /\ ToSet(Others(k)) \subseteq Waiting /\ Waiting \ {x} \subseteq ToSet(Others(k))
      /\ Len(Others(k)) = Len(pending) - 1
      /\ \A j \in DOMAIN Others(k) : k = 1 => Others(k)[j] = pending[j + 1]
  BY <1>1, OthersKinds DEF Waiting
<1>3. \A y \in Intents : pending = <<y>> => x = y /\ Others(k) = <<>>
  BY OthersOfOne
<1>4. /\ launch = "fifo" => k = 1
      /\ sub.pc \in {"idle", "dialog"}
      /\ UNCHANGED <<pk, proof, server, lastHalf, lastCast>>
  BY DEF MakePP, MakeVote, MakeInput, MakeInputCrash, StartSnark, CanLaunch, files, history
<1>5. ~Proving /\ proof # Part
  BY <1>4 DEF Proving, OriginInv
<1> HIDE DEF x, run
<1>6. ASSUME pending' = Others(k) PROVE RunLast' /\ Waiting' \subseteq Waiting /\ Waiting \ {x} \subseteq Waiting'
  <2>1. ASSUME launch = "fifo", NEW j \in DOMAIN Others(k), Others(k)[j] = run
        PROVE  j = Len(Others(k))
    <3>1. /\ Len(pending) \in Nat /\ DOMAIN pending = 1 .. Len(pending)
          /\ DOMAIN Others(k) = 1 .. Len(Others(k))
      BY <1>1, <1>2
    <3>2. j \in 1 .. Len(pending) - 1 /\ j + 1 \in DOMAIN pending
      BY <1>2, <2>1, <3>1
    <3>3. pending[j + 1] = run
      BY <1>2, <1>4, <2>1
    <3>4. j + 1 = Len(pending)
      BY <2>1, <3>2, <3>3 DEF RunLast, run
    <3> QED
      BY <1>2, <3>1, <3>2, <3>4
  <2>2. RunLast'
    BY <1>6, <2>1 DEF RunLast, run
  <2> QED
    BY <1>2, <1>6, <2>2 DEF Waiting
<1>7. ASSUME sub' = sub PROVE OriginInv' <=> (votein' # None => Traced(votein', Confirmed', stacked', "any"))
  BY <1>4, <1>7, OriginKept DEF OriginInv
<1>8. ASSUME sub' = sub, run \in Waiting => run \in Waiting' PROVE CastInv'
  BY <1>4, <1>8, CastKept DEF run
<1>9. Traced(RawInput, Confirmed', stacked', "any")
  BY HalvesDisjoint DEF Traced, RawInput
<1>10. CASE MakePP(k)
  <2>1. x.act = "PP" /\ votein' = RawInput /\ pending' = Others(k) /\ sub' = sub
    BY <1>10 DEF MakePP, ui, x
  <2>2. ~OfChoice(x)
    BY <2>1 DEF OfChoice, SnarkIntent
  <2>3. run \notin Waiting
    BY <1>2, <2>2, ChoiceKinds DEF InputInv, QueueInv, KindsInv, run
  <2> QED
    BY <1>6, <1>7, <1>8, <1>9, <2>1, <2>3
<1>11. CASE MakeVote(k)
  <2>1. x.act = "vote" /\ votein' = votein /\ pending' = Append(Others(k), IdIntent(x.vote)) /\ sub' = sub
    BY <1>11 DEF MakeVote, files, x
  <2>2. ~OfChoice(x) /\ IdIntent(x.vote) \in Intents /\ IdIntent(x.vote) # run
    <3>1. x.vote \in Votes
      BY <1>2, <2>1 DEF Intents
    <3> QED
      <4>1. IdIntent(x.vote) \in Intents
        BY <3>1, IntentKinds
      <4>2. IdIntent(x.vote) # run
        BY ChoiceKinds DEF run
      <4>3. ~OfChoice(x)
        BY <2>1 DEF OfChoice, SnarkIntent
      <4> QED
        BY <4>1, <4>2, <4>3
  <2>3. run \notin Waiting
    BY <1>2, <2>2, ChoiceKinds DEF InputInv, QueueInv, KindsInv, run
  <2>4. run \notin Waiting'
    <3>1. pending' = Others(k) \o <<IdIntent(x.vote)>> /\ <<IdIntent(x.vote)>> \in Seq(Intents)
      <4>1. IdIntent(x.vote) \in Intents /\ Others(k) \in Seq(Intents)
        BY <1>2, <2>2
      <4>2. Append(Others(k), IdIntent(x.vote)) = Others(k) \o <<IdIntent(x.vote)>>
        BY <4>1
      <4>3. <<IdIntent(x.vote)>> \in Seq(Intents)
        BY <4>1
      <4> QED
        BY <2>1, <4>2, <4>3
    <3>2. Waiting' = ToSet(Others(k)) \cup {IdIntent(x.vote)}
      <4>1. ToSet(Others(k) \o <<IdIntent(x.vote)>>) = ToSet(Others(k)) \cup ToSet(<<IdIntent(x.vote)>>)
        BY <1>2, <3>1, ConcatKinds
      <4>2. ToSet(<<IdIntent(x.vote)>>) = {IdIntent(x.vote)}
        BY WaitingOne
      <4>3. Waiting' = ToSet(Others(k) \o <<IdIntent(x.vote)>>)
        BY <3>1 DEF Waiting
      <4> QED
        BY <4>1, <4>2, <4>3
    <3> QED
      BY <1>2, <2>2, <2>3, <3>2
  <2>5. RunLast'
    BY <2>4, NoRunLast DEF run
  <2> QED
    BY <1>7, <1>8, <2>1, <2>3, <2>5, FileKept
<1>12. CASE MakeInput(k)
  <2>1. /\ x.act = "input" /\ votein # None /\ votein' = [votein EXCEPT ![x.seg] = x.val]
        /\ pending' = Others(k) /\ sub' = sub
    BY <1>12 DEF MakeInput, ui, x
  <2>2. x # run
    BY <2>1 DEF SnarkIntent, run
  <2>3. Traced(votein', Confirmed', stacked', "any")
    <3>1. votein \in [Segments -> SegmentValues] /\ Traced(votein, Confirmed', stacked', "any")
      BY <1>1, <2>1, TracedMore DEF Input, OriginInv
    <3>2. /\ x.seg \in FirstHalf => lastHalf \in Confirmed' /\ x.val = Content(x.seg, lastHalf[2])
          /\ x.seg \in SecondHalf => lastCast \in Confirmed' /\ x.val = Content(x.seg, lastCast[2])
      BY <1>2, <2>1 DEF InputInv, QueueInv, WritesInv, LastInv
    <3>3. ASSUME NEW s \in FirstHalf \cup SecondHalf
          PROVE  votein'[s] = Raw \/ \E r \in Confirmed' : votein'[s] = Content(s, r[2])
      <4>1. s \in Segments
        BY HalvesDisjoint
      <4>2. CASE s = x.seg
        <5>1. votein'[s] = x.val
          BY <2>1, <3>1, <4>1, <4>2
        <5> QED
          BY <3>2, <4>2, <5>1
      <4>3. CASE s # x.seg
        <5>1. votein'[s] = votein[s]
          BY <2>1, <3>1, <4>1, <4>3
        <5> QED
          BY <3>1, <5>1 DEF Traced
      <4> QED
        BY <4>2, <4>3
    <3> QED
      BY <3>3 DEF Traced
  <2> QED
    BY <1>6, <1>7, <1>8, <2>1, <2>2, <2>3
<1>13. CASE MakeInputCrash(k)
  <2>1. votein = None /\ votein' = None /\ pending' = <<>> /\ sub' = SubIdle
    BY <1>13 DEF MakeInputCrash, Restarted, files
  <2>2. run \notin Waiting /\ run \notin Waiting'
    <3>1. Waiting' = {}
      BY <2>1, WaitingOne DEF Waiting
    <3>2. run \notin Waiting
      BY <2>1, ChoiceKinds DEF InputInv, QueueInv, FillInv, run
    <3> QED
      BY <3>1, <3>2
  <2>3. ~Proving'
    BY <2>1 DEF Proving, SubIdle
  <2>4. OriginInv'
    BY <1>4, <1>5, <2>1, <2>3, OriginKept
  <2>5. CastInv'
    BY <1>4, <1>5, <2>2, <2>3, CastKept DEF run
  <2> QED
    BY <2>2, <2>4, <2>5, NoRunLast DEF run
<1>14. CASE StartSnark(k)
  <2>1. /\ x.act = "snark" /\ sub = SubIdle /\ pending' = Others(k)
        /\ votein' = (IF votein = None THEN RawInput ELSE votein)
    BY <1>14 DEF StartSnark, x
  <2>2. /\ x.mode \in {"run", "verify"} /\ x = SnarkIntent(x.mode)
        /\ sub'.input = votein'
        /\ sub'.pc = IF pk = None THEN "setup" ELSE IF x.mode = "run" THEN "prove" ELSE "verify"
    <3>1. x.mode \in {"run", "verify"} /\ x = SnarkIntent(x.mode)
      BY <1>2, <2>1 DEF Intents, SnarkIntent
    <3> QED
      BY <1>14, <3>1 DEF StartSnark, x
  <2>3. RunLast' /\ Waiting' \subseteq Waiting
    BY <1>6, <2>1
  <2>4. Traced(votein', Confirmed', stacked', "any")
    BY <1>9, <2>1, FileKept
  <2>5. ASSUME launch = "fifo", x = run
        PROVE  /\ lastCast # None /\ lastCast \in Confirmed' /\ Encrypts(votein', lastCast[2])
               /\ ~stacked => votein'["e_id"] = lastCast[1]
    <3>1. k = 1 /\ Len(pending) = 1
      <4>1. k = 1
        BY <1>4, <2>5
      <4>2. pending[1] = run
        BY <2>5, <4>1 DEF x
      <4> QED
        BY <1>1, <2>5, <4>1, <4>2 DEF RunLast, run
    <3>2. Waiting = {run}
      <4>1. pending = <<run>>
        <5>1. pending[1] = run
          BY <2>5, <3>1 DEF x
        <5> QED
          BY <1>1, <3>1, <5>1
      <4> QED
        BY <4>1, WaitingOne DEF Waiting
    <3>3. \A s : ~Awaits(s)
      BY <3>2 DEF Awaits, SnarkIntent, run
    <3>4. /\ lastCast # None /\ votein # None
          /\ \A s \in FirstHalf \cup SecondHalf : votein[s] = Content(s, lastCast[2])
      BY <3>2, <3>3, ChoiceKinds DEF InputInv, QueueInv, FillInv, run
    <3>5. ~stacked => votein["e_id"] = lastCast[1]
      BY <3>2 DEF InputInv, IdInv, run
    <3>6. votein' = votein /\ lastCast' = lastCast /\ lastCast \in Confirmed'
      BY <1>4, <2>1, <3>4 DEF InputInv, LastInv
    <3>7. Encrypts(votein, lastCast[2])
      BY <3>4 DEF Encrypts, Of
    <3> QED
      BY <3>4, <3>5, <3>6, <3>7
  <2>6. ASSUME launch = "fifo", x = SnarkIntent("verify"), pk = None
        PROVE  /\ lastCast = None /\ Shipped(votein', SecondHalf)
               /\ Shipped(votein', FirstHalf) \/ \E r \in Confirmed' : Of(votein', FirstHalf, r[2])
    <3>1. Waiting = {x}
      <4>1. pending = <<x>>
        BY <1>2, <2>6 DEF InputInv, QueueInv, KindsInv
      <4> QED
        BY <4>1, WaitingOne DEF Waiting
    <3>2. run \notin Waiting /\ \A s : ~Awaits(s)
      BY <2>1, <3>1, <2>6, ChoiceKinds DEF Awaits, run
    <3>3. lastCast = None
      BY <1>5, <2>6, <3>2 DEF CastInv, run
    <3>4. CASE votein = None
      <4>1. votein' = RawInput
        BY <2>1, <3>4
      <4> QED
        BY <3>3, <4>1, HalvesDisjoint DEF Shipped, RawInput
    <3>5. CASE votein # None
      <4>1. votein' = votein
        BY <2>1, <3>5
      <4>2. Shipped(votein, SecondHalf)
        BY <3>3, <3>5 DEF InputInv, QueueInv, HalvesInv, HalfInv
      <4>3. Shipped(votein, FirstHalf) \/ (lastHalf # None /\ Of(votein, FirstHalf, lastHalf[2]))
        BY <3>2, <3>5 DEF InputInv, QueueInv, HalvesInv, HalfInv, Of
      <4>4. lastHalf # None => lastHalf \in Confirmed'
        BY DEF InputInv, LastInv
      <4> QED
        BY <3>3, <4>1, <4>2, <4>3, <4>4
    <3> QED
      BY <3>4, <3>5
  <2>7. ASSUME Proving' PROVE Traced(sub'.input, Confirmed', stacked', launch')
    <3>1. x = run \/ (x = SnarkIntent("verify") /\ pk = None)
      BY <2>2, <2>7 DEF Proving, run
    <3>2. Traced(votein', Confirmed', stacked', launch)
      <4>1. ASSUME launch = "fifo"
            PROVE  \/ \E r \in Confirmed' : Encrypts(votein', r[2]) /\ (~stacked' => votein'["e_id"] = r[1])
                   \/ /\ Shipped(votein', SecondHalf)
                      /\ Shipped(votein', FirstHalf) \/ \E r \in Confirmed' : Of(votein', FirstHalf, r[2])
        BY <2>5, <2>6, <3>1, <4>1
      <4> QED
        BY <2>4, <4>1 DEF Traced
    <3> QED
      BY <2>2, <3>2
  <2>8. HasProof' => Traced(proof'.input, Confirmed', stacked', launch')
    <3> SUFFICES ASSUME HasProof' PROVE Traced(proof'.input, Confirmed', stacked', launch')
      OBVIOUS
    <3>1. Traced(proof.input, Confirmed, stacked, launch)
      BY <1>4 DEF OriginInv, HasProof
    <3>2. Traced(proof.input, Confirmed', stacked', launch)
      BY <3>1, TracedMore
    <3> QED
      BY <1>4, <3>2
  <2>9. \A u \in server' : u.kind = "proof" =>
            u.file # Part /\ Traced(u.file.input, Confirmed', stacked', launch')
    <3> SUFFICES ASSUME NEW u \in server', u.kind = "proof"
                 PROVE  u.file # Part /\ Traced(u.file.input, Confirmed', stacked', launch')
      OBVIOUS
    <3>1. u.file # Part /\ Traced(u.file.input, Confirmed, stacked, launch)
      BY <1>4 DEF OriginInv
    <3>2. Traced(u.file.input, Confirmed', stacked', launch)
      BY <3>1, TracedMore
    <3> QED
      BY <3>1, <3>2
  <2>10. OriginInv'
    BY <1>4, <1>5, <2>4, <2>7, <2>8, <2>9 DEF OriginInv
  <2>11. CastInv'
    <3> SUFFICES ASSUME launch = "fifo", lastCast # None PROVE CastInv'
      BY <1>4 DEF CastInv
    <3>1. CASE x = run
      <4>1. Proving'
        BY <2>2, <3>1 DEF Proving, SnarkIntent, run
      <4>2. IsVote(sub.input, lastCast)'
        BY <1>4, <2>2, <2>5, <3>1 DEF IsVote
      <4> QED
        BY <4>1, <4>2 DEF CastInv
    <3>2. CASE x = SnarkIntent("verify")
      <4>1. pk # None
        BY <2>6, <3>2
      <4>2. ~Proving' /\ run \notin Waiting
        <5>1. sub'.pc = "verify"
          BY <2>2, <3>2, <4>1 DEF SnarkIntent
        <5>2. pending = <<x>>
          BY <1>2, <3>2 DEF InputInv, QueueInv, KindsInv
        <5>3. Waiting = {x}
          BY <5>2, WaitingOne DEF Waiting
        <5> QED
          BY <3>2, <5>1, <5>3, ChoiceKinds DEF Proving, run
      <4>3. UNCHANGED <<launch, lastCast, proof, pk>>
        BY <1>4
      <4> QED
        BY <1>5, <4>2, <4>3, CastKept DEF run
    <3> QED
      BY <2>2, <3>1, <3>2 DEF run
  <2> QED
    BY <2>3, <2>10, <2>11
<1> QED
  BY <1>10, <1>11, <1>12, <1>13, <1>14

\* As above, only the death of the process ends the guarantees.
OInv == kills = 0 => OrderInv

LEMMA OrderStep == IInv /\ WInv /\ WInv' /\ OInv /\ [Next]_vars => OInv'
<1> SUFFICES ASSUME IInv, WInv, OInv, [Next]_vars, kills' = 0 PROVE OrderInv'
  BY DEF OInv
<1>1. kills = 0 /\ ~Kill
  BY AliveBefore
<1>2. InputInv /\ OrderInv
  BY <1>1 DEF WInv, OInv
<1>3. Confirmed \subseteq Confirmed' /\ (stacked => stacked') /\ UNCHANGED launch
  BY <1>1, <1>2, ConfirmedGrows
<1>4. ASSUME UNCHANGED vars PROVE OrderInv'
  BY <1>2, <1>4 DEF OrderInv, OriginInv, Proving, HasProof, RunLast, CastInv, IsVote, Waiting, Confirmed,
                    vars, ui, files, history
<1> QED
  BY <1>1, <1>2, <1>3, <1>4, Steps, OrderUserStep, OrderUploadStep, OrderLaunchStep, OrderNativeStep,
     OrderCrashStep

THEOREM OrderInvariance == Spec => []OInv
<1>1. Init => OInv
  BY OrderInit DEF OInv
<1> QED
  BY <1>1, OrderStep, InputInvariance, Invariance, PTL DEF Spec

\* Started in request order, once everything a vote asked for has run the proof on the
\* phone is that of the last vote encoded whole (VoteActivity.java:128-136, 1048-1052).
THEOREM ProofIsOfLastVoteHolds == Spec => []ProofIsOfLastVote
<1>1. OInv => ProofIsOfLastVote
  <2> SUFFICES ASSUME OrderInv, launch = "fifo", Ready, lastCast # None
               PROVE  HasProof /\ IsVote(proof.input, lastCast)
    BY DEF OInv, ProofIsOfLastVote
  <2>1. SnarkIntent("run") \notin Waiting /\ ~Proving
    BY WaitingOne DEF Ready, Waiting, Proving, SubIdle
  <2> QED
    BY <2>1 DEF OrderInv, CastInv
<1> QED
  BY <1>1, OrderInvariance, PTL

\* As long as the process does not die, a proof that reaches the server is whole and made
\* of the shipped input and confirmed votes, in whatever order Android starts activities;
\* in request order it is of one of these votes, or its second half is as shipped
\* (VoteActivity.java:475-548).
THEOREM UploadsAreOfReportedVotesHolds == Spec => []UploadsAreOfReportedVotes
<1>1. OInv => UploadsAreOfReportedVotes
  <2> SUFFICES ASSUME OrderInv, NEW u \in server, u.kind = "proof"
               PROVE  /\ u.file # Part
                      /\ \A s \in FirstHalf \cup SecondHalf :
                            \/ u.file.input[s] = Raw
                            \/ \E r \in Confirmed : u.file.input[s] = Content(s, r[2])
                      /\ launch = "fifo" =>
                            \/ \E r \in Confirmed : IsVote(u.file.input, r)
                            \/ /\ Shipped(u.file.input, SecondHalf)
                               /\ \/ Shipped(u.file.input, FirstHalf)
                                  \/ \E r \in Confirmed : Of(u.file.input, FirstHalf, r[2])
    BY DEF OInv, UploadsAreOfReportedVotes
  <2>1. u.file # Part /\ Traced(u.file.input, Confirmed, stacked, launch)
    BY DEF OrderInv, OriginInv
  <2> QED
    BY <2>1 DEF Traced, IsVote
<1> QED
  BY <1>1, OrderInvariance, PTL

=============================================================================
