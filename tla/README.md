# TLA+ models of Android-CRV

Android-CRV is an Android voting application.  The phone registers a voting key
with a server, encrypts the choice of the voter, evaluates an arithmetic circuit
that describes the encryption, proves with libsnark (Groth16 over ALT_BN128)
that the ciphertext is well formed, and uploads the proof and the verification
key.  Administrators create and close votes with the same app.

This directory holds models of the parts where order, failure or sharing
decides whether that works, runs of the TLC model checker on small instances,
and proofs, checked by TLAPS, for all instances.

Abbreviations: `J/` is
`src/app/src/main/java/com/example/snarkportingtest/`, `L/` is
`src/app/src/main/cpp/libsnark/libsnark/`, `V` is `L/zk_proof_systems/ppzksnark/voting/`.

## 1. Inventory

Everything the user touches runs on Android's main thread.  Screens call each
other with `startActivity`, which only queues a request that Android serves
after the current handler has returned.  Requests to the server are `AsyncTask`s:
in most places the handler waits for them with `get()`.  The native code runs on
the main thread, inside `SubActivity.onCreate`, and starts eight threads of its
own for one step.  Three things survive the process: the files `votein.dat`,
`vote_CRS_pk.dat`, `vote_CRS_vk.dat`, `vote_Proof.dat`, and the SQLite tables
`pk`, `votelist`, `notice`.

| Component (source) | State | Operations | What is hard | What makes it correct | Module |
|---|---|---|---|---|---|
| Constraint conversion (`L/gadgetlib2/integration.cpp`) | buffer of results with a flag each, eight threads, a log mutex | clear flags, spawn, convert, spin and push, free, return | a plain `volatile bool` is the only synchronisation; threads are never joined; nothing in the buffer is constructed | what is pushed is the conversion of the constraint at that place; nobody uses the buffer after `free`; the caller returns unless it frees a stray pointer | ConstraintPush, SequentialPush |
| Circuit reader (`L/jsnark_interface/CircuitReader.cpp`) | wire values, use counters, shared linear combinations, variables, zero-test tables | two passes over the gates, a pass over the variables | combinations are shared pointers that the last user edits in place | combinations evaluate to the wires, constraints fix the outputs, the assignment satisfies them | CircuitReader |
| Vote casting (`J/VoteActivity.java`, `J/makevoteinput.java`, `J/SubActivity.java`, `native-lib.cpp`, `V/run_r1cs_gg_ppzksnark.tcc`) | queue of activities, input file, key and proof files, what the server has | confirm, upload, write a segment, set up, prove | the upload does not wait for the queue; files are replaced piecewise; the process may die at any step | the input and the proof are of the last vote; uploads are of confirmed votes; what is reported is uploaded; keys are complete when used | VoteCast |
| Key registration (`J/VoteActivity.java`, `J/DBHelper.java`, `J/MainActivity.java`) | logged-in user, open screen, request, `pk` table, the server's keys | login, open a vote, register, vote | answers are lost; the screen keeps a snapshot of clock and table; the table is not per user | keys kept are keys registered; only holders of a key vote, while the vote is on | KeyRegistration |
| Ongoing vote list (`J/UsermainActivity.java`, `J/VotelistAdapter.java`) | list in memory, rows on the screen, rows of `votelist`, loads under way | load, renew, touch, leave, come back | loads overlap; the list is cleared before the answer arrives and the adapter is not told | a touch opens the vote it shows; every vote once | VoteList |
| Push messages (`J/MyFirebaseMessagingService.java`) | rows of `votelist`, `notice` | message received | concurrent with the list's inserts; a message without a notification part | no message ends the app | VoteList (`Push`) |
| Sign-up of voters (`J/UsersignupActivity.java`) | fields, flags "id checked", "passwords agree", one request | check, edit, submit | flags outlive the text they were computed from; input queues while a request blocks the main thread; the id is taken meanwhile; answers are lost | what is sent is what was checked; what is reported is what the server did | CredentialForm, SignUp |
| Sign-up and login of administrators (`J/AdminsignupActivity.java`, `J/AdminloginActivity.java`, `J/AdminActivity.java`) | the same fields, stack of screens, requests to Firebase, Firebase's current user | log in, sign up, leave, open | nobody waits for an answer; an answer changes the user under whatever screen is in front; a screen asked for is made later, the old one stays in use | nobody is signed out under a screen; the screen is of the user it shows | CredentialForm, AdminSession |
| Vote creation (`J/CreatevoteActivity.java`, `J/AddcandidateActivity.java`) | texts, dates with a flag each, candidates and their counter | pick dates, add candidates, finish | dates are compared only when picked; flags are lost where texts are kept | what is created is complete and ends after it starts | VoteForm |
| Vote administration (`J/AdminvoteActivity.java`) | phase of a vote | send, end | two formats of one date | never reached: see section 6 | AdminSession (`OpenAdminVote`) |
| Encryption arithmetic (`J/EncActivity.java`, `J/BigIntegerEC.java`) | table of doublings, running sum | multiply, add products | a formula without the cases of equal and opposite points; only the x of a point is kept | agrees with repeated addition, and throws nowhere else than it must | CurveMul |
| Linear combinations and protoboard (`L/gadgetlib2/variable.cpp`, `protoboard.cpp`) | terms, constraints, assignment | add, scale, evaluate | in-place addition | used inside CircuitReader | partly |
| Groth16 (`V/r1cs_gg_ppzksnark.tcc`) | none | generator, prover, verifier | cryptography | out of reach of these tools | no |
| Candidate screens, adapters, beans | layout | bind | nothing beyond the selected row | | no |
| Vendored code (`cpp/include`, the rest of libsnark, OpenSSL) | | | third-party | | no |
| Server (PHP, not in the repository) | registered keys, uploads | answers of `vote_mobile.php` | may answer late or not at all | | external actions |

PROJECT.json lists the same components, every hazard at its source line with
the properties that watch it, and the source lines of every definition.

## 2. The modules

### ConstraintPush, SequentialPush

`ConstraintPush` is `get_constraint_system_from_gadgetlib2` and its workers.
`mainPc` and `i` are the calling thread: `ResetFlag`, `SpawnWorker`,
`WaitAndPush` (the spin loop, enabled once the flag is seen), `LeaveLoop`,
`FreeBuffer`, `Return`.  A worker is `pc[t]` and its `vector_index[t]`:
`ClearFlag`/`ClearDone` are its first loop, `BeginConvert` evaluates the three
linear combinations, `Store(t, s)` makes one of the four stores of a conversion
visible, `ConvertDone`, `LockLog`, `UnlockLog` end it.  `todo[t]` is the set of
stores not yet visible; with `InOrder` they become visible in program order,
without it in any order, which is what arm64 permits for plain stores.
When the caller has returned, a worker that still tests its loop reads a
destroyed object (`TestDeadPb`), and a store into freed memory is `StoreFreed`,
which no in-order behaviour reaches.

`malloc` constructs nothing.  It leaves arbitrary flags, so `Init` has them all,
and arbitrary bytes where the linear combinations have their `std::vector`s.  The
move assignments of `integration.cpp:132-134` first release the array such a vector
seems to own.  `headers` says whether all of them were null, as in a block fresh
from the kernel, or whether some were old bytes (`"garbage"`).  In the second case
any store of a part may instead be `ReleaseGarbage`, which frees a stray pointer
and leaves the process `"wild"`: nothing is known of it any more and nothing else
happens.  A `Store` under `"garbage"` is a release that went unnoticed.  Safety is
therefore about processes that are not wild, and `MainReturns` and `WorkersFinish`
promise the end of the conversion *or* a wild process; nothing in the code rules the
latter out.

`SequentialPush` is the promise: the version of the function without threads,
which appends the conversion of constraint 0, 1, ... and is then done.
`SequentialSpec` maps its `out` to `constraints` and `done` to the caller's
return.

### VoteCast

One phone and one user.  `screen`, `stack`, `chosen` are what the user sees;
`stack` holds the votes whose screens are open above the list.  `handler` is the
positive button's handler, whose two uploads are separate steps (`UploadProof`,
`UploadVk`) since each waits for the network.  `pending` holds the activities asked
for and not yet created.  Android does not promise in which order several
`startActivity` calls end up in `onCreate`: with `launch = "fifo"` they are created
in request order, with `"any"` each step picks one of them.  Both are checked, and a
property that needs request order says so.

A row tapped in the list only asks for the vote's screen (`OpenVote`); `MakeVote` is
its `onCreate`, which asks for the vote id to be written.  A second tap before that
opens two screens, which `stacked` remembers.  `Confirm(c, reach)` is the handler up
to its uploads: `encrypt_vote` may throw before the first encryption, between the
two (`VoteActivity.java:960`, when nine of the eighteen segments have been asked
for), or not at all, and the handler swallows the exception.  `MakePP` and
`MakeInput` are `makevoteinput` (one rename each), `StartSnark`, `OpenPk`, `OpenVk`,
`WritePk`, `WriteVk`, `OpenProof`, `WriteProof` are `SubActivity` and the native run;
a file that has been opened and not closed is `Part`.  `Verify` is the run of the
test button.  `CutKeyCrash` and `VerifyCrash` are what reading a missing or cut file
may come to, besides going on with what there is.  `Kill` loses everything but the
files.  A proof is the pair of the input it was made from and the state of the key
file it used.

The many lines of `votein.dat` are segments, one per activity; what a segment holds
is a number (the slot of the candidate, or the vote id), `Rand` (fixed by the
randomness alone) or `Raw` (a line of the file the app ships).  `First` and `Second`
name the segments of the two ciphertexts.  The proofs are for any such lists;
`MCVoteCast` has one in the first and two in the second, of which one is fixed,
instead of nine and nine.  The last votes encoded as far as the first ciphertext and
in full are `lastHalf` and `lastCast`.

### KeyRegistration

Two voters share a phone. `screen` is an open `VoteActivity` with what its
`onCreate` has read: the phase of the vote from the clock, `check_pk` from the
table, and whether the button is enabled. `request` is the `register_key` request
the main thread blocks on. `SendKey` and `SendFakeKey` are the two dialogs that
send one: the key of the second is never kept, whatever the answer.
`ServerRegisters`, `ServerFails` and `NetworkFails` are external; the last may
lose an answer after the server acted on it. `FinishRegister`, `FinishFakeKey` and
`NullAnswerCrash` are the rest of the handlers. `Tick` lets the clock pass the
start and the end of a vote at any moment.

### CircuitReader

`phase` is the pass.  In the first, `ParseGate` and `ParseOutput` build *any*
circuit the kits of gate types allow, evaluate it and count uses: all circuits of
that size are explored, rather than a chosen one.  The second has one action per
handler (`AddMulConstraint` ... `HandleMulNegConst`), all built on `Find`, which
returns a pointer into `heap` and copies the combination only when the caller
edits it and uses are left, and on `Handled`, which applies `clean()`.  `Refused`
is `exit(-1)`.  Sums are the library's `SumFunction`, and the loops over the wires
of one line are recursive functions (`DeclareAll`, the `after` of `Accumulated`).  The
third visits the variables in the order of the `std::map`
(`MapWire`) and ends in `done`, or in `fatal` when a combination has a variable
without a value.  Wires are numbered in the order in which gates define them and
operands of symmetric gates are listed in one order, as the circuit generator
does; an output names a wire once and no input (`NewOutputs`), as in the two
circuits the app ships, although `parseAndEval` would take any.  These definitions
are marked external.

### CredentialForm, SignUp

`UsersignupActivity` and `AdminsignupActivity` have the same id and password
fields with the same text watchers.  `CredentialForm` has them once, as functions
from a form to a form: `WithId`, `WithPw`, `WithPw2` are the watchers, and
`Recreated` is what a turned phone does, which puts the texts back one after the
other, each under its watcher, into an activity whose fields start afresh.

`SignUp` is the voter's screen.  `Type`, `TypeName`, `Verify`, `ToggleAgree` are
edits; `CheckId` and `Finish` are the handlers up to the request the main thread
waits for, and `CheckAnswered`, `CheckLost`, `SignUpAnswered`, `SignUpLost` the
rest of them.  No handler runs while the main thread waits, but taps and keys queue
and reach the screen when the handler has returned, that is, under the dialog it
has opened.  So every edit, and another check, is possible with a dialog open
(`dialogs`, the top one last), and `ConfirmDialog` sets the flag whatever the field
holds by then.  `freed` are the ids the server has called unused since the screen was
made, and `slipped` remembers that a dialog was confirmed that was not about the id
in the field and the one last asked for.  `accounts` is the server's table, in which
`OtherSignsUp` may take an id at any moment.  `lost` remembers that a sign-up answer
was lost, after which the account may exist without the phone's knowledge.

### AdminSession

`stack` holds the activities above the main screen; each notes whether Android
has stopped it (`StopCovered`, some time after it was covered) and the user it
was shown for.  `starts` holds the activities asked for and not yet made: until
`Create`, which may take any of them, the old screen can be used, so that a second
tap on the login button is possible between `startActivity` and the administrator's
screen.  That screen asks for the current user in `Create` (`onCreate`) and, if it was
stopped, when the one above it is gone (`Uncovered`); `Dies` is the null user it may
meet.  `tasks` are requests to Firebase; the app does not wait for
them, so handlers run in between and several may be out.  A request is `heard`
while the screen that registered the listener is neither stopped nor gone;
`SignInDone` and `SignUpDone` change `currentUser` in either case.  Two histories
name the circumstances the properties except: `leftOthers`, an administrator's screen
was left with another one there or asked for; and `crowded`, a request was made during
another one or with an administrator's screen there or asked for, or its answer
reached nobody.  `AdminToast` is the branch of `SignUp()`
whose comment says that it must absolutely never be taken; it changes nothing, and
so it is no disjunct of the next-state relation but its enabling condition is the
subject of a property.

### VoteForm

One variable per field and flag of the screen.  `PickStart` and `PickEnd` are the
two date listeners with their checks and `PickEndCrash` the case in which the
start does not parse; `FinishForm`, `CloseComplaint`, `ConfirmCreate`,
`DeclineCreate` are the finish button and its dialogs; `CandidateDone` is the
return from `AddcandidateActivity`.  `RestartForm` is `onStart`, which reads the
day, `Midnight` the day's change, and `TurnForm` a turned phone.  `created` is a
copy of what was on the screen when the last creation was confirmed.

### VoteList

`votelist` is the list in memory, `rows` what the last layout drew from it and
`notified` that the adapter was told since.  `OnStart` clears the first only.
`loads` is the queue of the serial executor; a load outlives its screen, and then
fills a list nobody shows (`mine`).  `LoadDone(answer, n)` appends the first `n`
votes of an answer, fewer than all when a row does not parse or the server does
not answer in time.  A touch reaches the adapter by position: `TapOpens` when the
list has one there, `TapThrows` when it was cleared or is waiting for a layout, so
that the app ends; both are reachable.  `Push` is a message of
`MyFirebaseMessagingService`, which writes to the same table.

### CurveMul

`BigIntegerEC` over a small field.  `BeginProduct`, `Double` and `BeginLoop` are
the constructor's table, `Add` one turn of the loop of `mul`, `Subtract` its end,
`Combine` the addition of `EncActivity`.  As in the code every addition is
computed, also one whose bit is zero, and each of these steps throws when
`modInverse` would.  `Minus`, `Plus`, `Times` and `OrderOf` are the reference: the
group of the curve with all its cases.

### App

SignUp, AdminSession, VoteForm, VoteList and CurveMul share the code of the
credentials' form but no state; AdminSession knows the screen of VoteForm only as
one that covers an administrator's.
`App` therefore runs one of the five per behaviour (`part`), so that one run
explores each in full.  It says nothing about the parts that the modules do not say.

## 3. Runs

All pass runs together fire every action of every module.

| Run | Instance | What it shows |
|---|---|---|
| `push` | 5 constraints, 3 threads, in order, every flag and any headers `malloc` may leave | the thread protocol implements the sequential conversion; no store after `free`; caller and workers finish unless a worker frees a stray pointer out of an unconstructed vector |
| `push_arm` | 2 and 2, any order | *violation*: main sees the flag before the results and pushes an unset combination |
| `vote` | 2 votes, 2 candidates, 2 confirmations, 1 death, 1 tap, request order and any | once all has run, each half of the input is as shipped or of the last vote encoded that far, in any order; in request order the proof is of the last vote; uploads hold nothing unconfirmed, and in request order no two votes; a complete vk has a complete pk; a run asked for comes to its result |
| `vote_reported` | 1 confirmation, no death | *violation*: a vote is reported without its proof on the server |
| `vote_keys` | 1 death | *violation*: the prover runs on a key file cut short |
| `vote_unsat` | 1 confirmation, 3 candidates | *violation*: after an exception between the two encryptions a mixed input is proved although the log says "Terminating" |
| `keys` | 2 voters, 2 votes, 3 keys, 1 death | kept keys and ballots are of votes the server has a key for; no registration after the start without a screen from before |
| `keys_own` | 2 voters, 1 key | *violation*: the second voter votes with the first one's row |
| `keys_term` | 1 voter | *violation*: a screen left open votes after the end |
| `circuit` | every circuit of 3 gates from five kits, field of 5 elements | combinations evaluate to their wires, no wire is dropped early, constraints fix the outputs, the assignment satisfies them |
| `circuit_zerop` | sums and zero tests | *violation*: a combination kept for the zero test is edited in place before its inverse is computed |
| `app` | three texts, two passwords, 2 dialogs; two votes in either order, 3 loads; 3 screens, 2 requests; 3 days, 2 candidates; a curve of 52 points over 43 elements, twelve scalars, bases of order 2, 4, 26, 52 | sign-up: what is sent was checked unless a dialog about another id was confirmed, what is reported is true; administrators: the toast never appears, nobody is signed out under a screen unless one was left with another there, the screen is of its user unless requests were crowded; creation: complete, end after start; list: touches open what is shown, no vote twice; encryption: the sum is the multiple, exceptions are exactly where entries meet, the sum is right up to a sign |

The violations are described with the source line and the text they contradict
under "findings" in PROJECT.json.  Each property of a pass run comes with a
mutant, a plausible slip in one mapped definition, under which TLC reports the
property violated.

### Bounds, and why they are enough

* `push`: with three threads and five constraints two workers convert two
  constraints and one converts one, so both loop ends occur and main overtakes
  and waits for each of them.  Under any store order `push_arm` needs no second
  round for a flag seen before its results.
* `vote`: two confirmations are needed for an input or a proof that is older than
  the vote reported, two votes and two candidates to tell them apart, and one death
  reaches every intermediate file state.  One segment in the first ciphertext and a
  second one in the second are enough for every mixture of the two halves and of
  the segments of one half, in every order of writes and run.  The exception before
  the encryptions needs no candidate of its own here; the three runs that must fail
  also have candidate 17, which has no slot.  With one tap `stacked` is never set:
  the doubled screen is in the model and in the theorems, but in no run.
* `keys`: two voters for the shared table, two votes so that a row of one vote
  can be mistaken for the other's, three keys so that a key can be registered,
  refused and made again; `keys_own` and `keys_term` need less.
* `circuit`: three gates are a definition of a shared combination, its copy
  and a further use, or two zero tests with a gate between them.  Five elements make zero,
  one, non-bits and values outside a two-bit split possible.  Kits keep the
  number of circuits small: each joins gates that make combinations with gates
  that use them, and `add` or `split` is in every kit; two gate types that share no
  kit are not combined.
* `app`: two texts that differ in case only make an id that is typed over and one that
  is not; with an empty id there are two different ones for two dialogs. An empty and a
  long password reach the disabled repetition with text in it. Three loads are two that
  overlap and one that outlives its list. Three screens are login, sign-up above it, and
  an administrator's screen asked for and made late, or login and two administrators'
  screens of two taps, one left with the other there. With three days a start and an end
  both have a day to be refused. The order of the curve is composite, so that bases of
  small order exist, whose doublings or sums meet; the twelve scalars have for each base
  a product that exists, one that meets among the additions, and one that meets only
  where the last entry is taken off. Over a field of nineteen elements with five bits
  the last of these never happens.

### Fairness

`push` assumes weak fairness of main and of each worker, as long as the process is
not wild: they are pthreads of one process under a preemptive scheduler, and every
step except spin and mutex is always enabled.  `vote` assumes weak fairness of what
Android and the native code do (`SystemStep`): the main thread goes on with what
waits.  Nothing is assumed of the user, of `Kill`, or of the two uploads, which have
no timeout and may block for ever.  `RunReachesResult` therefore starts where the
handler has ended, and ends at the result dialog, which may wait for ever.  The
other runs check safety only and state no fairness.

## 4. Proofs

| Module | Theorem | Statement |
|---|---|---|
| ConstraintPushProofs | TypeCorrect | `Spec => []TypeOK`, any store order |
| | PushedIsConvertedHolds, NoStoreAfterFreeHolds | in order: only complete conversions are pushed; nothing is stored after `free` |
| | ImplementsSequential | in order: `Spec => SequentialSpec` |
| VoteCastProofs | TypeCorrect, VkHasPkHolds | types; a complete vk has a complete pk, for any launch order and number of deaths |
| | InputIsOfLastVotesHolds | without a death, any launch order: once all has run, each half of the input file is as shipped or of the last vote encoded that far |
| | ProofIsOfLastVoteHolds | without a death, in request order: the proof is of the last vote encoded whole |
| | UploadsAreOfReportedVotesHolds | without a death: uploads hold nothing but the shipped input and confirmed votes; in request order, of one of them alone or of an input never written whole |
| KeyRegistrationProofs | TypeCorrect, KeptKeyIsRegisteredHolds, NoKeyOnceStartedHolds | types; the two safety properties of `keys` |
| CircuitReaderProofs | LiveLCsEvaluateHolds | the combination a wire points to evaluates to the wire's value |
| | NoInputLostHolds | no wire is dropped before its last reader has found it |
| | TypeCorrect | types: use counters stay above zero, combinations are over declared variables, zero tests are not overdrawn |
| CircuitSoundness | GateSoundHolds | a gate's constraints leave its outputs no choice |
| | AssignmentSatisfiesHolds | the assignment of the third pass satisfies every constraint of the second, if inputs are in range and no zero test's combination was edited |
| CombinationLemmas | (lemmas) | finite sums, remainders, the value of a sum and of a multiple of combinations |
| AppProofs | SignUpTypeCorrect, SubmittedWasCheckedHolds, ResultIsTrueHolds | sign-up: types; what is sent was checked, unless a dialog about another id was confirmed; what is reported is true |
| | FormTypeCorrect, CreatedIsCompleteHolds, EndsAfterStartHolds | vote creation: types; a created vote is complete, and ends after it starts unless the start was picked again |
| | ListTypeCorrect, OpenedWasShownHolds, OnceUnlessOverlappedHolds | list: types; a touch opens what the row shows; no vote twice without overlapping loads |
| | CurveTypeCorrect | encryption arithmetic: every entry of the table, sum and encrypted vote is a point of the curve |
| | AppTypeCorrect | the types of all parts hold of the app |
| AdminSessionProofs | ToastNeverHolds | the toast never appears |
| | SessionTypeCorrect | types |
| | UserIsThereHolds | no administrator's screen is made or used without a user, unless one was left with another there |
| | ShownIsCurrentHolds | an administrator's screen is of the user signed in, unless requests were crowded |

They hold for every value of the constants allowed by the ASSUMEs of the
modules.  `SizeAssumption` (at least as many constraints as threads) is a real
precondition of the code: below it, the reset loop writes past the buffer.
The circuit reader's `InverseAssumption` says what it means that `P` is prime, that
every element but zero has an inverse (the code's `inverse()` relies on it), and
`KitsAssumption` that a kit consists of the ten types of gate `parseAndEval` knows.
`CurveAssumption` says that `FIELD_PRIME` is a prime above three, as that of the code
is; TLC tests it for the small one.

*ConstraintPush.*  That a flag is set says nothing by itself: `malloc` may have
left it set.  `IInv` therefore splits by the place of the worker.  Before its
second loop, its first flag is clear since the caller reset it (`ClearPart`);
from then on, exactly the flags and results of its own stride below
`vector_index` are set and complete (`ConvertPart`, `StorePart`).  Main only
consumes in order, so whatever it has consumed belongs to a worker that is past
its clearing loop (`ConsumePart`), and a flag it sees set is then trustworthy:
either it is the first of its worker, or the one before it on the stride has been
consumed.  The lemmas on `%` (`DivModUnique` to `NextStride`) say that strides
do not meet and that a step passes exactly one index.  The refinement
follows, since a push appends the conversion of index `Len(constraints)`.

*VoteCast.*  `VkHasPk` is not inductive: opening the pk file empties it, and an
old complete vk would then stand beside an incomplete pk.  `KeyInv` adds what
holds at each step of the setup: it only starts without a pk file
(`SetupHasNoPk`), while the pk is being written there is no complete vk
(`WritingPkHasNoVk`), the vk is completed beside a complete pk
(`WritingVkHasPk`), and the prover finds some pk file (`ProvingHasPk`).

What the input file holds follows from `WInv`, the invariant of a process that has
not died, in any launch order.  Its heart is `QueueInv`, about the set of activities
that wait rather than their order.  A vote's writes and its run wait with nothing
else (`KindsInv`); what waits to be written is of the last vote encoded that far
(`WritesInv`); where a run waits, every segment of the file is already that of its
vote or still awaited (`FillInv`); and each half of the file is as shipped, or
every segment of it is the last vote's or awaited (`HalvesInv`), which is
`InputIsOfLastVotes` when nothing waits.  Starting an activity takes one element
out of that set and does what it promised, whichever element it is.  `IdInv` follows
the vote id in the same way, `ScreenInv` and `QuietInv` keep screens and runs apart,
and `LastInv` says that the last votes were confirmed.

The proof and the uploads need `OInv` on top.  `OriginInv` follows an input from the
file to the run, the proof and the server: it is `Traced`, made of the shipped file
and confirmed votes, and in request order of one of them, or not written whole.  `RunLast` says that then
a run is the last of the queue, so that it starts when `FillInv` has nothing left
to await, and `CastInv` that the last vote waits for its run, is being proved, or is
what the proof is of.  In another order the run may come between the writes, and
the segments it reads may be of two votes, each confirmed: what
`UploadsAreOfReportedVotes` says without the condition is all that is left.  `WInv`
and `OInv` were first checked with TLC on the instance of the vote run.  The
assumption they need, `FilesAssumption`, only says that the markers for no file and
for a file cut short are no contents of a file.

*CircuitReader.*  `find` hands out a pointer to a shared combination for editing when
the use counter says that nobody else needs it, so `LiveLCsEvaluate` depends on what
was counted in another pass over the file.  `IInv` has three parts.  About
the first pass: gates read wires defined before them, define new ones, and these
have the values the gates compute (`Circuit`); `uses[w]` is the number of times the
second pass will still read `w`, plus one for an output (`UsesLeft`), which rests on
a sum over the gates from the current one.  About the second: every wire has a
variable of its own (`IsVarMap`), no two wires share a combination and every
combination is over declared variables (`Pointers`); `LiveLCsEvaluate` and
`NoInputLost` themselves; each zero test has its stored combination (`Zerops`).  About
the third: values are in the field, and the zero tests still to be visited are those
whose combinations are left (`Mapping`).

A handler finds its inputs one after the other, and each `find` may change the
heap the next one sees.  `FoundUpTo(s, r, k, p)` says what is known after `k` of the
inputs `r`: counters are down by the reads so far, pointers of wires still needed
are where they were, and the one returned last is not the pointer of another wire.
For gates with constraints that is enough (`FoundIsReady`); the linear gates then
edit the first combination (`EditFound`), or fold the others into it
(`Accumulates`, along the recursive function of the model), and the arithmetic of
CombinationLemmas shows that the result evaluates to the output's value.
`HandledKeeps` closes each handler: what `clean` drops has no use left.  `IInv` was
first checked with TLC.

*CircuitSoundness, the second pass.*  `ValueIs` says what a combination is worth
under an assignment, with lemmas for sums, multiples, constants and variables; the
finds of a handler return combinations that stand for its inputs (`Stands`), so they
are worth the wires' values under any assignment that has the wires before the gate
right (`Sees`).  For each kind of gate two facts about its constraints are then
proved: they force the outputs (`Sound`) and the evaluated outputs satisfy them
(`Complete`).  Exclusive or and or are solved by substitution.  That a product is
zero only if a factor is (`NoZeroDivisors`) follows from `InverseAssumption` and
gives the zero test and the bits of a split; that the bits of a split are those of
the input needs that a number below two to the n has one list of n bits only
(`BitsOfSum`), and, since the equation is one of the field, that two to the n is at
most `P`, which is why `InRange` asks for it.  The handlers of linear gates add no
constraint.

*CircuitSoundness, the third pass.*  That the assignment satisfies the constraints
needs more than completeness, since zero tests take their combinations from a list
by position, long after they were stored.  `AInv` has six parts.  Wires are defined
in the order of their numbers (`WireOrder`); only linear gates leave a combination
behind (`FromLinear`); auxiliary variables belong to one test and to no wire
(`TestVariables`).  While nothing is edited after a test has kept it
(`~ZeropEdited`), what a test has kept is over variables of wires before it, is
worth its input, and is shared with no other wire (`TestsKept`).  An assignment that
is right on all wires and tests satisfies all constraints so far (`ConsHold`), by
`Complete`.  And the third pass is right on the wires up to the one it has reached
(`MapRight`).  The place of a test's combination in the list is the rank of its
output among the outputs of tests (`KeptAt`), and the third pass, which goes by wire
number, is at the test of that rank (`PlaceOfTest`); the combination is over wires
below, which have their values.  `EditedIsNotKept` shows that `ZeropEdited`
describes the only way to spoil one: an edit in place needs the wire's last use, so
it is that of the test's own input, made by a linear gate and read once more, by the
gate that edits.  The violation `circuit_zerop` shows that the exception is needed.

Induction comes without an induction rule: a set of finite sets that has no minimal
element under inclusion is empty (`SubsetInduction`, from the library's
well-foundedness), which gives the recursion of finite sums (`SumSteps`) and
counting up to a number (`CountingUp`), and from them that the model's recursive
functions (`two_i`, `DeclareAll`, `Accumulated`) obey their equations.

*KeyRegistration.*  `IInv` says that four things speak only of votes the server
has a key for: rows, ballots, the snapshot of an open screen, and an answer that
is on its way; and that a screen's button is enabled only in the two situations
the code provides (`ButtonClosed`).  The server never forgets a key, so each of
the four is preserved.

*SignUp, AdminSession.*  `FlagKept` says that every edit of a form keeps its password
flag true of its texts, `FlagAfresh` that a turned phone restores a form whose flag
is true again; `CredentialsInv` and with it `ToastNever` follow.  In `SignUp` the id
flag speaks of an answer of the server, so the invariant follows an id from the
request (`AskedFor`) through the dialogs (`Shown`) to the flag (`Flagged`): a dialog
sets it for the id in the field unless it slipped, and an edit that changes that id
clears it.  `Verified` does so for the identity check, and `Unclaimed` says that no id
called unused is this voter's, unless an answer was lost or the visit has ended,
from which `ResultIsTrue` follows.

`UserIsThere` rests on `UserInv`: somebody is signed in as long as an administrator's
screen is there or asked for.  Only `AdminBack` signs out, and unless it leaves
another such screen behind there is none any more.  Nothing is assumed of requests
and their answers, which never sign anybody out.

`ShownIsCurrent` needs to know the whole stack of AdminSession, also what is covered
and what is asked for (`CalmInv`): `OneAdmin` says that there is one administrator's
main screen at most and where the forms of new votes are, `Owned` that every
administrator's screen on the stack is of the user signed in, and `OneRequest` that
one request is out at most, and only while there is no such screen and none is asked
for; so the answer that changes the user changes it under no such screen.

*VoteForm.*  A flag may be lost where the text is kept, never the other way round
(`FlagsDated`); two flags mean ordered dates unless the start was picked again
(`FlagsOrdered`); the counter is the length of the list (`Counted`); and an open
confirmation was complete when it was opened and nothing can change under it
(`Confirmed`).

*VoteList.*  The list grows at its end and otherwise is cleared, so while the
adapter was not told of a change the list is either as shown or empty
(`ShownOrCleared`): a touch that finds a vote at its position finds the one shown.
The loads of a list that is gone are not its own (`GoneLoads`), and without
overlap at most one load is out, and only while the list is empty (`OneFills`).

*CurveMul.*  The type invariant says that no formula leaves the curve.  The argument
is made in the integers, with `Vanishes(x)` for "`FIELD_PRIME` divides `x`".  The
formulas divide, so an inverse must exist: the least remainder of the multiples of
`b` is one, as it would otherwise leave a smaller one of the prime (`LeastIsOne`,
`InverseWorks`), and hence there are no divisors of zero.  A line put into the curve's
equation is a cubic whose zeros add up to the square of the slope minus `A`; two
zeros, or a double one, then make the third (`ThirdZero`, `ThirdOfDouble`), for any
curve of the family (`ChordOnCurve`, `TangentOnCurve`).  The guards supply the
hypotheses: the x of the points differ, or the y doubled is not zero.  `CurveInv` adds
that the table is whole and a sum exists while entries are added, and what a kept
product is.  That the computed points are the multiples they should be is only
model-checked.

*App.*  Each step of the app is a step of one part that leaves the other parts'
variables alone, so the app implements the specification of every part
(`PartsRun`) and the theorems about the parts carry over; `AppTypeCorrect` is the one
stated.

Model-checked only: the liveness properties (fairness and `ENABLED` are beyond
the prover).  Of CurveMul, the three properties that compare the computation with
the group of the curve: the associativity of chord and tangent would have to be
proved first, an identity of polynomials far larger than the ones above.

## 5. Plan

1. ConstraintPush, SequentialPush and their proofs, VoteCast, KeyRegistration and
   its proofs, CircuitReader: done.
2. SignUp, AdminSession, VoteForm and VoteList with their proofs, CurveMul, and
   App: done.
3. The queue of VoteCast in any order, the stack of AdminSession, and the combinations, the
   constraints and the assignment of CircuitReader, and the type invariant of
   CurveMul, with which App's follows, proved: done.  Left: the associativity of
   chord and tangent, from which the properties of CurveMul would follow.
4. Left: the segments of `makevoteinput` line by line, with a copy of the packaged
   file cut short, and the encoding of a candidate as a scalar.

## 6. Not modelled, and why

* The cryptography: Groth16, pairings, curve arithmetic in the proof system.
* Parsing of circuit and input files, hexadecimal constants, and exits on
  malformed files: the files are part of the app.
* The server's scripts, which are not in the repository; only the answers
  and uploads the app depends on occur.
* A copy of the packaged `votein.dat` cut short by the death of the process: `MakePP`
  and `StartSnark` copy it in one step.
* Taps on the login, sign-up and test buttons of the main screen that ask for a second
  screen before the first is there, input to a screen that `finish()` has ended and
  that is not gone yet, and a confirmation while activities still wait.  Doubled rows
  of the list and doubled taps on the administrators' login are modelled.
* More than one dialog at a time on the administrators' sign-up.
* Circuits whose output lines name an input or a wire twice: `parseAndEval` takes them,
  the two circuits the app ships have none.
* The encoding of a candidate as a scalar: CurveMul takes scalars as given.  Slot
  15, which sets the sign bit, is excluded by `CandidatesAssumption` of VoteCast.
* The tables of slopes that `BigIntegerEC` keeps for the circuit's input, and a base
  whose x is on no point, for which the root that `computeYCoordinate` looks for
  does not exist.
* `AdminvoteActivity` behind its opening: `AdminActivity` parses the dates of a vote
  as `yyyy-MM-dd HH:mm:ss` and the activity splits them at dots, so that one of the
  two throws for every date.
* The text of notifications, the list of notices (read once), the fields of the
  administrators' login, and the list of an administrator's votes.
* Layout, adapters, dialogs without an effect on state.
* Conditions below `SizeAssumption`, and the overflow of the buffer's byte count
  (an `int`) at about twenty million constraints.
* Everything under `cpp/include` and the parts of libsnark, libff and libfqfft that
  the app only links.  This is nearly all of the source by size; the app's own
  logic is the Java package, `native-lib.cpp`, `integration.cpp`, the circuit
  reader and the proving run, which the modules cover.

## 7. Running

    tlc -config VoteCast.cfg MCVoteCast
    tlapm ConstraintPushProofs.tla

Each configuration names its module by prefix: `ConstraintPushArm.cfg` is for
`ConstraintPush`, and so on; those of `VoteCast` are run on `MCVoteCast`, and
`App.cfg` on `MCApp`.
