# A specification of OPSI-CA

OPSI-CA computes the size of the intersection of two encrypted sets. A
*querier* owns a key pair, two *data owners* A and B own the sets, and a *cloud*
computes on their Bloom filters, encrypted under the querier's public key. This
directory holds TLA+ modules of the programs under `src/`, configurations that
check them with TLC, and proofs checked by TLAPS. Line numbers in comments and in
`PROJECT.json` are those of the files under `src/`.

1. [The system](#1-the-system)
2. [The modules](#2-the-modules-and-the-code)
3. [What the runs check](#3-what-the-runs-check)
4. [Fairness](#4-fairness)
5. [What is proved](#5-what-is-proved)
6. [Where the code departs from its documentation](#6-where-the-code-departs-from-its-documentation)
7. [What is assumed of code outside the repository](#7-what-is-assumed-of-code-outside-the-repository)
8. [What is not modelled](#8-what-is-not-modelled)
9. [Plan](#9-plan)

## 1. The system

| Part | State it keeps | Operations | What makes it correct |
| --- | --- | --- | --- |
| cloud state objects (`opsica_cloud_state`) | the current state object (Init, Connected, Ready, Computed); Init counts connections, Connected has three flags | `set(event)`, `next_state` | the state is Ready or Computed only with key and data stored, although three threads raise events |
| cloud process (`opsica_cloud`, `demo/cloud`) | public key file, one `DataManager` per owner, data files, result file; three server threads | callbacks connect, disconnect, pubkey, data, compute, download | a computation reads only complete files, of the querier that asked for it |
| data owner state objects (`opsica_dataowner_state`) | Init, Connected, Ready, Uploaded, with two flags each | `set(event)` | the flags say what has really arrived |
| data owner process (`opsica_dataowner`, `demo/dataownerA`, `B`) | key file, parameters, encrypted files, connection to the cloud | callbacks connect, disconnect, pubkey, param, upload | an upload is encrypted under the key of the querier that asked for it |
| querier process (`opsica_querier`, `demo/querier`) | key pair, three client threads, the result | the two threads of requests to the owners, the one to the cloud; decryption | it gets the result for its own key, and ends |
| asynchronous evaluation (`opsica_async.hpp`) | blocks of indices, futures | `OPSICA_ASYNC_EVAL` | every index once, no race, termination |
| slot-wise operations (`opsica_function`) | none | `myAND`, `myOR`, `totalProduct`, tournaments | the product over all slots is 1 only if all are |
| protocols (`opsica_protocol`, `opsica_psica`, `opsica_bloomfilter`) | encrypted filters, result rows | pack, merge, inclusion check, aggregate, count | the count is the number of included filters |
| secure key files (`opsica_securekey_filemanager`) | the public and the secret key file of a directory | generate, look for, measure, read | what the three threads send is one whole key, and the secret key is of the same pair |
| configuration, utilities, hash | files read once | | partly or not modelled (section 8) |
| transport (`stdsc`) | connections | | a git submodule that is not in the repository; section 7 |

How they interact. All calls go through blocking client/server connections: the
querier calls the cloud and both owners, each owner calls the cloud, nobody calls
the querier. Each server port has a thread of its own, so that the cloud's
callbacks run in three threads over shared state, while an owner has one. A
callback that finds the server in too early a state throws a warning, upon which
the client waits and sends the request again; these retries are the only
synchronisation of the system.

What is hard in it:

* *Interleaving.* A cloud callback tests the state, works, and then raises an
  event in three steps that the other two threads interleave with.
  `StateContext::set` looks up the current object before that object's mutex is
  taken, so an event may reach an object that was replaced meanwhile, change its
  fields and install its successor in place of the real current state.
* *Stale state.* `data_managerA(num)` sizes its records on the first call of the
  process only; nothing ever resets them.
* *Crashes and timeouts.* A querier that is killed, or that gives up after 60 s of
  refusals, leaves the three servers where they are for the next querier. An owner
  that is killed and started again keeps its files and loses its state. A
  generation of keys that is cut short leaves a directory with half a pair.
* *Partial failure.* An upload is a file per element. One that cannot be encrypted or
  sent ends the request with some files stored, and the querier's thread fails or asks
  again.
* *Liveness.* The result depends on about a dozen refused and repeated requests at
  three servers, all of which have to come out.
* *Arithmetic of the packing.* Filters are split into ciphertexts of a number of
  slots that is in general no power of two, and that need not divide anything.

`PROJECT.json` lists these hazards one by one at their lines.

## 2. The modules and the code

```
Parties ── CloudState ── Cloud ──────┐
   │                                 │
   ├────── DataownerState ─ Dataowner┼── Opsica ── (refines) PsiSession
   │                                 │
   └────── Querier ──────────────────┘
AsyncEval ── (refines) EachOnce     Slots, BloomFilter ── Psica     KeyFiles
```

| Module | Models | Remarks |
| --- | --- | --- |
| `Parties` | the processes' names and the keys | |
| `CloudState` | `opsica_cloud_state.cpp` | no variables: `Changed` is the object after its `set(event)`, `Successor` the object it installs. `size_t` wraps at `SIZE_T`. |
| `Cloud` | callbacks, data managers and files of the cloud | `Receive` is the state test of a callback, then one action per step that other threads can see: `StorePubkey`; `OpenData`, `WriteData`, `IgnoreData` for the truncation, the end of the write, and the early returns of `DataManager::save`; `StartCompute`, `ReadData`, `RejectData`, `SaveResult`; `SendResult`; `LoadState`, `ApplyEvent` for the two halves of `state.set(event)`; `Reply`. A data file has the name the owner gives it (`NameOf`, `enfilename`): both owners' files are in one map from names to contents, so files of one name overwrite each other. State objects have addresses (`ObjId`), and a freed address may be used again. |
| `DataownerState`, `Dataowner` | the data owners | a callback that does not call the cloud is one step, since the process has one thread; the upload sends a file per step and waits. `FailEncrypt` and `FailSend` are the exceptions of an upload whose files cannot be opened; `Restart` is the process killed and started again, with the files it wrote and the initial state. |
| `Querier` | the querier's three threads | a script of requests per thread; one session after the other, each with its own key. |
| `Opsica` | the composition | a call is `Send` with `Receive` or `Handle`, the steps of the callback, and the answer with `Served`. A refused call is one that waits: its retries change nothing. A request whose callback throws ends the client's thread (`OwnerThrewBroken`) or is sent again. `OwnerRestarts` also breaks the connection of the querier's thread. `Timeout` and `NewSession` add the querier that gives up and the one that is killed. |
| `PsiSession` | what a querier is promised (steps (1) to (11) of the repository's README) | abstract: key told to everyone, sets delivered, result computed, result answered; or an error, after which nothing more need happen, but what happens is still right. |
| `KeyFiles` | the querier's key files, `initialize` and the reads of the three threads | a generation is a step per opening and end of writing of each file; a client thread looks for the files, takes the size, reads, and uses the secret key at the end. Any querier may be killed at any step and the next finds what it left. |
| `BloomFilter` | `BloomParams`, `BloomFilter`, `createBFs` | the size of the filter and the number of hashes from nmax and fpmax, with the cuts of the conversion to integers; hash values wrap at `UINT64`. `contains`, `constains` and `bloomJoin` have no caller; `constains` is what the encrypted count is compared with (`Included`). |
| `AsyncEval`, `EachOnce` | `OPSICA_ASYNC_EVAL` and what it promises | one task per block, and the caller's remainder; every evaluation is a step. |
| `Slots` | `opsica_function.cpp` | a ciphertext is the set of its slots that are 1. Loops are recursive functions: `Rounds` of a tournament, `decomposeIntoBinary`, `mulPowerOfTwoShiftList`, `productSet`. |
| `Psica` | the pipeline from Bloom filters to the count, both algorithms | the checks are made in any order, each once, as `EachOnce` promises. |
| `MC*` | values of constants for TLC | |
| `*Proofs` | theorems | section 5 |

Abstractions. A key is a value; a data file is the key it was encrypted under, its
owner and index and the number of files in its header; the result is the key of the
computation and the set of the files that were read. That is enough to tell whether it
decrypts and whose elements it counts: the querier gets what it asked for if all files are
under its own key and they are the whole sets of the two owners. The contents of the
filters are in `Psica` alone, which takes a computation on whole sets of one key for
granted; `Opsica` says when that holds. An owner's name for a file is the pair of
basename and index, since the index is inserted before the four characters of the
extension and keeps names apart that differ in either.

The names of the data files in `Opsica` and the key pairs in `KeyFiles` are independent:
`KeyFiles` says that a querier's key *is* one key, which `Querier` takes as `KeyOf`.

In `Cloud`, what a thread does between two accesses to shared state is one action.
A `DataManager` is copied by value but shares its implementation by pointer, so
the copies of the code are one record here. The two data managers are
separate and each is written by one thread.

## 3. What the runs check

Passing runs:

| Run | Shows | Bounds |
| --- | --- | --- |
| `cloud` | Under *every* sequence of requests at the three ports: Ready and Computed mean that everything is stored (`ReadyMeansStored`) and that a result was written (`ComputedMeansResult`), a computation never sizes the records itself nor reads an empty list (`ComputeHasFiles`), complete records never change (`RecordsStick`) | one key, one file per owner, 3 addresses, `SIZE_T` = 4; 840,000 states. Here clients are arbitrary, so an owner that connects twice is included; what several keys and files add is in `crashes` and `one_session`. |
| `dataowner` | Under every sequence of requests, with uploads that fail and owners that start again: no upload without a key and parameters or with a key replaced meanwhile (`UploadPrepared`); an owner in Uploaded has sent all of its files in one attempt under the key it holds, whatever attempts threw or were cut short before (`UploadedMeansSent`) | two keys, 2 and 1 files, one restart of each; 596,000 states |
| `one_session` | The first querier of a fresh system, whose uploads may fail at any file and whose threads may give up: its result is under its key and from the two whole sets (`AnswerIsOwn`), no file is read while it is written (`NoTornRead`), the three connections the cloud counts before it leaves Init are those of the querier and of each owner (`ConnectedMeansAll`), an owner that has uploaded is stored (`UploadedMeansSaved`), the state makes no jumps (`StateMoves`), every step is one of `PsiSession`'s and the answer comes (`KeepsPromise`), and the querier ends, unless a thread of it has failed (`EndsUnlessFailed`) | one session, two files per owner, so that an upload can fail between files and interleave with everything; 55,803 states |
| `crashes` | With a querier that is killed or gives up anywhere and another after it, and owner A killed and started again anywhere: every result is computed under the key of the querier that gets it (`AnswerUnderOwnKey`), the files an owner sends are made with the key and parameters of the querier it serves (`UploadIsOwn`), the connection count never wraps (`CountInRange`), an owner that has uploaded is stored (`UploadedMeansSaved`) | two sessions, two keys, one file per owner; 2,020,000 states. The second session meets everything the first left behind; a third would meet the same. |
| `async_eval` | No two tasks write the same element (`NoRace`), all are written (`AllEvaluated`), each once (`EachIsOnce`), and the macro returns (`Returns`) | sizes 0..9, 1..4 threads: fewer indices than threads, none, remainders; 1,749 states |
| `psica` | Both algorithms count exactly the elements of B that a Bloom filter of all elements of A contains (`CountsIncluded`), no fewer than the two sets share (`NeverUndercounts`), and answers never share a slot (`SlotOfItsOwn`) | filters of 4, 6 and 9 bits with 2, 4 and 3 hashes, 2, 3, 5 and 7 slots (several packs, a padded pack, one pack larger than the filter), up to 3 elements, equal ones and false positives among them; every order of the checks; 207,144 states |
| `keys` | The three threads of a querier send one key, read into buffers of its size (`OneKeySent`); it is whole and of the pair of the secret key the result is decrypted with, unless the last generation was cut short (`PairMatches`); with -g it is the querier's own (`OwnKeySent`) | three queriers: one that leaves a pair, one that spoils it or not, one that uses it; 28,626 states |

`SIZE_T` = 4 is the smallest value above `MAX_CLIENT_NUM`: a count that would go
beyond 3 or below 0 wraps at once. Three addresses for state objects lose
nothing: a thread that applies an event drops its own pointer, so beside the new
current object at most two others are pointed to, and a free address is always
there. `OwnerOp` leaves out the disconnect request of an owner, which the cloud's
ports serve but no owner sends (the theorems of section 5 about the cloud hold with
it, too). `CHECK_DEADLOCK` is off where a system really stops: after the last evaluation
of `AsyncEval` and `Psica`, after the last querier of `KeyFiles`, and in runs in which a
querier may wait for ever, which includes `one_session`: if a thread fails, the one that
waits for the result is refused for ever. That nothing else gets stuck there is what
`EndsUnlessFailed` says.

Violated properties, one per run, are those of section 6. Run `crash_wedges` has timeouts, so that a
refused client gives up as it does in the code; with `MayCrash = FALSE` its property holds.

Each property of a passing run has a *defect*: an operator marked `Defect:`
beside the definition it changes, such as a dropped flag, a test that is one
state too low or an off-by-one in the padding. With it, the property fails in
its run. The defects are listed under `mutants` in `PROJECT.json`.

## 4. Fairness

`FairSpec` has weak fairness of each kind of step of each server thread and
client: serving threads keep running, a callback that has started ends, an owner that is
started connects, and a client that waits keeps asking. Weak fairness of a call says that a
request which would be accepted *from some moment on* is accepted some day; the clients repeat
a refused request every `OPSICA_RETRY_INTERVAL_USEC`. A request which is acceptable
only now and then may be missed for ever, as in the code. Strong fairness is assumed of
`OwnerThrewBroken` alone: an upload request that throws each time it is tried ends the
client's thread at last, after `OPSICA_TIMEOUT_SEC` if not at once. There is no fairness of
failing files, of starting a new session, of a timeout of a request that is refused, of a
restart or of a crash. `AsyncFairSpec` says that some task runs while one can (the C++
runtime gives more).

## 5. What is proved

The theorems hold for every value of the constants that the `ASSUME`s
of the modules allow: any keys, number of files, set of addresses, `size_t`
larger than three, number of sessions, sizes and number of threads.

* `CloudProofs`. The properties of run `cloud` are not inductive: an event raised
  by a thread may reach an object that was replaced long ago. `CloudInv` adds what
  makes them so. `ObjectsTrue`: *every* object, current or not, tells the truth:
  its flags are up only for what is stored, it is Ready or Computed only if
  everything is. `QuerierThread` and `OwnerThread`: a callback that is about to
  raise an event has already stored what the event says, and a compute callback in
  progress has everything it reads. `RefsTrue`: pointers held by threads point to
  objects that are still there. This is preserved because nothing that was stored
  is ever taken back (`Grows`), so an event that comes late is still true. The proof has a lemma
  per action. Theorems: `CloudTypeCorrect`, `ReadyStored`, `ComputedHasResult`,
  `ComputeFiles`, `RecordsNeverReset`.
* `DataownerProofs`. `DoInv` adds that the state objects' flags tell what has
  arrived (`Ready` implies key and parameters). Theorems: `DoTypeCorrect`,
  `UploadIsPrepared`, and `UploadedIsSent`, which is inductive together with `DoInv`: Uploaded is
  entered only by the answer to the last file of an attempt, and accepts neither a key nor an upload.
* `OpsicaProofs`. `SysInv` is `CloudInv`, `DoInv` and a relation between the
  position of each client thread in its script and what the server holds: beyond
  request 2 the owner's key is that of the session (`OwnerTold`), beyond request 3
  the cloud's result is under it (`CloudTold`), and the cloud serves
  either the request its querier waits for or one of a querier that was killed
  (`CloudServes`). Crashes are in it: the next querier is at request 1, which claims
  nothing. Theorems: `SystemRunsCloud` and `SystemRunsOwners` (the
  composition implements the components' own specifications, which carries
  every theorem about them over: `SystemReady`), `SystemTypeCorrect`,
  `AnswersUnderOwnKey`, `UploadsAreOwn`. A restart of an owner is in it, too: its parameters
  are lost, but then the thread of the querier that sent them has ended.
  `UploadsAreSaved`: an owner that is in Uploaded has its whole set in the
  cloud's records. It needs the assumption `~ OpenMayFail` (a data file the cloud cannot open
  is skipped without a word, and the owner is told that all is well). `UploadTrue` follows
  an upload through both processes: the cloud serves exactly the request the owner waits for
  unless that owner was killed, the records are sized by the owner's own number of files, and,
  under that assumption (`UploadKept`), the files before the current one are in the records and
  the current one is from the end of the cloud's callback on. It is inductive together with
  `SysInv`.
* `SessionProofs`. What the first querier gets. `FirstInv` says of the first session that every
  record marked saved has its file on the disk, whole and under the key of that session, unless
  it is just being written again, and that nothing writes an owner's files once its last one is
  saved (`FirstDatas`); so a computation, which starts only with all records saved, reads whole
  files and has so far used exactly the files up to its position (`FirstCalc`). It is inductive with `SysInv` and `UploadsTrue`, and holds
  for as long as the first querier runs, whether or not others follow. Theorems: `FirstAnswerIsOwn` (what
  the first querier downloads is from the two whole sets under its key, for any number of
  sessions); and for `MaxSession = 1` `AnswersAreOwn`, `ReadsAreWhole`, and
  `SafelyKeepsPromise`, Spec => `PsiSession`'s, step by step. All but `FirstSession` assume `OwnNames`,
  that no file of one owner has the name of one of the other's.
  Both hypotheses are needed: run `stale_answer` is the second session, `equal_names` is
  `OwnNames` dropped.
* `StateProofs`. What the cloud's state object says of the system. `CountsInRange`, for any
  sessions, crashes and restarts, rests on `LeavesLate`: a querier that has got as far as its
  public key finds the cloud out of Init, and only its own disconnect takes it back there, so
  that disconnect never reaches an Init object. `Phase` says, of the first session and until an owner is started again
  (`Undisturbed`): the state is Init exactly until all three clients have joined or after the querier has left,
  Connected until key and all data are in, Ready until the result is (`StateSays`); no client is further in its
  script than that state allows (`InOrder`); and no event is applied to an object that was replaced
  (`RefsCurrent`), which is what excludes the lost and late events `Cloud` allows for.
  Theorems: `ConnectedIsAll` (of an undisturbed first session: out of Init, the cloud has counted the
  querier and each owner), `FirstRound` (its state moves only along the round of the state machine),
  both whatever follows; and `StatesMove` for `MaxSession = 1` and owners that are not started again:
  TLC finds `StateMoves` violated by one restart, as by a second session. A restart falsifies
  `ConnectedMeansAll`, too: the owner's second connection can be counted in place of another client's.
* `KeyFilesProofs`. `KeyInv` says that the key files change only while no client thread runs,
  that whatever a thread has read is what the files hold, and which pair is on the disk at each
  step of a generation. Theorems: `KeyTypeCorrect`, `OneKeyIsSent`, `PairsMatch`, `OwnKeyIsSent`.
* `AsyncEvalProofs`. The invariant says that the blocks of the tasks are
  consecutive and that an index counts as evaluated exactly if its task has
  passed it; so `AsyncTypeCorrect`, `TasksNeverRace`, `AllAreEvaluated`, and, as each evaluation
  is of an index not evaluated before, the refinement `AsyncIsOnce`.

* `PsicaProofs`. The whole computation, for any number of slots, size of the filters, number of
  hashes, hash function and sets. `PsicaInv` says that the merged filter is the packed filter of all
  elements of A (`Merged`), that every check made tells the truth about its element (`Tells`),
  and that the result file holds the rows of all checks. Three layers of lemmas carry it:
  a tournament in rounds is the AND or OR of all its elements, for sizes that are no power of
  two as well (`TournamentFacts`: after round k, element j*2^k stands for a run of 2^k);
  packing and padding neither lose nor invent a bit (`PackFacts`, `IncludedByPacks`); rotation gives each check a slot
  of its own, so that counting slots counts checks (`OwnSlotFacts`, `CountedSlots`).
  Theorems: `PsicaTypeCorrect`, `SlotsAreOwn` and `NothingLost`, which need nothing further: the product
  of a ciphertext of ones is one whatever the number of slots (`ProductOfOnes`). The other
  direction is false in general (run `eleven_slots`), so `CountIsExact` has a hypothesis
  on the numbers of slots of the querier-friendly protocol: `Exact(n)`, that the last slot of the product is 1 only if all n
  slots are. TLC meets it with 2, 3, 5 and 7 in run `psica`, and up to 16 only 11 and 15 fail;
  `ExactForPowers` proves it for every power of two. The code does not ensure it: the default `fheM` = 30269
  gives 329 slots, where it fails, so nothing beyond `NothingLost` is shown of the querier-friendly
  protocol with the default setting. The basic protocol has no product
  and needs no hypothesis.

  These proofs are about recursive functions. The library's induction theorems take an operator, which the
  provers cannot instantiate, but `WFMin` is about sets: `SetInduction` derives from it induction over
  subsets of `Nat`, and `Recursion` that a function defined by recursion over smaller numbers exists.

Model-checked only: liveness (`EndsUnlessFailed`, `Returns` and the answer in
`KeepsPromise`), which the prover cannot handle. Every safety property of the passing runs is
proved; those about what the first querier gets, under the hypotheses above.

## 6. Where the code departs from its documentation

Each of these is a run that TLC refutes, and an entry under `findings`.

* `stale_answer`. In the second session of the same cloud process the records are
  still all saved from the first, so the first data file of an owner makes the
  cloud ready while the other files are still those of the first querier. The
  second querier gets a result computed from ciphertexts under another key.
* `second_hangs`. For the same reason every later data file raises a StoreRequest,
  and one that reaches the state Computed takes the cloud back to Ready. If the
  compute request was already served, the download request is refused for ever.
* `crash_wedges`. An owner takes a key only in the state Connected. If a querier is
  killed after its parameters arrived, the owner stays in Ready or Uploaded. It lets the next
  querier connect, refuses its key for 60 s, and the client thread gives up; so will that of every
  later querier, since only a disconnect request leaves these states and a client sends
  one after its key. The owner's state diagram, `opsica_dataowner_state.png` (README.md:78), says
  otherwise: "Receive publickey" and "Receive parameters" lead from Ready back to Ready, and from
  Uploaded to Ready. The state classes handle both events there as well (by going to Connected with the
  other flag up, `opsica_dataowner_state.cpp:129-134, 168-173`), but the callbacks throw before they
  raise them (`opsica_dataowner_callback_function.cpp:77, 100`), so these transitions are never made.
* `equal_names`. The name of a data file in the cloud is made of the basename of the owner's
  input file and the index. If both owners' input files have the same basename (in different
  directories), the files of one overwrite those of the other, nothing notices, and the querier
  is told how many elements one owner has in common with itself.
* `eleven_slots`. `totalProduct` misses slots for some slot counts, among
  them 11, 15, 19, 21 to 23, and 329. An element whose filter differs only there is
  counted as common.

`StateMoves`, `NoTornRead` and `ConnectedMeansAll` hold for the first session only (section 5), and
`StateMoves` and `ConnectedMeansAll` only until an owner is started again, whose new connection can be counted for one
that is missing:
later sessions can read files while they are written, be moved back from Computed by
another owner's event, and after a querier that was killed while the cloud was in
Init, two queriers and one owner are counted as the three connections.

Smaller observations without a run: two sets of different size end in an exception in the
cloud (`opsica_psica.cpp:79`), so that the code that tells the larger set from the smaller never
has a choice; if a thread of the querier that talks to an owner fails, the one that waits for
the result waits for ever, since its compute and download requests have no timeout, and the
process with it (this is why `EndsUnlessFailed` and `PsiSession` allow for a failed thread);
`nmax` cannot be configured and is always 100, while the owners' files may be longer; a
probability of false positives of about one half or more gives filters without a hash, in which
everything is included, so that the rate of false positives is one; the diagram `opsica_cloud_state.png` has a self-loop of Computed on a compute event,
where the code goes to Ready (no querier's script sends it); that of the owner has, beside the edges
above, a self-loop of Uploaded on an upload request, which the callback refuses (and a StoreRequest event
there would lead to Ready, `opsica_dataowner_state.cpp:174`), and draws Connected to Ready as one
edge for the key and one for the parameters, where the code wants both; `nthreads` and `fhek` of the
configuration file have no effect on the cloud's computation.

## 7. What is assumed of code outside the repository

`stdsc`, the transport, as `src/` uses it:

* a server thread serves one connection at a time, and one request at a time;
* `STDSC_THROW_CALLBACK_IF_CHECK` tells the client of a refusal and leaves the
  server as it was; any other exception in a callback ends the request, and the
  client either fails or takes it for a refusal (`Broken`, `Unanswered`: both are tried);
* a request is neither lost nor served twice;
* when an owner is killed, the querier's thread that is connected to it meets an error at its
  next call, or at once if it waits; the cloud's port for the owner accepts the new process when
  it is done with the request of the old one;
* `StateContext::set` calls the current object's `set`, and `next_state` replaces
  the current object, as their use in the state classes shows.

HElib: `rotate` shifts slots cyclically to the right, a ciphertext behaves as its
plaintext slots over GF(2), an empty `Ctxt` is zero; noise is left out.
MurmurHash3 is the constant `Murmur`, which gives the two hash values of an element.

These definitions are marked `external` in `PROJECT.json`.

Of the file system: what the code writes or reads without a test succeeds. The places where it would go
on after a failure, and the model does not follow it, are:

* the public key file of the cloud (`opsica_cloud_callback_function.cpp:80`) and of an owner
  (`opsica_dataowner_callback_function.cpp:84`): opened and written in one expression, the event is raised
  anyway (`StorePubkey`, `HandlePubkey`), so a failure would leave the key of an earlier querier, or none;
* the write of a data file after its open (`opsica_cloud_data_manager.cpp:46-48`): the record is
  marked saved anyway (`WriteData`);
* the result file (`opsica_psica.cpp:325-330`): JoinRequest is raised anyway (`SaveResult`), so a
  querier would download an earlier result;
* an encrypted file that passes `file_exist` and `file_size` and then does not open
  (`opsica_dataowner_callback_function.cpp:154-166`): a buffer that was never written is sent and counted as
  uploaded. `FailSend` is the exception of lines 145-150 alone.

What the properties say of keys, records and results (`ReadyMeansStored`, `ComputedMeansResult`,
`AnswerIsOwn`, `AnswerUnderOwnKey`, `UploadPrepared`, `UploadedMeansSent`, `UploadedMeansSaved`) is under
this assumption. Modelled are the failures the code tests for: the open of a data file in the cloud (`OpenMayFail`),
the files of an upload (`FileMayFail`), and the key files of the querier (`KeyFiles`).

Of the way the programs are run: owners have at least one element; their input
files have different basenames (as in `demo.sh`), except in run `equal_names`; each program has
a working directory of its own, that of the cloud empty at the start, and in `equal_names` each
owner an output directory of its own, too (by default both use `/tmp`); and queriers run one after
the other, in one directory for the key files. The number of hashes is at least 1
and fits eight bits (`PsicaAssumption`; it is 9 by default), and logarithms are taken to four digits.

## 8. What is not modelled

* A restart of the cloud. It reads nothing back at the start, and whether the clients of
  broken connections reconnect, fail or wait is up to `stdsc`.
* Queriers that run at the same time. The second one's connection waits at a port until the
  first one's is closed, or is served by the same thread: `stdsc` decides.
* The configuration file: a sequential parser of lines `key = value`, run once before
  anything else starts; its values are constants here (`Settings`), and fheM decides whether
  `GenerateThrows` happens.
* Of the utilities `split`, which serves the configuration, and `isdigit` and `getenv`, which
  have no caller; logging; the hash, which is vendored.
* `seckey_size` and `seckey_data`, which have no caller.
* The branch `ENABLE_PARALLEL` of `encryptBFs`, which no build file defines.
* The states `Exit`, which nothing installs.
* The OR and XOR with a constant in `opsica_function.cpp`, whose results no
  caller uses.

## 9. Plan

Done, in this order, the most important behaviour first: the cloud with its races
(`CloudState`, `Cloud`); the owners; the querier and the composition with the abstract
`PsiSession`; `AsyncEval` with `EachOnce`; `Slots` and `Psica`; the proofs of these; then the
names of the data files, uploads that fail, owners that start again, and what they mean for the
whole system; the Bloom filters; the key files; the uploads (`OpsicaProofs`) and `KeyFilesProofs`;
the first session, `SessionProofs` and `StateProofs`; and the computation, `PsicaProofs`.

Left, proving more: for which numbers of slots beyond the powers of two `Exact` holds, which
takes the shifts of `productSet` apart digit by digit.

Left, modelling more: the writes without a test of section 7, as failures.

And modelling more, if `stdsc` is at hand: its retries and connections, with which concurrent
queriers and a restart of the cloud could be modelled faithfully.
