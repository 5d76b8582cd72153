------------------------------ MODULE KeyFiles ------------------------------
(***************************************************************************)
(* The querier's key files.  Queriers run one after the other in the same  *)
(* directory.  One that is started with -g generates a key pair and writes *)
(* the public key file, then the secret key file, neither of which it      *)
(* tests; then its three client threads each look for the files, take the  *)
(* size of the public one and read it, and the cloud's thread decrypts the *)
(* result with the secret one.  A querier may be killed at any time.       *)
(*                                                                         *)
(* A key pair stands for the querier that generated it, by its number.     *)
(***************************************************************************)
EXTENDS Naturals

CONSTANTS
  MaxQuerier,    \* bound on the number of querier processes
  FileMayFail    \* may a key file fail to open or to be written?

ASSUME KeyFilesAssumption == MaxQuerier \in Nat /\ FileMayFail \in BOOLEAN

Client == {"Q", "A", "B"}
Kind   == {"public", "secret"}

\* What a file holds: a key of a generation, all of it or only a part.
Content  == [gen : 0 .. MaxQuerier, whole : BOOLEAN]
Whole(n) == [gen |-> n, whole |-> TRUE]
Part(n)  == [gen |-> n, whole |-> FALSE]
None     == Part(0)                       \* no file, nothing read

VARIABLES
  disk,       \* the two key files
  main,       \* where the querier's main thread is
  querier,    \* the number of queriers started so far
  own,        \* was the one that runs started with -g?
  thread,     \* where its client threads are
  size,       \* per client thread, the key whose size its buffer has
  sent,       \* per client thread, the key it read and sends
  used,       \* the secret key the result was decrypted with
  spoilt      \* did the last generation to write the files write less than all?

keyVars == <<disk, main, querier, own, thread, size, sent, used, spoilt>>

KeyTypeOK ==
  /\ disk \in [Kind -> Content]
  /\ main \in {"off", "generate", "public", "between", "secret", "exec"}
  /\ querier \in 0 .. MaxQuerier
  /\ own \in BOOLEAN
  /\ thread \in [Client -> {"off", "exist", "size", "read", "wait", "done", "failed"}]
  /\ size \in [Client -> Content]
  /\ sent \in [Client -> Content]
  /\ used \in Content
  /\ spoilt \in BOOLEAN

Nothing == [t \in Client |-> None]
All(label) == [t \in Client |-> label]

KeyInit ==
  /\ disk = [f \in Kind |-> None]
  /\ main = "off"
  /\ querier = 0
  /\ own = FALSE
  /\ thread = All("off")
  /\ size = Nothing
  /\ sent = Nothing
  /\ used = None
  /\ spoilt = FALSE
-----------------------------------------------------------------------------
\* Defect: the client threads are started before the keys are generated.
LaunchAtOnce(generate) ==
  /\ main = "off"
  /\ querier < MaxQuerier
  /\ querier' = querier + 1
  /\ own' = generate
  /\ main' = IF generate THEN "generate" ELSE "exec"
  /\ thread' = All("exist")
  /\ UNCHANGED <<disk, size, sent, used, spoilt>>

\* Defect: keys are generated only if there is no public key file.
LaunchKeeping(generate) ==
  /\ main = "off"
  /\ querier < MaxQuerier
  /\ querier' = querier + 1
  /\ own' = generate
  /\ \/ generate /\ disk["public"] = None /\ main' = "generate" /\ UNCHANGED thread
     \/ disk["public"] # None /\ main' = "exec" /\ thread' = All("exist")
  /\ UNCHANGED <<disk, size, sent, used, spoilt>>

\* A querier starts, with or without -g.
Launch(generate) ==
  /\ main = "off"
  /\ querier < MaxQuerier
  /\ querier' = querier + 1
  /\ own' = generate
  /\ \/ generate /\ main' = "generate" /\ UNCHANGED thread
     \/ ~ generate /\ main' = "exec" /\ thread' = All("exist")
  /\ UNCHANGED <<disk, size, sent, used, spoilt>>

\* Defect: the context is tested after the public key was written.
GenerateThrowsLate ==
  /\ main = "between"
  /\ main' = "off"
  /\ UNCHANGED <<disk, querier, own, thread, size, sent, used, spoilt>>

\* initialize() does not like the context for fheM and throws.
GenerateThrows ==
  /\ main = "generate"
  /\ main' = "off"
  /\ UNCHANGED <<disk, querier, own, thread, size, sent, used, spoilt>>

\* Defect: the file is not truncated, and holds more than one generation.
OpenPublicAppends ==
  /\ main = "generate"
  /\ disk' = [disk EXCEPT !["public"] = Part(disk["public"].gen + querier)]
  /\ spoilt' = FALSE
  /\ main' = "public"
  /\ UNCHANGED <<querier, own, thread, size, sent, used>>

\* The file is opened and truncated.
OpenPublic ==
  /\ main = "generate"
  /\ disk' = [disk EXCEPT !["public"] = Part(querier)]
  /\ spoilt' = FALSE
  /\ main' = "public"
  /\ UNCHANGED <<querier, own, thread, size, sent, used>>

OpenSecret ==
  /\ main = "between"
  /\ disk' = [disk EXCEPT !["secret"] = Part(querier)]
  /\ main' = "secret"
  /\ UNCHANGED <<querier, own, thread, size, sent, used, spoilt>>

WritePublic ==
  /\ main = "public"
  /\ disk' = [disk EXCEPT !["public"] = Whole(querier)]
  /\ main' = "between"
  /\ UNCHANGED <<querier, own, thread, size, sent, used, spoilt>>

WriteSecret ==
  /\ main = "secret"
  /\ disk' = [disk EXCEPT !["secret"] = Whole(querier)]
  /\ main' = "exec"
  /\ thread' = All("exist")
  /\ UNCHANGED <<querier, own, size, sent, used, spoilt>>

(* A file that cannot be opened stays as it was, one that cannot be        *)
(* written holds a part; nobody notices.                                   *)
PublicFails ==
  /\ FileMayFail
  /\ main \in {"generate", "public"}
  /\ main' = "between"
  /\ spoilt' = TRUE
  /\ UNCHANGED <<disk, querier, own, thread, size, sent, used>>

SecretFails ==
  /\ FileMayFail
  /\ main \in {"between", "secret"}
  /\ main' = "exec"
  /\ thread' = All("exist")
  /\ spoilt' = TRUE
  /\ UNCHANGED <<disk, querier, own, size, sent, used>>
-----------------------------------------------------------------------------
At(t, label)     == thread[t] = label
Becomes(t, label) == thread' = [thread EXCEPT ![t] = label]

\* The files that a client thread wants to exist.
Wants(t) == IF t = "Q" THEN Kind ELSE {"public"}

Exist(t) ==
  /\ At(t, "exist")
  /\ Becomes(t, IF \A f \in Wants(t) : disk[f] # None THEN "size" ELSE "failed")
  /\ UNCHANGED <<disk, main, querier, own, size, sent, used, spoilt>>

\* pubkey_size, once connected
TakeSize(t) ==
  /\ At(t, "size")
  /\ size' = [size EXCEPT ![t] = disk["public"]]
  /\ Becomes(t, "read")
  /\ UNCHANGED <<disk, main, querier, own, sent, used, spoilt>>

\* pubkey_data, which takes the size anew
ReadPublic(t) ==
  /\ At(t, "read")
  /\ sent' = [sent EXCEPT ![t] = disk["public"]]
  /\ Becomes(t, "wait")
  /\ UNCHANGED <<disk, main, querier, own, size, used, spoilt>>

\* The server was served to the end; the cloud's answer is then decrypted.
Done(t) ==
  /\ At(t, "wait")
  /\ used' = IF t = "Q" THEN disk["secret"] ELSE used
  /\ Becomes(t, "done")
  /\ UNCHANGED <<disk, main, querier, own, size, sent, spoilt>>

\* No connection, no answer, or a broken one: before the key is sent or after.
ServerFails(t) ==
  /\ thread[t] \in {"size", "wait"}
  /\ Becomes(t, "failed")
  /\ UNCHANGED <<disk, main, querier, own, size, sent, used, spoilt>>
-----------------------------------------------------------------------------
\* What a process leaves when it ends.
Gone == /\ main' = "off"
        /\ own' = FALSE
        /\ thread' = All("off")
        /\ size' = Nothing
        /\ sent' = Nothing
        /\ used' = None
        /\ UNCHANGED <<disk, querier>>

\* exec waits for its three clients.
Exit ==
  /\ main = "exec"
  /\ \A t \in Client : thread[t] \in {"done", "failed"}
  /\ Gone
  /\ UNCHANGED spoilt

Kill ==
  /\ main # "off"
  /\ spoilt' = (spoilt \/ main \in {"public", "between", "secret"})
  /\ Gone

Generation == \/ GenerateThrows
              \/ OpenPublic
              \/ WritePublic
              \/ OpenSecret
              \/ WriteSecret
              \/ PublicFails
              \/ SecretFails

ClientStep(t) == Exist(t) \/ TakeSize(t) \/ ReadPublic(t) \/ Done(t) \/ ServerFails(t)

KeyNext == \/ \E generate \in BOOLEAN : Launch(generate)
           \/ Generation
           \/ \E t \in Client : ClientStep(t)
           \/ Exit
           \/ Kill

KeySpec == KeyInit /\ [][KeyNext]_keyVars
-----------------------------------------------------------------------------
HasRead(t) == sent[t] # None

(* The three client threads of a querier send the same key, to the cloud   *)
(* and to both owners, and none reads more than its buffer holds, though   *)
(* each opens the file itself and twice (cloud_client.cpp:73-74).          *)
OneKeySent == \A t \in Client : HasRead(t) => /\ sent[t] = size[t]
                                              /\ \A u \in Client : HasRead(u) => sent[u] = sent[t]

(* What a querier sends is a whole public key and what it decrypts with is *)
(* the secret key of the same pair, whether the pair is its own or was     *)
(* left by another and whatever generations threw, unless the last one to  *)
(* open the files was killed or failed (filemanager.cpp:70-82).            *)
PairMatches ==
  ~ spoilt => \A t \in Client : HasRead(t) => /\ sent[t].whole
                                              /\ used \in {None, sent[t]}

(* A querier started with -g sends the key it generated, not one it found. *)
OwnKeySent ==
  own /\ ~ spoilt => \A t \in Client : HasRead(t) => sent[t] = Whole(querier)
=============================================================================
