--------------------------- MODULE KeyFilesProofs ---------------------------
(***************************************************************************)
(* Proofs about the querier's key files, for any number of queriers.  The  *)
(* files are only written while no client thread runs, so whatever a       *)
(* thread has read is what the files hold; and the pair on the disk is     *)
(* followed through the steps of a generation.                             *)
(***************************************************************************)
EXTENDS KeyFiles, TLAPS

\* Client threads run, and have read anything, only in exec.
OnlyInExec == main # "exec" => /\ \A t \in Client : thread[t] = "off"
                               /\ size = Nothing /\ sent = Nothing /\ used = None

\* What was read is on the disk.
AsOnDisk ==
  /\ \A t \in Client : /\ thread[t] = "read" => size[t] = disk["public"]
                       /\ HasRead(t) => /\ size[t] = disk["public"]
                                        /\ sent[t] = disk["public"]
  /\ used # None => used = disk["secret"]

\* The pair on the disk, between generations and within one.
PairOnDisk ==
  ~ spoilt => /\ main \in {"off", "generate", "exec"}
                   => /\ disk["public"] = disk["secret"]
                      /\ disk["public"] # None => disk["public"].whole
              /\ main \in {"between", "secret"} => disk["public"] = Whole(querier)
              /\ own /\ main = "exec" => disk["public"] = Whole(querier)

KeyInv == KeyTypeOK /\ OnlyInExec /\ AsOnDisk /\ PairOnDisk
-----------------------------------------------------------------------------
LEMMA Contents ==
  /\ None \in Content
  /\ \A n \in 0 .. MaxQuerier : Whole(n) \in Content /\ Part(n) \in Content
  /\ \A n : Whole(n).whole
  <1>1. 0 \in 0 .. MaxQuerier
      BY KeyFilesAssumption
  <1> QED BY <1>1 DEF None, Content, Whole, Part

LEMMA KeyInitInv == ASSUME KeyInit PROVE KeyInv
  <1>1. KeyTypeOK
      <2>1. 0 \in 0 .. MaxQuerier
          BY KeyFilesAssumption
      <2>2. None \in Content
          BY Contents
      <2>3. disk \in [Kind -> Content] /\ size \in [Client -> Content]
            /\ sent \in [Client -> Content] /\ used \in Content
          BY <2>2 DEF KeyInit, Nothing
      <2> QED BY <2>1, <2>3 DEF KeyInit, KeyTypeOK, All
  <1>2. OnlyInExec /\ AsOnDisk /\ PairOnDisk
      BY DEF KeyInit, OnlyInExec, AsOnDisk, PairOnDisk, HasRead, All, Nothing, Kind
  <1> QED BY <1>1, <1>2 DEF KeyInv

LEMMA LaunchInv ==
  ASSUME KeyInv, NEW generate \in BOOLEAN, Launch(generate) PROVE KeyInv'
  <1> USE DEF KeyInv, Launch
  <1>1. querier' \in 0 .. MaxQuerier
      BY KeyFilesAssumption DEF KeyTypeOK
  <1>2. KeyTypeOK'
      BY <1>1 DEF KeyTypeOK, All
  <1>3. OnlyInExec'
      BY DEF OnlyInExec, All
  <1>4. AsOnDisk'
      BY DEF OnlyInExec, AsOnDisk, HasRead, All, Nothing
  <1>5. PairOnDisk'
      BY DEF PairOnDisk
  <1> QED BY <1>2, <1>3, <1>4, <1>5

LEMMA GenerationInv == ASSUME KeyInv, Generation PROVE KeyInv'
  <1> USE DEF KeyInv
  <1>0. querier \in 0 .. MaxQuerier /\ disk \in [Kind -> Content]
      BY DEF KeyTypeOK
  <1>1. CASE GenerateThrows
      <2>1. KeyTypeOK' BY <1>1 DEF GenerateThrows, KeyTypeOK
      <2>2. OnlyInExec' /\ AsOnDisk' /\ PairOnDisk'
          BY <1>1 DEF GenerateThrows, OnlyInExec, AsOnDisk, PairOnDisk, HasRead
      <2> QED BY <2>1, <2>2
  <1>2. CASE OpenPublic
      <2>1. KeyTypeOK' BY <1>0, <1>2, Contents DEF OpenPublic, KeyTypeOK
      <2>2. OnlyInExec' /\ AsOnDisk' /\ PairOnDisk'
          BY <1>2 DEF OpenPublic, OnlyInExec, AsOnDisk, PairOnDisk, HasRead, Nothing
      <2> QED BY <2>1, <2>2
  <1>3. CASE WritePublic
      <2>1. KeyTypeOK' BY <1>0, <1>3, Contents DEF WritePublic, KeyTypeOK
      <2>2. disk'["public"] = Whole(querier)
          BY <1>0, <1>3 DEF WritePublic, Kind
      <2>3. OnlyInExec' /\ AsOnDisk' /\ PairOnDisk'
          BY <1>3, <2>2 DEF WritePublic, OnlyInExec, AsOnDisk, PairOnDisk, HasRead, Nothing
      <2> QED BY <2>1, <2>3
  <1>4. CASE OpenSecret
      <2>1. KeyTypeOK' BY <1>0, <1>4, Contents DEF OpenSecret, KeyTypeOK
      <2>2. disk'["public"] = disk["public"]
          BY <1>0, <1>4 DEF OpenSecret, Kind
      <2>3. OnlyInExec' /\ AsOnDisk' /\ PairOnDisk'
          BY <1>4, <2>2 DEF OpenSecret, OnlyInExec, AsOnDisk, PairOnDisk, HasRead, Nothing
      <2> QED BY <2>1, <2>3
  <1>5. CASE WriteSecret
      <2>1. KeyTypeOK' BY <1>0, <1>5, Contents DEF WriteSecret, KeyTypeOK, All
      <2>2. disk'["public"] = disk["public"] /\ disk'["secret"] = Whole(querier)
          BY <1>0, <1>5 DEF WriteSecret, Kind
      <2>3. OnlyInExec' /\ AsOnDisk'
          BY <1>5, <2>2 DEF WriteSecret, OnlyInExec, AsOnDisk, HasRead, Nothing, All
      <2>4. PairOnDisk'
          BY <1>5, <2>2, Contents DEF WriteSecret, PairOnDisk
      <2> QED BY <2>1, <2>3, <2>4
  <1>6. CASE PublicFails
      <2>1. KeyTypeOK' BY <1>6 DEF PublicFails, KeyTypeOK
      <2>2. OnlyInExec' /\ AsOnDisk' /\ PairOnDisk'
          BY <1>6 DEF PublicFails, OnlyInExec, AsOnDisk, PairOnDisk, HasRead
      <2> QED BY <2>1, <2>2
  <1>7. CASE SecretFails
      <2>1. KeyTypeOK' BY <1>7 DEF SecretFails, KeyTypeOK, All
      <2>2. OnlyInExec' /\ AsOnDisk' /\ PairOnDisk'
          BY <1>7 DEF SecretFails, OnlyInExec, AsOnDisk, PairOnDisk, HasRead, Nothing, All
      <2> QED BY <2>1, <2>2
  <1> QED BY <1>1, <1>2, <1>3, <1>4, <1>5, <1>6, <1>7 DEF Generation

LEMMA ClientInv ==
  ASSUME KeyInv, NEW t \in Client, ClientStep(t) PROVE KeyInv'
  <1> USE DEF KeyInv, At, Becomes
  <1>0. main = "exec"
      <2>1. thread[t] # "off"
          BY DEF ClientStep, Exist, TakeSize, ReadPublic, Done, ServerFails
      <2> QED BY <2>1 DEF OnlyInExec
  <1>a. /\ thread \in [Client -> {"off", "exist", "size", "read", "wait", "done", "failed"}]
        /\ size \in [Client -> Content] /\ sent \in [Client -> Content]
        /\ disk["public"] \in Content /\ disk["secret"] \in Content
      BY DEF KeyTypeOK, Kind
  <1>1. CASE Exist(t)
      <2>1. KeyTypeOK' BY <1>1, <1>a DEF Exist, KeyTypeOK
      <2>2. AsOnDisk' BY <1>1, <1>a DEF Exist, AsOnDisk, HasRead
      <2>3. OnlyInExec' /\ PairOnDisk' BY <1>0, <1>1 DEF Exist, OnlyInExec, PairOnDisk
      <2> QED BY <2>1, <2>2, <2>3
  <1>2. CASE TakeSize(t)
      <2>1. KeyTypeOK' BY <1>2, <1>a DEF TakeSize, KeyTypeOK
      <2>2. AsOnDisk' BY <1>2, <1>a DEF TakeSize, AsOnDisk, HasRead
      <2>3. OnlyInExec' /\ PairOnDisk' BY <1>0, <1>2 DEF TakeSize, OnlyInExec, PairOnDisk
      <2> QED BY <2>1, <2>2, <2>3
  <1>3. CASE ReadPublic(t)
      <2>1. KeyTypeOK' BY <1>3, <1>a DEF ReadPublic, KeyTypeOK
      <2>2. AsOnDisk' BY <1>3, <1>a DEF ReadPublic, AsOnDisk, HasRead
      <2>3. OnlyInExec' /\ PairOnDisk' BY <1>0, <1>3 DEF ReadPublic, OnlyInExec, PairOnDisk
      <2> QED BY <2>1, <2>2, <2>3
  <1>4. CASE Done(t)
      <2>1. KeyTypeOK' BY <1>4, <1>a DEF Done, KeyTypeOK
      <2>2. AsOnDisk' BY <1>4, <1>a DEF Done, AsOnDisk, HasRead
      <2>3. OnlyInExec' /\ PairOnDisk' BY <1>0, <1>4 DEF Done, OnlyInExec, PairOnDisk
      <2> QED BY <2>1, <2>2, <2>3
  <1>5. CASE ServerFails(t)
      <2>1. KeyTypeOK' BY <1>5, <1>a DEF ServerFails, KeyTypeOK
      <2>2. AsOnDisk' BY <1>5, <1>a DEF ServerFails, AsOnDisk, HasRead
      <2>3. OnlyInExec' /\ PairOnDisk' BY <1>0, <1>5 DEF ServerFails, OnlyInExec, PairOnDisk
      <2> QED BY <2>1, <2>2, <2>3
  <1> QED BY <1>1, <1>2, <1>3, <1>4, <1>5 DEF ClientStep

LEMMA GoneInv ==
  ASSUME KeyInv, Exit \/ Kill PROVE KeyInv'
  <1> USE DEF KeyInv, Exit, Kill
  <1>1. Gone
      BY DEF Exit, Kill
  <1>2. KeyTypeOK'
      BY <1>1, Contents DEF KeyTypeOK, Gone, All, Nothing
  <1>3. OnlyInExec' /\ AsOnDisk'
      BY <1>1 DEF OnlyInExec, AsOnDisk, HasRead, Gone, All, Nothing
  <1>4. PairOnDisk'
      <2>1. disk' = disk /\ main' = "off" /\ own' = FALSE
          BY <1>1 DEF Gone
      <2>2. ~ spoilt' => ~ spoilt /\ main \in {"off", "generate", "exec"}
          BY DEF KeyTypeOK
      <2> QED BY <2>1, <2>2 DEF PairOnDisk
  <1> QED BY <1>2, <1>3, <1>4

THEOREM KeyInvariant == KeySpec => []KeyInv
  <1>1. KeyInit => KeyInv
      BY KeyInitInv
  <1>2. KeyInv /\ [KeyNext]_keyVars => KeyInv'
      <2> SUFFICES ASSUME KeyInv, [KeyNext]_keyVars PROVE KeyInv'
          OBVIOUS
      <2>1. CASE UNCHANGED keyVars
          BY <2>1 DEF keyVars, KeyInv, KeyTypeOK, OnlyInExec, AsOnDisk, PairOnDisk, HasRead
      <2>2. CASE \E generate \in BOOLEAN : Launch(generate)
          BY <2>2, LaunchInv
      <2>3. CASE Generation
          BY <2>3, GenerationInv
      <2>4. CASE \E t \in Client : ClientStep(t)
          BY <2>4, ClientInv
      <2>5. CASE Exit \/ Kill
          BY <2>5, GoneInv
      <2> QED BY <2>1, <2>2, <2>3, <2>4, <2>5 DEF KeyNext
  <1> QED BY <1>1, <1>2, PTL DEF KeySpec
-----------------------------------------------------------------------------
(* The key files and the threads that read them stay within their types    *)
(* (securekey_filemanager.cpp).                                            *)
THEOREM KeyTypeCorrect == KeySpec => []KeyTypeOK
  <1>1. KeyInv => KeyTypeOK
      BY DEF KeyInv
  <1> QED BY <1>1, KeyInvariant, PTL

(* The three client threads of a querier send one and the same key, read   *)
(* into buffers of its size (cloud_client.cpp:73, dataowner_client.cpp:63). *)
THEOREM OneKeyIsSent == KeySpec => []OneKeySent
  <1>1. KeyInv => OneKeySent
      BY DEF KeyInv, AsOnDisk, OneKeySent
  <1> QED BY <1>1, KeyInvariant, PTL

(* A querier decrypts with the secret key of the public key it sent, unless *)
(* the last generation to open the files was killed or failed.             *)
THEOREM PairsMatch == KeySpec => []PairMatches
  <1>1. KeyInv => PairMatches
      <2> SUFFICES ASSUME KeyInv, ~ spoilt, NEW t \in Client, HasRead(t)
                   PROVE  sent[t].whole /\ used \in {None, sent[t]}
          BY DEF PairMatches
      <2>1. main = "exec"
          BY DEF KeyInv, OnlyInExec, HasRead, Nothing
      <2>2. sent[t] = disk["public"] /\ sent[t] # None
          BY DEF KeyInv, AsOnDisk, HasRead
      <2>3. disk["public"] = disk["secret"] /\ disk["public"].whole
          BY <2>1, <2>2 DEF KeyInv, PairOnDisk
      <2> QED BY <2>2, <2>3 DEF KeyInv, AsOnDisk
  <1> QED BY <1>1, KeyInvariant, PTL

(* A querier started with -g sends the key it generated (main.cpp:78).     *)
THEOREM OwnKeyIsSent == KeySpec => []OwnKeySent
  <1>1. KeyInv => OwnKeySent
      <2> SUFFICES ASSUME KeyInv, own, ~ spoilt, NEW t \in Client, HasRead(t)
                   PROVE  sent[t] = Whole(querier)
          BY DEF OwnKeySent
      <2>1. main = "exec"
          BY DEF KeyInv, OnlyInExec, HasRead, Nothing
      <2> QED BY <2>1 DEF KeyInv, AsOnDisk, PairOnDisk
  <1> QED BY <1>1, KeyInvariant, PTL
=============================================================================
