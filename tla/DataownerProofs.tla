-------------------------- MODULE DataownerProofs ---------------------------
(***************************************************************************)
(* A data owner encrypts and uploads only with a key and parameters it was *)
(* sent, for any number of files and keys and any order of requests.       *)
(***************************************************************************)
EXTENDS Dataowner, TLAPS

(* What an owner's state object says about what it has received.           *)
Received(o) ==
  /\ dstate[o].id = "Connected" /\ "PubKeyStore" \in dstate[o].flags => dkey[o] # NoKey
  /\ dstate[o].id = "Connected" /\ "FpmaxStore" \in dstate[o].flags => dparam[o] # NoKey
  /\ dstate[o].id \in {"Ready", "Uploaded"} => dkey[o] # NoKey /\ dparam[o] # NoKey

Uploading(o) ==
  dpc[o] = "upload" => /\ dstate[o].id = "Ready"
                       /\ enc[o] = dkey[o]
                       /\ sent[o] < NumFiles[o]

DoInv == DoTypeOK /\ \A o \in Owner : Received(o) /\ Uploading(o)
-----------------------------------------------------------------------------
(* Every event leads from a state object to a state object. *)
LEMMA DoNextType ==
  ASSUME NEW obj \in DoObject, NEW event \in DoEvent
  PROVE  DoNext(obj, event) \in DoObject
  <1> USE DEF DoObject, DoObj, DoStateId
  <1>1. obj.id \in DoStateId /\ obj.flags \in SUBSET (Links \cup Material)
      OBVIOUS
  <1>2. ASSUME NEW flags \in SUBSET (Links \cup Material)
        PROVE  DoNextInit(flags, event) \in DoObject
      BY DEF DoNextInit, DoInitOr
  <1>3. ASSUME NEW flags \in SUBSET (Links \cup Material)
        PROVE  DoNextConnected(flags, event) \in DoObject
      BY DEF DoNextConnected, DoConnectedOr, DoDisconnected, Links
  <1>4. ASSUME NEW id \in DoStateId
        PROVE  DoNextStored(id, event) \in DoObject
      BY DEF DoNextStored, DoDisconnected, Links
  <1> QED BY <1>1, <1>2, <1>3, <1>4 DEF DoNext

(* A Connected object has a flag up only if the object before it had, or   *)
(* the event raises it; a Ready or Uploaded one has both, in that sense.   *)
LEMMA DoNextFlags ==
  ASSUME NEW obj \in DoObject, NEW event \in DoEvent, NEW m \in Material,
         LET next == DoNext(obj, event)
         IN  \/ next.id = "Connected" /\ m \in next.flags
             \/ next.id \in {"Ready", "Uploaded"}
  PROVE  \/ event = m
         \/ obj.id = "Connected" /\ m \in obj.flags
         \/ obj.id \in {"Ready", "Uploaded"}
  BY DEF DoObject, DoObj, DoStateId, DoNext, DoNextInit, DoNextConnected,
         DoNextStored, DoInitOr, DoConnectedOr, DoDisconnected, Links, Material, DoEvent

(* The shape of a step of an owner: at most its own state object changes,  *)
(* by one event, and its key or parameters only with their event.          *)
LEMMA ReceivedKept ==
  ASSUME DoTypeOK, NEW o \in Owner, NEW event \in DoEvent, Received(o),
         dstate'[o] = DoNext(dstate[o], event),
         dkey'[o] = dkey[o] \/ dkey'[o] # NoKey,
         event = "PubKeyStore" => dkey'[o] # NoKey,
         dparam'[o] = dparam[o] \/ dparam'[o] # NoKey,
         event = "FpmaxStore" => dparam'[o] # NoKey
  PROVE  Received(o)'
  <1>1. dstate[o] \in DoObject
      BY DEF DoTypeOK
  <1>2. "PubKeyStore" \in Material /\ "FpmaxStore" \in Material
      BY DEF Material
  <1>3. \/ dstate'[o].id = "Connected" /\ "PubKeyStore" \in dstate'[o].flags
        \/ dstate'[o].id \in {"Ready", "Uploaded"}
        => dkey'[o] # NoKey
      BY <1>1, <1>2, DoNextFlags DEF Received
  <1>4. \/ dstate'[o].id = "Connected" /\ "FpmaxStore" \in dstate'[o].flags
        \/ dstate'[o].id \in {"Ready", "Uploaded"}
        => dparam'[o] # NoKey
      BY <1>1, <1>2, DoNextFlags DEF Received
  <1> QED BY <1>3, <1>4 DEF Received
-----------------------------------------------------------------------------
LEMMA DoInitInv == DoInit => DoInv
  BY DataownerAssumption
  DEF DoInit, DoInv, DoTypeOK, Received, Uploading, DoObject, DoObj, DoStateId

(* Per action: the types, and what it says of its own owner.               *)
LEMMA ConnectCloudInv ==
  ASSUME DoInv, NEW o \in Owner, ConnectCloud(o) PROVE DoInv'
  <1>1. "ConnectSocketToCloud" \in DoEvent
      BY DEF DoEvent, Links
  <1>2. DoNext(dstate[o], "ConnectSocketToCloud") \in DoObject
      BY <1>1, DoNextType DEF DoInv, DoTypeOK
  <1>3. DoTypeOK'
      BY <1>2 DEF DoInv, DoTypeOK, ConnectCloud, Raise, DoGoto
  <1>4. Received(o)'
      <2>1. dstate'[o] = DoNext(dstate[o], "ConnectSocketToCloud")
          BY DEF DoInv, DoTypeOK, ConnectCloud, Raise
      <2>2. dkey' = dkey /\ dparam' = dparam
          BY DEF ConnectCloud
      <2> QED BY <1>1, <2>1, <2>2, ReceivedKept DEF DoInv
  <1>5. Uploading(o)'
      BY DEF DoInv, DoTypeOK, ConnectCloud, DoGoto, Uploading
  <1>6. \A p \in Owner : p # o => Received(p)' /\ Uploading(p)'
      BY DEF DoInv, DoTypeOK, ConnectCloud, Raise, DoGoto, Received, Uploading
  <1> QED BY <1>3, <1>4, <1>5, <1>6 DEF DoInv

LEMMA HandleInv ==
  ASSUME DoInv, NEW o \in Owner, NEW r \in DoRequest, Handle(o, r) PROVE DoInv'
  <1> USE DEF DoInv
  <1>1. CASE HandleLink(o, r)
      <2> DEFINE event == IF r.op = "connect" THEN "ConnectSocketFromQuerier"
                                              ELSE "DisconnectSocketFromQuerier"
      <2>1. event \in DoEvent /\ event # "PubKeyStore" /\ event # "FpmaxStore"
          BY DEF DoEvent, Links
      <2>2. dstate' = [dstate EXCEPT ![o] = DoNext(@, event)]
          BY <1>1 DEF HandleLink, Raise
      <2> HIDE DEF event
      <2>3. DoNext(dstate[o], event) \in DoObject
          BY <2>1, DoNextType DEF DoTypeOK
      <2>4. DoTypeOK'
          BY <1>1, <2>2, <2>3 DEF DoTypeOK, HandleLink, DoGoto
      <2>5. Received(o)'
          <3>1. dstate'[o] = DoNext(dstate[o], event)
              BY <2>2 DEF DoTypeOK
          <3>2. dkey' = dkey /\ dparam' = dparam
              BY <1>1 DEF HandleLink
          <3> QED BY <2>1, <3>1, <3>2, ReceivedKept
      <2>6. Uploading(o)'
          BY <1>1 DEF DoTypeOK, HandleLink, DoGoto, Uploading
      <2>7. \A p \in Owner : p # o => Received(p)' /\ Uploading(p)'
          BY <1>1, <2>2 DEF DoTypeOK, HandleLink, DoGoto, Received, Uploading
      <2> QED BY <2>4, <2>5, <2>6, <2>7
  <1>2. CASE HandlePubkey(o, r)
      <2>1. r.key \in Key /\ r.key # NoKey
          BY <1>2, KeyAssumption DEF HandlePubkey, DoRequest
      <2>2. "PubKeyStore" \in DoEvent
          BY DEF DoEvent, Material
      <2>3. DoNext(dstate[o], "PubKeyStore") \in DoObject
          BY <2>2, DoNextType DEF DoTypeOK
      <2>4. DoTypeOK'
          BY <1>2, <2>1, <2>3 DEF DoTypeOK, HandlePubkey, Raise, DoGoto
      <2>5. Received(o)'
          <3>1. dstate'[o] = DoNext(dstate[o], "PubKeyStore")
              BY <1>2 DEF DoTypeOK, HandlePubkey, Raise
          <3>2. dkey'[o] # NoKey /\ dparam' = dparam
              BY <1>2, <2>1 DEF DoTypeOK, HandlePubkey
          <3> QED BY <2>2, <3>1, <3>2, ReceivedKept
      <2>6. Uploading(o)'
          BY <1>2 DEF DoTypeOK, HandlePubkey, DoGoto, Uploading
      <2>7. \A p \in Owner : p # o => Received(p)' /\ Uploading(p)'
          BY <1>2 DEF DoTypeOK, HandlePubkey, Raise, DoGoto, Received, Uploading
      <2> QED BY <2>4, <2>5, <2>6, <2>7
  <1>3. CASE HandleFpmax(o, r)
      <2>1. r.key \in Key /\ r.key # NoKey
          BY <1>3, KeyAssumption DEF HandleFpmax, DoRequest
      <2>2. "FpmaxStore" \in DoEvent
          BY DEF DoEvent, Material
      <2>3. DoNext(dstate[o], "FpmaxStore") \in DoObject
          BY <2>2, DoNextType DEF DoTypeOK
      <2>4. DoTypeOK'
          BY <1>3, <2>1, <2>3 DEF DoTypeOK, HandleFpmax, Raise, DoGoto
      <2>5. Received(o)'
          <3>1. dstate'[o] = DoNext(dstate[o], "FpmaxStore")
              BY <1>3 DEF DoTypeOK, HandleFpmax, Raise
          <3>2. dparam'[o] # NoKey /\ dkey' = dkey
              BY <1>3, <2>1 DEF DoTypeOK, HandleFpmax
          <3> QED BY <2>2, <3>1, <3>2, ReceivedKept
      <2>6. Uploading(o)'
          BY <1>3 DEF DoTypeOK, HandleFpmax, DoGoto, Uploading
      <2>7. \A p \in Owner : p # o => Received(p)' /\ Uploading(p)'
          BY <1>3 DEF DoTypeOK, HandleFpmax, Raise, DoGoto, Received, Uploading
      <2> QED BY <2>4, <2>5, <2>6, <2>7
  <1>4. CASE HandleUpload(o, r)
      <2>1. NumFiles[o] \in Nat \ {0} /\ dstate[o].id = "Ready"
          BY <1>4, DataownerAssumption DEF Handle, DoAccepts, HandleUpload
      <2>2. DoTypeOK'
          BY <1>4, <2>1 DEF DoTypeOK, HandleUpload, DoGoto
      <2>3. Uploading(o)'
          BY <1>4, <2>1 DEF DoTypeOK, HandleUpload, DoGoto, Uploading
      <2>4. \A p \in Owner : Received(p)'
          BY <1>4 DEF HandleUpload, Received
      <2>5. \A p \in Owner : p # o => Uploading(p)'
          BY <1>4 DEF DoTypeOK, HandleUpload, DoGoto, Uploading
      <2> QED BY <2>2, <2>3, <2>4, <2>5
  <1>5. CASE FailEncrypt(o, r)
      <2>1. DoTypeOK'
          BY <1>5 DEF DoTypeOK, FailEncrypt, DoGoto
      <2>2. \A p \in Owner : Received(p)' /\ Uploading(p)'
          BY <1>5 DEF DoTypeOK, FailEncrypt, DoGoto, Received, Uploading
      <2> QED BY <2>1, <2>2
  <1> QED BY <1>1, <1>2, <1>3, <1>4, <1>5 DEF Handle

LEMMA FailSendInv ==
  ASSUME DoInv, NEW o \in Owner, FailSend(o) PROVE DoInv'
  BY DEF DoInv, DoTypeOK, FailSend, DoGoto, Received, Uploading

LEMMA RestartInv ==
  ASSUME DoInv, NEW o \in Owner, Restart(o) PROVE DoInv'
  <1>1. DoObj("Init", {}) \in DoObject
      BY DEF DoObj, DoObject, DoStateId
  <1>2. restarts'[o] <= MaxRestart[o] /\ restarts' \in [Owner -> Nat]
      <2>1. restarts[o] \in Nat /\ MaxRestart[o] \in Nat
          BY DataownerAssumption DEF DoInv, DoTypeOK
      <2>2. restarts[o] < MaxRestart[o] /\ restarts' = [restarts EXCEPT ![o] = @ + 1]
          BY DEF Restart
      <2>3. restarts \in [Owner -> Nat]
          BY DEF DoInv, DoTypeOK
      <2>4. restarts'[o] = restarts[o] + 1
          BY <2>2, <2>3
      <2>5. restarts' \in [Owner -> Nat]
          BY <2>1, <2>2, <2>3
      <2>6. restarts'[o] <= MaxRestart[o]
          <3> DEFINE n == restarts[o]
                     m == MaxRestart[o]
          <3>1. n \in Nat /\ m \in Nat /\ n < m
              BY <2>1, <2>2
          <3> HIDE DEF n, m
          <3>2. n + 1 <= m
              BY <3>1
          <3> QED BY <2>4, <3>2 DEF n, m
      <2> QED BY <2>5, <2>6
  <1>3. \A p \in Owner : p # o => restarts'[p] = restarts[p]
      BY DEF DoInv, DoTypeOK, Restart
  <1>4. sent' \in [Owner -> Nat] /\ \A p \in Owner : sent'[p] <= NumFiles[p]
      <2>1. sent \in [Owner -> Nat] /\ sent' = [sent EXCEPT ![o] = 0]
          BY DEF DoInv, DoTypeOK, Restart
      <2>2. sent' \in [Owner -> Nat]
          BY <2>1
      <2>3. \A p \in Owner : sent'[p] = sent[p] \/ sent'[p] = 0
          BY <2>1
      <2>4. \A p \in Owner : sent[p] <= NumFiles[p] /\ NumFiles[p] \in Nat
          BY DataownerAssumption DEF DoInv, DoTypeOK
      <2>5. \A p \in Owner : sent'[p] <= NumFiles[p]
          BY <2>3, <2>4
      <2> QED BY <2>2, <2>5
  <1>5. DoTypeOK'
      BY <1>1, <1>2, <1>3, <1>4 DEF DoInv, DoTypeOK, Restart, DoGoto
  <1>6. \A p \in Owner : Received(p)' /\ Uploading(p)'
      BY DEF DoInv, DoTypeOK, Restart, DoGoto, DoObj, Received, Uploading
  <1> QED BY <1>5, <1>6 DEF DoInv

LEMMA CloudServedInv ==
  ASSUME DoInv, NEW o \in Owner, CloudServed(o) PROVE DoInv'
  <1> USE DEF DoInv
  <1>1. CASE dpc[o] = "hello"
      <2>1. /\ dpc' = [dpc EXCEPT ![o] = "idle"]
            /\ dstate' = dstate /\ dkey' = dkey /\ dparam' = dparam
            /\ enc' = enc /\ sent' = sent /\ restarts' = restarts
          BY <1>1 DEF CloudServed, DoGoto
      <2> QED BY <2>1 DEF DoTypeOK, Received, Uploading
  <1>2. CASE dpc[o] = "upload"
      <2>1. /\ sent' = [sent EXCEPT ![o] = @ + 1]
            /\ dkey' = dkey /\ dparam' = dparam /\ enc' = enc /\ restarts' = restarts
          BY <1>2 DEF CloudServed
      <2>2. sent[o] \in Nat /\ NumFiles[o] \in Nat /\ sent[o] < NumFiles[o]
          BY <1>2, DataownerAssumption DEF DoTypeOK, Uploading
      <2>3. sent' \in [Owner -> Nat] /\ sent'[o] = sent[o] + 1
            /\ \A p \in Owner : p # o => sent'[p] = sent[p]
          BY <2>1, <2>2 DEF DoTypeOK
      <2>4. \A p \in Owner : sent'[p] <= NumFiles[p]
          BY <2>2, <2>3 DEF DoTypeOK
      <2>5. CASE sent[o] + 1 < NumFiles[o] /\ UNCHANGED <<dstate, dpc>>
          <3>1. DoTypeOK'
              BY <2>1, <2>3, <2>4, <2>5 DEF DoTypeOK
          <3>2. \A p \in Owner : Received(p)'
              BY <2>1, <2>5 DEF Received
          <3>3. \A p \in Owner : Uploading(p)'
              BY <2>1, <2>3, <2>5 DEF Uploading
          <3> QED BY <3>1, <3>2, <3>3
      <2>6. CASE Raise(o, "StoreRequest") /\ DoGoto(o, "reply")
          <3>1. "StoreRequest" \in DoEvent
              BY DEF DoEvent
          <3>2. DoNext(dstate[o], "StoreRequest") \in DoObject
              BY <3>1, DoNextType DEF DoTypeOK
          <3>3. DoTypeOK'
              BY <2>1, <2>3, <2>4, <2>6, <3>2 DEF DoTypeOK, Raise, DoGoto
          <3>4. Received(o)'
              <4>1. dstate'[o] = DoNext(dstate[o], "StoreRequest")
                  BY <2>6 DEF DoTypeOK, Raise
              <4> QED BY <2>1, <3>1, <4>1, ReceivedKept
          <3>5. Uploading(o)'
              BY <2>6 DEF DoTypeOK, DoGoto, Uploading
          <3>6. \A p \in Owner : p # o => Received(p)' /\ Uploading(p)'
              BY <2>1, <2>3, <2>6 DEF DoTypeOK, Raise, DoGoto, Received, Uploading
          <3> QED BY <3>3, <3>4, <3>5, <3>6
      <2> QED BY <1>2, <2>5, <2>6 DEF CloudServed
  <1> QED BY <1>1, <1>2 DEF CloudServed

LEMMA DoReplyInv ==
  ASSUME DoInv, NEW o \in Owner, DoReply(o) PROVE DoInv'
  <1>1. /\ dpc' = [dpc EXCEPT ![o] = "idle"]
        /\ dstate' = dstate /\ dkey' = dkey /\ dparam' = dparam
        /\ enc' = enc /\ sent' = sent /\ restarts' = restarts
      BY DEF DoReply, DoGoto
  <1> QED BY <1>1 DEF DoInv, DoTypeOK, Received, Uploading

LEMMA DoNextInv == DoInv /\ [DataownerNext]_doVars => DoInv'
  <1> SUFFICES ASSUME DoInv, [DataownerNext]_doVars PROVE DoInv'
      OBVIOUS
  <1>1. ASSUME NEW o \in Owner, ConnectCloud(o) PROVE DoInv'
      BY <1>1, ConnectCloudInv
  <1>2. ASSUME NEW o \in Owner, NEW r \in DoRequest, Handle(o, r) PROVE DoInv'
      BY <1>2, HandleInv
  <1>3. ASSUME NEW o \in Owner, CloudServed(o) PROVE DoInv'
      BY <1>3, CloudServedInv
  <1>4. ASSUME NEW o \in Owner, DoReply(o) PROVE DoInv'
      BY <1>4, DoReplyInv
  <1>5. ASSUME NEW o \in Owner, FailSend(o) PROVE DoInv'
      BY <1>5, FailSendInv
  <1>6. ASSUME NEW o \in Owner, Restart(o) PROVE DoInv'
      BY <1>6, RestartInv
  <1>7. CASE UNCHANGED doVars
      BY <1>7 DEF doVars, DoInv, DoTypeOK, Received, Uploading
  <1> QED BY <1>1, <1>2, <1>3, <1>4, <1>5, <1>6, <1>7 DEF DataownerNext

(* An owner's state object tells what it has received, in every reachable  *)
(* state.                                                                  *)
THEOREM DataownerInvariant == DataownerSpec => []DoInv
  BY DoInitInv, DoNextInv, PTL DEF DataownerSpec

(* The data owners stay within their types. *)
THEOREM DoTypeCorrect == DataownerSpec => []DoTypeOK
  <1>1. DoInv => DoTypeOK
      BY DEF DoInv
  <1> QED BY <1>1, DataownerInvariant, PTL

(* An owner encrypts and sends only with a key and parameters it received. *)
THEOREM UploadIsPrepared == DataownerSpec => []UploadPrepared
  <1>1. DoInv => UploadPrepared
      BY DEF DoInv, Received, Uploading, UploadPrepared
  <1> QED BY <1>1, DataownerInvariant, PTL

(* Uploaded is entered by the last file of an attempt, and what it says is *)
(* not disturbed: in Uploaded neither a key nor an upload is accepted.     *)
LEMMA UploadedStep ==
  ASSUME DoInv, DataownerNext, NEW o \in Owner,
         dstate[o].id = "Uploaded" => /\ sent[o] = NumFiles[o]
                                      /\ enc[o] = dkey[o]
                                      /\ dkey[o] # NoKey,
         dstate'[o].id = "Uploaded"
  PROVE  sent'[o] = NumFiles[o] /\ enc'[o] = dkey'[o] /\ dkey'[o] # NoKey
  <1>1. /\ dstate \in [Owner -> DoObject] /\ dkey \in [Owner -> Key \cup {NoKey}]
        /\ sent \in [Owner -> Nat] /\ NumFiles \in [Owner -> Nat \ {0}]
      BY DataownerAssumption DEF DoInv, DoTypeOK
  <1>2. ASSUME NEW event \in DoEvent \ {"StoreRequest"},
               dstate'[o] = DoNext(dstate[o], event)
        PROVE  dstate[o].id = "Uploaded"
      BY <1>2, <1>1
      DEF DoNext, DoNextInit, DoNextConnected, DoNextStored, DoInitOr, DoConnectedOr,
          DoDisconnected, DoObj, DoObject, DoStateId
  <1>3. PICK p \in Owner : \/ ConnectCloud(p)
                           \/ \E r \in DoRequest : Handle(p, r)
                           \/ FailSend(p)
                           \/ CloudServed(p)
                           \/ DoReply(p)
                           \/ Restart(p)
      BY DEF DataownerNext
  <1>4. CASE p # o
      <2>1. /\ dstate'[o] = dstate[o] /\ sent'[o] = sent[o]
            /\ enc'[o] = enc[o] /\ dkey'[o] = dkey[o]
          BY <1>3, <1>4
          DEF ConnectCloud, Handle, HandleLink, HandlePubkey, HandleFpmax, HandleUpload,
              FailEncrypt, FailSend, CloudServed, DoReply, Restart, Raise, DoInv, DoTypeOK
      <2> QED BY <2>1
  <1>5. CASE ConnectCloud(o)
      <2>1. dstate'[o] = DoNext(dstate[o], "ConnectSocketToCloud")
          BY <1>1, <1>5 DEF ConnectCloud, Raise
      <2> QED BY <1>2, <1>5, <2>1 DEF ConnectCloud, DoEvent, Links
  <1>6. ASSUME NEW r \in DoRequest, Handle(o, r)
        PROVE  sent'[o] = NumFiles[o] /\ enc'[o] = dkey'[o] /\ dkey'[o] # NoKey
      <2>1. CASE HandleLink(o, r)
          <3>1. \/ dstate'[o] = DoNext(dstate[o], "ConnectSocketFromQuerier")
                \/ dstate'[o] = DoNext(dstate[o], "DisconnectSocketFromQuerier")
              BY <1>1, <2>1 DEF HandleLink, Raise
          <3> QED BY <1>2, <2>1, <3>1 DEF HandleLink, DoEvent, Links
      <2>2. CASE HandlePubkey(o, r) \/ HandleFpmax(o, r)
          <3>1. dstate[o].id = "Connected"
              BY <1>6, <2>2 DEF Handle, DoAccepts, HandlePubkey, HandleFpmax
          <3>2. \/ dstate'[o] = DoNext(dstate[o], "PubKeyStore")
                \/ dstate'[o] = DoNext(dstate[o], "FpmaxStore")
              BY <1>1, <2>2 DEF HandlePubkey, HandleFpmax, Raise
          <3> QED BY <1>2, <3>1, <3>2 DEF DoEvent, Material
      <2>3. CASE HandleUpload(o, r) \/ FailEncrypt(o, r)
          BY <1>6, <2>3 DEF Handle, DoAccepts, HandleUpload, FailEncrypt
      <2> QED BY <1>6, <2>1, <2>2, <2>3 DEF Handle
  <1>7. CASE FailSend(o)
      BY <1>7 DEF FailSend
  <1>8. CASE CloudServed(o)
      <2>1. CASE dpc[o] = "hello"
          BY <1>8, <2>1 DEF CloudServed
      <2>2. CASE dpc[o] = "upload"
          <3>1. dstate[o].id = "Ready" /\ enc[o] = dkey[o] /\ dkey[o] # NoKey
              BY <2>2 DEF DoInv, Uploading, Received
          <3>2. sent'[o] = sent[o] + 1 /\ sent[o] + 1 = NumFiles[o]
              BY <1>1, <1>8, <2>2, <3>1 DEF CloudServed
          <3> QED BY <1>8, <2>2, <3>1, <3>2 DEF CloudServed
      <2> QED BY <1>8, <2>1, <2>2 DEF CloudServed
  <1>9. CASE DoReply(o)
      BY <1>9 DEF DoReply
  <1>10. CASE Restart(o)
      BY <1>1, <1>10 DEF Restart, DoObj
  <1> QED BY <1>3, <1>4, <1>5, <1>6, <1>7, <1>8, <1>9, <1>10

(* For any numbers of files, restarts and failures: an owner in Uploaded   *)
(* has sent its whole set in one attempt, under the key it holds.          *)
THEOREM UploadedIsSent == DataownerSpec => []UploadedMeansSent
  <1>1. DoInit => UploadedMeansSent
      BY DEF DoInit, DoObj, UploadedMeansSent
  <1>2. DoInv /\ UploadedMeansSent /\ [DataownerNext]_doVars => UploadedMeansSent'
      <2> SUFFICES ASSUME DoInv, UploadedMeansSent, [DataownerNext]_doVars
                   PROVE  UploadedMeansSent'
          OBVIOUS
      <2>1. CASE DataownerNext
          BY <2>1, UploadedStep DEF UploadedMeansSent
      <2>2. CASE UNCHANGED doVars
          BY <2>2 DEF UploadedMeansSent, doVars
      <2> QED BY <2>1, <2>2
  <1> QED BY <1>1, <1>2, DataownerInvariant, PTL DEF DataownerSpec
=============================================================================
