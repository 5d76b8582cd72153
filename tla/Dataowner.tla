----------------------------- MODULE Dataowner ------------------------------
(***************************************************************************)
(* The two data owner processes.  Each connects to the cloud, then serves  *)
(* the querier's requests one at a time.  A callback that does not call    *)
(* the cloud is one step, for nothing else runs in the process; the upload *)
(* callback calls the cloud once per file and waits for each answer.  It   *)
(* throws when a file cannot be read or written.  A process that is killed *)
(* and started again finds the files it wrote and nothing else.            *)
(*                                                                         *)
(* A key stands for what one querier sends: its public key and, as tag of  *)
(* the parameters fpmax and nmax, the same querier's parameters.           *)
(***************************************************************************)
EXTENDS Parties, DataownerState, Naturals

CONSTANTS
  NumFiles,     \* per owner, the number of elements, hence files, of its input
  FileMayFail,  \* may the files of an upload fail to open?
  MaxRestart    \* per owner, a bound on the number of its restarts

ASSUME DataownerAssumption == /\ NumFiles \in [Owner -> Nat \ {0}]
                              /\ FileMayFail \in BOOLEAN
                              /\ MaxRestart \in [Owner -> Nat]

DoRequest == [op : {"pubkey", "fpmax"}, key : Key]
             \cup [op : {"connect", "disconnect", "upload"}]

VARIABLES
  dstate,     \* per owner, the current state object
  dpc,        \* per owner, where its thread is
  dkey,       \* per owner, the public key file
  dparam,     \* per owner, the parameters received
  enc,        \* per owner, the key of all encrypted files in encfile_dir, if one
  sent,       \* per owner, the number of files sent in the current upload
  restarts    \* per owner, the number of its restarts so far

doVars == <<dstate, dpc, dkey, dparam, enc, sent, restarts>>

DoTypeOK ==
  /\ dstate \in [Owner -> DoObject]
  /\ dpc \in [Owner -> {"start", "hello", "idle", "upload", "reply", "threw"}]
  /\ dkey \in [Owner -> Key \cup {NoKey}]
  /\ dparam \in [Owner -> Key \cup {NoKey}]
  /\ enc \in [Owner -> Key \cup {NoKey}]
  /\ sent \in [Owner -> Nat]
  /\ \A o \in Owner : sent[o] <= NumFiles[o]
  /\ restarts \in [Owner -> Nat]
  /\ \A o \in Owner : restarts[o] <= MaxRestart[o]

DoInit ==
  /\ dstate = [o \in Owner |-> DoObj("Init", {})]
  /\ dpc = [o \in Owner |-> "start"]
  /\ dkey = [o \in Owner |-> NoKey]
  /\ dparam = [o \in Owner |-> NoKey]
  /\ enc = [o \in Owner |-> NoKey]
  /\ sent = [o \in Owner |-> 0]
  /\ restarts = [o \in Owner |-> 0]

DoGoto(o, label) == dpc' = [dpc EXCEPT ![o] = label]
Raise(o, event)  == dstate' = [dstate EXCEPT ![o] = DoNext(@, event)]

\* CloudClient's constructor: connect, raise the event, send a connect request.
ConnectCloud(o) ==
  /\ dpc[o] = "start"
  /\ Raise(o, "ConnectSocketToCloud")
  /\ DoGoto(o, "hello")
  /\ UNCHANGED <<dkey, dparam, enc, sent, restarts>>

\* Defect: an upload request is served one state too early.
DoAcceptsEarlier(o, r) ==
  /\ r.op \in {"pubkey", "fpmax"} => dstate[o].id = "Connected"
  /\ r.op = "upload" => dstate[o].id \in {"Connected", "Ready"}

(* The state each callback demands; otherwise it throws a warning, the     *)
(* querier retries and the owner is unchanged.                             *)
DoAccepts(o, r) ==
  /\ r.op \in {"pubkey", "fpmax"} => dstate[o].id = "Connected"
  /\ r.op = "upload" => dstate[o].id = "Ready"

HandleLink(o, r) ==
  /\ r.op \in {"connect", "disconnect"}
  /\ Raise(o, IF r.op = "connect" THEN "ConnectSocketFromQuerier"
                                  ELSE "DisconnectSocketFromQuerier")
  /\ DoGoto(o, "reply")
  /\ UNCHANGED <<dkey, dparam, enc, sent, restarts>>

HandlePubkey(o, r) ==
  /\ r.op = "pubkey"
  /\ dkey' = [dkey EXCEPT ![o] = r.key]
  /\ Raise(o, "PubKeyStore")
  /\ DoGoto(o, "reply")
  /\ UNCHANGED <<dparam, enc, sent, restarts>>

HandleFpmax(o, r) ==
  /\ r.op = "fpmax"
  /\ dparam' = [dparam EXCEPT ![o] = r.key]
  /\ Raise(o, "FpmaxStore")
  /\ DoGoto(o, "reply")
  /\ UNCHANGED <<dkey, enc, sent, restarts>>

\* Defect: encrypted files that exist are sent again.
HandleUploadCached(o, r) ==
  /\ r.op = "upload"
  /\ enc' = [enc EXCEPT ![o] = IF @ = NoKey THEN dkey[o] ELSE @]
  /\ sent' = [sent EXCEPT ![o] = 0]
  /\ DoGoto(o, "upload")
  /\ UNCHANGED <<dstate, dkey, dparam, restarts>>

\* Defect: the event is raised before the files are sent.
HandleUploadEarly(o, r) ==
  /\ r.op = "upload"
  /\ enc' = [enc EXCEPT ![o] = dkey[o]]
  /\ sent' = [sent EXCEPT ![o] = 0]
  /\ Raise(o, "StoreRequest")
  /\ DoGoto(o, "upload")
  /\ UNCHANGED <<dkey, dparam, restarts>>

\* createBFs and encryptBFs write the encrypted files; then they are sent.
HandleUpload(o, r) ==
  /\ r.op = "upload"
  /\ enc' = [enc EXCEPT ![o] = dkey[o]]
  /\ sent' = [sent EXCEPT ![o] = 0]
  /\ DoGoto(o, "upload")
  /\ UNCHANGED <<dstate, dkey, dparam, restarts>>

(* The input file, the directory or an encrypted file cannot be opened:    *)
(* the files before it are under the new key, the others as they were.     *)
FailEncrypt(o, r) ==
  /\ FileMayFail
  /\ r.op = "upload"
  /\ \E key \in {enc[o], NoKey} : enc' = [enc EXCEPT ![o] = key]
  /\ DoGoto(o, "threw")
  /\ UNCHANGED <<dstate, dkey, dparam, sent, restarts>>

\* Defect: an encrypted file that is not found is passed over.
FailSendSkips(o) ==
  /\ FileMayFail
  /\ dpc[o] = "upload"
  /\ Raise(o, "StoreRequest")
  /\ DoGoto(o, "reply")
  /\ UNCHANGED <<dkey, dparam, enc, sent, restarts>>

\* The next encrypted file to send is not found.
FailSend(o) ==
  /\ FileMayFail
  /\ dpc[o] = "upload"
  /\ DoGoto(o, "threw")
  /\ UNCHANGED <<dstate, dkey, dparam, enc, sent, restarts>>

Handle(o, r) ==
  /\ dpc[o] = "idle"
  /\ DoAccepts(o, r)
  /\ \/ HandleLink(o, r)
     \/ HandlePubkey(o, r)
     \/ HandleFpmax(o, r)
     \/ HandleUpload(o, r)
     \/ FailEncrypt(o, r)

\* Defect: the loop over the files runs once more than there are files.
CloudServedOnceMore(o) ==
  \/ /\ dpc[o] = "hello"
     /\ DoGoto(o, "idle")
     /\ UNCHANGED <<dstate, dkey, dparam, enc, sent, restarts>>
  \/ /\ dpc[o] = "upload"
     /\ sent' = [sent EXCEPT ![o] = @ + 1]
     /\ \/ /\ sent[o] < NumFiles[o]
           /\ UNCHANGED <<dstate, dpc>>
        \/ /\ sent[o] = NumFiles[o]
           /\ Raise(o, "StoreRequest")
           /\ DoGoto(o, "reply")
     /\ UNCHANGED <<dkey, dparam, enc, restarts>>

(* The cloud has served the pending request of o: its connect request, or  *)
(* one file of an upload.                                                  *)
CloudServed(o) ==
  \/ /\ dpc[o] = "hello"
     /\ DoGoto(o, "idle")
     /\ UNCHANGED <<dstate, dkey, dparam, enc, sent, restarts>>
  \/ /\ dpc[o] = "upload"
     /\ sent' = [sent EXCEPT ![o] = @ + 1]
     /\ \/ /\ sent[o] + 1 < NumFiles[o]
           /\ UNCHANGED <<dstate, dpc>>
        \/ /\ sent[o] + 1 = NumFiles[o]
           /\ Raise(o, "StoreRequest")
           /\ DoGoto(o, "reply")
     /\ UNCHANGED <<dkey, dparam, enc, restarts>>

DoReply(o) ==
  /\ dpc[o] \in {"reply", "threw"}
  /\ DoGoto(o, "idle")
  /\ UNCHANGED <<dstate, dkey, dparam, enc, sent, restarts>>

(* The process is killed and started again.  Its files survive: the public *)
(* key file and the encrypted files are written anew before they are read, *)
(* so that a kill while one is written makes no difference.                *)
Restart(o) ==
  /\ restarts[o] < MaxRestart[o]
  /\ restarts' = [restarts EXCEPT ![o] = @ + 1]
  /\ dstate' = [dstate EXCEPT ![o] = DoObj("Init", {})]
  /\ DoGoto(o, "start")
  /\ dparam' = [dparam EXCEPT ![o] = NoKey]
  /\ sent' = [sent EXCEPT ![o] = 0]
  /\ UNCHANGED <<dkey, enc>>

(* The owners on their own: any request at any time, and a cloud that      *)
(* serves what it is sent.                                                 *)
DataownerNext == \E o \in Owner : \/ ConnectCloud(o)
                                  \/ \E r \in DoRequest : Handle(o, r)
                                  \/ FailSend(o)
                                  \/ CloudServed(o)
                                  \/ DoReply(o)
                                  \/ Restart(o)

DataownerSpec == DoInit /\ [][DataownerNext]_doVars
-----------------------------------------------------------------------------
(* An owner encrypts and sends only with a key and parameters it received, *)
(* and the files it sends are all under the key it holds: no request can   *)
(* replace the key in the middle of an upload (callback_function.cpp:120). *)
UploadPrepared ==
  \A o \in Owner : dpc[o] = "upload" => /\ dkey[o] # NoKey
                                        /\ dparam[o] # NoKey
                                        /\ enc[o] = dkey[o]
                                        /\ dstate[o].id = "Ready"

(* Uploaded is not reached by half an upload: an owner in that state has   *)
(* sent every file of its set in one attempt, and all of them under the    *)
(* key it holds, whatever attempts threw at some file before or were cut   *)
(* short by a restart (callback_function.cpp:139-169).                     *)
UploadedMeansSent ==
  \A o \in Owner : dstate[o].id = "Uploaded" => /\ sent[o] = NumFiles[o]
                                               /\ enc[o] = dkey[o]
                                               /\ dkey[o] # NoKey
=============================================================================
