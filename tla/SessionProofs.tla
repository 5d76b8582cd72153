---------------------------- MODULE SessionProofs ----------------------------
(***************************************************************************)
(* The first querier of the system, up to its answer, for any number of    *)
(* files, whatever fails, is given up, killed or restarted meanwhile: if   *)
(* the owners' files have names of their own, no computation reads a file  *)
(* that is being written, the result it downloads is computed from the     *)
(* whole sets of both owners under its own key, and the system implements  *)
(* the promise of PsiSession step by step.                                 *)
(*                                                                         *)
(* It rests on when the last file of an owner is saved: from then on the   *)
(* querier sends the owner no other upload request, and whatever is still  *)
(* under way writes no file of the owner.                                  *)
(***************************************************************************)
EXTENDS OpsicaProofs

\* The owners give their files different names.
OwnNames == Basename["A"] # Basename["B"]

\* The content of a file of the first session.
Whole(o, i) == Content(KeyOf[1], NumFiles[o], o, i)

\* The cloud has a file of o to serve.
DataPending(o) == pc[o] # "idle" /\ req[o].op = "data"

\* Nothing writes a file of o any more, nor will in this session.
Closed(o) ==
  /\ ~ (DataPending(o) /\ pc[o] \in {"run", "write"})
  /\ dpc[o] = "upload" => /\ sent[o] = NumFiles[o] - 1
                          /\ pc[o] \in {"raise", "apply", "reply"}
  /\ Ended(o) \/ step[o] > 4 \/ (step[o] = 4 /\ await[o] /\ dpc[o] \in {"upload", "reply"})

FilesWhole(o) ==
  \A i \in record[o].saved :
     \/ file[NameOf(o, i)] = Whole(o, i)
     \/ pc[o] = "write" /\ req[o].index = i /\ file[NameOf(o, i)] = Torn

(* An owner serves the thread that waits for it; the cloud serves the file *)
(* of an upload under way, or of one whose owner was killed; a file that   *)
(* is saved is whole, unless it is being written again; and after the last *)
(* file none is.                                                           *)
FirstData(o) ==
  /\ dpc[o] \in {"upload", "reply", "threw"} => await[o]
  /\ DataPending(o) => /\ dpc[o] = "upload" \/ (dpc[o] = "start" /\ Ended(o))
                       /\ req[o].key = KeyOf[1]
                       /\ dkey[o] = KeyOf[1]
  /\ OwnNames => FilesWhole(o)
  /\ NumFiles[o] - 1 \in record[o].saved => Closed(o)

\* The first n files of an owner.
PartOf(o, n) == {Whole(o, i) : i \in 0 .. n - 1}

(* A computation has read the whole files of A, then those of B, up to its *)
(* position.                                                               *)
FirstCalc ==
  /\ pc["Q"] # "idle" => await["Q"]
  /\ pc["Q"] = "read" =>
       /\ HasAllData
       /\ calc.pos < calc.num => calc.used = PartOf("A", calc.pos)
       /\ calc.pos >= calc.num =>
            calc.used = PartOf("A", calc.num) \cup PartOf("B", calc.pos - calc.num)
  /\ NoTornRead
  /\ result \in {NoResult, OwnResult(1)}

FirstAnswer == answer[1] \in {NoAnswer, OwnResult(1)}

FirstDatas == \A o \in Owner : FirstData(o)

FirstInv == /\ sess = 1 => FirstDatas /\ (OwnNames => FirstCalc)
            /\ OwnNames => FirstAnswer
-----------------------------------------------------------------------------
LEMMA FirstInit == Init => FirstInv
  <1> SUFFICES ASSUME Init PROVE FirstInv
      OBVIOUS
  <1>1. ASSUME NEW o \in Owner PROVE FirstData(o)
      BY Threads, DataownerAssumption
      DEF Init, CloudInit, DoInit, QuerierInit, FirstData, DataPending, FilesWhole, NoRecord
  <1>2. FirstCalc
      BY Threads DEF Init, CloudInit, QuerierInit, FirstCalc, NoTornRead, NoCalc
  <1>3. FirstAnswer
      BY QuerierAssumption DEF Init, QuerierInit, FirstAnswer, Session
  <1> QED BY <1>1, <1>2, <1>3 DEF FirstInv, FirstDatas

(* Two files with one name are the same file of the same owner. *)
LEMMA NamesDiffer ==
  ASSUME NEW o \in Owner, NEW p \in Owner, NEW i, NEW j, NameOf(o, i) = NameOf(p, j)
  PROVE  i = j /\ (OwnNames => o = p)
  BY DEF NameOf, enfilename, OwnNames, Owner

\* The files of an owner that are saved stay as they are.
FilesSame(o) == \A i \in record[o].saved : file'[NameOf(o, i)] = file[NameOf(o, i)]

(* The thread that talks to an owner stands still, but may end. *)
ThreadSame(t) == /\ step'[t] = step[t] /\ await'[t] = await[t]
                 /\ failed \subseteq failed'

LEMMA FirstDataFrame ==
  ASSUME NEW o \in Owner, FirstData(o), CloudSame(o), OwnerSame(o), ThreadSame(o),
         OwnNames => FilesSame(o), dkey'[o] = dkey[o]
  PROVE  FirstData(o)'
  <1>1. Ended(o) => Ended(o)'
      BY DEF ThreadSame, Ended
  <1>2. DataPending(o)' <=> DataPending(o)
      BY DEF CloudSame, DataPending
  <1>3. Closed(o) => Closed(o)'
      BY <1>1, <1>2 DEF Closed, CloudSame, OwnerSame, ThreadSame
  <1>4. OwnNames => FilesWhole(o)'
      BY DEF FirstData, FilesWhole, FilesSame, CloudSame, Whole
  <1> QED BY <1>1, <1>2, <1>3, <1>4 DEF FirstData, CloudSame, OwnerSame, ThreadSame

(* After its last file, an owner writes none: what is saved is whole.      *)
LEMMA LastFile ==
  ASSUME SysInv, NEW o \in Owner, UploadTrue(o), AllSaved(o)
  PROVE  /\ record[o].num = NumFiles[o]
         /\ NumFiles[o] - 1 \in record[o].saved
         /\ record[o].saved = 0 .. NumFiles[o] - 1
  <1>1. record[o].init
      <2>1. record[o].init \in BOOLEAN
          BY DEF SysInv, CloudInv, CloudTypeOK
      <2>2. record[o].num > 0
          BY DEF AllSaved
      <2> QED BY <2>1, <2>2 DEF SysInv, CloudInv, RecordsTrue
  <1>2. record[o].num = NumFiles[o] /\ NumFiles[o] \in Nat \ {0}
      BY <1>1, DataownerAssumption DEF UploadTrue
  <1>3. NumFiles[o] - 1 \in 0 .. NumFiles[o] - 1
      BY <1>2
  <1> QED BY <1>2, <1>3 DEF AllSaved

LEMMA SavedWhole ==
  ASSUME OwnNames, SysInv, NEW o \in Owner, UploadTrue(o), FirstData(o), AllSaved(o)
  PROVE  \A i \in 0 .. NumFiles[o] - 1 : file[NameOf(o, i)] = Whole(o, i)
  <1>1. NumFiles[o] - 1 \in record[o].saved /\ record[o].saved = 0 .. NumFiles[o] - 1
      BY LastFile
  <1>2. pc[o] # "write"
      BY <1>1 DEF FirstData, Closed, DataPending, SysInv, CloudInv, OwnerThread
  <1> QED BY <1>1, <1>2 DEF FirstData, FilesWhole

LEMMA QuerierSideFiles ==
  ASSUME SysInv, NEW o \in Owner,
         \/ QuerierCallsCloud \/ CloudAnswersQuerier \/ CloudWorks("Q")
         \/ (\E t \in Thread : Timeout(t)) \/ UNCHANGED vars
  PROVE  CloudSame(o) /\ OwnerSame(o) /\ FilesSame(o) /\ dkey' = dkey
  <1>1. CloudSame(o) /\ OwnerSame(o)
      BY QuerierSideSame
  <1>2. dkey' = dkey /\ file' = file
      BY Threads
      DEF QuerierCallsCloud, Receive, CloudAnswersQuerier, Reply, CloudWorks, CallbackStep,
          QuerierStep, StorePubkey, StartCompute, ReadData, RejectData, SaveResult,
          SendResult, LoadState, ApplyEvent, Timeout, vars, cloudVars, doVars
  <1> QED BY <1>1, <1>2 DEF FilesSame

LEMMA QuerierSideData ==
  ASSUME SysInv, NEW o \in Owner, FirstData(o),
         \/ QuerierCallsCloud \/ CloudAnswersQuerier \/ CloudWorks("Q")
         \/ (\E t \in Thread : Timeout(t)) \/ UNCHANGED vars
  PROVE  FirstData(o)'
  <1>1. CloudSame(o) /\ OwnerSame(o) /\ FilesSame(o) /\ dkey' = dkey
      BY QuerierSideFiles
  <1>2. await \in [Thread -> BOOLEAN] /\ step \in [Thread -> 1 .. 6] /\ o # "Q" /\ o \in Thread
      BY Threads DEF SysInv, Scripted, QuerierTypeOK
  <1>3. ThreadSame(o)
      BY <1>2
      DEF ThreadSame, QuerierCallsCloud, Send, CloudAnswersQuerier, Served, Broken,
          Unanswered, CloudWorks, Timeout, GiveUp, querierVars, vars
  <1> QED BY <1>1, <1>3, FirstDataFrame

LEMMA OtherSideFiles ==
  ASSUME SysInv, NEW o \in Owner, NEW p \in Owner, p # o,
         \/ QuerierCallsOwner(p) \/ OwnerAnswersQuerier(p) \/ OwnerCallsCloud(p)
         \/ CloudAnswersOwner(p) \/ OwnerFailsToSend(p) \/ OwnerStarts(p)
         \/ OwnerRestarts(p) \/ CloudWorks(p)
  PROVE  /\ CloudSame(o) /\ OwnerSame(o) /\ dkey'[o] = dkey[o]
         /\ OwnNames => FilesSame(o)
  <1>1. CloudSame(o) /\ OwnerSame(o)
      BY OtherSideSame
  <1>2. dkey'[o] = dkey[o]
      <2>1. dkey' = dkey \/ \E key : dkey' = [dkey EXCEPT ![p] = key]
          BY DEF QuerierCallsOwner, Handle, HandleLink, HandlePubkey, HandleFpmax,
             HandleUpload, FailEncrypt, OwnerAnswersQuerier, OwnerThrewBroken, DoReply,
             OwnerCallsCloud, CloudAnswersOwner, CloudServed, OwnerFailsToSend, FailSend,
             OwnerStarts, ConnectCloud, OwnerRestarts, Restart, CloudWorks, doVars
      <2> QED BY <2>1 DEF SysInv, DoInv, DoTypeOK
  <1>3. ASSUME OwnNames PROVE FilesSame(o)
      <2>1. file' = file \/ \E j, data : file' = [file EXCEPT ![NameOf(p, j)] = data]
          BY Threads
          DEF QuerierCallsOwner, OwnerAnswersQuerier, OwnerThrewBroken, OwnerCallsCloud,
              Receive, CloudAnswersOwner, Reply, OwnerFailsToSend, OwnerStarts,
              OwnerRestarts, CloudWorks, CallbackStep, OwnerStep, OpenData, IgnoreData,
              WriteData, LoadState, ApplyEvent, cloudVars
      <2>2. \A i \in record[o].saved : NameOf(o, i) \in DOMAIN file
          BY DEF SysInv, CloudInv, CloudTypeOK, FileName
      <2>3. \A i, j : NameOf(o, i) # NameOf(p, j)
          BY <1>3, NamesDiffer
      <2> QED BY <2>1, <2>2, <2>3 DEF FilesSame
  <1> QED BY <1>1, <1>2, <1>3

LEMMA OtherSideData ==
  ASSUME SysInv, NEW o \in Owner, NEW p \in Owner, p # o, FirstData(o),
         \/ QuerierCallsOwner(p) \/ OwnerAnswersQuerier(p) \/ OwnerCallsCloud(p)
         \/ CloudAnswersOwner(p) \/ OwnerFailsToSend(p) \/ OwnerStarts(p)
         \/ OwnerRestarts(p) \/ CloudWorks(p)
  PROVE  FirstData(o)'
  <1>1. /\ CloudSame(o) /\ OwnerSame(o) /\ dkey'[o] = dkey[o]
        /\ OwnNames => FilesSame(o)
      BY OtherSideFiles
  <1>2. await \in [Thread -> BOOLEAN] /\ step \in [Thread -> 1 .. 6]
        /\ p \in Thread /\ o \in Thread
      BY Threads DEF SysInv, Scripted, QuerierTypeOK
  <1>3. ThreadSame(o)
      BY <1>2
      DEF ThreadSame, QuerierCallsOwner, Send, OwnerAnswersQuerier, OwnerThrewBroken,
          Served, Broken, Unanswered, OwnerCallsCloud, CloudAnswersOwner,
          OwnerFailsToSend, OwnerStarts, OwnerRestarts, Disconnected, CloudWorks,
          querierVars
  <1> QED BY <1>1, <1>3, FirstDataFrame
-----------------------------------------------------------------------------
(* The thread that has had an upload answered, or given it up, sends no    *)
(* other.                                                                  *)
LEMMA QuerierCallsOwnerData ==
  ASSUME SysInv, NEW o \in Owner, UploadTrue(o), FirstData(o), QuerierCallsOwner(o)
  PROVE  FirstData(o)'
  <1>1. /\ UNCHANGED <<pc, req, record, file>> /\ pc[o] = "idle" /\ dpc[o] = "idle"
      BY DEF QuerierCallsOwner, cloudVars, Handle, UploadTrue
  <1>2. /\ ~ Ended(o) /\ ~ await[o] /\ step[o] \in 1 .. 5
        /\ step' = step /\ failed' = failed /\ await'[o]
      <2>1. await' = [await EXCEPT ![o] = TRUE] /\ await \in [Thread -> BOOLEAN]
          BY DEF QuerierCallsOwner, Send, SysInv, Scripted, QuerierTypeOK
      <2> QED BY <2>1, Threads, SendsFacts DEF QuerierCallsOwner, Send, Sends, SysInv
  <1>3. ASSUME NumFiles[o] - 1 \in record[o].saved PROVE Closed(o)'
      <2>1. step[o] = 5
          BY <1>2, <1>3, Threads DEF FirstData, Closed, Ended, Script
      <2>2. dpc'[o] = "reply"
          <3>1. RequestOf(o).op = "disconnect"
              BY <2>1, OwnerOps DEF RequestOf
          <3> QED BY <3>1 DEF QuerierCallsOwner, Handle, HandleLink, HandlePubkey,
                HandleFpmax, HandleUpload, FailEncrypt, DoGoto, SysInv, DoInv, DoTypeOK
      <2> QED BY <1>1, <1>2, <2>1, <2>2 DEF Closed, DataPending
  <1> QED BY <1>1, <1>2, <1>3 DEF FirstData, DataPending, FilesWhole, Whole

LEMMA OwnerAnswersQuerierData ==
  ASSUME SysInv, NEW o \in Owner, UploadTrue(o), FirstData(o), OwnerAnswersQuerier(o)
  PROVE  FirstData(o)'
  <1>1. /\ UNCHANGED <<pc, req, record, file>> /\ dpc[o] \in {"reply", "threw"}
        /\ pc[o] = "idle" /\ dkey' = dkey
      BY DEF OwnerAnswersQuerier, OwnerThrewBroken, DoReply, cloudVars, UploadTrue
  <1>2. dpc'[o] = "idle"
      BY DEF OwnerAnswersQuerier, OwnerThrewBroken, DoReply, DoGoto, SysInv, DoInv, DoTypeOK
  <1>3. /\ await[o] /\ step \in [Thread -> 1 .. 6] /\ await \in [Thread -> BOOLEAN]
        /\ o \in Thread /\ step[o] \in 1 .. 5 /\ o \notin failed
      BY <1>1, Threads DEF FirstData, SysInv, Scripted, QuerierTypeOK
  <1>4. \/ dpc[o] = "reply" /\ step'[o] = step[o] + 1
        \/ step' = step /\ o \in failed'
        \/ dpc[o] = "threw" /\ step' = step
      BY <1>3 DEF OwnerAnswersQuerier, OwnerThrewBroken, Served, Broken, Unanswered
  <1>5. ASSUME NumFiles[o] - 1 \in record[o].saved PROVE Closed(o)'
      <2>1. step[o] > 4 \/ (step[o] = 4 /\ dpc[o] = "reply")
          BY <1>1, <1>3, <1>5, Threads DEF FirstData, Closed, Ended, Script
      <2>2. Ended(o)' \/ step'[o] > 4
          BY <1>3, <1>4, <2>1 DEF Ended
      <2> QED BY <1>1, <1>2, <2>2 DEF Closed, DataPending
  <1> QED BY <1>1, <1>2, <1>5 DEF FirstData, DataPending, FilesWhole, Whole

LEMMA OwnerCallsCloudData ==
  ASSUME SysInv, sess = 1, NEW o \in Owner, UploadTrue(o), FirstData(o), OwnerCallsCloud(o)
  PROVE  FirstData(o)'
  <1>1. /\ UNCHANGED <<record, file, dpc, dkey, sent, enc>> /\ UNCHANGED querierVars
        /\ pc[o] = "idle" /\ dpc[o] \in {"hello", "upload"}
      BY DEF OwnerCallsCloud, Receive, doVars
  <1>2. req'[o] = OwnerRequest(o)
      BY Threads DEF OwnerCallsCloud, Receive, SysInv, CloudInv, CloudTypeOK
  <1>3. NumFiles[o] - 1 \in record[o].saved => dpc[o] = "hello"
      BY <1>1 DEF FirstData, Closed
  <1>4. dpc[o] = "hello" => req'[o].op = "connect"
      BY <1>2 DEF OwnerRequest
  <1>5. ASSUME dpc[o] = "upload" PROVE req'[o].key = KeyOf[1] /\ dkey[o] = KeyOf[1]
      <2>1. await[o] /\ step[o] = 4
          BY <1>5 DEF FirstData, SysInv, OwnerTold
      <2>2. dkey[o] = KeyOf[1]
          BY <2>1 DEF SysInv, OwnerTold
      <2>3. enc[o] = dkey[o]
          BY <1>5 DEF SysInv, DoInv, Uploading
      <2> QED BY <1>2, <1>5, <2>2, <2>3 DEF OwnerRequest
  <1>6. OwnNames => FilesWhole(o)'
      BY <1>1 DEF FirstData, FilesWhole, Whole
  <1>7. NumFiles[o] - 1 \in record[o].saved => Closed(o)'
      BY <1>1, <1>3, <1>4 DEF FirstData, Closed, Ended, DataPending, querierVars
  <1> QED BY <1>1, <1>4, <1>5, <1>6, <1>7 DEF FirstData, DataPending, querierVars

LEMMA CloudAnswersOwnerData ==
  ASSUME SysInv, NEW o \in Owner, UploadTrue(o), FirstData(o), CloudAnswersOwner(o)
  PROVE  FirstData(o)'
  <1>1. /\ UNCHANGED <<record, file, dkey>> /\ UNCHANGED querierVars /\ pc[o] = "reply"
      BY Threads DEF CloudAnswersOwner, Reply, CloudServed, doVars, SysInv, CloudInv, OwnerThread
  <1>2. pc'[o] = "idle"
      BY Threads DEF CloudAnswersOwner, Reply, Goto, SysInv, CloudInv, CloudTypeOK
  <1>3. \/ dpc[o] = "hello" /\ dpc'[o] = "idle"
        \/ dpc[o] = "upload" /\ dpc'[o] = "upload" /\ sent[o] + 1 < NumFiles[o]
        \/ dpc[o] = "upload" /\ dpc'[o] = "reply"
        \/ dpc[o] = "start" /\ dpc'[o] = "start"
      BY DEF CloudAnswersOwner, CloudServed, DoGoto, doVars, SysInv, DoInv, DoTypeOK
  <1>4. ASSUME NumFiles[o] - 1 \in record[o].saved PROVE Closed(o)'
      <2>1. sent[o] \in Nat /\ NumFiles[o] \in Nat
          BY DataownerAssumption DEF SysInv, DoInv, DoTypeOK
      <2>2. dpc[o] = "upload" => sent[o] = NumFiles[o] - 1
          BY <1>4 DEF FirstData, Closed
      <2>3. dpc'[o] # "upload"
          BY <1>3, <2>1, <2>2
      <2>4. Ended(o) \/ step[o] > 4 \/ (step[o] = 4 /\ await[o] /\ dpc[o] = "upload")
          BY <1>3, <1>4 DEF FirstData, Closed
      <2> QED BY <1>1, <1>2, <1>3, <2>3, <2>4 DEF Closed, Ended, DataPending, querierVars
  <1> QED BY <1>1, <1>2, <1>3, <1>4 DEF FirstData, DataPending, FilesWhole, Whole, querierVars

LEMMA OwnerAloneData ==
  ASSUME SysInv, NEW o \in Owner, UploadTrue(o), FirstData(o),
         OwnerFailsToSend(o) \/ OwnerStarts(o) \/ OwnerRestarts(o)
  PROVE  FirstData(o)'
  <1>1. UNCHANGED <<pc, req, record, file, dkey>>
      BY DEF OwnerFailsToSend, FailSend, OwnerStarts, ConnectCloud, OwnerRestarts, Restart,
         cloudVars
  <1> USE DEF SysInv, DoInv, DoTypeOK, DoGoto
  <1>2. CASE OwnerFailsToSend(o)
      <2>1. /\ dpc[o] = "upload" /\ dpc'[o] = "threw" /\ pc[o] = "idle"
            /\ UNCHANGED querierVars
          BY <1>2 DEF OwnerFailsToSend, FailSend
      <2> QED BY <1>1, <2>1 DEF FirstData, DataPending, Closed, FilesWhole, Whole, querierVars
  <1>3. CASE OwnerStarts(o)
      <2>1. /\ dpc[o] = "start" /\ dpc'[o] = "hello" /\ pc[o] = "idle"
            /\ UNCHANGED querierVars
          BY <1>3 DEF OwnerStarts, ConnectCloud
      <2> QED BY <1>1, <2>1 DEF FirstData, DataPending, Closed, Ended, FilesWhole, Whole,
                querierVars
  <1>4. CASE OwnerRestarts(o)
      <2>1. dpc'[o] = "start"
          BY <1>4 DEF OwnerRestarts, Restart
      <2>2. \/ Ended(o)'
            \/ ~ Ended(o) /\ ~ await[o] /\ step[o] = 1
          BY <1>4 DEF OwnerRestarts, Disconnected, Ended, querierVars
      <2>3. step[o] = 1 /\ ~ Ended(o) /\ ~ await[o] => NumFiles[o] - 1 \notin record[o].saved
          BY DEF FirstData, Closed
      <2>4. DataPending(o) => Ended(o)'
          BY <2>2 DEF FirstData
      <2>5. DataPending(o)' <=> DataPending(o)
          BY <1>1 DEF DataPending
      <2>6. OwnNames => FilesWhole(o)'
          BY <1>1 DEF FirstData, FilesWhole, Whole
      <2>7. NumFiles[o] - 1 \in record[o].saved => Closed(o)'
          BY <1>1, <2>1, <2>2, <2>3, <2>5 DEF FirstData, Closed
      <2> QED BY <1>1, <2>1, <2>4, <2>5, <2>6, <2>7 DEF FirstData
  <1> QED BY <1>2, <1>3, <1>4
-----------------------------------------------------------------------------
(* The cloud serves a file: which is not the last but for the first time.  *)
LEMMA NotYetClosed ==
  ASSUME SysInv, NEW o \in Owner, FirstData(o), pc[o] \in {"run", "write"}
  PROVE  DataPending(o) /\ NumFiles[o] - 1 \notin record[o].saved
  <1>1. DataPending(o)
      BY DEF SysInv, CloudInv, OwnerThread, DataPending
  <1> QED BY <1>1 DEF FirstData, Closed

LEMMA IndexType ==
  ASSUME SysInv, NEW o \in Owner, req[o].op = "data"
  PROVE  req[o].index \in 0 .. MaxNum - 1 /\ NameOf(o, req[o].index) \in FileName
  <1>1. req[o] \in Request(o) \cup {NoRequest}
      BY Threads DEF SysInv, CloudInv, CloudTypeOK
  <1>2. req[o].index \in 0 .. MaxNum - 1
      BY <1>1, Threads DEF Request, NoRequest
  <1> QED BY <1>2 DEF FileName

LEMMA OpenDataFirst ==
  ASSUME SysInv, NEW o \in Owner, UploadTrue(o), FirstData(o), OpenData(o),
         UNCHANGED doVars, UNCHANGED querierVars
  PROVE  FirstData(o)'
  <1>1. /\ pc[o] = "run" /\ req[o].op = "data" /\ req' = req
        /\ record' = [record EXCEPT ![o] = Manager(o, req[o].num)]
        /\ file' = [file EXCEPT ![NameOf(o, req[o].index)] = Torn]
      BY DEF OpenData
  <1>2. pc'[o] = "write"
      BY DEF OpenData, Goto, SysInv, CloudInv, CloudTypeOK, Thread, Owner
  <1>3. record'[o].saved = record[o].saved
      BY <1>1, SizedByOwner
  <1>4. NumFiles[o] - 1 \notin record'[o].saved
      BY <1>1, <1>3, NotYetClosed
  <1>5. ASSUME OwnNames PROVE FilesWhole(o)'
      <2>1. DOMAIN file = FileName /\ NameOf(o, req[o].index) \in FileName
          BY <1>1, IndexType DEF SysInv, CloudInv, CloudTypeOK
      <2>2. file'[NameOf(o, req[o].index)] = Torn
          BY <1>1, <2>1
      <2>3. ASSUME NEW i \in record[o].saved, i # req[o].index
            PROVE  file'[NameOf(o, i)] = Whole(o, i)
          <3>1. NameOf(o, i) # NameOf(o, req[o].index)
              BY <2>3, NamesDiffer
          <3>2. file'[NameOf(o, i)] = file[NameOf(o, i)]
              BY <1>1, <2>1, <3>1
          <3> QED BY <1>1, <1>5, <3>2 DEF FirstData, FilesWhole
      <2> QED BY <1>1, <1>2, <1>3, <2>2, <2>3 DEF FilesWhole, Whole
  <1> QED BY <1>1, <1>2, <1>4, <1>5 DEF FirstData, DataPending, Ended, doVars, querierVars

LEMMA IgnoreDataFirst ==
  ASSUME SysInv, NEW o \in Owner, UploadTrue(o), FirstData(o), IgnoreData(o),
         UNCHANGED doVars, UNCHANGED querierVars
  PROVE  FirstData(o)'
  <1>1. /\ pc[o] = "run" /\ req[o].op = "data" /\ req' = req /\ file' = file
        /\ record' = [record EXCEPT ![o] = Manager(o, req[o].num)]
      BY DEF IgnoreData
  <1>2. record'[o].saved = record[o].saved
      BY <1>1, SizedByOwner
  <1>3. NumFiles[o] - 1 \notin record'[o].saved
      BY <1>1, <1>2, NotYetClosed
  <1>4. OwnNames => FilesWhole(o)'
      BY <1>1, <1>2 DEF FirstData, FilesWhole, Whole
  <1> QED BY <1>1, <1>3, <1>4 DEF FirstData, DataPending, Ended, doVars, querierVars

(* When the last file is saved, its upload is the last of the session.     *)
LEMMA WriteDataFirst ==
  ASSUME SysInv, NEW o \in Owner, UploadTrue(o), FirstData(o), WriteData(o),
         UNCHANGED doVars, UNCHANGED querierVars
  PROVE  /\ FirstData(o)'
         /\ record'[o].saved = record[o].saved \cup {req[o].index}
         /\ file' = [file EXCEPT ![NameOf(o, req[o].index)] = Whole(o, req[o].index)]
  <1>1. pc[o] = "write" /\ req' = req
      BY DEF WriteData
  <1>2. DataPending(o) /\ NumFiles[o] - 1 \notin record[o].saved
      BY <1>1, NotYetClosed
  <1>3. pc'[o] \in {"raise", "reply"}
      BY Threads DEF WriteData, Goto, SysInv, CloudInv, CloudTypeOK
  <1>4. record'[o].saved = record[o].saved \cup {req[o].index}
      BY DEF WriteData, SysInv, CloudInv, CloudTypeOK
  <1>5. file' = [file EXCEPT ![NameOf(o, req[o].index)] = Whole(o, req[o].index)]
      BY <1>2 DEF WriteData, FirstData, DataPending, UploadTrue, Whole
  <1>6. ASSUME OwnNames PROVE FilesWhole(o)'
      <2> SUFFICES ASSUME NEW i \in record[o].saved \cup {req[o].index}
                   PROVE  file'[NameOf(o, i)] = Whole(o, i)
          BY <1>4 DEF FilesWhole, Whole
      <2>1. NameOf(o, i) \in DOMAIN file
          BY <1>2, IndexType DEF SysInv, CloudInv, CloudTypeOK, FileName, DataPending
      <2>2. CASE i = req[o].index
          BY <1>5, <2>1, <2>2
      <2>3. CASE i # req[o].index
          <3>1. NameOf(o, i) # NameOf(o, req[o].index)
              BY <2>3, NamesDiffer
          <3> QED BY <1>1, <1>4, <1>5, <1>6, <2>1, <2>3, <3>1 DEF FirstData, FilesWhole
      <2> QED BY <2>2, <2>3
  <1>7. ASSUME NumFiles[o] - 1 \in record'[o].saved PROVE Closed(o)'
      <2>1. req[o].index = NumFiles[o] - 1
          BY <1>2, <1>4, <1>7
      <2>2. CASE dpc[o] = "upload"
          <3>1. sent[o] = NumFiles[o] - 1
              BY <1>1, <2>1, <2>2 DEF UploadTrue, OwnerRequest
          <3>2. await[o] /\ step[o] = 4
              BY <2>2 DEF FirstData, SysInv, OwnerTold
          <3> QED BY <1>3, <2>2, <3>1, <3>2 DEF Closed, doVars, querierVars
      <2>3. CASE dpc[o] = "start" /\ Ended(o)
          BY <1>3, <2>3 DEF Closed, Ended, doVars, querierVars
      <2> QED BY <1>2, <2>2, <2>3 DEF FirstData
  <1>8. FirstData(o)'
      BY <1>1, <1>2, <1>6, <1>7 DEF FirstData, DataPending, Ended, doVars, querierVars
  <1> QED BY <1>4, <1>5, <1>8

LEMMA RaiseFirst ==
  ASSUME SysInv, NEW o \in Owner, FirstData(o), LoadState(o) \/ ApplyEvent(o),
         UNCHANGED doVars, UNCHANGED querierVars
  PROVE  FirstData(o)'
  <1>1. UNCHANGED <<record, req, file>> /\ pc[o] \in {"raise", "apply"}
      BY DEF LoadState, ApplyEvent
  <1>2. pc'[o] \in {"apply", "reply"}
      BY Threads DEF LoadState, ApplyEvent, Goto, SysInv, CloudInv, CloudTypeOK
  <1> QED BY <1>1, <1>2 DEF FirstData, FilesWhole, Whole, DataPending, Closed, Ended, doVars,
            querierVars

LEMMA CloudWorksData ==
  ASSUME SysInv, NEW o \in Owner, UploadTrue(o), FirstData(o), CloudWorks(o)
  PROVE  FirstData(o)'
  BY Threads, OpenDataFirst, IgnoreDataFirst, WriteDataFirst, RaiseFirst
  DEF CloudWorks, CallbackStep, OwnerStep

LEMMA FirstDataNext ==
  ASSUME SysInv, UploadsTrue, sess = 1, sess' = 1, FirstDatas, [Next]_vars
  PROVE  FirstDatas'
  <1> SUFFICES ASSUME NEW o \in Owner PROVE FirstData(o)'
      BY DEF FirstDatas
  <1>1. FirstData(o) /\ UploadTrue(o)
      BY DEF FirstDatas, UploadsTrue
  <1>2. ~ NewSession
      BY DEF NewSession, NextQuerier
  <1>3. CASE \/ QuerierCallsCloud \/ CloudAnswersQuerier \/ CloudWorks("Q")
             \/ (\E t \in Thread : Timeout(t)) \/ UNCHANGED vars
      BY <1>1, <1>3, QuerierSideData
  <1>4. ASSUME NEW p \in Owner,
               \/ QuerierCallsOwner(p) \/ OwnerAnswersQuerier(p) \/ OwnerCallsCloud(p)
               \/ CloudAnswersOwner(p) \/ OwnerFailsToSend(p) \/ OwnerStarts(p)
               \/ OwnerRestarts(p) \/ CloudWorks(p)
        PROVE  FirstData(o)'
      <2>1. CASE p = o
          BY <1>1, <1>4, <2>1, QuerierCallsOwnerData, OwnerAnswersQuerierData,
             OwnerCallsCloudData, CloudAnswersOwnerData, OwnerAloneData, CloudWorksData
      <2>2. CASE p # o
          BY <1>1, <1>4, <2>2, OtherSideData
      <2> QED BY <2>1, <2>2
  <1> QED BY <1>2, <1>3, <1>4, Threads DEF Next, Quiet
-----------------------------------------------------------------------------
(* A computation reads the files of A in order, then those of B.           *)
LEMMA ReadFacts ==
  ASSUME calc.num \in Nat \ {0}, calc.pos \in Nat, calc.pos < 2 * calc.num
  PROVE  /\ calc.pos < calc.num => ReadOwner = "A" /\ ReadIndex = calc.pos
         /\ calc.pos >= calc.num => ReadOwner = "B" /\ ReadIndex = calc.pos - calc.num
         /\ ReadIndex \in 0 .. calc.num - 1
         /\ ReadOwner \in Owner
  <1> DEFINE n == calc.num
             p == calc.pos
  <1>1. n \in Nat \ {0} /\ p \in Nat /\ p < 2 * n
      OBVIOUS
  <1> HIDE DEF n, p
  <1>2. CASE p < n
      <2>1. p % n = p
          BY <1>1, <1>2
      <2> QED BY <1>1, <1>2, <2>1 DEF ReadOwner, ReadIndex, Owner, n, p
  <1>3. CASE p >= n
      <2>1. p % n = p - n
          BY <1>1, <1>3
      <2>2. p - n \in 0 .. n - 1 /\ ~ (p < n)
          BY <1>1, <1>3
      <2> QED BY <1>1, <1>3, <2>1, <2>2 DEF ReadOwner, ReadIndex, Owner, n, p
  <1> QED BY <1>1, <1>2, <1>3 DEF n, p

LEMMA PartFacts ==
  ASSUME NEW o \in Owner
  PROVE  /\ PartOf(o, 0) = {}
         /\ \A n \in Nat : PartOf(o, n + 1) = PartOf(o, n) \cup {Whole(o, n)}
         /\ PartOf(o, NumFiles[o]) = SetOf(o, KeyOf[1])
  <1>1. PartOf(o, 0) = {}
      BY DEF PartOf
  <1>2. ASSUME NEW n \in Nat PROVE PartOf(o, n + 1) = PartOf(o, n) \cup {Whole(o, n)}
      <2>1. 0 .. (n + 1) - 1 = (0 .. n - 1) \cup {n}
          OBVIOUS
      <2> QED BY <2>1 DEF PartOf
  <1>3. PartOf(o, NumFiles[o]) = SetOf(o, KeyOf[1])
      BY DEF PartOf, SetOf, Whole
  <1> QED BY <1>1, <1>2, <1>3

(* What the querier's thread of the cloud knows while it computes.         *)
LEMMA Reading ==
  ASSUME SysInv, UploadsTrue, FirstDatas, FirstCalc, pc["Q"] = "read"
  PROVE  /\ calc.num \in Nat \ {0} /\ calc.pos \in Nat
         /\ \A o \in Owner : /\ calc.num = NumFiles[o]
                             /\ UploadTrue(o) /\ FirstData(o) /\ AllSaved(o)
         /\ step["Q"] = 3 /\ await["Q"]
  <1>1. HasAllData /\ await["Q"]
      BY DEF FirstCalc
  <1>2. \A o \in Owner : UploadTrue(o) /\ FirstData(o) /\ AllSaved(o)
      BY <1>1 DEF HasAllData, UploadsTrue, FirstDatas
  <1>3. \A o \in Owner : record[o].num = NumFiles[o]
      BY <1>2, LastFile
  <1>4. \A o \in Owner : calc.num = NumFiles[o]
      BY <1>3 DEF SysInv, CloudInv, QuerierThread, Owner
  <1>5. calc.num \in Nat \ {0} /\ calc.pos \in Nat
      BY <1>4, DataownerAssumption DEF SysInv, CloudInv, CloudTypeOK, Owner
  <1>6. step["Q"] = 3
      <2>1. req["Q"].op = "compute" /\ req["Q"].op = Op("Q") /\ step["Q"] \in 1 .. 5
          BY <1>1, Threads DEF SysInv, CloudInv, QuerierThread, CloudServes, RequestOf, Scripted
      <2> QED BY <2>1, CloudOp
  <1> QED BY <1>1, <1>2, <1>4, <1>5, <1>6

LEMMA ReadDataCalc ==
  ASSUME OwnNames, SysInv, UploadsTrue, FirstDatas, FirstCalc, ReadData
  PROVE  /\ calc'.num = calc.num
         /\ calc'.pos < calc.num => calc'.used = PartOf("A", calc'.pos)
         /\ calc'.pos >= calc.num =>
              calc'.used = PartOf("A", calc.num) \cup PartOf("B", calc'.pos - calc.num)
         /\ \A data \in calc'.used : data.key # NoKey
  <1>1. pc["Q"] = "read" /\ calc.pos < 2 * calc.num
      BY DEF ReadData
  <1>2. /\ calc.num \in Nat \ {0} /\ calc.pos \in Nat
        /\ \A o \in Owner : /\ calc.num = NumFiles[o]
                            /\ UploadTrue(o) /\ FirstData(o) /\ AllSaved(o)
      BY <1>1, Reading
  <1>3. file[ReadName] = Whole(ReadOwner, ReadIndex)
      <2>1. ReadOwner \in Owner /\ ReadIndex \in 0 .. NumFiles[ReadOwner] - 1
          BY <1>1, <1>2, ReadFacts
      <2> QED BY <1>2, <2>1, SavedWhole DEF ReadName
  <1>4. /\ calc'.pos = calc.pos + 1 /\ calc'.num = calc.num
        /\ calc'.used = calc.used \cup {Whole(ReadOwner, ReadIndex)}
      BY <1>3 DEF ReadData, SysInv, CloudInv, CloudTypeOK
  <1>5. Whole(ReadOwner, ReadIndex).key # NoKey
      BY SessionKey, QuerierAssumption, KeyAssumption DEF Whole, Content, Session
  <1>6. \A data \in calc'.used : data.key # NoKey
      BY <1>4, <1>5 DEF FirstCalc, NoTornRead
  <1>7. "A" \in Owner /\ "B" \in Owner
      BY DEF Owner
  <1>8. CASE calc.pos < calc.num
      <2>1. calc'.used = PartOf("A", calc.pos) \cup {Whole("A", calc.pos)}
          BY <1>1, <1>2, <1>4, <1>8, ReadFacts DEF FirstCalc
      <2>2. calc'.used = PartOf("A", calc'.pos)
          BY <1>2, <1>4, <1>7, <2>1, PartFacts
      <2>3. calc'.pos >= calc.num => calc'.pos = calc.num /\ calc'.pos - calc.num = 0
          BY <1>2, <1>4, <1>8
      <2> QED BY <1>4, <1>6, <1>7, <2>2, <2>3, PartFacts
  <1>9. CASE calc.pos >= calc.num
      <2> DEFINE k == calc.pos - calc.num
      <2>1. k \in Nat /\ calc'.pos - calc.num = k + 1 /\ ~ (calc'.pos < calc.num)
          BY <1>2, <1>4, <1>9
      <2>2. calc'.used = PartOf("A", calc.num) \cup PartOf("B", k) \cup {Whole("B", k)}
          BY <1>1, <1>2, <1>4, <1>9, ReadFacts DEF FirstCalc
      <2> HIDE DEF k
      <2>3. PartOf("B", k + 1) = PartOf("B", k) \cup {Whole("B", k)}
          BY <1>7, <2>1, PartFacts
      <2> QED BY <1>4, <1>6, <2>1, <2>2, <2>3
  <1> QED BY <1>2, <1>8, <1>9

(* The result a computation of the first session writes is complete.       *)
LEMMA SaveResultCalc ==
  ASSUME SysInv, UploadsTrue, sess = 1, FirstDatas, FirstCalc, SaveResult
  PROVE  result' = OwnResult(1)
  <1>1. /\ pc["Q"] = "read" /\ calc.pos = 2 * calc.num
        /\ result' = [key |-> calc.key, used |-> calc.used]
      BY DEF SaveResult
  <1>2. /\ calc.num \in Nat \ {0} /\ calc.pos \in Nat
        /\ \A o \in Owner : calc.num = NumFiles[o]
        /\ step["Q"] = 3 /\ await["Q"]
      BY <1>1, Reading
  <1>3. calc.key = KeyOf[1]
      BY <1>1, <1>2 DEF SysInv, CloudTold
  <1>4. calc.pos >= calc.num /\ calc.pos - calc.num = calc.num
      BY <1>1, <1>2
  <1>5. calc.used = PartOf("A", calc.num) \cup PartOf("B", calc.num)
      BY <1>1, <1>4 DEF FirstCalc
  <1>6. calc.used = SetOf("A", KeyOf[1]) \cup SetOf("B", KeyOf[1])
      BY <1>2, <1>5, PartFacts DEF Owner
  <1>7. UNION {SetOf(o, KeyOf[1]) : o \in Owner} = SetOf("A", KeyOf[1]) \cup SetOf("B", KeyOf[1])
      BY DEF Owner
  <1> QED BY <1>1, <1>3, <1>6, <1>7 DEF OwnResult

LEMMA CalcFrame ==
  ASSUME FirstCalc, HasAllData => HasAllData',
         pc'["Q"] = pc["Q"], await'["Q"] = await["Q"], calc' = calc, result' = result
  PROVE  FirstCalc'
  BY DEF FirstCalc, NoTornRead, PartOf, Whole, OwnResult, SetOf

LEMMA DataKept ==
  ASSUME SysInv, [Next]_vars, HasAllData PROVE HasAllData'
  <1>1. [CloudNext]_cloudVars
      BY CloudStep
  <1>2. \A o \in Owner : record'[o] = record[o]
      BY <1>1, SavedKept DEF SysInv, HasAllData, cloudVars
  <1> QED BY <1>2 DEF HasAllData, AllSaved

LEMMA CloudWorksCalc ==
  ASSUME OwnNames, SysInv, UploadsTrue, sess = 1, FirstDatas, FirstCalc, CloudWorks("Q"),
         HasAllData => HasAllData'
  PROVE  FirstCalc'
  <1>1. await' = await /\ await["Q"]
      <2>1. pc["Q"] # "idle"
          BY Threads
          DEF CloudWorks, CallbackStep, QuerierStep, StorePubkey, StartCompute, ReadData,
              RejectData, SaveResult, SendResult, LoadState, ApplyEvent
      <2> QED BY <2>1 DEF FirstCalc, CloudWorks, querierVars
  <1>2. /\ pc \in [Thread -> {"idle", "run", "write", "read", "raise",
                              "apply", "reply", "threw", "undefined"}]
        /\ "Q" \in Thread
      BY Threads DEF SysInv, CloudInv, CloudTypeOK
  <1>3. CASE StorePubkey \/ RejectData \/ SendResult \/ LoadState("Q") \/ ApplyEvent("Q")
      <2>1. pc'["Q"] # "read" /\ calc' = calc /\ result' = result
          BY <1>2, <1>3 DEF StorePubkey, RejectData, SendResult, LoadState, ApplyEvent, Goto
      <2> QED BY <1>1, <2>1 DEF FirstCalc, NoTornRead
  <1>4. CASE StartCompute
      <2>1. calc'.pos = 0 /\ calc'.used = {} /\ result' = result
          BY <1>4 DEF StartCompute
      <2>2. HasAllData
          BY <1>4 DEF StartCompute, SysInv, CloudInv, QuerierThread
      <2>3. ASSUME pc'["Q"] = "read" PROVE calc'.num # 0
          BY <1>2, <1>4, <2>3 DEF StartCompute, Goto
      <2>4. calc'.num \in Nat
          <3>1. \A o \in Owner : record'[o] = record[o]
              BY <1>4, StartComputeSame
          <3>2. "A" \in Owner
              BY DEF Owner
          <3>3. calc'.num = record'["A"].num
              BY <1>4, <3>2 DEF StartCompute
          <3>4. record["A"].num \in 0 .. MaxNum
              BY <3>2 DEF SysInv, CloudInv, CloudTypeOK
          <3> QED BY <3>1, <3>2, <3>3, <3>4, CloudAssumption
      <2>5. pc'["Q"] = "read" => 0 < calc'.num /\ ~ (0 >= calc'.num)
          BY <2>3, <2>4
      <2>6. PartOf("A", calc.pos)' = {}
          <3>1. PartOf("A", calc'.pos) = {}
              BY <2>1, PartFacts DEF Owner
          <3>2. PartOf("A", calc.pos)' = PartOf("A", calc'.pos)
              BY DEF PartOf, Whole
          <3> QED BY <3>1, <3>2
      <2>7. pc'["Q"] = "read" => calc'.pos < calc'.num /\ ~ (calc'.pos >= calc'.num)
          BY <2>1, <2>5
      <2>8. NoTornRead' /\ result' \in {NoResult, OwnResult(1)'}
          BY <2>1 DEF FirstCalc, NoTornRead, OwnResult, SetOf
      <2> QED BY <1>1, <2>1, <2>2, <2>6, <2>7, <2>8 DEF FirstCalc
  <1>5. CASE ReadData
      <2>1. pc' = pc /\ result' = result /\ pc["Q"] = "read"
          BY <1>5 DEF ReadData
      <2>2. HasAllData'
          BY <2>1 DEF FirstCalc
      <2>3. /\ calc'.pos < calc'.num => calc'.used = PartOf("A", calc'.pos)
            /\ calc'.pos >= calc'.num =>
                 calc'.used = PartOf("A", calc'.num) \cup PartOf("B", calc'.pos - calc'.num)
            /\ NoTornRead'
          BY <1>5, ReadDataCalc DEF NoTornRead
      <2>4. /\ PartOf("A", calc.pos)' = PartOf("A", calc'.pos)
            /\ PartOf("A", calc.num)' = PartOf("A", calc'.num)
            /\ PartOf("B", calc.pos - calc.num)' = PartOf("B", calc'.pos - calc'.num)
          BY DEF PartOf, Whole
      <2>5. result' \in {NoResult, OwnResult(1)'}
          BY <2>1 DEF FirstCalc, OwnResult, SetOf
      <2> QED BY <1>1, <2>1, <2>2, <2>3, <2>4, <2>5 DEF FirstCalc
  <1>6. CASE SaveResult
      <2>1. pc'["Q"] # "read" /\ calc' = calc
          BY <1>2, <1>6 DEF SaveResult, Goto
      <2>2. result' = OwnResult(1)
          BY <1>6, SaveResultCalc
      <2> QED BY <1>1, <2>1, <2>2 DEF FirstCalc, NoTornRead, OwnResult, SetOf
  <1> QED BY <1>3, <1>4, <1>5, <1>6, Threads DEF CloudWorks, CallbackStep, QuerierStep

LEMMA FirstCalcNext ==
  ASSUME OwnNames, SysInv, UploadsTrue, sess = 1, sess' = 1, FirstDatas, FirstCalc, [Next]_vars
  PROVE  FirstCalc'
  <1>1. HasAllData => HasAllData'
      BY DataKept
  <1>2. /\ pc \in [Thread -> {"idle", "run", "write", "read", "raise",
                              "apply", "reply", "threw", "undefined"}]
        /\ await \in [Thread -> BOOLEAN]
      BY DEF SysInv, CloudInv, CloudTypeOK, Scripted, QuerierTypeOK
  <1>3. CASE QuerierCallsCloud
      <2>1. pc'["Q"] # "read" /\ await'["Q"] /\ calc' = calc /\ result' = result
          BY <1>2, <1>3, Threads DEF QuerierCallsCloud, Send, Receive, Goto
      <2> QED BY <2>1 DEF FirstCalc, NoTornRead
  <1>4. CASE CloudAnswersQuerier
      <2>1. pc'["Q"] = "idle" /\ calc'.used = {} /\ result' = result
          BY <1>2, <1>4, Threads DEF CloudAnswersQuerier, Reply, Goto, NoCalc
      <2> QED BY <2>1 DEF FirstCalc, NoTornRead
  <1>5. CASE CloudWorks("Q")
      BY <1>1, <1>5, CloudWorksCalc
  <1>6. ASSUME NEW o \in Owner,
               \/ QuerierCallsOwner(o) \/ OwnerAnswersQuerier(o) \/ OwnerCallsCloud(o)
               \/ CloudAnswersOwner(o) \/ OwnerFailsToSend(o) \/ OwnerStarts(o)
               \/ OwnerRestarts(o) \/ CloudWorks(o)
        PROVE  FirstCalc'
      <2>1. o # "Q" /\ "Q" \in Thread
          BY Threads
      <2>2. calc' = calc /\ result' = result
          BY <1>6, <2>1
          DEF QuerierCallsOwner, OwnerAnswersQuerier, OwnerThrewBroken, OwnerCallsCloud,
              Receive, CloudAnswersOwner, Reply, OwnerFailsToSend, OwnerStarts,
              OwnerRestarts, CloudWorks, CallbackStep, OwnerStep, OpenData, IgnoreData,
              WriteData, LoadState, ApplyEvent, cloudVars
      <2>3. pc' = pc \/ \E label : pc' = [pc EXCEPT ![o] = label]
          BY <1>6, <2>1
          DEF QuerierCallsOwner, OwnerAnswersQuerier, OwnerThrewBroken, OwnerCallsCloud,
              Receive, CloudAnswersOwner, Reply, OwnerFailsToSend, OwnerStarts,
              OwnerRestarts, CloudWorks, CallbackStep, OwnerStep, OpenData, IgnoreData,
              WriteData, LoadState, ApplyEvent, cloudVars, Goto
      <2>4. await' = await \/ \E b : await' = [await EXCEPT ![o] = b]
          BY <1>6
          DEF QuerierCallsOwner, Send, OwnerAnswersQuerier, OwnerThrewBroken, Served,
              Broken, Unanswered, OwnerCallsCloud, CloudAnswersOwner, OwnerFailsToSend,
              OwnerStarts, OwnerRestarts, Disconnected, CloudWorks, querierVars
      <2>5. pc'["Q"] = pc["Q"] /\ await'["Q"] = await["Q"]
          BY <1>2, <2>1, <2>3, <2>4
      <2> QED BY <1>1, <2>2, <2>5, CalcFrame
  <1>7. CASE (\E t \in Thread : Timeout(t)) \/ UNCHANGED vars
      BY <1>1, <1>7, CalcFrame DEF Timeout, GiveUp, vars, cloudVars, querierVars
  <1>8. ~ NewSession
      BY DEF NewSession, NextQuerier
  <1> QED BY <1>3, <1>4, <1>5, <1>6, <1>7, <1>8, Threads DEF Next, Quiet
-----------------------------------------------------------------------------
(* The first answer is downloaded in the first session, after a result.    *)
LEMMA FirstDownload ==
  ASSUME SysInv, sess = 1, FirstCalc, Served("Q", result), Op("Q") = "download"
  PROVE  result = OwnResult(1) /\ answer' = [answer EXCEPT ![1] = result]
  <1>1. step["Q"] > 3
      BY CloudOp, Threads DEF Served, SysInv, Scripted
  <1>2. result.key = KeyOf[1]
      BY <1>1 DEF SysInv, CloudTold
  <1>3. NoResult.key # KeyOf[1]
      BY QuerierAssumption, KeyAssumption DEF NoResult, Session
  <1> QED BY <1>2, <1>3 DEF FirstCalc, Served

LEMMA OwnersAnswerNothing ==
  ASSUME SysInv, NEW o \in Owner, OwnerAnswersQuerier(o) PROVE answer' = answer
  <1>1. await[o] => Op(o) # "download"
      BY OwnerOps, Threads DEF SysInv, Scripted
  <1> QED BY <1>1 DEF OwnerAnswersQuerier, OwnerThrewBroken, Served, Broken, Unanswered,
            querierVars

LEMMA AnswerStep ==
  ASSUME SysInv, [Next]_vars
  PROVE  \/ answer' = answer
         \/ CloudAnswersQuerier /\ Served("Q", result) /\ Op("Q") = "download"
  <1>1. CASE CloudAnswersQuerier
      BY <1>1 DEF CloudAnswersQuerier, Served, Broken, Unanswered, querierVars
  <1>2. ASSUME NEW o \in Owner, OwnerAnswersQuerier(o) PROVE answer' = answer
      BY <1>2, OwnersAnswerNothing
  <1>3. CASE ~ CloudAnswersQuerier /\ ~ \E o \in Owner : OwnerAnswersQuerier(o)
      BY <1>3
      DEF Next, QuerierCallsCloud, Send, QuerierCallsOwner, OwnerCallsCloud,
          CloudAnswersOwner, OwnerFailsToSend, OwnerStarts, OwnerRestarts, Disconnected,
          CloudWorks, Timeout, GiveUp, NewSession, NextQuerier, Quiet, vars, querierVars
  <1> QED BY <1>1, <1>2, <1>3

LEMMA FirstAnswerNext ==
  ASSUME OwnNames, SysInv, FirstInv, [Next]_vars
  PROVE  FirstAnswer'
  <1>1. FirstAnswer' <=> answer'[1] \in {NoAnswer, OwnResult(1)}
      BY DEF FirstAnswer, OwnResult, SetOf, NoAnswer
  <1>2. CASE answer' = answer
      BY <1>1, <1>2 DEF FirstInv, FirstAnswer
  <1>3. CASE Served("Q", result) /\ Op("Q") = "download"
      <2>1. CASE sess = 1
          <3>1. result = OwnResult(1) /\ answer' = [answer EXCEPT ![1] = result]
              BY <1>3, <2>1, FirstDownload DEF FirstInv
          <3>2. 1 \in DOMAIN answer
              BY QuerierAssumption DEF SysInv, Scripted, Session
          <3> QED BY <1>1, <3>1, <3>2
      <2>2. CASE sess # 1
          <3>1. answer'[1] = answer[1]
              BY <1>3, <2>2, QuerierAssumption DEF Served, SysInv, Scripted, Session
          <3> QED BY <1>1, <3>1 DEF FirstInv, FirstAnswer
      <2> QED BY <2>1, <2>2
  <1> QED BY <1>2, <1>3, AnswerStep

(* A session follows another: the first was there before, or none is.      *)
LEMMA SessionStep ==
  ASSUME SysInv, [Next]_vars, sess' = 1 PROVE sess = 1
  <1>1. sess \in Session
      BY DEF SysInv, Scripted, QuerierTypeOK
  <1>2. NewSession => sess' = sess + 1
      BY DEF NewSession, NextQuerier
  <1>3. ~ NewSession => sess' = sess
      BY DEF Next, QuerierCallsCloud, Send, CloudAnswersQuerier, Served, Broken, Unanswered,
          QuerierCallsOwner, OwnerAnswersQuerier, OwnerThrewBroken, OwnerCallsCloud,
          CloudAnswersOwner, OwnerFailsToSend, OwnerStarts, OwnerRestarts, Disconnected,
          CloudWorks, Timeout, GiveUp, Quiet, vars, querierVars
  <1> QED BY <1>1, <1>2, <1>3, QuerierAssumption DEF Session

LEMMA FirstNext ==
  ASSUME SysInv, UploadsTrue, FirstInv, [Next]_vars
  PROVE  FirstInv'
  <1>1. ASSUME sess' = 1 PROVE FirstDatas' /\ (OwnNames => FirstCalc')
      BY <1>1, SessionStep, FirstDataNext, FirstCalcNext DEF FirstInv
  <1> QED BY <1>1, FirstAnswerNext DEF FirstInv
-----------------------------------------------------------------------------
(* What all of this rests on holds as long as the first querier runs,      *)
(* whether it is killed, gives up, or meets an owner that starts again.    *)
FirstSysInv == SysInv /\ UploadsTrue /\ FirstInv

THEOREM FirstSession == Spec => []FirstSysInv
  <1>1. Init => FirstSysInv
      BY SysInit, UploadInit, FirstInit DEF FirstSysInv
  <1>2. FirstSysInv /\ [Next]_vars => FirstSysInv'
      BY SysNext, UploadNext, FirstNext DEF FirstSysInv
  <1> QED BY <1>1, <1>2, PTL DEF Spec

(* However many queriers follow it, and whatever fails, is given up or     *)
(* killed: what the first querier downloads, if it does, is the result of  *)
(* its own key and of the whole sets of both owners under that key.        *)
THEOREM FirstAnswerIsOwn ==
  ASSUME OwnNames PROVE Spec => []FirstAnswer
  <1>1. FirstSysInv => FirstAnswer
      BY DEF FirstSysInv, FirstInv
  <1> QED BY <1>1, FirstSession, PTL

(* For one querier, the result it downloads is its own; with a second one  *)
(* it need not be (the run StaleAnswer).                                   *)
THEOREM AnswersAreOwn ==
  ASSUME OwnNames, MaxSession = 1 PROVE Spec => []AnswerIsOwn
  <1>1. FirstAnswer => AnswerIsOwn
      BY DEF FirstAnswer, AnswerIsOwn, Session
  <1> QED BY <1>1, FirstAnswerIsOwn, PTL

(* For one querier, no computation reads a file that an upload is writing, *)
(* or has not written, however often uploads are cut short.                *)
THEOREM ReadsAreWhole ==
  ASSUME OwnNames, MaxSession = 1 PROVE Spec => []NoTornRead
  <1>1. FirstSysInv => NoTornRead
      BY DEF FirstSysInv, FirstInv, FirstCalc, SysInv, Scripted, QuerierTypeOK, Session
  <1> QED BY <1>1, FirstSession, PTL
-----------------------------------------------------------------------------
(* The promise of PsiSession, in the terms of its mapping (First).         *)
Informed  == {o \in Owner : dkey[o] = KeyOf[1]} \cup {t \in {"Q"} : pubkey = KeyOf[1]}
SetStored(o) == {file[NameOf(o, i)] : i \in record[o].saved} = SetOf(o, KeyOf[1])
Delivered == {o \in Owner : SetStored(o)}
Computed  == result = OwnResult(1)
Answered  == answer[1] # NoAnswer
Met       == failed # {}

(* The whole set is there only with its last file.                         *)
LEMMA SetStoredLast ==
  ASSUME NEW o \in Owner, NEW saved, NEW f,
         \A i \in saved : f[NameOf(o, i)] \in {Whole(o, i), Torn},
         {f[NameOf(o, i)] : i \in saved} = SetOf(o, KeyOf[1])
  PROVE  NumFiles[o] - 1 \in saved
  <1> DEFINE last == NumFiles[o] - 1
  <1>1. last \in 0 .. NumFiles[o] - 1
      BY DataownerAssumption
  <1>2. Whole(o, last) \in SetOf(o, KeyOf[1])
      BY <1>1 DEF SetOf, Whole
  <1>3. PICK i \in saved : f[NameOf(o, i)] = Whole(o, last)
      BY <1>2
  <1>4. Whole(o, last) # Torn
      BY DEF Whole, Content, Torn, Owner
  <1>5. Whole(o, i).index = i /\ Whole(o, last).index = last
      BY DEF Whole, Content
  <1> QED BY <1>3, <1>4, <1>5

LEMMA SetStoredSame ==
  ASSUME NEW o \in Owner, record'[o].saved = record[o].saved, FilesSame(o)
  PROVE  SetStored(o)' <=> SetStored(o)
  BY DEF SetStored, FilesSame, SetOf

(* Only a file that is written delivers a set, and none undoes it.         *)
LEMMA SetStoredNext ==
  ASSUME OwnNames, SysInv, UploadsTrue, sess = 1, sess' = 1, FirstDatas,
         [Next]_vars, NEW o \in Owner
  PROVE  \/ SetStored(o)' <=> SetStored(o)
         \/ CloudWorks(o) /\ DataPending(o) /\ ~ SetStored(o) /\ SetStored(o)'
  <1>1. ~ NewSession
      BY DEF NewSession, NextQuerier
  <1>2. CASE \/ QuerierCallsCloud \/ CloudAnswersQuerier \/ CloudWorks("Q")
             \/ (\E t \in Thread : Timeout(t)) \/ UNCHANGED vars
      BY <1>2, QuerierSideFiles, SetStoredSame DEF CloudSame
  <1>3. ASSUME NEW p \in Owner, p # o,
               \/ QuerierCallsOwner(p) \/ OwnerAnswersQuerier(p) \/ OwnerCallsCloud(p)
               \/ CloudAnswersOwner(p) \/ OwnerFailsToSend(p) \/ OwnerStarts(p)
               \/ OwnerRestarts(p) \/ CloudWorks(p)
        PROVE  SetStored(o)' <=> SetStored(o)
      BY <1>3, OtherSideFiles, SetStoredSame DEF CloudSame
  <1>4. CASE \/ QuerierCallsOwner(o) \/ OwnerAnswersQuerier(o) \/ OwnerCallsCloud(o)
             \/ CloudAnswersOwner(o) \/ OwnerFailsToSend(o) \/ OwnerStarts(o)
             \/ OwnerRestarts(o)
      <2>1. record' = record /\ file' = file
          BY <1>4
          DEF QuerierCallsOwner, OwnerAnswersQuerier, OwnerThrewBroken, OwnerCallsCloud,
              Receive, CloudAnswersOwner, Reply, OwnerFailsToSend, OwnerStarts,
              OwnerRestarts, cloudVars
      <2> QED BY <2>1 DEF SetStored, SetOf
  <1>5. CASE CloudWorks(o)
      <2>1. CASE LoadState(o) \/ ApplyEvent(o)
          BY <2>1 DEF LoadState, ApplyEvent, SetStored, SetOf
      <2>2. CASE OpenData(o) \/ IgnoreData(o) \/ WriteData(o)
          <3>1. FirstData(o)
              BY DEF FirstDatas
          <3>2. pc[o] \in {"run", "write"}
              BY <2>2 DEF OpenData, IgnoreData, WriteData
          <3>3. DataPending(o) /\ NumFiles[o] - 1 \notin record[o].saved
              BY <3>1, <3>2, NotYetClosed
          <3>4. ~ SetStored(o)
              <4>1. \A i \in record[o].saved : file[NameOf(o, i)] \in {Whole(o, i), Torn}
                  BY <3>1 DEF FirstData, FilesWhole
              <4> QED BY <3>3, <4>1, SetStoredLast DEF SetStored
          <3> QED BY <1>5, <3>3, <3>4
      <2> QED BY <1>5, <2>1, <2>2, Threads DEF CloudWorks, CallbackStep, OwnerStep
  <1> QED BY <1>1, <1>2, <1>3, <1>4, <1>5, Threads DEF Next, Quiet

(* A step of the first session is one of the promise, or none.             *)
PsiSame == /\ Informed' = Informed /\ Delivered' = Delivered
           /\ Computed' = Computed /\ Answered' = Answered /\ Met' = Met

LEMMA DeliveredSame ==
  ASSUME \A o \in Owner : SetStored(o)' <=> SetStored(o) PROVE Delivered' = Delivered
  BY DEF Delivered

LEMMA ComputedSame ==
  ASSUME result' = result PROVE Computed' = Computed
  BY DEF Computed, OwnResult, SetOf

LEMMA CallIsInform ==
  ASSUME OwnNames, SysInv, UploadsTrue, sess = 1, FirstDatas,
         NEW o \in Owner, QuerierCallsOwner(o)
  PROVE  PsiSame \/ First!Inform(o)
  <1>1. /\ record' = record /\ file' = file /\ pubkey' = pubkey /\ result' = result
        /\ answer' = answer /\ failed' = failed
      BY DEF QuerierCallsOwner, Send, cloudVars
  <1>2. /\ Delivered' = Delivered /\ Computed' = Computed
        /\ Answered' = Answered /\ Met' = Met
      BY <1>1, ComputedSame DEF Delivered, SetStored, SetOf, Answered, Met, NoAnswer
  <1>3. dkey' = dkey \/ dkey' = [dkey EXCEPT ![o] = KeyOf[1]]
      <2>1. RequestOf(o).op = "pubkey" => RequestOf(o).key = KeyOf[1]
          <3>1. step[o] \in 1 .. 5
              BY SendsFacts, Threads DEF QuerierCallsOwner, Send, SysInv
          <3> QED BY <3>1, OwnerOps DEF RequestOf
      <2> QED BY <2>1 DEF QuerierCallsOwner, Handle, HandleLink, HandlePubkey, HandleFpmax,
                HandleUpload, FailEncrypt
  <1>4. Informed' = Informed \/ (o \notin Informed /\ Informed' = Informed \cup {o})
      BY <1>1, <1>3, Threads DEF Informed, SysInv, DoInv, DoTypeOK
  <1> QED BY <1>2, <1>4
      DEF PsiSame, First!Inform, Informed, Delivered, SetStored, Computed, Answered, Met

LEMMA WorkIsDeliver ==
  ASSUME OwnNames, SysInv, UploadsTrue, sess = 1, sess' = 1, FirstDatas, [Next]_vars,
         NEW o \in Owner, CloudWorks(o)
  PROVE  PsiSame \/ First!Deliver(o)
  <1>1. /\ dkey' = dkey /\ pubkey' = pubkey /\ result' = result
        /\ answer' = answer /\ failed' = failed
      BY Threads DEF CloudWorks, CallbackStep, OwnerStep, OpenData, IgnoreData, WriteData,
         LoadState, ApplyEvent, doVars, querierVars
  <1>2. /\ Informed' = Informed /\ Computed' = Computed
        /\ Answered' = Answered /\ Met' = Met
      BY <1>1, ComputedSame DEF Informed, Answered, Met, NoAnswer
  <1>3. ASSUME NEW p \in Owner, p # o PROVE SetStored(p)' <=> SetStored(p)
      BY <1>3, OtherSideFiles, SetStoredSame DEF CloudSame
  <1>4. CASE SetStored(o)' <=> SetStored(o)
      BY <1>2, <1>3, <1>4, DeliveredSame DEF PsiSame
  <1>5. CASE DataPending(o) /\ ~ SetStored(o) /\ SetStored(o)'
      <2>1. o \in Informed
          BY <1>5 DEF FirstDatas, FirstData, Informed
      <2>2. o \notin Delivered /\ Delivered' = Delivered \cup {o}
          BY <1>3, <1>5 DEF Delivered
      <2> QED BY <1>2, <2>1, <2>2
            DEF First!Deliver, Informed, Delivered, SetStored, Computed, Answered, Met
  <1> QED BY <1>4, <1>5, SetStoredNext

LEMMA WorkIsComputeOrInform ==
  ASSUME OwnNames, SysInv, UploadsTrue, sess = 1, FirstDatas, FirstCalc, CloudWorks("Q")
  PROVE  PsiSame \/ First!Inform("Q") \/ First!Compute
  <1>1. dkey' = dkey /\ answer' = answer /\ failed' = failed
      BY DEF CloudWorks, doVars, querierVars
  <1>2. Answered' = Answered /\ Met' = Met
      BY <1>1 DEF Answered, Met, NoAnswer
  <1>3. Delivered' = Delivered
      BY QuerierSideFiles, SetStoredSame, DeliveredSame DEF CloudSame
  <1>4. CASE StorePubkey
      <2>1. result' = result /\ pubkey' = req["Q"].key /\ pc["Q"] # "idle"
          BY <1>4 DEF StorePubkey
      <2>2. req["Q"] = RequestOf("Q") /\ req["Q"].op = "pubkey" /\ step["Q"] \in 1 .. 5
          BY <1>4, <2>1, Threads
          DEF FirstCalc, SysInv, CloudServes, StorePubkey, Scripted
      <2>3. req["Q"].key = KeyOf[1]
          BY <2>2, CloudOp DEF RequestOf
      <2>4. Informed' = Informed \/ ("Q" \notin Informed /\ Informed' = Informed \cup {"Q"})
          BY <1>1, <2>1, <2>3, Threads DEF Informed
      <2>5. Computed' = Computed
          BY <2>1, ComputedSame
      <2> QED BY <1>2, <1>3, <2>4, <2>5
            DEF PsiSame, First!Inform, Informed, Delivered, SetStored, Computed, Answered, Met
  <1>5. CASE SaveResult
      <2>1. pc["Q"] = "read" /\ pubkey' = pubkey
          BY <1>5 DEF SaveResult
      <2>2. "Q" \in Informed /\ Informed' = Informed
          <3>1. pubkey = KeyOf[1]
              BY <2>1, Reading DEF SysInv, CloudTold
          <3> QED BY <1>1, <2>1, <3>1 DEF Informed
      <2>3. Delivered = Owner
          <3> SUFFICES ASSUME NEW o \in Owner PROVE SetStored(o)
              BY DEF Delivered
          <3>1. UploadTrue(o) /\ FirstData(o) /\ AllSaved(o)
              BY <2>1, Reading
          <3>2. record[o].saved = 0 .. NumFiles[o] - 1
              BY <3>1, LastFile
          <3>3. \A i \in 0 .. NumFiles[o] - 1 : file[NameOf(o, i)] = Whole(o, i)
              BY <3>1, SavedWhole
          <3> QED BY <3>2, <3>3 DEF SetStored, SetOf, Whole
      <2>4. Computed'
          BY <1>5, SaveResultCalc DEF Computed, OwnResult, SetOf
      <2> QED BY <1>2, <1>3, <2>2, <2>3, <2>4
            DEF First!Compute, Informed, Delivered, SetStored, Computed, Answered, Met
  <1>6. CASE ~ StorePubkey /\ ~ SaveResult
      <2>1. pubkey' = pubkey /\ result' = result
          BY <1>6, Threads DEF CloudWorks, CallbackStep, QuerierStep, StartCompute, ReadData,
             RejectData, SendResult, LoadState, ApplyEvent
      <2>2. Informed' = Informed /\ Computed' = Computed
          BY <1>1, <2>1, ComputedSame DEF Informed
      <2> QED BY <1>2, <1>3, <2>2 DEF PsiSame
  <1> QED BY <1>4, <1>5, <1>6

LEMMA AnswerIsAnswer ==
  ASSUME SysInv, sess = 1, FirstCalc, CloudAnswersQuerier
  PROVE  PsiSame \/ First!Answer \/ First!Fail
  <1>1. /\ dkey' = dkey /\ pubkey' = pubkey /\ result' = result
        /\ record' = record /\ file' = file
      BY DEF CloudAnswersQuerier, Reply, doVars
  <1>2. Informed' = Informed /\ Delivered' = Delivered /\ Computed' = Computed
      BY <1>1, ComputedSame DEF Informed, Delivered, SetStored, SetOf
  <1>3. CASE Served("Q", result) /\ Op("Q") = "download"
      <2>1. result = OwnResult(1) /\ answer' = [answer EXCEPT ![1] = result]
          BY <1>3, FirstDownload
      <2>2. 1 \in DOMAIN answer
          BY QuerierAssumption DEF SysInv, Scripted, Session
      <2>3. OwnResult(1) # NoAnswer
          BY QuerierAssumption, KeyAssumption DEF OwnResult, NoAnswer, Session
      <2>4. Computed /\ Answered'
          BY <2>1, <2>2, <2>3 DEF Computed, Answered, NoAnswer
      <2>5. Met' = Met
          BY <1>3 DEF Served, Met
      <2> QED BY <1>2, <2>4, <2>5
            DEF First!Answer, Informed, Delivered, SetStored, Computed, Answered, Met
  <1>4. CASE Broken("Q")
      <2>1. answer' = answer /\ failed' # {}
          BY <1>4 DEF Broken
      <2>2. Answered' = Answered /\ Met'
          BY <2>1 DEF Answered, NoAnswer, Met
      <2> QED BY <1>2, <2>2
            DEF First!Fail, Informed, Delivered, SetStored, Computed, Answered, Met
  <1>5. CASE answer' = answer /\ failed' = failed
      <2>1. Answered' = Answered /\ Met' = Met
          BY <1>5 DEF Answered, NoAnswer, Met
      <2> QED BY <1>2, <2>1 DEF PsiSame
  <1> QED BY <1>3, <1>4, <1>5
        DEF CloudAnswersQuerier, Served, Unanswered, querierVars

LEMMA RestIsFail ==
  ASSUME SysInv,
         \/ \E o \in Owner : \/ OwnerAnswersQuerier(o) \/ OwnerCallsCloud(o)
                             \/ CloudAnswersOwner(o) \/ OwnerFailsToSend(o)
                             \/ OwnerStarts(o) \/ OwnerRestarts(o)
         \/ QuerierCallsCloud \/ (\E t \in Thread : Timeout(t)) \/ UNCHANGED vars
  PROVE  PsiSame \/ First!Fail
  <1>1. /\ dkey' = dkey /\ pubkey' = pubkey /\ result' = result
        /\ record' = record /\ file' = file
      BY DEF OwnerAnswersQuerier, OwnerThrewBroken, DoReply, OwnerCallsCloud, Receive,
         CloudAnswersOwner, Reply, CloudServed, OwnerFailsToSend, FailSend, OwnerStarts,
         ConnectCloud, OwnerRestarts, Restart, QuerierCallsCloud, Timeout, vars, cloudVars,
         doVars
  <1>2. Informed' = Informed /\ Delivered' = Delivered /\ Computed' = Computed
      BY <1>1, ComputedSame DEF Informed, Delivered, SetStored, SetOf
  <1>3. failed \subseteq failed'
      BY DEF OwnerAnswersQuerier, OwnerThrewBroken, Served, Broken, Unanswered,
         OwnerCallsCloud, CloudAnswersOwner, OwnerFailsToSend, OwnerStarts, OwnerRestarts,
         Disconnected, QuerierCallsCloud, Send, Timeout, GiveUp, vars, querierVars
  <1>4. answer' = answer
      <2>1. CASE \E o \in Owner : OwnerAnswersQuerier(o)
          BY <2>1, OwnersAnswerNothing
      <2>2. CASE ~ \E o \in Owner : OwnerAnswersQuerier(o)
          BY <2>2 DEF OwnerCallsCloud, CloudAnswersOwner, OwnerFailsToSend, OwnerStarts,
             OwnerRestarts, Disconnected, QuerierCallsCloud, Send, Timeout, GiveUp, vars,
             querierVars
      <2> QED BY <2>1, <2>2
  <1>5. Answered' = Answered
      BY <1>4 DEF Answered, NoAnswer
  <1>6. CASE failed' = {}
      BY <1>2, <1>3, <1>5, <1>6 DEF PsiSame, Met
  <1>7. CASE failed' # {}
      BY <1>2, <1>5, <1>7 DEF Met, First!Fail, Informed, Delivered, SetStored, Computed, Answered
  <1> QED BY <1>6, <1>7

LEMMA PsiStep ==
  ASSUME OwnNames, FirstSysInv, sess = 1, sess' = 1, [Next]_vars
  PROVE  [First!PsiNext]_First!psiVars
  <1>1. SysInv /\ UploadsTrue /\ FirstDatas /\ FirstCalc
      BY DEF FirstSysInv, FirstInv
  <1>2. ~ NewSession
      BY DEF NewSession, NextQuerier
  <1>3. PsiSame => UNCHANGED First!psiVars
      BY DEF PsiSame, First!psiVars, Informed, Delivered, SetStored, Computed, Answered, Met
  <1>4. ASSUME NEW o \in Owner, QuerierCallsOwner(o) PROVE PsiSame \/ First!Inform(o)
      BY <1>1, <1>4, CallIsInform
  <1>5. ASSUME NEW o \in Owner, CloudWorks(o) PROVE PsiSame \/ First!Deliver(o)
      BY <1>1, <1>5, WorkIsDeliver
  <1>6. CloudWorks("Q") => PsiSame \/ First!Inform("Q") \/ First!Compute
      BY <1>1, WorkIsComputeOrInform
  <1>7. CloudAnswersQuerier => PsiSame \/ First!Answer \/ First!Fail
      BY <1>1, AnswerIsAnswer
  <1>8. CASE \/ \E o \in Owner : \/ OwnerAnswersQuerier(o) \/ OwnerCallsCloud(o)
                                 \/ CloudAnswersOwner(o) \/ OwnerFailsToSend(o)
                                 \/ OwnerStarts(o) \/ OwnerRestarts(o)
             \/ QuerierCallsCloud \/ (\E t \in Thread : Timeout(t)) \/ UNCHANGED vars
      <2>1. PsiSame \/ First!Fail
          BY <1>1, <1>8, RestIsFail
      <2> QED BY <1>3, <2>1 DEF First!PsiNext
  <1>9. CASE \/ \E o \in Owner : QuerierCallsOwner(o) \/ CloudWorks(o)
             \/ CloudWorks("Q") \/ CloudAnswersQuerier
      BY <1>3, <1>4, <1>5, <1>6, <1>7, <1>9 DEF First!PsiNext, First!Progress
  <1> QED BY <1>2, <1>8, <1>9, Threads DEF Next, Quiet

(* The safety part of KeepsPromise, for any number of files and restarts:  *)
(* the system tells the querier's key, takes its owners' sets, computes    *)
(* and answers in no other way than the promise allows.                    *)
THEOREM SafelyKeepsPromise ==
  ASSUME OwnNames, MaxSession = 1 PROVE Spec => First!PsiSpec
  <1>1. Init => First!PsiInit
      <2> SUFFICES ASSUME Init PROVE First!PsiInit
          OBVIOUS
      <2>1. \A s \in Session : KeyOf[s] # NoKey
          BY QuerierAssumption, KeyAssumption
      <2>2. 1 \in Session
          BY QuerierAssumption DEF Session
      <2>3. ASSUME NEW o \in Owner PROVE ~ SetStored(o)
          <3>1. record[o].saved = {}
              BY DEF Init, CloudInit, NoRecord
          <3>2. 0 \in 0 .. NumFiles[o] - 1
              BY DataownerAssumption
          <3> QED BY <3>1, <3>2 DEF SetStored, SetOf
      <2>4. Informed = {} /\ ~ Computed /\ ~ Answered /\ ~ Met
          BY <2>1, <2>2 DEF Informed, Computed, Answered, Met, OwnResult, Init, CloudInit,
             DoInit, QuerierInit, NoResult, NoAnswer
      <2> QED BY <2>3, <2>4
            DEF First!PsiInit, Informed, SetStored, Computed, Answered, Met
  <1>2. FirstSysInv /\ FirstSysInv' /\ [Next]_vars => [First!PsiNext]_First!psiVars
      <2> SUFFICES ASSUME FirstSysInv, FirstSysInv', [Next]_vars
                   PROVE  [First!PsiNext]_First!psiVars
          OBVIOUS
      <2>1. sess = 1 /\ sess' = 1
          BY DEF FirstSysInv, SysInv, Scripted, QuerierTypeOK, Session
      <2> QED BY <2>1, PsiStep
  <1> QED BY <1>1, <1>2, FirstSession, PTL DEF Spec, First!PsiSpec
=============================================================================
