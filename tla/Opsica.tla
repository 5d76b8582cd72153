------------------------------- MODULE Opsica -------------------------------
(***************************************************************************)
(* The whole system: cloud, two data owners, and one querier after the     *)
(* other.  A client's blocking call is three steps: the server takes the   *)
(* request, its callback runs, and the answer brings both back; a call the *)
(* server refuses is retried, so it is a call that waits.  Each server     *)
(* thread serves one connection at a time.                                 *)
(***************************************************************************)
EXTENDS Cloud, Dataowner, Querier

CONSTANTS
  MayTimeout,   \* may a client thread of the querier give up a refused call?
  MayCrash      \* may a querier be killed at any time?

ASSUME OpsicaAssumption == /\ MayTimeout \in BOOLEAN /\ MayCrash \in BOOLEAN
                           /\ {"connect", "data"} \subseteq OwnerOp
                           /\ \A o \in Owner : NumFiles[o] <= MaxNum

vars == <<cloudVars, doVars, querierVars>>

Init == CloudInit /\ DoInit /\ QuerierInit
-----------------------------------------------------------------------------
(* The querier's connection to the cloud. *)
QuerierCallsCloud ==
  /\ Send("Q")
  /\ Receive("Q", RequestOf("Q"))
  /\ UNCHANGED doVars

(* If calculate throws, it depends on the transport whether the client     *)
(* fails or takes it for a refusal and tries again.                        *)
CloudAnswersQuerier ==
  /\ Reply("Q")
  /\ \/ pc["Q"] = "reply" /\ Served("Q", result)
     \/ pc["Q"] = "threw" /\ (Broken("Q") \/ Unanswered("Q"))
     \/ ~ await["Q"] /\ UNCHANGED querierVars     \* its querier was killed
  /\ UNCHANGED doVars

(* The querier's connection to an owner. *)
QuerierCallsOwner(o) ==
  /\ Send(o)
  /\ Handle(o, RequestOf(o))
  /\ UNCHANGED cloudVars

\* A file of the upload failed: the same choice.
OwnerThrewBroken(o) ==
  /\ dpc[o] = "threw" /\ DoReply(o) /\ Broken(o)
  /\ UNCHANGED cloudVars

OwnerAnswersQuerier(o) ==
  \/ OwnerThrewBroken(o)
  \/ /\ DoReply(o)
     /\ \/ dpc[o] = "reply" /\ Served(o, NoAnswer)
        \/ dpc[o] = "threw" /\ Unanswered(o)
        \/ ~ await[o] /\ UNCHANGED querierVars     \* its querier was killed
     /\ UNCHANGED cloudVars

(* The owner's connection to the cloud. *)
OwnerRequest(o) ==
  IF dpc[o] = "hello"
    THEN [op |-> "connect"]
    ELSE [op |-> "data", key |-> enc[o], num |-> NumFiles[o], index |-> sent[o]]

OwnerCallsCloud(o) ==
  /\ dpc[o] \in {"hello", "upload"}
  /\ Receive(o, OwnerRequest(o))
  /\ UNCHANGED <<doVars, querierVars>>

CloudAnswersOwner(o) ==
  /\ Reply(o)
  /\ \/ CloudServed(o)
     \/ dpc[o] = "start" /\ UNCHANGED doVars     \* the owner was killed
  /\ UNCHANGED querierVars

CloudWorks(t) == CallbackStep(t) /\ UNCHANGED <<doVars, querierVars>>

\* Between two requests to the cloud.
OwnerFailsToSend(o) ==
  /\ FailSend(o)
  /\ pc[o] = "idle"
  /\ UNCHANGED <<cloudVars, querierVars>>

(* An owner that starts again is served when the port of the cloud is done *)
(* with the request of the process before it.                              *)
OwnerStarts(o) ==
  /\ ConnectCloud(o)
  /\ pc[o] = "idle"
  /\ UNCHANGED <<cloudVars, querierVars>>

OwnerRestarts(o) == Restart(o) /\ Disconnected(o) /\ UNCHANGED cloudVars
-----------------------------------------------------------------------------
Refused(t) ==
  IF t = "Q" THEN pc["Q"] # "idle" \/ ~ Accepts(RequestOf("Q"))
             ELSE dpc[t] # "idle" \/ ~ DoAccepts(t, RequestOf(t))

Timeout(t) ==
  /\ MayTimeout
  /\ GiveUp(t)
  /\ Refused(t)
  /\ UNCHANGED <<cloudVars, doVars>>

NewSession ==
  /\ SessionOver \/ MayCrash
  /\ NextQuerier
  /\ UNCHANGED <<cloudVars, doVars>>

\* The last querier has ended and the servers have nothing left to do.
Quiet == sess = MaxSession /\ SessionOver /\ UNCHANGED vars

Next == \/ QuerierCallsCloud
        \/ CloudAnswersQuerier
        \/ \E o \in Owner : \/ QuerierCallsOwner(o)
                            \/ OwnerAnswersQuerier(o)
                            \/ OwnerCallsCloud(o)
                            \/ CloudAnswersOwner(o)
                            \/ OwnerFailsToSend(o)
                            \/ OwnerStarts(o)
                            \/ OwnerRestarts(o)
        \/ \E t \in Thread : CloudWorks(t) \/ Timeout(t)
        \/ NewSession
        \/ Quiet

Spec == Init /\ [][Next]_vars

(* Every server thread keeps serving, every blocked client keeps retrying; *)
(* nobody is obliged to start another querier, to give up or to crash. A   *)
(* request that throws again and again is given up after 60 s at last.     *)
Fairness == /\ WF_vars(QuerierCallsCloud)
            /\ WF_vars(CloudAnswersQuerier)
            /\ \A o \in Owner : /\ WF_vars(QuerierCallsOwner(o))
                                /\ WF_vars(OwnerAnswersQuerier(o))
                                /\ SF_vars(OwnerThrewBroken(o))
                                /\ WF_vars(OwnerCallsCloud(o))
                                /\ WF_vars(CloudAnswersOwner(o))
                                /\ WF_vars(OwnerStarts(o))
            /\ \A t \in Thread : WF_vars(CloudWorks(t))

FairSpec == Spec /\ Fairness
-----------------------------------------------------------------------------
TypeOK == /\ CloudTypeOK /\ DoTypeOK /\ QuerierTypeOK
          /\ answer \in [Session -> Result]

\* The whole set of an owner, encrypted under a key.
SetOf(o, key) == {Content(key, NumFiles[o], o, i) : i \in 0 .. NumFiles[o] - 1}

\* The result for session s alone.
OwnResult(s) == [key  |-> KeyOf[s],
                 used |-> UNION {SetOf(o, KeyOf[s]) : o \in Owner}]

(* The result a querier downloads was computed with its own public key,    *)
(* from the whole sets of both owners, every file encrypted under that     *)
(* key: otherwise its secret key decrypts nothing (cloud_client.cpp:98-102) *)
(* or it counts elements of the wrong set (data_manager.cpp:43).           *)
AnswerIsOwn ==
  \A s \in Session : answer[s] \in {NoAnswer, OwnResult(s)}

(* A computation never reads a data file that an upload is writing, or has *)
(* not written (data_manager.cpp:43-47 truncates it in another thread).    *)
NoTornRead == \A data \in calc.used : data.key # NoKey

(* The connection count of an Init object never leaves 0..2: it never      *)
(* wraps, though state.cpp:50 decrements it without a test.                *)
CountInRange == StateOf = "Init" => heap[cur].count < MAX_CLIENT_NUM

(* The three connections the cloud waits for are those of "querier,        *)
(* dataownerA, B" (state.cpp:26): it leaves Init only when it has counted  *)
(* one of each.  It counts without asking who connects, so that this holds *)
(* of the first session alone, and while no owner is started again.        *)
Joined(t) == IF t = "Q" THEN step["Q"] > 1 \/ pc["Q"] = "reply"
                        ELSE dpc[t] \notin {"start", "hello"} \/ pc[t] = "reply"
ConnectedMeansAll == StateOf # "Init" => \A t \in Thread : Joined(t)

(* An owner that has left Ready for Uploaded has its whole set stored in   *)
(* the cloud, whatever uploads threw, were given up or repeated, or were   *)
(* cut short by a restart (dataowner callback_function.cpp:139-169).       *)
UploadedMeansSaved ==
  \A o \in Owner : dstate[o].id = "Uploaded"
    => record[o].saved = 0 .. NumFiles[o] - 1

(* The cloud's state moves only along Init, Connected, Ready, Computed,    *)
(* from Computed back to Ready, or to Init when the querier disconnects;   *)
(* no event that reaches a replaced object makes it jump.                  *)
Moves == {<<"Init", "Connected">>, <<"Connected", "Ready">>,
          <<"Ready", "Computed">>, <<"Computed", "Ready">>,
          <<"Ready", "Init">>, <<"Computed", "Init">>, <<"Connected", "Init">>}
StateMoves == [][StateOf' # StateOf => <<StateOf, StateOf'>> \in Moves]_vars

(* Whatever queriers were killed or gave up before it, the result a querier *)
(* downloads was computed with its own public key: no computation or key   *)
(* of another session comes between its requests.                          *)
AnswerUnderOwnKey == \A s \in Session : answer[s].key \in {NoKey, KeyOf[s]}

(* Whatever the queriers before it did, the files an owner is sending in a *)
(* session, and the parameters they were made with, are those of the       *)
(* querier whose upload request it is serving.                             *)
UploadIsOwn ==
  \A o \in Owner : dpc[o] = "upload" /\ await[o]
    => enc[o] = KeyOf[sess] /\ dparam[o] = KeyOf[sess]

(* What the promise to the first querier means in terms of the processes:  *)
(* its key is in the public key files, all data files of an owner are      *)
(* under it, the result file and the answer are computed from that alone.  *)
First == INSTANCE PsiSession WITH
  Cloud     <- "Q",
  informed  <- {o \in Owner : dkey[o] = KeyOf[1]}
               \cup {t \in {"Q"} : pubkey = KeyOf[1]},
  delivered <- {o \in Owner :
                 {file[NameOf(o, i)] : i \in record[o].saved} = SetOf(o, KeyOf[1])},
  computed  <- result = OwnResult(1),
  answered  <- answer[1] # NoAnswer,
  failed    <- failed # {}

(* The system implements the promise to its first querier: each of its     *)
(* steps is one of the promise's or none, and the answer comes unless a    *)
(* thread of the querier fails.                                            *)
KeepsPromise == First!PsiFairSpec

(* An owner that has let a querier connect takes its public key: in the    *)
(* owner's state diagram (README.md:78) an edge "Receive publickey" leaves *)
(* each of Connected, Ready and Uploaded.  So no client thread has its key *)
(* refused until it gives up.                                              *)
OwnersTakeKey == \A o \in Owner : o \in failed => step[o] # 2

(* Every querier ends, or one of its threads has failed: then the one that *)
(* waits for the result may wait for ever, for its compute and download    *)
(* requests have no timeout (querier cloud_client.cpp:84-91).              *)
EndsUnlessFailed ==
  \A s \in Session : (sess = s) ~> (sess # s \/ SessionOver \/ failed # {})
=============================================================================
