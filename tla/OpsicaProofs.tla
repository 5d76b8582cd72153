---------------------------- MODULE OpsicaProofs ----------------------------
(***************************************************************************)
(* Proofs about the whole system, for any number of sessions, keys and     *)
(* files, with queriers that may be killed or give up at any time: it runs *)
(* the cloud and the owners as their own modules specify them, so that     *)
(* what is proved there holds here, and no session's key is mixed up with  *)
(* another's at an owner or in the name of a result.                       *)
(***************************************************************************)
EXTENDS Opsica, CloudProofs, DataownerProofs

(* An owner holds what the session has told it, and serves its upload.     *)
(* The key is in a file; the parameters are lost in a restart, but then    *)
(* the thread that sent them has ended.                                    *)
OwnerTold(o) ==
  /\ step[o] > 2 \/ (step[o] = 2 /\ await[o]) => dkey[o] = KeyOf[sess]
  /\ ~ Ended(o) /\ (step[o] > 3 \/ (step[o] = 3 /\ await[o])) => dparam[o] = KeyOf[sess]
  /\ await[o] => dpc[o] \in {"upload", "reply", "threw"}
  /\ dpc[o] = "upload" /\ await[o] => step[o] = 4

(* The cloud serves the request its querier waits for, or one of a querier *)
(* that was killed, before the next one could send its first.              *)
CloudServes ==
  /\ await["Q"] => pc["Q"] # "idle" /\ req["Q"] = RequestOf("Q")
  /\ ~ await["Q"] /\ pc["Q"] # "idle" => step["Q"] = 1

CloudTold ==
  /\ step["Q"] > 2 \/ (step["Q"] = 2 /\ await["Q"] /\ pc["Q"] # "run")
       => pubkey = KeyOf[sess]
  /\ step["Q"] = 3 /\ await["Q"] /\ pc["Q"] = "read" => calc.key = KeyOf[sess]
  /\ step["Q"] > 3 \/ (step["Q"] = 3 /\ await["Q"] /\ pc["Q"] \in {"raise", "apply", "reply"})
       => result.key = KeyOf[sess]

Scripted == /\ QuerierTypeOK
            /\ answer \in [Session -> Result]
            /\ \A t \in Thread : await[t] => step[t] \in 1 .. 5 /\ t \notin failed

SysInv == /\ CloudInv
          /\ DoInv
          /\ Scripted
          /\ \A o \in Owner : OwnerTold(o)
          /\ CloudServes
          /\ CloudTold
          /\ AnswerUnderOwnKey
-----------------------------------------------------------------------------
LEMMA Threads == /\ Thread = Owner \cup {"Q"}
                 /\ "Q" \notin Owner
                 /\ "Q" \in Thread
                 /\ \A o \in Owner : o \in Thread
  BY DEF Thread, Owner

LEMMA CloudOp ==
  ASSUME step["Q"] \in 1 .. 5
  PROVE  /\ Op("Q") = "connect"    <=> step["Q"] = 1
         /\ Op("Q") = "pubkey"     <=> step["Q"] = 2
         /\ Op("Q") = "compute"    <=> step["Q"] = 3
         /\ Op("Q") = "download"   <=> step["Q"] = 4
         /\ Op("Q") = "disconnect" <=> step["Q"] = 5
         /\ Op("Q") \in {"connect", "pubkey", "compute", "download", "disconnect"}
  BY DEF Op, Script, Thread

LEMMA OwnerOps ==
  ASSUME NEW o \in Owner, step[o] \in 1 .. 5
  PROVE  /\ Op(o) = "connect"    <=> step[o] = 1
         /\ Op(o) = "pubkey"     <=> step[o] = 2
         /\ Op(o) = "fpmax"      <=> step[o] = 3
         /\ Op(o) = "upload"     <=> step[o] = 4
         /\ Op(o) = "disconnect" <=> step[o] = 5
         /\ Op(o) \in {"connect", "pubkey", "fpmax", "upload", "disconnect"}
  BY Threads DEF Op, Script

(* A thread that sends is at one of the five requests of its script.       *)
LEMMA SendsFacts ==
  ASSUME Scripted, NEW t \in Thread, Sends(t)
  PROVE  step[t] \in 1 .. 5 /\ ~ await[t] /\ t \notin failed
  BY DEF Scripted, QuerierTypeOK, Sends, Ended, Script

LEMMA SessionKey ==
  ASSUME Scripted
  PROVE  KeyOf[sess] \in Key /\ KeyOf[sess] # NoKey /\ sess \in Session
  BY QuerierAssumption, KeyAssumption DEF Scripted, QuerierTypeOK

(* What the clients send is what the servers' modules take.                *)
LEMMA QuerierRequest ==
  ASSUME Scripted, step["Q"] \in 1 .. 5
  PROVE  RequestOf("Q") \in Request("Q")
  <1>1. Op("Q") \in {"connect", "pubkey", "compute", "download", "disconnect"}
      BY CloudOp
  <1>2. CASE Op("Q") = "pubkey"
      BY <1>2, SessionKey DEF RequestOf, Request
  <1>3. CASE Op("Q") # "pubkey"
      BY <1>1, <1>3 DEF RequestOf, Request
  <1> QED BY <1>2, <1>3

LEMMA QuerierRequestToOwner ==
  ASSUME Scripted, NEW o \in Owner, step[o] \in 1 .. 5
  PROVE  RequestOf(o) \in DoRequest
  <1>1. Op(o) \in {"connect", "pubkey", "fpmax", "upload", "disconnect"}
      BY OwnerOps
  <1>2. CASE Op(o) \in {"pubkey", "fpmax"}
      BY <1>2, SessionKey DEF RequestOf, DoRequest
  <1>3. CASE Op(o) \notin {"pubkey", "fpmax"}
      BY <1>1, <1>3 DEF RequestOf, DoRequest
  <1> QED BY <1>2, <1>3

LEMMA OwnerRequestType ==
  ASSUME DoInv, NEW o \in Owner, dpc[o] \in {"hello", "upload"}
  PROVE  OwnerRequest(o) \in Request(o)
  <1>1. CASE dpc[o] = "hello"
      BY <1>1, Threads, OpsicaAssumption DEF OwnerRequest, Request
  <1>2. CASE dpc[o] = "upload"
      <2>1. enc[o] \in Key
          BY <1>2 DEF DoInv, DoTypeOK, Uploading, Received
      <2>2. NumFiles[o] \in 1 .. MaxNum /\ sent[o] \in 0 .. MaxNum - 1
          BY <1>2, DataownerAssumption, OpsicaAssumption, CloudAssumption
          DEF DoInv, DoTypeOK, Uploading
      <2> QED BY <1>2, <2>1, <2>2, Threads, OpsicaAssumption DEF OwnerRequest, Request
  <1> QED BY <1>1, <1>2
-----------------------------------------------------------------------------
(* Every step of the system is a step of the cloud or leaves it alone.     *)
LEMMA CloudStep == SysInv /\ [Next]_vars => [CloudNext]_cloudVars
  <1> SUFFICES ASSUME SysInv, [Next]_vars PROVE [CloudNext]_cloudVars
      OBVIOUS
  <1>1. ASSUME QuerierCallsCloud PROVE CloudNext
      BY <1>1, Threads, SendsFacts, QuerierRequest
      DEF SysInv, QuerierCallsCloud, Send, CloudNext
  <1>2. ASSUME CloudAnswersQuerier PROVE CloudNext
      BY <1>2, Threads DEF CloudAnswersQuerier, CloudNext
  <1>3. ASSUME NEW o \in Owner, OwnerCallsCloud(o) PROVE CloudNext
      BY <1>3, Threads, OwnerRequestType DEF SysInv, OwnerCallsCloud, CloudNext
  <1>4. ASSUME NEW o \in Owner, CloudAnswersOwner(o) PROVE CloudNext
      BY <1>4, Threads DEF CloudAnswersOwner, CloudNext
  <1>5. ASSUME NEW t \in Thread, CloudWorks(t) PROVE CloudNext
      BY <1>5 DEF CloudWorks, CloudNext
  <1> QED
      BY <1>1, <1>2, <1>3, <1>4, <1>5
      DEF Next, vars, QuerierCallsOwner, OwnerAnswersQuerier, OwnerThrewBroken,
          OwnerFailsToSend, OwnerStarts, OwnerRestarts, Timeout, NewSession, Quiet

(* Every step of the system is a step of an owner or leaves both alone.    *)
LEMMA OwnersStep == SysInv /\ [Next]_vars => [DataownerNext]_doVars
  <1> SUFFICES ASSUME SysInv, [Next]_vars PROVE [DataownerNext]_doVars
      OBVIOUS
  <1>1. ASSUME NEW o \in Owner, QuerierCallsOwner(o) PROVE DataownerNext
      BY <1>1, Threads, SendsFacts, QuerierRequestToOwner
      DEF SysInv, QuerierCallsOwner, Send, DataownerNext
  <1>2. ASSUME NEW o \in Owner, OwnerAnswersQuerier(o) PROVE DataownerNext
      BY <1>2 DEF OwnerAnswersQuerier, OwnerThrewBroken, DataownerNext
  <1>3. ASSUME NEW o \in Owner, CloudAnswersOwner(o) PROVE [DataownerNext]_doVars
      BY <1>3 DEF CloudAnswersOwner, DataownerNext
  <1>4. ASSUME NEW o \in Owner,
               OwnerStarts(o) \/ OwnerFailsToSend(o) \/ OwnerRestarts(o)
        PROVE  DataownerNext
      BY <1>4 DEF OwnerStarts, OwnerFailsToSend, OwnerRestarts, DataownerNext
  <1> QED
      BY <1>1, <1>2, <1>3, <1>4
      DEF Next, vars, QuerierCallsCloud, CloudAnswersQuerier, OwnerCallsCloud,
          CloudWorks, Timeout, NewSession, Quiet
-----------------------------------------------------------------------------
LEMMA SysInit == Init => SysInv
  <1> SUFFICES ASSUME Init PROVE SysInv
      OBVIOUS
  <1>1. CloudInv /\ DoInv
      BY InitInv, DoInitInv DEF Init
  <1>2. Scripted
      BY QuerierAssumption, Threads
      DEF Init, QuerierInit, Scripted, QuerierTypeOK, Session, NoAnswer, Result
  <1>3. \A o \in Owner : OwnerTold(o)
      BY Threads DEF Init, QuerierInit, OwnerTold
  <1>4. CloudServes /\ CloudTold
      BY Threads DEF Init, QuerierInit, CloudInit, CloudServes, CloudTold
  <1>5. AnswerUnderOwnKey
      BY DEF Init, QuerierInit, AnswerUnderOwnKey, NoAnswer
  <1> QED BY <1>1, <1>2, <1>3, <1>4, <1>5 DEF SysInv

(* A step that touches neither the session nor an owner keeps its part. *)
LEMMA ToldFrame ==
  ASSUME NEW o \in Owner, OwnerTold(o), sess' = sess, failed \subseteq failed',
         step'[o] = step[o], await'[o] = await[o],
         dkey'[o] = dkey[o], dparam'[o] = dparam[o], dpc'[o] = dpc[o]
  PROVE  OwnerTold(o)'
  BY DEF OwnerTold, Ended

LEMMA ServesFrame ==
  ASSUME CloudServes, CloudTold, sess' = sess,
         step'["Q"] = step["Q"], await'["Q"] = await["Q"],
         pc'["Q"] = pc["Q"], req'["Q"] = req["Q"],
         pubkey' = pubkey, result' = result, calc' = calc
  PROVE  CloudServes' /\ CloudTold'
  BY DEF CloudServes, CloudTold, RequestOf, Op

LEMMA AnswerFrame ==
  ASSUME AnswerUnderOwnKey, answer' = answer PROVE AnswerUnderOwnKey'
  BY DEF AnswerUnderOwnKey
-----------------------------------------------------------------------------
(* The session's part of the invariant; the components' parts are theirs.  *)
SessionInv == /\ Scripted
              /\ \A o \in Owner : OwnerTold(o)
              /\ CloudServes
              /\ CloudTold
              /\ AnswerUnderOwnKey

LEMMA QuerierCallsCloudInv == SysInv /\ QuerierCallsCloud => SessionInv'
  <1> SUFFICES ASSUME SysInv, QuerierCallsCloud PROVE SessionInv'
      OBVIOUS
  <1>1. /\ step["Q"] \in 1 .. 5 /\ ~ await["Q"] /\ "Q" \notin failed
        /\ await' = [await EXCEPT !["Q"] = TRUE]
        /\ sess' = sess /\ step' = step /\ failed' = failed /\ answer' = answer
        /\ await \in [Thread -> BOOLEAN]
      BY Threads, SendsFacts DEF SysInv, Scripted, QuerierTypeOK, QuerierCallsCloud, Send
  <1>2. /\ pc["Q"] = "idle"
        /\ req' = [req EXCEPT !["Q"] = RequestOf("Q")]
        /\ pc' = [pc EXCEPT !["Q"] = IF RequestOf("Q").op \in {"connect", "disconnect"}
                                       THEN "raise" ELSE "run"]
        /\ pubkey' = pubkey /\ result' = result /\ calc' = calc
      BY DEF QuerierCallsCloud, Receive, Goto
  <1>3. dkey' = dkey /\ dparam' = dparam /\ dpc' = dpc
      BY DEF QuerierCallsCloud, doVars
  <1>4. Scripted'
      BY <1>1, Threads DEF SysInv, Scripted, QuerierTypeOK
  <1>5. ASSUME NEW o \in Owner PROVE OwnerTold(o)'
      <2>1. await'[o] = await[o]
          BY <1>1, Threads
      <2> QED BY <1>1, <1>3, <2>1, ToldFrame DEF SysInv
  <1>6. /\ pc'["Q"] \in {"raise", "run"} /\ req'["Q"] = RequestOf("Q") /\ await'["Q"]
        /\ RequestOf("Q")' = RequestOf("Q")
        /\ pc'["Q"] = "run" <=> Op("Q") \notin {"connect", "disconnect"}
      <2>1. Op("Q") \in {"connect", "pubkey", "compute", "download", "disconnect"}
          BY <1>1, CloudOp
      <2>2. RequestOf("Q").op = Op("Q")
          BY DEF RequestOf
      <2>3. req'["Q"] = RequestOf("Q")
          BY <1>2, Threads DEF SysInv, CloudInv, CloudTypeOK
      <2>4. pc'["Q"] = IF Op("Q") \in {"connect", "disconnect"} THEN "raise" ELSE "run"
          BY <1>2, <2>2, Threads DEF SysInv, CloudInv, CloudTypeOK
      <2>5. await'["Q"]
          BY <1>1, Threads
      <2>6. RequestOf("Q")' = RequestOf("Q")
          BY <1>1 DEF RequestOf, Op
      <2> QED BY <2>3, <2>4, <2>5, <2>6
  <1>7. CloudServes'
      BY <1>6 DEF CloudServes
  <1>8. CloudTold'
      BY <1>1, <1>2, <1>6, CloudOp DEF SysInv, CloudTold
  <1>9. AnswerUnderOwnKey'
      BY <1>1, AnswerFrame DEF SysInv
  <1> QED BY <1>4, <1>5, <1>7, <1>8, <1>9 DEF SessionInv

LEMMA CloudAnswersQuerierInv == SysInv /\ CloudAnswersQuerier => SessionInv'
  <1> SUFFICES ASSUME SysInv, CloudAnswersQuerier PROVE SessionInv'
      OBVIOUS
  <1>1. /\ pc["Q"] \in {"reply", "threw"}
        /\ pc' = [pc EXCEPT !["Q"] = "idle"]
        /\ pubkey' = pubkey /\ result' = result
        /\ dkey' = dkey /\ dparam' = dparam /\ dpc' = dpc
      BY DEF CloudAnswersQuerier, Reply, Goto, doVars
  <1>2. pc'["Q"] = "idle"
      BY <1>1, Threads DEF SysInv, CloudInv, CloudTypeOK
  <1>3. /\ await \in [Thread -> BOOLEAN] /\ sess \in Session
        /\ step \in [Thread -> 1 .. 6]
        /\ answer \in [Session -> Result]
      BY DEF SysInv, Scripted, QuerierTypeOK
  <1>4. CASE pc["Q"] = "reply" /\ Served("Q", result)
      <2>1. /\ await["Q"] /\ await' = [await EXCEPT !["Q"] = FALSE]
            /\ step' = [step EXCEPT !["Q"] = @ + 1]
            /\ sess' = sess /\ failed' = failed
            /\ answer' = IF Op("Q") = "download" THEN [answer EXCEPT ![sess] = result]
                                                 ELSE answer
          BY <1>4 DEF Served
      <2>2. step["Q"] \in 1 .. 5 /\ step["Q"] + 1 \in 1 .. 6
          <3>1. step["Q"] \in 1 .. 5
              BY <2>1, Threads DEF SysInv, Scripted
          <3> QED BY <3>1
      <2>3. step'["Q"] = step["Q"] + 1 /\ ~ await'["Q"]
          BY <1>3, <2>1, Threads
      <2>4. result \in Result
          BY DEF SysInv, CloudInv, CloudTypeOK
      <2>5. Scripted'
          <3>1. step' \in [Thread -> 1 .. 6] /\ await' \in [Thread -> BOOLEAN]
              BY <1>3, <2>1, <2>2
          <3>2. answer' \in [Session -> Result]
              BY <1>3, <2>1, <2>4
          <3>3. \A t \in Thread : await'[t] => step'[t] \in 1 .. 5 /\ t \notin failed'
              BY <1>3, <2>1, <2>3 DEF SysInv, Scripted
          <3> QED BY <2>1, <3>1, <3>2, <3>3 DEF SysInv, Scripted, QuerierTypeOK
      <2>6. ASSUME NEW o \in Owner PROVE OwnerTold(o)'
          <3>1. await'[o] = await[o] /\ step'[o] = step[o]
              BY <1>3, <2>1, Threads
          <3> QED BY <1>1, <2>1, <3>1, ToldFrame DEF SysInv
      <2>7. CloudServes'
          BY <1>2, <2>3 DEF CloudServes
      <2>8. CloudTold'
          BY <1>1, <1>4, <2>1, <2>2, <2>3 DEF SysInv, CloudTold
      <2>9. AnswerUnderOwnKey'
          <3>1. CASE Op("Q") = "download"
              <4>1. result.key = KeyOf[sess]
                  BY <2>2, <3>1, CloudOp DEF SysInv, CloudTold
              <4> QED BY <1>3, <2>1, <3>1, <4>1 DEF SysInv, AnswerUnderOwnKey
          <3>2. CASE Op("Q") # "download"
              BY <2>1, <3>2, AnswerFrame DEF SysInv
          <3> QED BY <3>1, <3>2
      <2> QED BY <2>5, <2>6, <2>7, <2>8, <2>9 DEF SessionInv
  <1>5. CASE pc["Q"] = "threw" /\ (Broken("Q") \/ Unanswered("Q"))
      <2>1. /\ await["Q"] /\ await' = [await EXCEPT !["Q"] = FALSE]
            /\ step' = step /\ sess' = sess /\ answer' = answer
            /\ failed' = failed \/ failed' = failed \cup {"Q"}
          BY <1>5 DEF Broken, Unanswered
      <2>2. ~ await'["Q"]
          BY <1>3, <2>1, Threads
      <2>3. Scripted'
          BY <1>3, <2>1, <2>2, Threads DEF SysInv, Scripted, QuerierTypeOK
      <2>4. ASSUME NEW o \in Owner PROVE OwnerTold(o)'
          <3>1. await'[o] = await[o]
              BY <1>3, <2>1, Threads
          <3> QED BY <1>1, <2>1, <3>1, ToldFrame DEF SysInv
      <2>5. CloudServes'
          BY <1>2, <2>2 DEF CloudServes
      <2>6. CloudTold'
          BY <1>1, <2>1, <2>2 DEF SysInv, CloudTold
      <2>7. AnswerUnderOwnKey'
          BY <2>1, AnswerFrame DEF SysInv
      <2> QED BY <2>3, <2>4, <2>5, <2>6, <2>7 DEF SessionInv
  <1>6. CASE ~ await["Q"] /\ UNCHANGED querierVars
      <2>1. sess' = sess /\ step' = step /\ await' = await /\ failed' = failed
            /\ answer' = answer
          BY <1>6 DEF querierVars
      <2>2. step["Q"] = 1
          BY <1>1, <1>6 DEF SysInv, CloudServes
      <2>3. Scripted'
          BY <2>1 DEF SysInv, Scripted, QuerierTypeOK
      <2>4. ASSUME NEW o \in Owner PROVE OwnerTold(o)'
          BY <1>1, <2>1, ToldFrame DEF SysInv
      <2>5. CloudServes'
          BY <1>2, <1>6, <2>1 DEF CloudServes
      <2>6. CloudTold'
          BY <1>6, <2>1, <2>2 DEF CloudTold
      <2>7. AnswerUnderOwnKey'
          BY <2>1, AnswerFrame DEF SysInv
      <2> QED BY <2>3, <2>4, <2>5, <2>6, <2>7 DEF SessionInv
  <1> QED BY <1>4, <1>5, <1>6 DEF CloudAnswersQuerier

LEMMA QuerierCallsOwnerInv ==
  ASSUME SysInv, NEW o \in Owner, QuerierCallsOwner(o) PROVE SessionInv'
  <1>1. /\ step[o] \in 1 .. 5 /\ ~ await[o] /\ o \notin failed
        /\ await' = [await EXCEPT ![o] = TRUE]
        /\ sess' = sess /\ step' = step /\ failed' = failed /\ answer' = answer
        /\ await \in [Thread -> BOOLEAN]
      BY Threads, SendsFacts DEF SysInv, Scripted, QuerierTypeOK, QuerierCallsOwner, Send
  <1>2. /\ dkey \in [Owner -> Key \cup {NoKey}]
        /\ dparam \in [Owner -> Key \cup {NoKey}]
        /\ dpc \in [Owner -> {"start", "hello", "idle", "upload", "reply", "threw"}]
      BY DEF SysInv, DoInv, DoTypeOK
  <1>3. pc' = pc /\ req' = req /\ pubkey' = pubkey /\ result' = result /\ calc' = calc
      BY DEF QuerierCallsOwner, cloudVars
  <1>4. Scripted'
      BY <1>1, Threads DEF SysInv, Scripted, QuerierTypeOK
  <1>5. RequestOf(o).op = Op(o) /\ (Op(o) \in {"pubkey", "fpmax"} =>
                                      RequestOf(o).key = KeyOf[sess])
      BY DEF RequestOf
  <1>6. \/ Op(o) \in {"connect", "disconnect"} /\ dkey' = dkey /\ dparam' = dparam
             /\ dpc' = [dpc EXCEPT ![o] = "reply"]
        \/ Op(o) = "pubkey" /\ dkey' = [dkey EXCEPT ![o] = KeyOf[sess]]
             /\ dparam' = dparam /\ dpc' = [dpc EXCEPT ![o] = "reply"]
        \/ Op(o) = "fpmax" /\ dparam' = [dparam EXCEPT ![o] = KeyOf[sess]]
             /\ dkey' = dkey /\ dpc' = [dpc EXCEPT ![o] = "reply"]
        \/ Op(o) = "upload" /\ dkey' = dkey /\ dparam' = dparam
             /\ (dpc' = [dpc EXCEPT ![o] = "upload"] \/ dpc' = [dpc EXCEPT ![o] = "threw"])
      BY <1>5 DEF QuerierCallsOwner, Handle, HandleLink, HandlePubkey, HandleFpmax,
                  HandleUpload, FailEncrypt, DoGoto
  <1>7. OwnerTold(o)'
      <2>1. /\ step[o] > 2 => dkey[o] = KeyOf[sess]
            /\ step[o] > 3 => dparam[o] = KeyOf[sess]
          BY <1>1, Threads DEF SysInv, OwnerTold, Ended, Script
      <2>2. dpc'[o] \in {"upload", "reply", "threw"} /\ (dpc'[o] = "upload" => step[o] = 4)
          BY <1>1, <1>2, <1>6, OwnerOps
      <2>3. step[o] > 2 \/ step[o] = 2 => dkey'[o] = KeyOf[sess]
          BY <1>1, <1>2, <1>6, <2>1, OwnerOps
      <2>4. step[o] > 3 \/ step[o] = 3 => dparam'[o] = KeyOf[sess]
          BY <1>1, <1>2, <1>6, <2>1, OwnerOps
      <2> QED BY <1>1, <2>2, <2>3, <2>4 DEF OwnerTold, Ended
  <1>8. ASSUME NEW p \in Owner, p # o PROVE OwnerTold(p)'
      <2>1. /\ await'[p] = await[p]
            /\ dkey'[p] = dkey[p] /\ dparam'[p] = dparam[p] /\ dpc'[p] = dpc[p]
          BY <1>1, <1>2, <1>6, <1>8, Threads
      <2> QED BY <1>1, <2>1, ToldFrame DEF SysInv
  <1>9. CloudServes' /\ CloudTold'
      <2>1. await'["Q"] = await["Q"]
          BY <1>1, Threads
      <2> QED BY <1>1, <1>3, <2>1, ServesFrame DEF SysInv
  <1>10. AnswerUnderOwnKey'
      BY <1>1, AnswerFrame DEF SysInv
  <1> QED BY <1>4, <1>7, <1>8, <1>9, <1>10 DEF SessionInv

LEMMA OwnerAnswersQuerierInv ==
  ASSUME SysInv, NEW o \in Owner, OwnerAnswersQuerier(o) PROVE SessionInv'
  <1>1. /\ dpc' = [dpc EXCEPT ![o] = "idle"]
        /\ dkey' = dkey /\ dparam' = dparam
        /\ dpc \in [Owner -> {"start", "hello", "idle", "upload", "reply", "threw"}]
      BY DEF OwnerAnswersQuerier, OwnerThrewBroken, DoReply, DoGoto, SysInv, DoInv, DoTypeOK
  <1>2. pc' = pc /\ req' = req /\ pubkey' = pubkey /\ result' = result /\ calc' = calc
      BY DEF OwnerAnswersQuerier, OwnerThrewBroken, cloudVars
  <1>3. await \in [Thread -> BOOLEAN] /\ step \in [Thread -> 1 .. 6]
      BY DEF SysInv, Scripted, QuerierTypeOK
  <1>4. CASE Served(o, NoAnswer)
      <2>1. /\ await[o] /\ await' = [await EXCEPT ![o] = FALSE]
            /\ step' = [step EXCEPT ![o] = @ + 1]
            /\ sess' = sess /\ failed' = failed
          BY <1>4 DEF Served
      <2>2. step[o] \in 1 .. 5
          BY <2>1, Threads DEF SysInv, Scripted
      <2>3. step[o] + 1 \in 1 .. 6
          BY <2>2
      <2>4. step'[o] = step[o] + 1 /\ ~ await'[o]
          BY <1>3, <2>1, Threads
      <2>5. answer' = answer
          BY <1>4, <2>2, OwnerOps DEF Served
      <2>6. Scripted'
          <3>1. step' \in [Thread -> 1 .. 6] /\ await' \in [Thread -> BOOLEAN]
              BY <1>3, <2>1, <2>3
          <3>2. \A t \in Thread : await'[t] => step'[t] \in 1 .. 5 /\ t \notin failed'
              BY <1>3, <2>1, <2>4 DEF SysInv, Scripted
          <3> QED BY <2>1, <2>5, <3>1, <3>2 DEF SysInv, Scripted, QuerierTypeOK
      <2>7. OwnerTold(o)'
          <3>1. /\ step[o] > 2 \/ step[o] = 2 => dkey[o] = KeyOf[sess]
                /\ step[o] > 3 \/ step[o] = 3 => dparam[o] = KeyOf[sess]
              BY <2>1, <2>2, Threads DEF SysInv, Scripted, OwnerTold, Ended, Script
          <3> QED BY <1>1, <2>1, <2>2, <2>4, <3>1 DEF OwnerTold
      <2>8. ASSUME NEW p \in Owner, p # o PROVE OwnerTold(p)'
          <3>1. await'[p] = await[p] /\ step'[p] = step[p] /\ dpc'[p] = dpc[p]
              BY <1>1, <1>3, <2>1, <2>8, Threads
          <3> QED BY <1>1, <2>1, <3>1, ToldFrame DEF SysInv
      <2>9. CloudServes' /\ CloudTold'
          <3>1. await'["Q"] = await["Q"] /\ step'["Q"] = step["Q"]
              BY <1>3, <2>1, Threads
          <3> QED BY <1>2, <2>1, <3>1, ServesFrame DEF SysInv
      <2>10. AnswerUnderOwnKey'
          BY <2>5, AnswerFrame DEF SysInv
      <2> QED BY <2>6, <2>7, <2>8, <2>9, <2>10 DEF SessionInv
  <1>5. CASE Broken(o) \/ Unanswered(o)
      <2>1. /\ await[o] /\ await' = [await EXCEPT ![o] = FALSE]
            /\ step' = step /\ sess' = sess /\ answer' = answer
            /\ failed' = failed \/ failed' = failed \cup {o}
          BY <1>5 DEF Broken, Unanswered
      <2>2. ~ await'[o] /\ \A t \in Thread : t # o => await'[t] = await[t]
          BY <1>3, <2>1, Threads
      <2>3. Scripted'
          BY <1>3, <2>1, <2>2, Threads DEF SysInv, Scripted, QuerierTypeOK
      <2>4. OwnerTold(o)'
          BY <1>1, <2>1, <2>2 DEF SysInv, OwnerTold, Ended
      <2>5. ASSUME NEW p \in Owner, p # o PROVE OwnerTold(p)'
          <3>1. await'[p] = await[p] /\ dpc'[p] = dpc[p]
              BY <1>1, <2>2, <2>5, Threads
          <3> QED BY <1>1, <2>1, <3>1, ToldFrame DEF SysInv
      <2>6. CloudServes' /\ CloudTold'
          BY <1>2, <2>1, <2>2, Threads, ServesFrame DEF SysInv
      <2>7. AnswerUnderOwnKey'
          BY <2>1, AnswerFrame DEF SysInv
      <2> QED BY <2>3, <2>4, <2>5, <2>6, <2>7 DEF SessionInv
  <1>6. CASE ~ await[o] /\ UNCHANGED querierVars
      <2>1. sess' = sess /\ step' = step /\ await' = await /\ failed' = failed
            /\ answer' = answer
          BY <1>6 DEF querierVars
      <2>2. Scripted'
          BY <2>1 DEF SysInv, Scripted, QuerierTypeOK
      <2>3. OwnerTold(o)'
          BY <1>1, <1>6, <2>1 DEF SysInv, OwnerTold, Ended
      <2>4. ASSUME NEW p \in Owner, p # o PROVE OwnerTold(p)'
          <3>1. dpc'[p] = dpc[p]
              BY <1>1, <2>4
          <3> QED BY <1>1, <2>1, <3>1, ToldFrame DEF SysInv
      <2>5. CloudServes' /\ CloudTold'
          BY <1>2, <2>1, ServesFrame DEF SysInv
      <2>6. AnswerUnderOwnKey'
          BY <2>1, AnswerFrame DEF SysInv
      <2> QED BY <2>2, <2>3, <2>4, <2>5, <2>6 DEF SessionInv
  <1> QED BY <1>4, <1>5, <1>6 DEF OwnerAnswersQuerier, OwnerThrewBroken

(* A step that the querier does not take part in, and in which the cloud   *)
(* does not move its thread.                                               *)
LEMMA OwnerOnlyInv ==
  ASSUME SysInv, NEW o \in Owner, UNCHANGED querierVars,
         dkey' = dkey, dparam' = dparam,
         \A p \in Owner : p # o => dpc'[p] = dpc[p],
         \/ dpc'[o] = dpc[o]
         \/ dpc[o] = "upload" /\ dpc'[o] \in {"reply", "threw"}
         \/ ~ await[o],
         pc'["Q"] = pc["Q"], req'["Q"] = req["Q"],
         pubkey' = pubkey, result' = result, calc' = calc
  PROVE  SessionInv'
  <1>1. sess' = sess /\ step' = step /\ await' = await /\ failed' = failed
        /\ answer' = answer
      BY DEF querierVars
  <1>2. Scripted'
      BY <1>1 DEF SysInv, Scripted, QuerierTypeOK
  <1>3. OwnerTold(o)'
      BY <1>1 DEF SysInv, OwnerTold, Ended
  <1>4. ASSUME NEW p \in Owner, p # o PROVE OwnerTold(p)'
      BY <1>1, <1>4, ToldFrame DEF SysInv
  <1>5. CloudServes' /\ CloudTold'
      BY <1>1, ServesFrame DEF SysInv
  <1>6. AnswerUnderOwnKey'
      BY <1>1, AnswerFrame DEF SysInv
  <1> QED BY <1>2, <1>3, <1>4, <1>5, <1>6 DEF SessionInv

LEMMA OwnerCallsCloudInv ==
  ASSUME SysInv, NEW o \in Owner, OwnerCallsCloud(o) PROVE SessionInv'
  <1>1. o # "Q" /\ "Q" \in Thread
      BY Threads
  <1>2. pc'["Q"] = pc["Q"] /\ req'["Q"] = req["Q"]
      BY <1>1 DEF OwnerCallsCloud, Receive, Goto, SysInv, CloudInv, CloudTypeOK
  <1>3. /\ UNCHANGED querierVars /\ dkey' = dkey /\ dparam' = dparam /\ dpc' = dpc
        /\ pubkey' = pubkey /\ result' = result /\ calc' = calc
      BY DEF OwnerCallsCloud, Receive, doVars
  <1> QED BY <1>2, <1>3, OwnerOnlyInv

LEMMA CloudAnswersOwnerInv ==
  ASSUME SysInv, NEW o \in Owner, CloudAnswersOwner(o) PROVE SessionInv'
  <1>1. o # "Q" /\ "Q" \in Thread /\ o \in Thread
      BY Threads
  <1>2. pc'["Q"] = pc["Q"] /\ req'["Q"] = req["Q"]
      BY <1>1 DEF CloudAnswersOwner, Reply, Goto, SysInv, CloudInv, CloudTypeOK
  <1>3. /\ UNCHANGED querierVars /\ dkey' = dkey /\ dparam' = dparam
        /\ pubkey' = pubkey /\ result' = result /\ calc' = calc
      BY <1>1 DEF CloudAnswersOwner, CloudServed, Reply, doVars
  <1>4. dpc \in [Owner -> {"start", "hello", "idle", "upload", "reply", "threw"}]
      BY DEF SysInv, DoInv, DoTypeOK
  <1>5. \/ dpc[o] = "hello" /\ dpc' = [dpc EXCEPT ![o] = "idle"]
        \/ dpc' = dpc
        \/ dpc[o] = "upload" /\ dpc' = [dpc EXCEPT ![o] = "reply"]
      BY DEF CloudAnswersOwner, CloudServed, DoGoto, doVars
  <1>6. dpc[o] = "hello" => ~ await[o]
      BY DEF SysInv, OwnerTold
  <1>7. \A p \in Owner : p # o => dpc'[p] = dpc[p]
      BY <1>4, <1>5
  <1>8. dpc'[o] = dpc[o] \/ (dpc[o] = "upload" /\ dpc'[o] = "reply") \/ ~ await[o]
      BY <1>4, <1>5, <1>6
  <1> QED BY <1>2, <1>3, <1>7, <1>8, OwnerOnlyInv

LEMMA OwnerStartsInv ==
  ASSUME SysInv, NEW o \in Owner, OwnerStarts(o) PROVE SessionInv'
  <1>1. /\ UNCHANGED querierVars /\ dkey' = dkey /\ dparam' = dparam
        /\ pc' = pc /\ req' = req
        /\ pubkey' = pubkey /\ result' = result /\ calc' = calc
      BY DEF OwnerStarts, ConnectCloud, cloudVars
  <1>2. \A p \in Owner : p # o => dpc'[p] = dpc[p]
      BY DEF OwnerStarts, ConnectCloud, DoGoto, SysInv, DoInv, DoTypeOK
  <1>3. ~ await[o]
      BY DEF OwnerStarts, ConnectCloud, SysInv, OwnerTold
  <1> QED BY <1>1, <1>2, <1>3, OwnerOnlyInv

LEMMA OwnerFailsToSendInv ==
  ASSUME SysInv, NEW o \in Owner, OwnerFailsToSend(o) PROVE SessionInv'
  <1>1. /\ UNCHANGED querierVars /\ dkey' = dkey /\ dparam' = dparam
        /\ pc' = pc /\ req' = req
        /\ pubkey' = pubkey /\ result' = result /\ calc' = calc
      BY DEF OwnerFailsToSend, FailSend, cloudVars
  <1>2. /\ \A p \in Owner : p # o => dpc'[p] = dpc[p]
        /\ dpc[o] = "upload" /\ dpc'[o] = "threw"
      BY DEF OwnerFailsToSend, FailSend, DoGoto, SysInv, DoInv, DoTypeOK
  <1> QED BY <1>1, <1>2, OwnerOnlyInv

(* An owner that is killed takes the thread that was talking to it along.  *)
LEMMA OwnerRestartsInv ==
  ASSUME SysInv, NEW o \in Owner, OwnerRestarts(o) PROVE SessionInv'
  <1>1. /\ pc' = pc /\ req' = req
        /\ pubkey' = pubkey /\ result' = result /\ calc' = calc
      BY DEF OwnerRestarts, cloudVars
  <1>2. /\ dkey' = dkey
        /\ \A p \in Owner : p # o => dpc'[p] = dpc[p] /\ dparam'[p] = dparam[p]
      BY DEF OwnerRestarts, Restart, DoGoto, SysInv, DoInv, DoTypeOK
  <1>3. await \in [Thread -> BOOLEAN] /\ o \in Thread
      BY Threads DEF SysInv, Scripted, QuerierTypeOK
  <1>4. /\ sess' = sess /\ step' = step /\ answer' = answer
        /\ failed \subseteq failed' /\ failed' \subseteq failed \cup {o}
        /\ await' \in [Thread -> BOOLEAN]
        /\ ~ await'[o] /\ \A t \in Thread : t # o => await'[t] = await[t]
      <2>1. Ended(o) => ~ await[o]
          BY <1>3 DEF SysInv, Scripted, Ended, Script
      <2> QED BY <1>3, <2>1 DEF OwnerRestarts, Disconnected, querierVars
  <1>5. Ended(o)' \/ step'[o] = 1
      BY DEF OwnerRestarts, Disconnected, querierVars, Ended
  <1>6. Scripted'
      BY <1>3, <1>4 DEF SysInv, Scripted, QuerierTypeOK
  <1>7. OwnerTold(o)'
      BY <1>2, <1>4, <1>5 DEF SysInv, OwnerTold
  <1>8. ASSUME NEW p \in Owner, p # o PROVE OwnerTold(p)'
      BY <1>2, <1>4, <1>8, Threads, ToldFrame DEF SysInv
  <1>9. CloudServes' /\ CloudTold'
      BY <1>1, <1>4, Threads, ServesFrame DEF SysInv
  <1>10. AnswerUnderOwnKey'
      BY <1>4, AnswerFrame DEF SysInv
  <1> QED BY <1>6, <1>7, <1>8, <1>9, <1>10 DEF SessionInv

LEMMA CloudWorksOwnerInv ==
  ASSUME SysInv, NEW o \in Owner, CloudWorks(o) PROVE SessionInv'
  <1>1. o # "Q" /\ "Q" \in Thread
      BY Threads
  <1>2. /\ UNCHANGED querierVars /\ dkey' = dkey /\ dparam' = dparam /\ dpc' = dpc
      BY DEF CloudWorks, doVars
  <1>3. OwnerStep(o) \/ LoadState(o) \/ ApplyEvent(o)
      BY <1>1 DEF CloudWorks, CallbackStep
  <1>4. req' = req /\ pubkey' = pubkey /\ result' = result /\ calc' = calc
      BY <1>3 DEF OwnerStep, OpenData, IgnoreData, WriteData, LoadState, ApplyEvent
  <1>5. \E label : pc' = [pc EXCEPT ![o] = label]
      BY <1>3 DEF OwnerStep, OpenData, IgnoreData, WriteData, LoadState, ApplyEvent, Goto
  <1>6. pc'["Q"] = pc["Q"]
      BY <1>1, <1>5 DEF SysInv, CloudInv, CloudTypeOK
  <1> QED BY <1>2, <1>4, <1>6, OwnerOnlyInv

(* A step of the querier's thread of the cloud. *)
LEMMA CloudWorksQuerierInv ==
  ASSUME SysInv, CloudWorks("Q") PROVE SessionInv'
  <1>1. /\ sess' = sess /\ step' = step /\ await' = await /\ failed' = failed
        /\ answer' = answer /\ dkey' = dkey /\ dparam' = dparam /\ dpc' = dpc
      BY DEF CloudWorks, doVars, querierVars
  <1>2. QuerierStep \/ LoadState("Q") \/ ApplyEvent("Q")
      BY Threads DEF CloudWorks, CallbackStep
  <1>3. Scripted'
      BY <1>1 DEF SysInv, Scripted, QuerierTypeOK
  <1>4. ASSUME NEW o \in Owner PROVE OwnerTold(o)'
      BY <1>1, ToldFrame DEF SysInv
  <1>5. /\ req' = req /\ RequestOf("Q")' = RequestOf("Q")
        /\ pc["Q"] # "idle" /\ pc'["Q"] # "idle"
      <2>1. /\ req' = req /\ pc["Q"] # "idle"
            /\ \/ pc' = pc
               \/ \E label \in {"raise", "read", "threw", "undefined", "reply", "apply"} :
                    pc' = [pc EXCEPT !["Q"] = label]
          BY <1>2 DEF QuerierStep, StorePubkey, StartCompute, ReadData, RejectData,
             SaveResult, SendResult, LoadState, ApplyEvent, Goto
      <2>2. pc'["Q"] # "idle"
          BY <2>1, Threads DEF SysInv, CloudInv, CloudTypeOK
      <2> QED BY <1>1, <2>1, <2>2 DEF RequestOf, Op
  <1>6. CloudServes'
      BY <1>1, <1>5 DEF SysInv, CloudServes
  <1>7. ~ await["Q"] => CloudTold'
      BY <1>1, <1>5, Threads DEF SysInv, CloudServes, CloudTold
  <1>8. ASSUME await["Q"] PROVE CloudTold'
      <2>1. req["Q"] = RequestOf("Q") /\ step["Q"] \in 1 .. 5 /\ req["Q"].op = Op("Q")
            /\ (Op("Q") = "pubkey" => req["Q"].key = KeyOf[sess])
          BY <1>8, Threads DEF SysInv, CloudServes, Scripted, RequestOf
      <2>2. pc \in [Thread -> {"idle", "run", "write", "read", "raise",
                               "apply", "reply", "threw", "undefined"}]
          BY DEF SysInv, CloudInv, CloudTypeOK
      <2>3. CASE StorePubkey
          <3>1. /\ step["Q"] = 2 /\ pubkey' = KeyOf[sess]
                /\ result' = result /\ calc' = calc
              BY <2>1, <2>3, CloudOp DEF StorePubkey
          <3> QED BY <1>1, <3>1 DEF CloudTold
      <2>4. CASE StartCompute
          <3>1. /\ step["Q"] = 3 /\ pubkey' = pubkey /\ result' = result
                /\ calc'.key = pubkey
              BY <2>1, <2>4, CloudOp DEF StartCompute
          <3>2. pc'["Q"] \in {"threw", "undefined", "read"}
              BY <2>2, <2>4, Threads DEF StartCompute, Goto
          <3> QED BY <1>1, <3>1, <3>2 DEF SysInv, CloudTold
      <2>5. CASE ReadData
          <3>1. /\ pubkey' = pubkey /\ result' = result /\ pc' = pc
                /\ calc'.key = calc.key
              BY <2>5 DEF ReadData, SysInv, CloudInv, CloudTypeOK
          <3> QED BY <1>1, <3>1 DEF SysInv, CloudTold
      <2>6. CASE RejectData
          <3>1. /\ pubkey' = pubkey /\ result' = result /\ calc' = calc
                /\ pc' = [pc EXCEPT !["Q"] = "threw"] /\ pc["Q"] = "read"
              BY <2>6 DEF RejectData, Goto
          <3>2. pc'["Q"] = "threw"
              BY <2>2, <3>1, Threads
          <3> QED BY <1>1, <3>1, <3>2 DEF SysInv, CloudTold
      <2>7. CASE SaveResult
          <3>1. /\ pubkey' = pubkey /\ calc' = calc /\ pc["Q"] = "read"
                /\ result'.key = calc.key
              BY <2>7 DEF SaveResult
          <3>2. step["Q"] = 3
              BY <2>1, <3>1, CloudOp DEF SysInv, CloudInv, QuerierThread
          <3> QED BY <1>1, <1>8, <3>1, <3>2 DEF SysInv, CloudTold
      <2>8. CASE SendResult
          <3>1. /\ step["Q"] = 4 /\ pubkey' = pubkey /\ result' = result /\ calc' = calc
              BY <2>1, <2>8, CloudOp DEF SendResult
          <3> QED BY <1>1, <3>1 DEF SysInv, CloudTold
      <2>9. CASE LoadState("Q") \/ ApplyEvent("Q")
          <3>1. /\ pubkey' = pubkey /\ result' = result /\ calc' = calc
                /\ pc["Q"] \in {"raise", "apply"}
                /\ pc' = [pc EXCEPT !["Q"] = "apply"] \/ pc' = [pc EXCEPT !["Q"] = "reply"]
              BY <2>9 DEF LoadState, ApplyEvent, Goto
          <3>2. pc'["Q"] \in {"apply", "reply"}
              BY <2>2, <3>1, Threads
          <3> QED BY <1>1, <3>1, <3>2 DEF SysInv, CloudTold
      <2> QED BY <1>2, <2>3, <2>4, <2>5, <2>6, <2>7, <2>8, <2>9 DEF QuerierStep
  <1>9. AnswerUnderOwnKey'
      BY <1>1, AnswerFrame DEF SysInv
  <1> QED BY <1>3, <1>4, <1>6, <1>7, <1>8, <1>9 DEF SessionInv

LEMMA TimeoutInv ==
  ASSUME SysInv, NEW t \in Thread, Timeout(t) PROVE SessionInv'
  <1>1. /\ sess' = sess /\ step' = step /\ await' = await /\ answer' = answer
        /\ failed' = failed \cup {t} /\ ~ await[t]
      BY DEF Timeout, GiveUp, Sends
  <1>2. /\ dkey' = dkey /\ dparam' = dparam /\ dpc' = dpc
        /\ pc' = pc /\ req' = req /\ pubkey' = pubkey /\ result' = result /\ calc' = calc
      BY DEF Timeout, cloudVars, doVars
  <1>3. Scripted'
      BY <1>1 DEF SysInv, Scripted, QuerierTypeOK
  <1>4. ASSUME NEW o \in Owner PROVE OwnerTold(o)'
      BY <1>1, <1>2, ToldFrame DEF SysInv
  <1>5. CloudServes' /\ CloudTold'
      BY <1>1, <1>2, ServesFrame DEF SysInv
  <1>6. AnswerUnderOwnKey'
      BY <1>1, AnswerFrame DEF SysInv
  <1> QED BY <1>3, <1>4, <1>5, <1>6 DEF SessionInv

(* A new querier has told nobody anything, whatever is still being served. *)
LEMMA NewSessionInv == SysInv /\ NewSession => SessionInv'
  <1> SUFFICES ASSUME SysInv, NewSession PROVE SessionInv'
      OBVIOUS
  <1>1. /\ sess' = sess + 1 /\ sess < MaxSession /\ failed' = {} /\ answer' = answer
        /\ step' = [t \in Thread |-> 1] /\ await' = [t \in Thread |-> FALSE]
      BY DEF NewSession, NextQuerier, Fresh
  <1>2. \A t \in Thread : step'[t] = 1 /\ ~ await'[t]
      BY <1>1
  <1>3. Scripted'
      <2>1. sess' \in Session
          BY <1>1, QuerierAssumption DEF SysInv, Scripted, QuerierTypeOK, Session
      <2> QED BY <1>1, <1>2, <2>1 DEF SysInv, Scripted, QuerierTypeOK
  <1>4. ASSUME NEW o \in Owner PROVE OwnerTold(o)'
      BY <1>2, Threads DEF OwnerTold, Ended
  <1>5. CloudServes' /\ CloudTold'
      BY <1>2, Threads DEF CloudServes, CloudTold
  <1>6. AnswerUnderOwnKey'
      BY <1>1, AnswerFrame DEF SysInv
  <1> QED BY <1>3, <1>4, <1>5, <1>6 DEF SessionInv

LEMMA StutterInv == SysInv /\ UNCHANGED vars => SessionInv'
  <1> SUFFICES ASSUME SysInv, UNCHANGED vars PROVE SessionInv'
      OBVIOUS
  <1> QED BY Threads, OwnerOnlyInv DEF vars, cloudVars, doVars, Owner

LEMMA SysNext == SysInv /\ [Next]_vars => SysInv'
  <1> SUFFICES ASSUME SysInv, [Next]_vars PROVE SysInv'
      OBVIOUS
  <1>1. CloudInv'
      BY CloudStep, NextInv DEF SysInv
  <1>2. DoInv'
      BY OwnersStep, DoNextInv DEF SysInv
  <1>3. ASSUME NEW o \in Owner, \/ QuerierCallsOwner(o)
                               \/ OwnerAnswersQuerier(o)
                               \/ OwnerCallsCloud(o)
                               \/ CloudAnswersOwner(o)
                               \/ OwnerFailsToSend(o)
                               \/ OwnerStarts(o)
                               \/ OwnerRestarts(o)
        PROVE  SessionInv'
      BY <1>3, QuerierCallsOwnerInv, OwnerAnswersQuerierInv, OwnerCallsCloudInv,
         CloudAnswersOwnerInv, OwnerFailsToSendInv, OwnerStartsInv, OwnerRestartsInv
  <1>4. ASSUME NEW t \in Thread, CloudWorks(t) \/ Timeout(t) PROVE SessionInv'
      BY <1>4, CloudWorksOwnerInv, CloudWorksQuerierInv, TimeoutInv, Threads
  <1>5. SessionInv'
      BY <1>3, <1>4, QuerierCallsCloudInv, CloudAnswersQuerierInv, NewSessionInv,
         StutterInv DEF Next, Quiet
  <1> QED BY <1>1, <1>2, <1>5 DEF SysInv, SessionInv
-----------------------------------------------------------------------------
(* The invariant of the whole system. *)
THEOREM SystemInvariant == Spec => []SysInv
  BY SysInit, SysNext, PTL DEF Spec

(* All variables of the system stay within their types. *)
THEOREM SystemTypeCorrect == Spec => []TypeOK
  <1>1. SysInv => TypeOK
      BY DEF SysInv, CloudInv, DoInv, Scripted, TypeOK
  <1> QED BY <1>1, SystemInvariant, PTL

(* Whatever other queriers did before it, a querier downloads a result     *)
(* that was computed with its own public key (the key half of what the     *)
(* README promises it; that the data is its own too fails, see the run     *)
(* StaleAnswer).                                                           *)
THEOREM AnswersUnderOwnKey == Spec => []AnswerUnderOwnKey
  <1>1. SysInv => AnswerUnderOwnKey
      BY DEF SysInv
  <1> QED BY <1>1, SystemInvariant, PTL

(* An owner serving an upload request sends files under the key, and with  *)
(* the parameters, of the querier that is waiting for it.                  *)
THEOREM UploadsAreOwn == Spec => []UploadIsOwn
  <1>1. SysInv => UploadIsOwn
      <2> SUFFICES ASSUME SysInv, NEW o \in Owner, dpc[o] = "upload", await[o]
                   PROVE  enc[o] = KeyOf[sess] /\ dparam[o] = KeyOf[sess]
          BY DEF UploadIsOwn
      <2>1. step[o] = 4 /\ ~ Ended(o)
          BY Threads DEF SysInv, OwnerTold, Scripted, Ended, Script
      <2>2. enc[o] = dkey[o]
          BY DEF SysInv, DoInv, Uploading
      <2>3. dkey[o] = KeyOf[sess] /\ dparam[o] = KeyOf[sess]
          BY <2>1 DEF SysInv, OwnerTold
      <2> QED BY <2>2, <2>3
  <1> QED BY <1>1, SystemInvariant, PTL

(* Composed with the owners and the queriers, the cloud does only what its *)
(* module allows it on its own, so its theorems hold in the system.        *)
THEOREM SystemRunsCloud == Spec => CloudSpec
  <1>1. Init => CloudInit
      BY DEF Init
  <1> QED BY <1>1, CloudStep, SystemInvariant, PTL DEF Spec, CloudSpec

(* And so do the owners. *)
THEOREM SystemRunsOwners == Spec => DataownerSpec
  <1>1. Init => DoInit
      BY DEF Init
  <1> QED BY <1>1, OwnersStep, SystemInvariant, PTL DEF Spec, DataownerSpec

(* In the whole system too, the cloud computes, and lets a result be       *)
(* downloaded, only when what that needs is stored.                        *)
THEOREM SystemReady == Spec => [](ReadyMeansStored /\ ComputedMeansResult)
  BY SystemRunsCloud, ReadyStored, ComputedHasResult, PTL
-----------------------------------------------------------------------------
(* An upload in the whole system, from the owner that sends its files to   *)
(* the records of the cloud that receives them: an owner that has uploaded *)
(* is stored in full, for any number of files, whatever was killed, given  *)
(* up or failed to be read on the way.                                     *)
(*                                                                         *)
(* What must not happen is that the cloud cannot open a file and says      *)
(* nothing (OpenMayFail): then an owner that was told of no error has a    *)
(* file that was never saved.  The rest of the invariant holds even then.  *)

(* No file of an upload that was answered is missing in the records.       *)
UploadKept(o) ==
  /\ dpc[o] = "upload" => 0 .. sent[o] - 1 \subseteq record[o].saved
  /\ dpc[o] = "upload" /\ pc[o] \in {"raise", "apply", "reply"}
       => sent[o] \in record[o].saved
  /\ dstate[o].id = "Uploaded" => 0 .. NumFiles[o] - 1 \subseteq record[o].saved

(* The cloud serves an owner the request it waits for, or one of an owner  *)
(* that was killed; the records are sized by the owner alone; and if files *)
(* can be opened, those that were answered are saved.                      *)
UploadTrue(o) ==
  /\ record[o].init => record[o].num = NumFiles[o]
  /\ req[o].op = "data" => req[o].num = NumFiles[o]
  /\ dpc[o] \in {"idle", "reply", "threw"} => pc[o] = "idle"
  /\ dpc[o] = "upload" /\ pc[o] # "idle" => req[o] = OwnerRequest(o)
  /\ ~ OpenMayFail => UploadKept(o)

UploadsTrue == \A o \in Owner : UploadTrue(o)
-----------------------------------------------------------------------------
\* A step that leaves the cloud's, or the owner's, side of an upload alone.
CloudSame(o) == record'[o] = record[o] /\ req'[o] = req[o] /\ pc'[o] = pc[o]
OwnerSame(o) == /\ dpc'[o] = dpc[o] /\ sent'[o] = sent[o]
                /\ enc'[o] = enc[o] /\ dstate'[o] = dstate[o]

LEMMA UploadFrame ==
  ASSUME NEW o \in Owner, UploadTrue(o), CloudSame(o), OwnerSame(o)
  PROVE  UploadTrue(o)'
  BY DEF UploadTrue, UploadKept, CloudSame, OwnerSame, OwnerRequest

(* A computation starts only with full records, which it does not size.    *)
LEMMA StartComputeSame ==
  ASSUME SysInv, StartCompute, NEW o \in Owner PROVE record'[o] = record[o]
  <1>1. AllSaved(o)
      BY DEF SysInv, CloudInv, QuerierThread, StartCompute, HasAllData
  <1>2. record[o].init
      <2>1. record[o].num > 0
          BY <1>1 DEF AllSaved
      <2>2. record[o].init \in BOOLEAN
          BY DEF SysInv, CloudInv, CloudTypeOK
      <2> QED BY <2>1, <2>2 DEF SysInv, CloudInv, RecordsTrue
  <1>3. record'[o] = Manager(o, 0)
      BY DEF StartCompute
  <1> QED BY <1>2, <1>3 DEF Manager

LEMMA OtherCallback ==
  ASSUME SysInv, NEW t \in Thread, NEW o \in Owner, t # o, CallbackStep(t)
  PROVE  CloudSame(o)
  <1> USE Threads DEF SysInv, CloudInv, CloudTypeOK, CloudSame, Goto
  <1>1. CASE t = "Q" /\ QuerierStep
      <2>1. CASE StartCompute
          BY <1>1, <2>1, StartComputeSame DEF StartCompute
      <2>2. CASE ~ StartCompute
          BY <1>1, <2>2 DEF QuerierStep, StorePubkey, ReadData, RejectData,
             SaveResult, SendResult
      <2> QED BY <2>1, <2>2
  <1>2. CASE t \in Owner /\ OpenData(t)
      BY <1>2 DEF OpenData
  <1>3. CASE t \in Owner /\ IgnoreData(t)
      BY <1>3 DEF IgnoreData
  <1>4. CASE t \in Owner /\ WriteData(t)
      BY <1>4 DEF WriteData
  <1>5. CASE LoadState(t)
      BY <1>5 DEF LoadState
  <1>6. CASE ApplyEvent(t)
      BY <1>6 DEF ApplyEvent
  <1> QED BY <1>1, <1>2, <1>3, <1>4, <1>5, <1>6 DEF CallbackStep, OwnerStep

LEMMA OtherCall ==
  ASSUME SysInv, NEW t \in Thread, NEW o \in Owner, t # o,
         (\E r \in Request(t) : Receive(t, r)) \/ Reply(t)
  PROVE  CloudSame(o)
  BY Threads DEF SysInv, CloudInv, CloudTypeOK, CloudSame, Goto, Receive, Reply

LEMMA OtherOwner ==
  ASSUME SysInv, NEW p \in Owner, NEW o \in Owner, p # o,
         \/ ConnectCloud(p) \/ (\E r \in DoRequest : Handle(p, r)) \/ FailSend(p)
         \/ CloudServed(p) \/ DoReply(p) \/ Restart(p)
  PROVE  OwnerSame(o)
  <1> USE DEF SysInv, DoInv, DoTypeOK, OwnerSame, DoGoto, Raise
  <1>1. CASE \E r \in DoRequest : Handle(p, r)
      BY <1>1 DEF Handle, HandleLink, HandlePubkey, HandleFpmax, HandleUpload, FailEncrypt
  <1>2. CASE CloudServed(p)
      BY <1>2 DEF CloudServed
  <1>3. CASE ConnectCloud(p) \/ FailSend(p) \/ DoReply(p) \/ Restart(p)
      BY <1>3 DEF ConnectCloud, FailSend, DoReply, Restart
  <1> QED BY <1>1, <1>2, <1>3
-----------------------------------------------------------------------------
(* The querier and its thread of the cloud have no part in an upload.      *)
LEMMA QuerierSideSame ==
  ASSUME SysInv, NEW o \in Owner,
         \/ QuerierCallsCloud \/ CloudAnswersQuerier \/ CloudWorks("Q")
         \/ (\E t \in Thread : Timeout(t)) \/ NewSession \/ UNCHANGED vars
  PROVE  CloudSame(o) /\ OwnerSame(o)
  <1>1. "Q" \in Thread /\ "Q" # o
      BY Threads
  <1>2. OwnerSame(o)
      BY DEF OwnerSame, QuerierCallsCloud, CloudAnswersQuerier, CloudWorks,
         Timeout, NewSession, vars, doVars
  <1>3. CASE QuerierCallsCloud
      <2>1. RequestOf("Q") \in Request("Q")
          BY <1>1, <1>3, SendsFacts, QuerierRequest DEF SysInv, QuerierCallsCloud, Send
      <2> QED BY <1>1, <1>2, <1>3, <2>1, OtherCall DEF QuerierCallsCloud
  <1>4. CASE CloudAnswersQuerier
      BY <1>1, <1>2, <1>4, OtherCall DEF CloudAnswersQuerier
  <1>5. CASE CloudWorks("Q")
      BY <1>1, <1>2, <1>5, OtherCallback DEF CloudWorks
  <1>6. CASE (\E t \in Thread : Timeout(t)) \/ NewSession \/ UNCHANGED vars
      <2>1. CloudSame(o)
          BY <1>6 DEF CloudSame, Timeout, NewSession, vars, cloudVars
      <2> QED BY <1>2, <2>1
  <1> QED BY <1>3, <1>4, <1>5, <1>6

(* Nor has the other owner. *)
LEMMA OtherSideSame ==
  ASSUME SysInv, NEW o \in Owner, NEW p \in Owner, p # o,
         \/ QuerierCallsOwner(p) \/ OwnerAnswersQuerier(p) \/ OwnerCallsCloud(p)
         \/ CloudAnswersOwner(p) \/ OwnerFailsToSend(p) \/ OwnerStarts(p)
         \/ OwnerRestarts(p) \/ CloudWorks(p)
  PROVE  CloudSame(o) /\ OwnerSame(o)
  <1>1. p \in Thread /\ p # o
      BY Threads
  <1>2. CASE QuerierCallsOwner(p)
      <2>1. RequestOf(p) \in DoRequest
          BY <1>1, <1>2, SendsFacts, QuerierRequestToOwner DEF SysInv, QuerierCallsOwner, Send
      <2>2. OwnerSame(o)
          BY <1>1, <1>2, <2>1, OtherOwner DEF QuerierCallsOwner
      <2>3. CloudSame(o)
          BY <1>2 DEF QuerierCallsOwner, CloudSame, cloudVars
      <2> QED BY <2>2, <2>3
  <1>3. CASE OwnerCallsCloud(p)
      <2>1. OwnerRequest(p) \in Request(p)
          BY <1>3, OwnerRequestType DEF SysInv, OwnerCallsCloud
      <2>2. CloudSame(o)
          BY <1>1, <1>3, <2>1, OtherCall DEF OwnerCallsCloud
      <2>3. OwnerSame(o)
          BY <1>3 DEF OwnerCallsCloud, OwnerSame, doVars
      <2> QED BY <2>2, <2>3
  <1>4. CASE CloudAnswersOwner(p)
      <2>1. CloudSame(o)
          BY <1>1, <1>4, OtherCall DEF CloudAnswersOwner
      <2>2. OwnerSame(o)
          <3>1. CASE CloudServed(p)
              BY <1>1, <3>1, OtherOwner
          <3>2. CASE UNCHANGED doVars
              BY <3>2 DEF OwnerSame, doVars
          <3> QED BY <1>4, <3>1, <3>2 DEF CloudAnswersOwner
      <2> QED BY <2>1, <2>2
  <1>5. CASE CloudWorks(p)
      <2>1. CloudSame(o)
          BY <1>1, <1>5, OtherCallback DEF CloudWorks
      <2>2. OwnerSame(o)
          BY <1>5 DEF CloudWorks, OwnerSame, doVars
      <2> QED BY <2>1, <2>2
  <1>6. CASE \/ OwnerAnswersQuerier(p) \/ OwnerFailsToSend(p) \/ OwnerStarts(p)
             \/ OwnerRestarts(p)
      <2>1. DoReply(p) \/ FailSend(p) \/ ConnectCloud(p) \/ Restart(p)
          BY <1>6 DEF OwnerAnswersQuerier, OwnerThrewBroken, OwnerFailsToSend,
             OwnerStarts, OwnerRestarts
      <2>2. OwnerSame(o)
          BY <1>1, <2>1, OtherOwner
      <2>3. CloudSame(o)
          BY <1>6 DEF OwnerAnswersQuerier, OwnerThrewBroken, OwnerFailsToSend,
             OwnerStarts, OwnerRestarts, CloudSame, cloudVars
      <2> QED BY <2>2, <2>3
  <1> QED BY <1>2, <1>3, <1>4, <1>5, <1>6

LEMMA QuerierSide ==
  ASSUME SysInv, NEW o \in Owner, UploadTrue(o),
         \/ QuerierCallsCloud \/ CloudAnswersQuerier \/ CloudWorks("Q")
         \/ (\E t \in Thread : Timeout(t)) \/ NewSession \/ UNCHANGED vars
  PROVE  UploadTrue(o)'
  BY QuerierSideSame, UploadFrame

LEMMA OtherSide ==
  ASSUME SysInv, NEW o \in Owner, NEW p \in Owner, p # o, UploadTrue(o),
         \/ QuerierCallsOwner(p) \/ OwnerAnswersQuerier(p) \/ OwnerCallsCloud(p)
         \/ CloudAnswersOwner(p) \/ OwnerFailsToSend(p) \/ OwnerStarts(p)
         \/ OwnerRestarts(p) \/ CloudWorks(p)
  PROVE  UploadTrue(o)'
  BY OtherSideSame, UploadFrame
-----------------------------------------------------------------------------
(* Only a StoreRequest leads to Uploaded.                                  *)
LEMMA UploadedByStore ==
  ASSUME NEW obj \in DoObject, NEW e \in DoEvent, DoNext(obj, e).id = "Uploaded"
  PROVE  obj.id = "Uploaded" \/ e = "StoreRequest"
  BY DEF DoNext, DoNextInit, DoNextConnected, DoNextStored, DoInitOr, DoConnectedOr,
     DoDisconnected, DoObj, DoObject, DoStateId, DoEvent

LEMMA QuerierCallsOwnerUpload ==
  ASSUME SysInv, NEW o \in Owner, UploadTrue(o), QuerierCallsOwner(o)
  PROVE  UploadTrue(o)'
  <1> USE DEF SysInv, DoInv, DoTypeOK, DoGoto, Raise
  <1>1. record' = record /\ req' = req /\ pc' = pc /\ pc[o] = "idle"
      BY DEF QuerierCallsOwner, cloudVars, Handle, UploadTrue
  <1>2. /\ dpc'[o] \in {"reply", "threw"} \/ (dpc'[o] = "upload" /\ sent'[o] = 0)
        /\ \/ dstate'[o] = dstate[o]
           \/ \E e \in DoEvent \ {"StoreRequest"} : dstate'[o] = DoNext(dstate[o], e)
      BY DEF QuerierCallsOwner, Handle, HandleLink, HandlePubkey, HandleFpmax,
             HandleUpload, FailEncrypt, DoEvent, Links, Material
  <1>3. dstate'[o].id = "Uploaded" => dstate[o].id = "Uploaded"
      BY <1>2, UploadedByStore
  <1>4. dpc'[o] = "upload" => 0 .. sent'[o] - 1 = {}
      BY <1>2
  <1> QED BY <1>1, <1>2, <1>3, <1>4 DEF UploadTrue, UploadKept

LEMMA OwnerAloneUpload ==
  ASSUME SysInv, NEW o \in Owner, UploadTrue(o),
         \/ OwnerAnswersQuerier(o) \/ OwnerFailsToSend(o) \/ OwnerStarts(o)
         \/ OwnerRestarts(o)
  PROVE  UploadTrue(o)'
  <1> USE DEF SysInv, DoInv, DoTypeOK, DoGoto, Raise
  <1>1. record' = record /\ req' = req /\ pc' = pc
      BY DEF OwnerAnswersQuerier, OwnerThrewBroken, OwnerFailsToSend, OwnerStarts,
         OwnerRestarts, cloudVars
  <1>2. CASE OwnerAnswersQuerier(o)
      <2>1. dpc[o] \in {"reply", "threw"} /\ dpc'[o] = "idle" /\ dstate' = dstate
          BY <1>2 DEF OwnerAnswersQuerier, OwnerThrewBroken, DoReply
      <2> QED BY <1>1, <2>1 DEF UploadTrue, UploadKept
  <1>3. CASE OwnerFailsToSend(o)
      <2>1. pc[o] = "idle" /\ dpc'[o] = "threw" /\ dstate' = dstate
          BY <1>3 DEF OwnerFailsToSend, FailSend
      <2> QED BY <1>1, <2>1 DEF UploadTrue, UploadKept
  <1>4. CASE OwnerStarts(o)
      <2>1. dpc'[o] = "hello" /\ dstate'[o] = DoNext(dstate[o], "ConnectSocketToCloud")
          BY <1>4 DEF OwnerStarts, ConnectCloud
      <2>2. "ConnectSocketToCloud" \in DoEvent
          BY DEF DoEvent, Links
      <2>3. dstate'[o].id = "Uploaded" => dstate[o].id = "Uploaded"
          BY <2>1, <2>2, UploadedByStore
      <2> QED BY <1>1, <2>1, <2>3 DEF UploadTrue, UploadKept
  <1>5. CASE OwnerRestarts(o)
      <2>1. dpc'[o] = "start" /\ dstate'[o].id = "Init"
          BY <1>5 DEF OwnerRestarts, Restart, DoObj
      <2> QED BY <1>1, <2>1 DEF UploadTrue, UploadKept
  <1> QED BY <1>2, <1>3, <1>4, <1>5

LEMMA OwnerCallsCloudUpload ==
  ASSUME SysInv, NEW o \in Owner, UploadTrue(o), OwnerCallsCloud(o)
  PROVE  UploadTrue(o)'
  <1> o \in Thread
      BY Threads
  <1>1. /\ record' = record /\ dpc' = dpc /\ sent' = sent /\ enc' = enc
        /\ dstate' = dstate
      BY DEF OwnerCallsCloud, Receive, doVars
  <1>2. /\ req'[o] = OwnerRequest(o) /\ dpc[o] \in {"hello", "upload"}
        /\ pc'[o] = IF OwnerRequest(o).op \in {"connect", "disconnect"} THEN "raise" ELSE "run"
      BY DEF OwnerCallsCloud, Receive, Goto, SysInv, CloudInv, CloudTypeOK
  <1>3. OwnerRequest(o)' = OwnerRequest(o)
      BY <1>1 DEF OwnerRequest
  <1>4. CASE dpc[o] = "hello"
      BY <1>1, <1>2, <1>4 DEF UploadTrue, UploadKept, OwnerRequest
  <1>5. CASE dpc[o] = "upload"
      <2>1. OwnerRequest(o).op = "data" /\ OwnerRequest(o).num = NumFiles[o]
          BY <1>5 DEF OwnerRequest
      <2>2. pc'[o] = "run"
          BY <1>2, <2>1
      <2> QED BY <1>1, <1>2, <1>3, <1>5, <2>1, <2>2 DEF UploadTrue, UploadKept
  <1> QED BY <1>2, <1>4, <1>5

LEMMA CloudAnswersOwnerUpload ==
  ASSUME SysInv, NEW o \in Owner, UploadTrue(o), CloudAnswersOwner(o)
  PROVE  UploadTrue(o)'
  <1> o \in Thread /\ o # "Q"
      BY Threads
  <1> USE DEF SysInv, DoInv, DoTypeOK, DoGoto, Raise
  <1>1. /\ record' = record /\ pc'[o] = "idle" /\ pc[o] = "reply"
        /\ req'[o] = NoRequest
      BY DEF CloudAnswersOwner, Reply, Goto, CloudInv, CloudTypeOK, OwnerThread
  <1>2. NoRequest.op # "data"
      BY DEF NoRequest
  <1>3. CASE dpc[o] = "hello" /\ CloudServed(o)
      <2>1. dpc'[o] = "idle" /\ dstate' = dstate
          BY <1>3 DEF CloudServed
      <2> QED BY <1>1, <1>2, <2>1 DEF UploadTrue, UploadKept
  <1>4. CASE dpc[o] = "upload" /\ CloudServed(o)
      <2>1. sent[o] \in Nat /\ sent'[o] = sent[o] + 1 /\ NumFiles[o] \in Nat \ {0}
          BY <1>4, DataownerAssumption DEF CloudServed
      <2>2. ~ OpenMayFail => /\ 0 .. sent[o] - 1 \subseteq record[o].saved
                             /\ sent[o] \in record[o].saved
          BY <1>1, <1>4 DEF UploadTrue, UploadKept
      <2>3. ~ OpenMayFail => 0 .. sent[o] \subseteq record'[o].saved
          <3>1. 0 .. sent[o] = (0 .. sent[o] - 1) \cup {sent[o]}
              BY <2>1
          <3> QED BY <1>1, <2>2, <3>1
      <2>4. 0 .. sent'[o] - 1 = 0 .. sent[o]
          BY <2>1
      <2>5. \/ dpc'[o] = "upload" /\ dstate' = dstate
            \/ dpc'[o] = "reply" /\ sent[o] + 1 = NumFiles[o]
          BY <1>4 DEF CloudServed
      <2>6. ~ OpenMayFail /\ dstate'[o].id = "Uploaded"
              => 0 .. NumFiles[o] - 1 \subseteq record'[o].saved
          <3>1. CASE dstate' = dstate
              BY <1>1, <3>1 DEF UploadTrue, UploadKept
          <3>2. CASE sent[o] + 1 = NumFiles[o]
              <4>1. NumFiles[o] - 1 = sent[o]
                  BY <2>1, <3>2
              <4> QED BY <2>3, <4>1
          <3> QED BY <2>5, <3>1, <3>2
      <2> QED BY <1>1, <1>2, <2>3, <2>4, <2>5, <2>6 DEF UploadTrue, UploadKept
  <1>5. CASE dpc[o] = "start" /\ UNCHANGED doVars
      <2>1. dpc' = dpc /\ dstate' = dstate
          BY <1>5 DEF doVars
      <2> QED BY <1>1, <1>2, <1>5, <2>1 DEF UploadTrue, UploadKept
  <1> QED BY <1>3, <1>4, <1>5 DEF CloudAnswersOwner, CloudServed
-----------------------------------------------------------------------------
(* The cloud serves a file.  The first file sizes the records, for the     *)
(* number of files of its owner, and loses nothing.                        *)
LEMMA SizedByOwner ==
  ASSUME SysInv, NEW o \in Owner, UploadTrue(o), pc[o] = "run", req[o].op = "data",
         record' = [record EXCEPT ![o] = Manager(o, req[o].num)]
  PROVE  /\ record'[o].saved = record[o].saved
         /\ record'[o].num = NumFiles[o]
         /\ record'[o].init
  <1>1. record \in [Owner -> [init : BOOLEAN, num : 0 .. MaxNum,
                              saved : SUBSET (0 .. MaxNum - 1)]]
      BY DEF SysInv, CloudInv, CloudTypeOK
  <1>2. record'[o] = Manager(o, req[o].num) /\ req[o].num = NumFiles[o]
      BY <1>1 DEF UploadTrue
  <1>3. CASE record[o].init
      BY <1>2, <1>3 DEF Manager, UploadTrue
  <1>4. CASE ~ record[o].init
      <2>1. record[o].num = 0 /\ record[o].saved \subseteq 0 .. record[o].num - 1
          BY <1>4 DEF SysInv, CloudInv, RecordsTrue
      <2>2. record[o].saved = {}
          BY <2>1
      <2> QED BY <1>2, <1>4, <2>2 DEF Manager
  <1> QED BY <1>3, <1>4

LEMMA CloudOpensUpload ==
  ASSUME SysInv, NEW o \in Owner, UploadTrue(o), OpenData(o), UNCHANGED doVars
  PROVE  UploadTrue(o)'
  <1>1. /\ pc[o] = "run" /\ req[o].op = "data" /\ req' = req
        /\ record' = [record EXCEPT ![o] = Manager(o, req[o].num)]
      BY DEF OpenData
  <1>2. pc'[o] = "write"
      BY DEF OpenData, Goto, SysInv, CloudInv, CloudTypeOK, Thread, Owner
  <1>3. /\ record'[o].saved = record[o].saved /\ record'[o].num = NumFiles[o]
        /\ record'[o].init
      BY <1>1, SizedByOwner
  <1>4. dpc' = dpc /\ sent' = sent /\ enc' = enc /\ dstate' = dstate
      BY DEF doVars
  <1>5. OwnerRequest(o)' = OwnerRequest(o)
      BY <1>4 DEF OwnerRequest
  <1> QED BY <1>1, <1>2, <1>3, <1>4, <1>5 DEF UploadTrue, UploadKept

(* A file of an upload that is served is never outside the records.        *)
LEMMA CloudIgnoresUpload ==
  ASSUME SysInv, NEW o \in Owner, UploadTrue(o), IgnoreData(o), UNCHANGED doVars
  PROVE  UploadTrue(o)'
  <1>1. /\ pc[o] = "run" /\ req[o].op = "data" /\ req' = req
        /\ record' = [record EXCEPT ![o] = Manager(o, req[o].num)]
        /\ ~ OpenMayFail => req[o].index >= record'[o].num
      BY DEF IgnoreData
  <1>2. /\ record'[o].saved = record[o].saved /\ record'[o].num = NumFiles[o]
        /\ record'[o].init
      BY <1>1, SizedByOwner
  <1>3. dpc' = dpc /\ sent' = sent /\ enc' = enc /\ dstate' = dstate
      BY DEF doVars
  <1>4. dpc[o] \notin {"idle", "reply", "threw"}
      BY <1>1 DEF UploadTrue
  <1>5. ASSUME ~ OpenMayFail PROVE dpc[o] # "upload"
      <2> SUFFICES ASSUME dpc[o] = "upload" PROVE FALSE
          OBVIOUS
      <2>1. req[o].index = sent[o]
          BY <1>1 DEF UploadTrue, OwnerRequest
      <2>2. sent[o] \in Nat /\ NumFiles[o] \in Nat /\ sent[o] < NumFiles[o]
          BY DataownerAssumption DEF SysInv, DoInv, DoTypeOK, Uploading
      <2> QED BY <1>1, <1>2, <1>5, <2>1, <2>2
  <1>6. OwnerRequest(o)' = OwnerRequest(o)
      BY <1>3 DEF OwnerRequest
  <1> QED BY <1>1, <1>2, <1>3, <1>4, <1>5, <1>6 DEF UploadTrue, UploadKept

LEMMA CloudWritesUpload ==
  ASSUME SysInv, NEW o \in Owner, UploadTrue(o), WriteData(o), UNCHANGED doVars
  PROVE  UploadTrue(o)'
  <1>1. pc[o] = "write" /\ req' = req
      BY DEF WriteData
  <1>2. /\ record'[o].init = record[o].init /\ record'[o].num = record[o].num
        /\ record'[o].saved = record[o].saved \cup {req[o].index}
      BY DEF WriteData, SysInv, CloudInv, CloudTypeOK
  <1>3. dpc' = dpc /\ sent' = sent /\ enc' = enc /\ dstate' = dstate
      BY DEF doVars
  <1>4. dpc[o] \notin {"idle", "reply", "threw"}
      BY <1>1 DEF UploadTrue
  <1>5. OwnerRequest(o)' = OwnerRequest(o)
      BY <1>3 DEF OwnerRequest
  <1>6. dpc[o] = "upload" => req[o] = OwnerRequest(o) /\ req[o].index = sent[o]
      BY <1>1 DEF UploadTrue, OwnerRequest
  <1> QED BY <1>1, <1>2, <1>3, <1>4, <1>5, <1>6 DEF UploadTrue, UploadKept

LEMMA CloudRaisesUpload ==
  ASSUME SysInv, NEW o \in Owner, UploadTrue(o), LoadState(o) \/ ApplyEvent(o),
         UNCHANGED doVars
  PROVE  UploadTrue(o)'
  <1>1. record' = record /\ req' = req /\ pc[o] \in {"raise", "apply"}
      BY DEF LoadState, ApplyEvent
  <1>2. pc'[o] \in {"apply", "reply"}
      BY DEF LoadState, ApplyEvent, Goto, SysInv, CloudInv, CloudTypeOK, Thread, Owner
  <1>3. dpc' = dpc /\ sent' = sent /\ enc' = enc /\ dstate' = dstate
      BY DEF doVars
  <1>4. OwnerRequest(o)' = OwnerRequest(o)
      BY <1>3 DEF OwnerRequest
  <1> QED BY <1>1, <1>2, <1>3, <1>4 DEF UploadTrue, UploadKept

LEMMA CloudWorksUpload ==
  ASSUME SysInv, NEW o \in Owner, UploadTrue(o), CloudWorks(o)
  PROVE  UploadTrue(o)'
  BY Threads, CloudOpensUpload, CloudIgnoresUpload, CloudWritesUpload, CloudRaisesUpload
  DEF CloudWorks, CallbackStep, OwnerStep
-----------------------------------------------------------------------------
LEMMA UploadInit == Init => UploadsTrue
  BY DEF Init, CloudInit, DoInit, UploadsTrue, UploadTrue, UploadKept, NoRecord, NoRequest,
     DoObj, Thread, Owner

LEMMA UploadNext ==
  ASSUME SysInv, UploadsTrue, [Next]_vars
  PROVE  UploadsTrue'
  <1> SUFFICES ASSUME NEW o \in Owner PROVE UploadTrue(o)'
      BY DEF UploadsTrue
  <1>1. UploadTrue(o)
      BY DEF UploadsTrue
  <1>2. CASE \/ QuerierCallsCloud \/ CloudAnswersQuerier \/ CloudWorks("Q")
             \/ (\E t \in Thread : Timeout(t)) \/ NewSession \/ UNCHANGED vars
      BY <1>1, <1>2, QuerierSide
  <1>3. ASSUME NEW p \in Owner,
               \/ QuerierCallsOwner(p) \/ OwnerAnswersQuerier(p) \/ OwnerCallsCloud(p)
               \/ CloudAnswersOwner(p) \/ OwnerFailsToSend(p) \/ OwnerStarts(p)
               \/ OwnerRestarts(p) \/ CloudWorks(p)
        PROVE  UploadTrue(o)'
      <2>1. CASE p = o
          BY <1>1, <1>3, <2>1, QuerierCallsOwnerUpload, OwnerAloneUpload,
             OwnerCallsCloudUpload, CloudAnswersOwnerUpload, CloudWorksUpload
      <2>2. CASE p # o
          BY <1>1, <1>3, <2>2, OtherSide
      <2> QED BY <2>1, <2>2
  <1> QED BY <1>2, <1>3, Threads DEF Next, Quiet

(* If the cloud can open every file it is sent, then, for any number of    *)
(* files and sessions, an owner that has gone to Uploaded has its whole    *)
(* set in the records of the cloud: no upload that failed, was given up or *)
(* was cut short by a restart counts as one that is complete.              *)
THEOREM UploadsAreSaved ==
  ASSUME ~ OpenMayFail PROVE Spec => []UploadedMeansSaved
  <1>1. Init => UploadsTrue
      BY UploadInit
  <1>2. SysInv /\ UploadsTrue /\ [Next]_vars => UploadsTrue'
      BY UploadNext
  <1>3. SysInv /\ UploadsTrue => UploadedMeansSaved
      <2> SUFFICES ASSUME SysInv, UploadsTrue, NEW o \in Owner,
                          dstate[o].id = "Uploaded"
                   PROVE  record[o].saved = 0 .. NumFiles[o] - 1
          BY DEF UploadedMeansSaved
      <2>1. 0 .. NumFiles[o] - 1 \subseteq record[o].saved
          BY DEF UploadsTrue, UploadTrue, UploadKept
      <2>2. record[o].saved \subseteq 0 .. record[o].num - 1
          BY DEF SysInv, CloudInv, RecordsTrue
      <2>3. record[o].num = NumFiles[o]
          <3>1. record[o].init \in BOOLEAN
              BY DEF SysInv, CloudInv, CloudTypeOK
          <3>2. record[o].init => record[o].num = NumFiles[o]
              BY DEF UploadsTrue, UploadTrue, UploadKept
          <3>3. ~ record[o].init => record[o].num = 0
              BY DEF SysInv, CloudInv, RecordsTrue
          <3>4. NumFiles[o] \in Nat \ {0}
              BY DataownerAssumption
          <3>5. 0 \in 0 .. NumFiles[o] - 1
              BY <3>4
          <3>6. record[o].num # 0
              BY <2>1, <2>2, <3>5
          <3> QED BY <3>1, <3>2, <3>3, <3>6
      <2> QED BY <2>1, <2>2, <2>3
  <1> QED BY <1>1, <1>2, <1>3, SystemInvariant, PTL DEF Spec
=============================================================================
