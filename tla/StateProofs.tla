----------------------------- MODULE StateProofs -----------------------------
(***************************************************************************)
(* The state object of the cloud in the whole system.                      *)
(*                                                                         *)
(* For any sessions, crashes and restarts, a disconnect never reaches an   *)
(* Init object, so that the count of connections neither wraps nor passes  *)
(* the limit.                                                              *)
(*                                                                         *)
(* While the first querier runs and no owner was started again, the object *)
(* says exactly how far the session has come: which connections were       *)
(* counted and which events applied.  So the cloud leaves Init only for    *)
(* all three connections, no event reaches an object that was replaced,    *)
(* and the state goes through one round of its machine.  A restart or a    *)
(* second querier ends that: TLC finds both make the state jump.           *)
(***************************************************************************)
EXTENDS SessionProofs

(* What a set() leaves in the context and in the objects others hold.      *)
LEMMA ApplyFacts ==
  ASSUME CloudInv, NEW t \in Thread, ApplyEvent(t),
         NEW obj, obj = heap[ref[t]], NEW e, e = EventOf(t)
  PROVE  /\ obj \in Object /\ pc[t] = "apply" /\ req' = req
         /\ pc' = [pc EXCEPT ![t] = "reply"]
         /\ \/ /\ Successor(obj, e) = Nil
               /\ cur' = cur
               /\ heap'[cur] = IF ref[t] = cur THEN Changed(obj, e) ELSE heap[cur]
            \/ /\ Successor(obj, e) # Nil
               /\ heap'[cur'] = Successor(obj, e)
         /\ \A u \in Thread \ {t} : pc[u] = "apply" =>
               /\ ref'[u] = ref[u]
               /\ heap'[ref[u]] = IF ref[u] = ref[t] THEN Changed(obj, e) ELSE heap[ref[u]]
  <1>1. /\ pc[t] = "apply" /\ req' = req
        /\ pc' = [pc EXCEPT ![t] = "reply"]
        /\ ref' = [ref EXCEPT ![t] = NoRef]
      BY DEF ApplyEvent, Goto
  <1>2. ref[t] \in ObjId /\ obj \in Object
      BY <1>1 DEF CloudInv, RefsTrue
  <1>3. /\ heap \in [ObjId -> Object \cup {Nil}] /\ cur \in ObjId
        /\ ref \in [Thread -> ObjId \cup {NoRef}]
      BY DEF CloudInv, CloudTypeOK
  <1>4. \A u \in Thread \ {t} : pc[u] = "apply" => ref'[u] = ref[u] /\ ref[u] \in ObjId
      BY <1>1, <1>3 DEF CloudInv, RefsTrue
  <1> DEFINE h == [heap EXCEPT ![ref[t]] = Changed(obj, e)]
  <1>5. \A i \in ObjId : h[i] = IF ref[t] = i THEN Changed(obj, e) ELSE heap[i]
      BY <1>2, <1>3
  <1>6. DOMAIN h = ObjId
      BY <1>3
  <1>7. \/ /\ Successor(obj, e) = Nil /\ cur' = cur
           /\ heap' = Live(h, cur, ref')
        \/ /\ Successor(obj, e) # Nil /\ cur' \in ObjId
           /\ \A u \in Thread : ref'[u] # cur'
           /\ heap' = Live([h EXCEPT ![cur'] = Successor(obj, e)], cur', ref')
      BY DEF ApplyEvent
  <1> HIDE DEF h
  <1>8. CASE /\ Successor(obj, e) = Nil /\ cur' = cur
             /\ heap' = Live(h, cur, ref')
      <2>1. heap'[cur] = h[cur]
          BY <1>3, <1>8 DEF Live
      <2>2. \A u \in Thread \ {t} : pc[u] = "apply" => heap'[ref[u]] = h[ref[u]]
          BY <1>4, <1>8 DEF Live
      <2> QED BY <1>1, <1>2, <1>3, <1>4, <1>5, <1>8, <2>1, <2>2
  <1>9. CASE /\ Successor(obj, e) # Nil /\ cur' \in ObjId
             /\ \A u \in Thread : ref'[u] # cur'
             /\ heap' = Live([h EXCEPT ![cur'] = Successor(obj, e)], cur', ref')
      <2>1. heap'[cur'] = Successor(obj, e)
          BY <1>6, <1>9 DEF Live
      <2>2. \A u \in Thread \ {t} : pc[u] = "apply" => heap'[ref[u]] = h[ref[u]]
          BY <1>4, <1>6, <1>9 DEF Live
      <2> QED BY <1>1, <1>2, <1>4, <1>5, <1>9, <2>1, <2>2
  <1> QED BY <1>7, <1>8, <1>9

(* The event of a thread is that of its request. *)
LEMMA EventFacts ==
  ASSUME CloudInv, NEW t \in Thread, pc[t] \in {"raise", "apply"}
  PROVE  /\ EventOf(t) \in Event
         /\ EventOf(t) = "DisconnectSocket" <=> req[t].op = "disconnect"
         /\ EventOf(t) = "ConnectSocket" <=> req[t].op = "connect"
  <1>1. CASE t = "Q"
      BY <1>1 DEF CloudInv, QuerierThread, EventOf, EventName, Event
  <1>2. CASE t \in Owner
      BY <1>2 DEF CloudInv, OwnerThread, EventOf, EventName, Event
  <1> QED BY <1>1, <1>2, Threads

(* Only a DisconnectSocket leads to Init, with a count below the limit;    *)
(* an Init object that is not replaced has not reached the limit, unless   *)
(* it was disconnected.                                                    *)
LEMMA InitFacts ==
  ASSUME NEW obj \in Object, NEW e \in Event
  PROVE  /\ Changed(obj, e).id = obj.id
         /\ Successor(obj, e).id = "Init" =>
              e = "DisconnectSocket" /\ Successor(obj, e).count < MAX_CLIENT_NUM
         /\ /\ obj.id = "Init" /\ obj.count < MAX_CLIENT_NUM
            /\ e # "DisconnectSocket" /\ Successor(obj, e) = Nil
            => Changed(obj, e).count < MAX_CLIENT_NUM
  <1>1. Changed(obj, e).id = obj.id
      BY ChangedFacts
  <1>2. Successor(obj, e).id = "Init" =>
          e = "DisconnectSocket" /\ Successor(obj, e).count < MAX_CLIENT_NUM
      BY DEF Successor, AfterInit, AfterConnected, AfterReady, AfterComputed,
         OnDisconnect, StateInit, StateConnected, StateReady, StateComputed, Nil,
         MAX_CLIENT_NUM
  <1>3. ASSUME obj.id = "Init", obj.count < MAX_CLIENT_NUM,
               e # "DisconnectSocket", Successor(obj, e) = Nil
        PROVE  Changed(obj, e).count < MAX_CLIENT_NUM
      <2>1. CASE e = "ConnectSocket"
          <3>1. ~ (Changed(obj, e).count >= MAX_CLIENT_NUM)
              BY <1>3, <2>1 DEF Successor, AfterInit, StateConnected, Nil
          <3>2. Changed(obj, e) \in Object
              BY ChangedFacts
          <3>3. Changed(obj, e).count \in Nat
              BY <3>2, SizeTAssumption DEF Object
          <3> QED BY <3>1, <3>3 DEF MAX_CLIENT_NUM
      <2>2. CASE e # "ConnectSocket"
          BY <1>3, <2>2 DEF Changed, ChangedInit
      <2> QED BY <2>1, <2>2
  <1> QED BY <1>1, <1>2, <1>3
-----------------------------------------------------------------------------
(* A querier that has come as far as its public key finds the cloud out of *)
(* Init, and only its own disconnect brings the cloud back there: so that  *)
(* disconnect reaches an object that is not Init.                          *)
LeavesLate ==
  /\ pc["Q"] = "threw" => req["Q"].op = "compute"
  /\ pc["Q"] # "idle" /\ req["Q"].op \in {"pubkey", "compute", "download"}
       => StateOf # "Init"
  /\ pc["Q"] = "raise" /\ req["Q"].op = "disconnect" => StateOf # "Init"
  /\ pc["Q"] = "apply" /\ req["Q"].op = "disconnect" => heap[ref["Q"]].id # "Init"
  /\ ~ await["Q"] /\ step["Q"] \in 3 .. 5 => StateOf # "Init"

\* No owner asks the cloud to disconnect it.
OwnersStay == \A o \in Owner : req[o].op # "disconnect"

CountInv == LeavesLate /\ OwnersStay /\ CountInRange

LEMMA CountInit == Init => CountInv
  BY Threads DEF Init, CloudInit, QuerierInit, CountInv, LeavesLate, OwnersStay,
     CountInRange, NoRequest, StateOf, StateInit, MAX_CLIENT_NUM

(* A step that neither moves the querier nor changes a state object.       *)
LEMMA LeavesFrame ==
  ASSUME LeavesLate, step'["Q"] = step["Q"], await'["Q"] = await["Q"],
         pc'["Q"] = pc["Q"], req'["Q"] = req["Q"], ref'["Q"] = ref["Q"],
         StateOf # "Init" => StateOf' # "Init",
         pc["Q"] = "apply" => heap'[ref["Q"]].id = heap[ref["Q"]].id
  PROVE  LeavesLate'
  BY DEF LeavesLate

LEMMA CountFrame ==
  ASSUME CountInRange, heap' = heap, cur' = cur
  PROVE  CountInRange' /\ StateOf' = StateOf
  BY DEF CountInRange, StateOf

LEMMA OtherRequest ==
  ASSUME SysInv, NEW t \in Thread, NEW r,
         req' = [req EXCEPT ![t] = r], OwnersStay, t = "Q" \/ r.op # "disconnect"
  PROVE  OwnersStay'
  BY Threads DEF SysInv, CloudInv, CloudTypeOK, OwnersStay

LEMMA QuerierCallsCloudCount ==
  SysInv /\ CountInv /\ QuerierCallsCloud => CountInv'
  <1> SUFFICES ASSUME SysInv, CountInv, QuerierCallsCloud PROVE CountInv'
      OBVIOUS
  <1> DEFINE r == RequestOf("Q")
  <1>1. /\ step["Q"] \in 1 .. 5 /\ ~ await["Q"] /\ r.op = Op("Q")
        /\ step' = step /\ await' = [await EXCEPT !["Q"] = TRUE]
      BY Threads, SendsFacts DEF SysInv, QuerierCallsCloud, Send, RequestOf
  <1>2. /\ Accepts(r) /\ req' = [req EXCEPT !["Q"] = r]
        /\ pc' = [pc EXCEPT !["Q"] = IF r.op \in {"connect", "disconnect"}
                                       THEN "raise" ELSE "run"]
        /\ heap' = heap /\ cur' = cur
      BY DEF QuerierCallsCloud, Receive, Goto
  <1> HIDE DEF r
  <1>3. await'["Q"] /\ req'["Q"] = r /\ pc'["Q"] \in {"raise", "run"}
      BY <1>1, <1>2, Threads DEF SysInv, CloudInv, CloudTypeOK, Scripted, QuerierTypeOK
  <1>4. r.op \in {"pubkey", "compute", "download"} => StateOf # "Init"
      BY <1>2 DEF Accepts, Need, Rank
  <1>5. r.op = "disconnect" => StateOf # "Init"
      BY <1>1, CloudOp DEF CountInv, LeavesLate
  <1>6. CountInRange' /\ StateOf' = StateOf
      BY <1>2, CountFrame DEF CountInv
  <1>7. LeavesLate'
      BY <1>3, <1>4, <1>5, <1>6 DEF LeavesLate
  <1>8. OwnersStay'
      BY <1>2, Threads, OtherRequest DEF CountInv
  <1> QED BY <1>6, <1>7, <1>8 DEF CountInv

LEMMA CloudAnswersQuerierCount ==
  SysInv /\ CountInv /\ CloudAnswersQuerier => CountInv'
  <1> SUFFICES ASSUME SysInv, CountInv, CloudAnswersQuerier PROVE CountInv'
      OBVIOUS
  <1>1. /\ pc["Q"] \in {"reply", "threw"} /\ pc' = [pc EXCEPT !["Q"] = "idle"]
        /\ req' = [req EXCEPT !["Q"] = NoRequest]
        /\ heap' = heap /\ cur' = cur
      BY DEF CloudAnswersQuerier, Reply, Goto
  <1>2. pc'["Q"] = "idle"
      BY <1>1, Threads DEF SysInv, CloudInv, CloudTypeOK
  <1>3. CountInRange' /\ StateOf' = StateOf
      BY <1>1, CountFrame DEF CountInv
  <1>4. OwnersStay'
      BY <1>1, Threads, OtherRequest DEF CountInv, NoRequest
  <1>5. /\ step \in [Thread -> 1 .. 6] /\ await \in [Thread -> BOOLEAN]
        /\ await["Q"] => step["Q"] \in 1 .. 5 /\ req["Q"].op = Op("Q")
      BY Threads DEF SysInv, Scripted, QuerierTypeOK, CloudServes, RequestOf
  <1>6. ASSUME step'["Q"] \in 3 .. 5 PROVE StateOf # "Init"
      <2>1. CASE pc["Q"] = "reply" /\ Served("Q", result)
          <3>1. await["Q"] /\ step'["Q"] = step["Q"] + 1
              BY <1>5, <2>1, Threads DEF Served
          <3>2. step["Q"] \in 2 .. 4
              BY <1>5, <1>6, <3>1
          <3>3. req["Q"].op \in {"pubkey", "compute", "download"}
              BY <1>5, <3>1, <3>2, CloudOp
          <3> QED BY <1>1, <3>3 DEF CountInv, LeavesLate
      <2>2. CASE pc["Q"] = "threw"
          BY <2>2 DEF CountInv, LeavesLate
      <2>3. CASE ~ await["Q"] /\ UNCHANGED querierVars
          BY <1>6, <2>3 DEF CountInv, LeavesLate, querierVars
      <2> QED BY <2>1, <2>2, <2>3 DEF CloudAnswersQuerier
  <1>7. LeavesLate'
      BY <1>2, <1>3, <1>6 DEF LeavesLate
  <1> QED BY <1>3, <1>4, <1>7 DEF CountInv

(* An event that is not a disconnect never brings the cloud back to Init. *)
LEMMA ApplyCount ==
  ASSUME SysInv, CountInv, NEW t \in Thread, ApplyEvent(t)
  PROVE  /\ CountInRange'
         /\ req[t].op # "disconnect" /\ StateOf # "Init" => StateOf' # "Init"
         /\ req[t].op = "disconnect" => t = "Q"
         /\ pc[t] = "apply" /\ req' = req /\ pc' = [pc EXCEPT ![t] = "reply"]
         /\ \A u \in Thread \ {t} : pc[u] = "apply" =>
               ref'[u] = ref[u] /\ heap'[ref[u]].id = heap[ref[u]].id
  <1> DEFINE obj  == heap[ref[t]]
             e    == EventOf(t)
             next == Successor(obj, e)
  <1>1. /\ obj \in Object /\ pc[t] = "apply" /\ req' = req
        /\ pc' = [pc EXCEPT ![t] = "reply"]
        /\ \/ /\ next = Nil /\ cur' = cur
              /\ heap'[cur] = IF ref[t] = cur THEN Changed(obj, e) ELSE heap[cur]
           \/ next # Nil /\ heap'[cur'] = next
        /\ \A u \in Thread \ {t} : pc[u] = "apply" =>
              /\ ref'[u] = ref[u]
              /\ heap'[ref[u]] = IF ref[u] = ref[t] THEN Changed(obj, e) ELSE heap[ref[u]]
      BY ApplyFacts DEF SysInv
  <1>2. /\ e \in Event
        /\ e = "DisconnectSocket" <=> req[t].op = "disconnect"
      BY <1>1, EventFacts DEF SysInv
  <1>3. req[t].op = "disconnect" => t = "Q" /\ obj.id # "Init"
      BY <1>1, Threads DEF CountInv, OwnersStay, LeavesLate
  <1> HIDE DEF obj, e, next
  <1>4. /\ Changed(obj, e).id = obj.id
        /\ next.id = "Init" => e = "DisconnectSocket" /\ next.count < MAX_CLIENT_NUM
        /\ obj.id = "Init" /\ obj.count < MAX_CLIENT_NUM
           /\ e # "DisconnectSocket" /\ next = Nil
           => Changed(obj, e).count < MAX_CLIENT_NUM
      BY <1>1, <1>2, InitFacts DEF next
  <1>5. ref[t] = cur => obj = heap[cur]
      BY DEF obj
  <1>6. CountInRange'
      BY <1>1, <1>2, <1>3, <1>4, <1>5 DEF CountInv, CountInRange, StateOf
  <1>7. req[t].op # "disconnect" /\ StateOf # "Init" => StateOf' # "Init"
      BY <1>1, <1>2, <1>4, <1>5 DEF StateOf
  <1>8. \A u \in Thread \ {t} : pc[u] = "apply" =>
           ref'[u] = ref[u] /\ heap'[ref[u]].id = heap[ref[u]].id
      BY <1>1, <1>4 DEF obj
  <1> QED BY <1>1, <1>3, <1>6, <1>7, <1>8

LEMMA CloudWorksQuerierCount ==
  ASSUME SysInv, CountInv, CloudWorks("Q") PROVE CountInv'
  <1>1. step' = step /\ await' = await
      BY DEF CloudWorks, querierVars
  <1>2. pc \in [Thread -> {"idle", "run", "write", "read", "raise",
                           "apply", "reply", "threw", "undefined"}]
        /\ "Q" \in Thread
      BY Threads DEF SysInv, CloudInv, CloudTypeOK
  <1>3. CASE QuerierStep
      <2>1. heap' = heap /\ cur' = cur /\ ref' = ref /\ req' = req /\ pc["Q"] # "idle"
          BY <1>3 DEF QuerierStep, StorePubkey, StartCompute, ReadData, RejectData,
             SaveResult, SendResult
      <2>2. /\ pc'["Q"] \in {"raise", "threw"} =>
                  req["Q"].op \in {"pubkey", "compute"}
            /\ pc'["Q"] = "threw" => req["Q"].op = "compute"
            /\ pc'["Q"] # "apply"
          BY <1>2, <1>3 DEF QuerierStep, StorePubkey, StartCompute, ReadData,
             RejectData, SaveResult, SendResult, Goto, SysInv, CloudInv, QuerierThread
      <2>3. CountInRange' /\ StateOf' = StateOf
          BY <2>1, CountFrame DEF CountInv
      <2>4. LeavesLate'
          BY <1>1, <2>1, <2>2, <2>3 DEF CountInv, LeavesLate
      <2> QED BY <2>1, <2>3, <2>4 DEF CountInv, OwnersStay
  <1>4. CASE LoadState("Q")
      <2>1. heap' = heap /\ cur' = cur /\ req' = req /\ pc["Q"] = "raise"
          BY <1>4 DEF LoadState
      <2>2. ref'["Q"] = cur /\ pc'["Q"] = "apply"
          BY <1>2, <1>4 DEF LoadState, Goto, SysInv, CloudInv, CloudTypeOK
      <2>3. CountInRange' /\ StateOf' = StateOf
          BY <2>1, CountFrame DEF CountInv
      <2>4. LeavesLate'
          BY <1>1, <2>1, <2>2, <2>3 DEF CountInv, LeavesLate, StateOf
      <2> QED BY <2>1, <2>3, <2>4 DEF CountInv, OwnersStay
  <1>5. CASE ApplyEvent("Q")
      <2>1. /\ CountInRange' /\ req' = req /\ pc["Q"] = "apply"
            /\ req["Q"].op # "disconnect" /\ StateOf # "Init" => StateOf' # "Init"
            /\ pc' = [pc EXCEPT !["Q"] = "reply"]
          BY <1>2, <1>5, ApplyCount
      <2>2. pc'["Q"] = "reply"
          BY <1>2, <2>1
      <2>3. ~ await["Q"] => step["Q"] = 1
          BY <2>1 DEF SysInv, CloudServes
      <2>4. LeavesLate'
          BY <1>1, <2>1, <2>2, <2>3 DEF CountInv, LeavesLate
      <2> QED BY <2>1, <2>4 DEF CountInv, OwnersStay
  <1> QED BY <1>3, <1>4, <1>5, Threads DEF CloudWorks, CallbackStep

LEMMA CloudWorksOwnerCount ==
  ASSUME SysInv, CountInv, NEW o \in Owner, CloudWorks(o) PROVE CountInv'
  <1>1. step' = step /\ await' = await
      BY DEF CloudWorks, querierVars
  <1>2. o \in Thread /\ "Q" \in Thread /\ o # "Q"
      BY Threads
  <1>3. CASE OwnerStep(o) \/ LoadState(o)
      <2>1. /\ heap' = heap /\ cur' = cur /\ req' = req
            /\ \E label : pc' = [pc EXCEPT ![o] = label]
            /\ ref' = ref \/ ref' = [ref EXCEPT ![o] = cur]
          BY <1>3 DEF OwnerStep, OpenData, IgnoreData, WriteData, LoadState, Goto
      <2>2. pc'["Q"] = pc["Q"] /\ ref'["Q"] = ref["Q"]
          BY <1>2, <2>1 DEF SysInv, CloudInv, CloudTypeOK
      <2>3. CountInRange' /\ StateOf' = StateOf
          BY <2>1, CountFrame DEF CountInv
      <2>4. LeavesLate'
          BY <1>1, <2>1, <2>2, <2>3, LeavesFrame DEF CountInv
      <2> QED BY <2>1, <2>3, <2>4 DEF CountInv, OwnersStay
  <1>4. CASE ApplyEvent(o)
      <2>1. /\ CountInRange' /\ req' = req
            /\ req[o].op # "disconnect"
            /\ req[o].op # "disconnect" /\ StateOf # "Init" => StateOf' # "Init"
            /\ pc' = [pc EXCEPT ![o] = "reply"]
            /\ pc["Q"] = "apply" => heap'[ref["Q"]].id = heap[ref["Q"]].id
          BY <1>2, <1>4, ApplyCount
      <2>2. pc'["Q"] = pc["Q"] /\ ref'["Q"] = ref["Q"]
          BY <1>2, <1>4, <2>1 DEF ApplyEvent, SysInv, CloudInv, CloudTypeOK
      <2>3. LeavesLate'
          BY <1>1, <2>1, <2>2, LeavesFrame DEF CountInv
      <2> QED BY <2>1, <2>3 DEF CountInv, OwnersStay
  <1> QED BY <1>2, <1>3, <1>4 DEF CloudWorks, CallbackStep

LEMMA OwnerCallCount ==
  ASSUME SysInv, CountInv, NEW o \in Owner, OwnerCallsCloud(o) \/ CloudAnswersOwner(o)
  PROVE  CountInv'
  <1>1. o \in Thread /\ "Q" \in Thread /\ o # "Q"
      BY Threads
  <1>2. UNCHANGED querierVars
      BY DEF OwnerCallsCloud, CloudAnswersOwner
  <1>3. PICK r : req' = [req EXCEPT ![o] = r] /\ r.op # "disconnect"
      BY DEF OwnerCallsCloud, Receive, OwnerRequest, CloudAnswersOwner, Reply, NoRequest
  <1>4. /\ heap' = heap /\ cur' = cur /\ ref' = ref
        /\ \E label : pc' = [pc EXCEPT ![o] = label]
      BY DEF OwnerCallsCloud, Receive, CloudAnswersOwner, Reply, Goto
  <1>5. pc'["Q"] = pc["Q"] /\ req'["Q"] = req["Q"]
      BY <1>1, <1>3, <1>4 DEF SysInv, CloudInv, CloudTypeOK
  <1>6. OwnersStay'
      BY <1>1, <1>3, OtherRequest DEF CountInv
  <1>7. CountInRange' /\ StateOf' = StateOf
      BY <1>4, CountFrame DEF CountInv
  <1>8. LeavesLate'
      BY <1>2, <1>4, <1>5, <1>7, LeavesFrame DEF CountInv, querierVars
  <1> QED BY <1>6, <1>7, <1>8 DEF CountInv

(* The other steps leave the cloud alone; a new querier starts at its      *)
(* first request.                                                          *)
LEMMA ElsewhereCount ==
  ASSUME SysInv, CountInv, UNCHANGED cloudVars,
         \/ step'["Q"] = step["Q"] /\ await'["Q"] = await["Q"]
         \/ step'["Q"] = 1
  PROVE  CountInv'
  <1>1. /\ heap' = heap /\ cur' = cur /\ req' = req /\ ref' = ref /\ pc' = pc
      BY DEF cloudVars
  <1>2. CountInRange' /\ StateOf' = StateOf
      BY <1>1, CountFrame DEF CountInv
  <1>3. LeavesLate'
      BY <1>1, <1>2 DEF CountInv, LeavesLate
  <1> QED BY <1>1, <1>2, <1>3 DEF CountInv, OwnersStay

LEMMA CountNext == SysInv /\ CountInv /\ [Next]_vars => CountInv'
  <1> SUFFICES ASSUME SysInv, CountInv, [Next]_vars PROVE CountInv'
      OBVIOUS
  <1>1. await \in [Thread -> BOOLEAN] /\ step \in [Thread -> 1 .. 6]
      BY DEF SysInv, Scripted, QuerierTypeOK
  <1>2. ASSUME NEW o \in Owner, QuerierCallsOwner(o) \/ OwnerAnswersQuerier(o)
        PROVE  CountInv'
      <2>1. /\ UNCHANGED cloudVars
            /\ step'["Q"] = step["Q"] /\ await'["Q"] = await["Q"]
          BY <1>1, <1>2, Threads
          DEF QuerierCallsOwner, Send, OwnerAnswersQuerier, OwnerThrewBroken, Broken,
              Served, Unanswered, querierVars
      <2> QED BY <2>1, ElsewhereCount
  <1>3. ASSUME NEW o \in Owner, OwnerFailsToSend(o) \/ OwnerStarts(o) \/ OwnerRestarts(o)
        PROVE  CountInv'
      <2>1. /\ UNCHANGED cloudVars
            /\ step'["Q"] = step["Q"] /\ await'["Q"] = await["Q"]
          BY <1>1, <1>3, Threads
          DEF OwnerFailsToSend, OwnerStarts, OwnerRestarts, Disconnected, querierVars
      <2> QED BY <2>1, ElsewhereCount
  <1>4. ASSUME NEW t \in Thread, Timeout(t) PROVE CountInv'
      BY <1>4, ElsewhereCount DEF Timeout, GiveUp
  <1>5. CASE NewSession
      <2>1. step'["Q"] = 1
          BY <1>5, Threads DEF NewSession, NextQuerier, Fresh
      <2> QED BY <1>5, <2>1, ElsewhereCount DEF NewSession
  <1>6. CASE UNCHANGED vars
      BY <1>6, ElsewhereCount DEF vars, querierVars
  <1> QED
      BY <1>2, <1>3, <1>4, <1>5, <1>6, Threads, QuerierCallsCloudCount,
         CloudAnswersQuerierCount, CloudWorksQuerierCount, CloudWorksOwnerCount,
         OwnerCallCount
      DEF Next, Quiet

(* However many queriers are killed or give up, however often an owner is  *)
(* restarted, and however late an event reaches a replaced object, the     *)
(* count of an Init object never wraps below zero and never passes the     *)
(* limit (state.cpp:44-55): DisconnectSocket never finds the cloud in      *)
(* Init.                                                                   *)
THEOREM CountsInRange == Spec => []CountInRange
  <1>1. CountInv => CountInRange
      BY DEF CountInv
  <1> QED BY <1>1, CountInit, CountNext, SystemInvariant, PTL DEF Spec
-----------------------------------------------------------------------------
(* How far the first session has come: whether the cloud has counted all   *)
(* its clients, and which of its four events it has applied.               *)
AllJoined == \A t \in Thread : Joined(t)
KeyIn     == step["Q"] > 2 \/ (step["Q"] = 2 /\ pc["Q"] = "reply")
DataIn(o) == AllSaved(o) /\ pc[o] \notin {"raise", "apply"}
AllIn     == KeyIn /\ \A o \in Owner : DataIn(o)
ResultIn  == step["Q"] > 3 \/ (step["Q"] = 3 /\ pc["Q"] = "reply")
Left      == step["Q"] > 5 \/ (step["Q"] = 5 /\ pc["Q"] = "reply")

\* The events a Connected object has been told of.
In(e) == /\ e = "PubKeyStore"   => KeyIn
         /\ e = "StoreRequestA" => DataIn("A")
         /\ e = "StoreRequestB" => DataIn("B")

One(b)  == IF b THEN 1 ELSE 0
NumJoined == One(Joined("A")) + One(Joined("B")) + One(Joined("Q"))

(* The state object says exactly that, with its count or its flags.        *)
StateSays ==
  /\ ~ AllJoined => StateOf = "Init" /\ heap[cur].count = NumJoined
  /\ AllJoined /\ ~ AllIn =>
       StateOf = "Connected" /\ \A e \in Stored : e \in heap[cur].stored <=> In(e)
  /\ AllIn /\ ~ ResultIn => StateOf = "Ready"
  /\ ResultIn /\ ~ Left => StateOf = "Computed"
  /\ Left => StateOf = "Init"

(* A client's request is one that the phase lets it make.                  *)
InOrder ==
  /\ pc["Q"] # "idle" => await["Q"]
  /\ step["Q"] > 2 \/ (step["Q"] = 2 /\ await["Q"]) => AllJoined
  /\ step["Q"] > 3 \/ (step["Q"] = 3 /\ await["Q"]) => AllIn
  /\ \A o \in Owner : /\ dpc[o] = "start" => pc[o] = "idle"
                      /\ DataPending(o) \/ AllSaved(o) => AllJoined
                      /\ AllSaved(o) => dpc[o] \notin {"start", "hello"}

\* No event is applied to an object that was replaced.
RefsCurrent == \A t \in Thread : pc[t] = "apply" => ref[t] = cur

Phase == StateSays /\ InOrder /\ RefsCurrent

Undisturbed == sess = 1 /\ restarts = [o \in Owner |-> 0]

PhaseInv == Undisturbed => Phase

\* What the phase rests on.
Known == SysInv /\ UploadsTrue /\ FirstDatas /\ CountInv /\ Phase /\ sess = 1
-----------------------------------------------------------------------------
LEMMA PhaseInit == Init => PhaseInv
  <1> SUFFICES ASSUME Init PROVE Phase
      BY DEF PhaseInv
  <1>1. /\ heap[cur] = StateInit(0) /\ pc = [t \in Thread |-> "idle"]
        /\ dpc = [o \in Owner |-> "start"] /\ step["Q"] = 1 /\ ~ await["Q"]
        /\ \A o \in Owner : ~ AllSaved(o)
      BY Threads DEF Init, CloudInit, DoInit, QuerierInit, NoRecord, AllSaved
  <1>2. \A t \in Thread : ~ Joined(t) /\ pc[t] = "idle"
      BY <1>1, Threads DEF Joined
  <1>3. ~ AllJoined /\ ~ KeyIn /\ ~ ResultIn /\ ~ Left /\ NumJoined = 0
      BY <1>1, <1>2, Threads
      DEF AllJoined, KeyIn, ResultIn, Left, NumJoined, One, Owner
  <1>4. StateSays
      BY <1>1, <1>3 DEF StateSays, AllIn, StateOf, StateInit
  <1>5. InOrder /\ RefsCurrent
      BY <1>1, <1>2, Threads DEF InOrder, DataPending, RefsCurrent
  <1> QED BY <1>4, <1>5 DEF Phase

(* A step that brings the session no further.                              *)
MilesSame == /\ \A t \in Thread : Joined(t)' <=> Joined(t)
             /\ \A o \in Owner : DataIn(o)' <=> DataIn(o)
             /\ KeyIn' <=> KeyIn
             /\ ResultIn' <=> ResultIn
             /\ Left' <=> Left

LEMMA MilesFrame ==
  ASSUME MilesSame
  PROVE  (AllJoined' <=> AllJoined) /\ (AllIn' <=> AllIn)
  BY DEF MilesSame, AllJoined, AllIn

LEMMA SaysFrame ==
  ASSUME StateSays, MilesSame, heap' = heap, cur' = cur
  PROVE  StateSays'
  <1>1. /\ AllJoined' <=> AllJoined
        /\ AllIn' <=> AllIn
        /\ \A e : In(e)' <=> In(e)
      BY MilesFrame DEF MilesSame, In, Owner
  <1>2. NumJoined' = NumJoined
      BY Threads DEF MilesSame, NumJoined, One, Owner
  <1> QED BY <1>1, <1>2 DEF StateSays, MilesSame, StateOf

(* What a thread that raises an event still has before it.                 *)
LEMMA OwnerPending ==
  ASSUME Known, NEW o \in Owner, pc[o] # "idle"
  PROVE  \/ dpc[o] = "hello" /\ req[o].op # "data"
         \/ dpc[o] = "upload" /\ req[o].op = "data"
  <1>1. dpc[o] \in {"hello", "upload"}
      <2>1. dpc[o] \in {"start", "hello", "idle", "upload", "reply", "threw"}
          BY DEF Known, SysInv, DoInv, DoTypeOK
      <2>2. dpc[o] \notin {"idle", "reply", "threw"}
          BY DEF Known, UploadsTrue, UploadTrue
      <2>3. dpc[o] # "start"
          BY DEF Known, Phase, InOrder
      <2> QED BY <2>1, <2>2, <2>3
  <1>2. dpc[o] = "hello" => req[o].op # "data"
      BY DEF Known, FirstDatas, FirstData, DataPending
  <1>3. dpc[o] = "upload" => req[o].op = "data"
      <2>1. dpc[o] = "upload" => req[o] = OwnerRequest(o)
          BY DEF Known, UploadsTrue, UploadTrue
      <2> QED BY <2>1 DEF OwnerRequest
  <1> QED BY <1>1, <1>2, <1>3

LEMMA OwnerRaises ==
  ASSUME Known, NEW o \in Owner, pc[o] \in {"raise", "apply"}
  PROVE  \/ dpc[o] = "hello" /\ req[o].op = "connect" /\ ~ Joined(o)
         \/ req[o].op = "data" /\ AllJoined /\ AllSaved(o) /\ ~ DataIn(o)
  <1>1. CASE req[o].op # "data"
      <2>1. dpc[o] = "hello" /\ req[o].op = "connect"
          BY <1>1, OwnerPending
          DEF Known, SysInv, CloudInv, OwnerThread, CountInv, OwnersStay
      <2> QED BY <2>1, Threads DEF Joined
  <1>2. CASE req[o].op = "data"
      <2>1. AllSaved(o) /\ DataPending(o)
          BY <1>2 DEF Known, SysInv, CloudInv, OwnerThread, DataPending
      <2> QED BY <1>2, <2>1 DEF Known, Phase, InOrder, DataIn
  <1> QED BY <1>1, <1>2

LEMMA QuerierRaises ==
  ASSUME Known, pc["Q"] \in {"raise", "apply"}
  PROVE  /\ await["Q"]
         /\ \/ step["Q"] = 1 /\ req["Q"].op = "connect" /\ ~ Joined("Q")
            \/ step["Q"] = 2 /\ req["Q"].op = "pubkey" /\ AllJoined /\ ~ KeyIn
            \/ step["Q"] = 3 /\ req["Q"].op = "compute" /\ AllIn /\ ~ ResultIn
            \/ step["Q"] = 5 /\ req["Q"].op = "disconnect" /\ AllIn /\ ResultIn /\ ~ Left
  <1>1. await["Q"]
      BY DEF Known, Phase, InOrder
  <1>2. req["Q"].op = Op("Q") /\ step["Q"] \in 1 .. 5
      BY <1>1, Threads DEF Known, SysInv, CloudServes, RequestOf, Scripted
  <1>3. req["Q"].op # "download"
      BY DEF Known, SysInv, CloudInv, QuerierThread
  <1>4. step["Q"] \in {1, 2, 3, 5}
      BY <1>2, <1>3, CloudOp
  <1>5. CASE step["Q"] = 1
      BY <1>1, <1>2, <1>5, CloudOp DEF Joined
  <1>6. CASE step["Q"] = 2
      BY <1>1, <1>2, <1>6, CloudOp DEF Known, Phase, InOrder, KeyIn
  <1>7. CASE step["Q"] = 3
      BY <1>1, <1>2, <1>7, CloudOp DEF Known, Phase, InOrder, ResultIn
  <1>8. CASE step["Q"] = 5
      <2>1. AllIn /\ ResultIn /\ ~ Left
          BY <1>8 DEF Known, Phase, InOrder, ResultIn, Left
      <2> QED BY <1>1, <1>2, <1>8, <2>1, CloudOp
  <1> QED BY <1>4, <1>5, <1>6, <1>7, <1>8
-----------------------------------------------------------------------------
(* The querier asks for what the phase allows: the state the request needs *)
(* says so.                                                                *)
LEMMA QuerierCallsCloudPhase ==
  ASSUME Known, QuerierCallsCloud PROVE Phase'
  <1>1. /\ step["Q"] \in 1 .. 5 /\ ~ await["Q"] /\ step' = step /\ await'["Q"]
        /\ pc["Q"] = "idle" /\ UNCHANGED <<heap, cur, ref, record>> /\ UNCHANGED doVars
      BY Threads, SendsFacts
      DEF Known, SysInv, Scripted, QuerierTypeOK, QuerierCallsCloud, Send, Receive
  <1>2. /\ pc'["Q"] \in {"raise", "run"}
        /\ \A o \in Owner : pc'[o] = pc[o] /\ req'[o] = req[o]
      BY Threads DEF Known, SysInv, CloudInv, CloudTypeOK, QuerierCallsCloud, Receive, Goto
  <1>3. MilesSame
      BY <1>1, <1>2, Threads
      DEF MilesSame, Joined, KeyIn, DataIn, AllSaved, ResultIn, Left, doVars
  <1>4. /\ step["Q"] = 2 => StateOf # "Init"
        /\ step["Q"] = 3 => StateOf \in {"Ready", "Computed"}
      <2>1. Accepts(RequestOf("Q")) /\ RequestOf("Q").op = Op("Q")
          BY DEF QuerierCallsCloud, Receive, RequestOf
      <2>2. StateOf \in StateId
          BY DEF Known, SysInv, CloudInv, RefsTrue, StateOf, Object
      <2> QED BY <1>1, <2>1, <2>2, CloudOp DEF Accepts, Need, Rank, StateId
  <1>5. (step["Q"] = 2 => AllJoined) /\ (step["Q"] = 3 => AllIn)
      BY <1>4 DEF Known, Phase, StateSays
  <1>6. InOrder'
      BY <1>1, <1>2, <1>3, <1>5, MilesFrame
      DEF Known, Phase, InOrder, DataPending, AllSaved, doVars
  <1>7. RefsCurrent'
      BY <1>1, <1>2, Threads DEF Known, Phase, RefsCurrent
  <1> QED BY <1>1, <1>3, <1>6, <1>7, SaysFrame DEF Known, Phase

LEMMA CloudAnswersQuerierPhase ==
  ASSUME Known, CloudAnswersQuerier PROVE Phase'
  <1>1. /\ pc["Q"] \in {"reply", "threw"} /\ await["Q"]
        /\ UNCHANGED <<heap, cur, ref, record>> /\ UNCHANGED doVars
      BY DEF CloudAnswersQuerier, Reply, Known, Phase, InOrder
  <1>2. /\ pc'["Q"] = "idle"
        /\ \A o \in Owner : pc'[o] = pc[o] /\ req'[o] = req[o]
      BY Threads DEF Known, SysInv, CloudInv, CloudTypeOK, CloudAnswersQuerier, Reply, Goto
  <1>3. /\ step["Q"] \in 1 .. 5 /\ ~ await'["Q"]
        /\ \/ pc["Q"] = "reply" /\ step'["Q"] = step["Q"] + 1
           \/ pc["Q"] = "threw" /\ step'["Q"] = step["Q"]
      BY <1>1, Threads
      DEF CloudAnswersQuerier, Served, Broken, Unanswered, Known, SysInv, Scripted,
          QuerierTypeOK
  <1>4. (Joined("Q")' <=> Joined("Q")) /\ (KeyIn' <=> KeyIn)
        /\ (ResultIn' <=> ResultIn) /\ (Left' <=> Left)
      BY <1>1, <1>2, <1>3 DEF Joined, KeyIn, ResultIn, Left
  <1>5. MilesSame
      BY <1>1, <1>2, <1>4, Threads
      DEF MilesSame, Joined, DataIn, AllSaved, doVars
  <1>6. (step'["Q"] > 2 => AllJoined) /\ (step'["Q"] > 3 => AllIn)
      BY <1>1, <1>3 DEF Known, Phase, InOrder
  <1>7. InOrder'
      BY <1>1, <1>2, <1>3, <1>5, <1>6, MilesFrame
      DEF Known, Phase, InOrder, DataPending, AllSaved, doVars
  <1>8. RefsCurrent'
      BY <1>1, <1>2, Threads DEF Known, Phase, RefsCurrent
  <1> QED BY <1>1, <1>5, <1>7, <1>8, SaysFrame DEF Known, Phase

LEMMA QuerierStepPhase ==
  ASSUME Known, QuerierStep, UNCHANGED doVars, UNCHANGED querierVars PROVE Phase'
  <1>1. /\ UNCHANGED <<heap, cur, ref, req>> /\ pc["Q"] \in {"run", "read"}
      BY DEF QuerierStep, StorePubkey, StartCompute, ReadData, RejectData, SaveResult,
         SendResult
  <1>2. /\ pc'["Q"] \in {"raise", "read", "reply", "threw", "undefined"}
        /\ \A o \in Owner : pc'[o] = pc[o]
      BY <1>1, Threads
      DEF QuerierStep, StorePubkey, StartCompute, ReadData, RejectData, SaveResult,
          SendResult, Goto, Known, SysInv, CloudInv, CloudTypeOK
  <1>3. pc'["Q"] = "reply" => step["Q"] = 4
      <2> SUFFICES ASSUME pc'["Q"] = "reply" PROVE step["Q"] = 4
          OBVIOUS
      <2>1. SendResult
          BY <1>1, Threads
          DEF QuerierStep, StorePubkey, StartCompute, ReadData, RejectData, SaveResult, Goto,
              Known, SysInv, CloudInv, CloudTypeOK
      <2>2. req["Q"].op = "download" /\ await["Q"]
          BY <1>1, <2>1 DEF SendResult, Known, Phase, InOrder
      <2>3. req["Q"].op = Op("Q") /\ step["Q"] \in 1 .. 5
          BY <2>2, Threads DEF Known, SysInv, CloudServes, RequestOf, Scripted
      <2> QED BY <2>2, <2>3, CloudOp
  <1>4. \A o \in Owner : record'[o] = record[o]
      BY QuerierSideSame DEF Known, CloudWorks, CallbackStep, CloudSame
  <1>5. MilesSame
      <2>1. \A o \in Owner : /\ Joined(o)' <=> Joined(o)
                             /\ DataIn(o)' <=> DataIn(o)
          BY <1>2, <1>4, Threads DEF Joined, DataIn, AllSaved, doVars
      <2>2. (Joined("Q")' <=> Joined("Q")) /\ (KeyIn' <=> KeyIn)
            /\ (ResultIn' <=> ResultIn) /\ (Left' <=> Left)
          BY <1>1, <1>2, <1>3 DEF Joined, KeyIn, ResultIn, Left, querierVars
      <2> QED BY <2>1, <2>2, Threads DEF MilesSame
  <1>6. InOrder'
      BY <1>1, <1>2, <1>4, <1>5, MilesFrame
      DEF Known, Phase, InOrder, DataPending, AllSaved, doVars, querierVars
  <1>7. RefsCurrent'
      BY <1>1, <1>2, Threads DEF Known, Phase, RefsCurrent
  <1> QED BY <1>1, <1>5, <1>6, <1>7, SaysFrame DEF Known, Phase

LEMMA LoadStatePhase ==
  ASSUME Known, NEW t \in Thread, LoadState(t), UNCHANGED doVars, UNCHANGED querierVars
  PROVE  Phase'
  <1>1. UNCHANGED <<heap, cur, req, record>> /\ pc[t] = "raise"
      BY DEF LoadState
  <1>2. /\ pc'[t] = "apply" /\ ref'[t] = cur
        /\ \A u \in Thread \ {t} : pc'[u] = pc[u] /\ ref'[u] = ref[u]
      BY DEF LoadState, Goto, Known, SysInv, CloudInv, CloudTypeOK
  <1>3. \A u \in Thread : /\ pc'[u] = "reply" <=> pc[u] = "reply"
                          /\ pc'[u] = "idle" <=> pc[u] = "idle"
                          /\ pc'[u] \in {"raise", "apply"} <=> pc[u] \in {"raise", "apply"}
      BY <1>1, <1>2
  <1>4. MilesSame
      BY <1>1, <1>3, Threads
      DEF MilesSame, Joined, KeyIn, DataIn, AllSaved, ResultIn, Left, doVars,
          querierVars
  <1>5. InOrder'
      BY <1>1, <1>3, <1>4, MilesFrame, Threads
      DEF Known, Phase, InOrder, DataPending, AllSaved, doVars, querierVars
  <1>6. RefsCurrent'
      BY <1>1, <1>2 DEF Known, Phase, RefsCurrent
  <1> QED BY <1>1, <1>4, <1>5, <1>6, SaysFrame DEF Known, Phase
-----------------------------------------------------------------------------
(* A connection that is not the last is counted; the last one makes the    *)
(* cloud Connected, and then no other event is on its way.                 *)
LEMMA CountsConnection ==
  ASSUME SysInv, StateSays, NEW t \in Thread, ~ Joined(t), Joined(t)',
         \A u \in Thread \ {t} : Joined(u)' <=> Joined(u),
         ~ KeyIn', \A o \in Owner : ~ DataIn(o)', ~ ResultIn', ~ Left',
         NEW obj, obj = heap[cur],
         \/ /\ Successor(obj, "ConnectSocket") = Nil
            /\ cur' = cur /\ heap'[cur] = Changed(obj, "ConnectSocket")
         \/ /\ Successor(obj, "ConnectSocket") # Nil
            /\ heap'[cur'] = Successor(obj, "ConnectSocket")
  PROVE  StateSays' /\ (cur' = cur \/ AllJoined')
  <1>1. ~ AllJoined
      BY DEF AllJoined
  <1>2. /\ obj.id = "Init" /\ obj.count = NumJoined /\ obj \in Object
      BY <1>1 DEF StateSays, StateOf, SysInv, CloudInv, RefsTrue
  <1>3. /\ NumJoined' = NumJoined + 1 /\ NumJoined \in 0 .. 2
        /\ AllJoined' <=> NumJoined' >= MAX_CLIENT_NUM
      BY Threads DEF AllJoined, NumJoined, One, Owner, MAX_CLIENT_NUM
  <1> DEFINE new == Changed(obj, "ConnectSocket")
  <1>4. new.id = "Init" /\ new.count = NumJoined'
      <2>1. (NumJoined + 1) % SIZE_T = NumJoined + 1
          BY <1>3, SizeTAssumption DEF MAX_CLIENT_NUM
      <2>2. obj = [id |-> "Init", count |-> NumJoined, stored |-> obj.stored]
          BY <1>2 DEF Object
      <2> QED BY <1>3, <2>1, <2>2 DEF Changed, ChangedInit
  <1>5. Successor(obj, "ConnectSocket") = IF AllJoined' THEN StateConnected ELSE Nil
      BY <1>2, <1>3, <1>4 DEF Successor, AfterInit
  <1> HIDE DEF new
  <1>6. ~ AllIn'
      BY DEF AllIn
  <1>7. CASE AllJoined'
      <2>1. heap'[cur'] = StateConnected
          BY <1>5, <1>7 DEF StateConnected, Nil
      <2>2. \A e \in Stored : ~ In(e)'
          BY DEF In, Stored, Owner
      <2> QED BY <1>6, <1>7, <2>1, <2>2 DEF StateSays, StateOf, StateConnected
  <1>8. CASE ~ AllJoined'
      <2>1. cur' = cur /\ heap'[cur'] = new
          BY <1>5, <1>8 DEF new
      <2> QED BY <1>4, <1>6, <1>8, <2>1 DEF StateSays, StateOf
  <1> QED BY <1>7, <1>8

(* An event that is not the last one missing is remembered; the last one   *)
(* makes the cloud Ready.                                                  *)
LEMMA RemembersEvent ==
  ASSUME StateSays, AllJoined, AllJoined', ~ AllIn, ~ ResultIn', ~ Left',
         NEW e \in Stored, \A d \in Stored : In(d)' <=> (In(d) \/ d = e),
         NEW obj, obj = heap[cur], obj \in Object,
         \/ Successor(obj, e) = Nil /\ cur' = cur /\ heap'[cur] = Changed(obj, e)
         \/ Successor(obj, e) # Nil /\ heap'[cur'] = Successor(obj, e)
  PROVE  StateSays' /\ (cur' = cur \/ AllIn')
  <1>1. /\ obj.id = "Connected" /\ obj.stored \subseteq Stored
        /\ \A d \in Stored : d \in obj.stored <=> In(d)
      BY DEF StateSays, StateOf, Object
  <1> DEFINE new == Changed(obj, e)
  <1>2. new.id = "Connected" /\ new.stored = obj.stored \cup {e}
      BY <1>1 DEF Changed, ChangedConnected, Object
  <1>3. e # "DisconnectSocket"
      BY DEF Stored
  <1>4. Successor(obj, e) = IF new.stored = Stored THEN StateReady ELSE Nil
      BY <1>1, <1>3 DEF Successor, AfterConnected, OnDisconnect
  <1> HIDE DEF new
  <1>5. AllIn' <=> new.stored = Stored
      <2>1. AllIn' <=> \A d \in Stored : In(d)'
          BY DEF AllIn, In, Stored, Owner
      <2> QED BY <1>1, <1>2, <2>1
  <1>6. CASE AllIn'
      <2>1. heap'[cur'] = StateReady
          BY <1>4, <1>5, <1>6 DEF StateReady, Nil
      <2> QED BY <1>6, <2>1 DEF StateSays, StateOf, StateReady
  <1>7. CASE ~ AllIn'
      <2>1. cur' = cur /\ heap'[cur'] = new
          BY <1>4, <1>5, <1>7 DEF new
      <2> QED BY <1>1, <1>2, <1>7, <2>1 DEF StateSays, StateOf
  <1> QED BY <1>6, <1>7

LEMMA OrderFacts ==
  ASSUME Known
  PROVE  /\ KeyIn => AllJoined
         /\ \A o \in Owner : DataIn(o) => AllJoined
         /\ AllIn => AllJoined
         /\ ResultIn => AllIn
         /\ Left => ResultIn
  <1>1. step["Q"] \in 1 .. 6
      BY Threads DEF Known, SysInv, Scripted, QuerierTypeOK
  <1>2. pc["Q"] = "reply" => await["Q"]
      BY DEF Known, Phase, InOrder
  <1>3. KeyIn => AllJoined
      BY <1>2 DEF KeyIn, Known, Phase, InOrder
  <1>4. \A o \in Owner : DataIn(o) => AllJoined
      BY DEF DataIn, Known, Phase, InOrder
  <1>5. ResultIn => AllIn
      BY <1>2 DEF ResultIn, Known, Phase, InOrder
  <1>6. Left => ResultIn
      BY <1>1 DEF Left, ResultIn
  <1> QED BY <1>3, <1>4, <1>5, <1>6 DEF AllIn

(* When an event completes a phase, no other is about to be applied.       *)
LEMMA OthersRaise ==
  ASSUME Known, NEW u \in Thread, pc[u] = "apply"
  PROVE  \/ ~ Joined(u)
         \/ u \in Owner /\ ~ DataIn(u) /\ AllJoined
         \/ u = "Q" /\ ~ KeyIn /\ AllJoined
         \/ u = "Q" /\ AllIn
  BY OwnerRaises, QuerierRaises, Threads

(* What ApplyEvent moves, and how far.                                     *)
LEMMA ApplyMiles ==
  ASSUME Known, NEW t \in Thread, ApplyEvent(t), UNCHANGED doVars, UNCHANGED querierVars
  PROVE  /\ pc'[t] = "reply" /\ UNCHANGED <<req, record>>
         /\ \A u \in Thread \ {t} : pc'[u] = pc[u] /\ (Joined(u)' <=> Joined(u))
         /\ \A o \in Owner \ {t} : DataIn(o)' <=> DataIn(o)
         /\ t # "Q" => (KeyIn' <=> KeyIn) /\ (ResultIn' <=> ResultIn) /\ (Left' <=> Left)
         /\ Joined(t) => Joined(t)'
         /\ AllJoined => AllJoined'
         /\ AllIn => AllIn'
  <1>1. UNCHANGED <<req, record>> /\ pc[t] = "apply"
      BY DEF ApplyEvent
  <1>2. pc'[t] = "reply" /\ \A u \in Thread \ {t} : pc'[u] = pc[u]
      BY DEF ApplyEvent, Goto, Known, SysInv, CloudInv, CloudTypeOK
  <1>3. \A u \in Thread \ {t} : Joined(u)' <=> Joined(u)
      BY <1>2, Threads DEF Joined, doVars, querierVars
  <1>4. \A o \in Owner \ {t} : DataIn(o)' <=> DataIn(o)
      BY <1>1, <1>2, Threads DEF DataIn, AllSaved
  <1>5. t # "Q" => (KeyIn' <=> KeyIn) /\ (ResultIn' <=> ResultIn) /\ (Left' <=> Left)
      BY <1>2, Threads DEF KeyIn, ResultIn, Left, querierVars
  <1>6. Joined(t) => Joined(t)'
      BY <1>2, Threads DEF Joined, doVars, querierVars
  <1>7. KeyIn => KeyIn'
      BY <1>1, <1>2, Threads DEF KeyIn, querierVars
  <1>8. \A o \in Owner : DataIn(o) => DataIn(o)'
      BY <1>1, <1>2, Threads DEF DataIn, AllSaved
  <1> QED BY <1>1, <1>2, <1>3, <1>4, <1>5, <1>6, <1>7, <1>8 DEF AllJoined, AllIn

\* No other thread is about to apply an event.
Alone(t) == \A u \in Thread \ {t} : pc[u] # "apply"

LEMMA ApplyConnect ==
  ASSUME Known, NEW t \in Thread, ApplyEvent(t), UNCHANGED doVars, UNCHANGED querierVars,
         req[t].op = "connect"
  PROVE  StateSays' /\ (cur' = cur \/ Alone(t))
  <1> DEFINE obj == heap[cur]
  <1>1. pc[t] = "apply" /\ ref[t] = cur
      BY DEF ApplyEvent, Known, Phase, RefsCurrent
  <1>2. EventOf(t) = "ConnectSocket"
      BY DEF EventOf, EventName
  <1>3. \/ /\ Successor(obj, "ConnectSocket") = Nil
           /\ cur' = cur /\ heap'[cur] = Changed(obj, "ConnectSocket")
        \/ /\ Successor(obj, "ConnectSocket") # Nil
           /\ heap'[cur'] = Successor(obj, "ConnectSocket")
      BY <1>1, <1>2, ApplyFacts DEF Known, SysInv
  <1> HIDE DEF obj
  <1>4. ~ Joined(t) /\ (t = "Q" => step["Q"] = 1)
      BY <1>1, OwnerRaises, QuerierRaises, Threads
  <1>5. ~ AllJoined
      BY <1>4 DEF AllJoined
  <1>6. /\ pc'[t] = "reply" /\ record' = record
        /\ \A u \in Thread \ {t} : Joined(u)' <=> Joined(u)
        /\ t # "Q" => (KeyIn' <=> KeyIn) /\ (ResultIn' <=> ResultIn) /\ (Left' <=> Left)
      BY ApplyMiles
  <1>7. Joined(t)'
      BY <1>6 DEF Joined
  <1>8. ~ KeyIn' /\ ~ ResultIn' /\ ~ Left'
      <2>1. CASE t = "Q"
          BY <1>4, <2>1 DEF KeyIn, ResultIn, Left, querierVars
      <2>2. CASE t # "Q"
          BY <1>5, <1>6, <2>2, OrderFacts
      <2> QED BY <2>1, <2>2
  <1>9. \A o \in Owner : ~ DataIn(o)'
      BY <1>5, <1>6 DEF DataIn, AllSaved, Known, Phase, InOrder
  <1>10. StateSays' /\ (cur' = cur \/ AllJoined')
      BY <1>3, <1>4, <1>6, <1>7, <1>8, <1>9, CountsConnection DEF Known, Phase, obj
  <1>11. AllJoined' => Alone(t)
      BY <1>5, <1>6, OthersRaise, OrderFacts DEF AllJoined, Alone
  <1> QED BY <1>10, <1>11

LEMMA ApplyStore ==
  ASSUME Known, NEW t \in Thread, ApplyEvent(t), UNCHANGED doVars, UNCHANGED querierVars,
         req[t].op \in {"data", "pubkey"}
  PROVE  StateSays' /\ (cur' = cur \/ Alone(t))
  <1> DEFINE obj == heap[cur]
             e   == EventOf(t)
  <1>1. pc[t] = "apply" /\ ref[t] = cur
      BY DEF ApplyEvent, Known, Phase, RefsCurrent
  <1>2. /\ obj \in Object
        /\ \/ Successor(obj, e) = Nil /\ cur' = cur /\ heap'[cur] = Changed(obj, e)
           \/ Successor(obj, e) # Nil /\ heap'[cur'] = Successor(obj, e)
      BY <1>1, ApplyFacts DEF Known, SysInv
  <1>3. /\ pc'[t] = "reply" /\ record' = record
        /\ \A o \in Owner \ {t} : DataIn(o)' <=> DataIn(o)
        /\ t # "Q" => (KeyIn' <=> KeyIn) /\ (ResultIn' <=> ResultIn) /\ (Left' <=> Left)
        /\ AllJoined => AllJoined'
      BY ApplyMiles
  <1>4. /\ t = "Q" => e = "PubKeyStore" /\ step["Q"] = 2 /\ AllJoined /\ ~ KeyIn
        /\ t \in Owner => AllJoined /\ AllSaved(t) /\ ~ DataIn(t)
                          /\ e = IF t = "A" THEN "StoreRequestA" ELSE "StoreRequestB"
      BY <1>1, OwnerRaises, QuerierRaises, Threads DEF EventOf, EventName
  <1> HIDE DEF obj, e
  <1>5. t = "Q" => KeyIn' /\ ~ ResultIn' /\ ~ Left'
      BY <1>3, <1>4 DEF KeyIn, ResultIn, Left, querierVars
  <1>6. t \in Owner => DataIn(t)' /\ ~ ResultIn' /\ ~ Left'
      <2>1. t \in Owner => ~ AllIn
          BY <1>4 DEF AllIn
      <2> QED BY <1>3, <1>4, <2>1, OrderFacts, Threads DEF DataIn, AllSaved
  <1>7. e \in Stored /\ \A d \in Stored : In(d)' <=> (In(d) \/ d = e)
      BY <1>3, <1>4, <1>5, <1>6, Threads DEF In, Stored, Owner
  <1>8. AllJoined /\ AllJoined' /\ ~ AllIn
      BY <1>3, <1>4, Threads DEF AllIn
  <1>9. StateSays' /\ (cur' = cur \/ AllIn')
      BY <1>2, <1>5, <1>6, <1>7, <1>8, Threads, RemembersEvent DEF Known, Phase, obj
  <1>10. AllIn' => Alone(t)
      <2> SUFFICES ASSUME AllIn', NEW u \in Thread \ {t}, pc[u] = "apply" PROVE FALSE
          BY DEF Alone
      <2>1. u \in Owner => DataIn(u)
          BY <1>3 DEF AllIn
      <2>2. u = "Q" => KeyIn
          BY <1>3 DEF AllIn
      <2>3. Joined(u)
          BY <1>8 DEF AllJoined
      <2> QED BY <1>8, <2>1, <2>2, <2>3, OthersRaise
  <1> QED BY <1>9, <1>10

LEMMA ApplyLate ==
  ASSUME Known, NEW t \in Thread, ApplyEvent(t), UNCHANGED doVars, UNCHANGED querierVars,
         req[t].op \in {"compute", "disconnect"}
  PROVE  StateSays' /\ Alone(t)
  <1> DEFINE obj == heap[cur]
             e   == EventOf(t)
  <1>1. pc[t] = "apply" /\ ref[t] = cur
      BY DEF ApplyEvent, Known, Phase, RefsCurrent
  <1>2. \/ Successor(obj, e) = Nil /\ cur' = cur /\ heap'[cur] = Changed(obj, e)
        \/ Successor(obj, e) # Nil /\ heap'[cur'] = Successor(obj, e)
      BY <1>1, ApplyFacts DEF Known, SysInv
  <1>3. /\ t = "Q"
        /\ \/ e = "JoinRequest" /\ step["Q"] = 3 /\ AllIn /\ ~ ResultIn
           \/ e = "DisconnectSocket" /\ step["Q"] = 5 /\ AllIn /\ ResultIn /\ ~ Left
      BY <1>1, OwnerRaises, QuerierRaises, Threads DEF EventOf, EventName
  <1> HIDE DEF obj, e
  <1>4. pc'["Q"] = "reply" /\ AllIn' /\ AllJoined'
      BY <1>3, ApplyMiles, OrderFacts
  <1>5. StateSays'
      <2>1. CASE e = "JoinRequest" /\ step["Q"] = 3 /\ ~ ResultIn
          <3>1. obj.id = "Ready"
              BY <1>3, <2>1 DEF Known, Phase, StateSays, StateOf, obj
          <3>2. heap'[cur'] = StateComputed
              BY <1>2, <2>1, <3>1 DEF Successor, AfterReady, StateComputed, Nil
          <3>3. ResultIn' /\ ~ Left'
              BY <1>4, <2>1 DEF ResultIn, Left, querierVars
          <3> QED BY <1>4, <3>2, <3>3 DEF StateSays, StateOf, StateComputed
      <2>2. CASE e = "DisconnectSocket" /\ step["Q"] = 5 /\ ResultIn /\ ~ Left
          <3>1. obj.id = "Computed"
              BY <1>3, <2>2 DEF Known, Phase, StateSays, StateOf, obj
          <3>2. heap'[cur'].id = "Init"
              BY <1>2, <2>2, <3>1
              DEF Successor, AfterComputed, OnDisconnect, StateInit, StateReady, Nil, Stored
          <3>3. ResultIn' /\ Left'
              BY <1>4, <2>2 DEF ResultIn, Left, querierVars
          <3> QED BY <1>4, <3>2, <3>3 DEF StateSays, StateOf
      <2> QED BY <1>3, <2>1, <2>2
  <1>6. Alone(t)
      <2> SUFFICES ASSUME NEW u \in Thread \ {t}, pc[u] = "apply" PROVE FALSE
          BY DEF Alone
      <2>1. u \in Owner /\ DataIn(u) /\ Joined(u)
          BY <1>3, OrderFacts, Threads DEF AllIn, AllJoined
      <2> QED BY <2>1, OthersRaise, Threads
  <1> QED BY <1>5, <1>6

LEMMA ApplyPhase ==
  ASSUME Known, NEW t \in Thread, ApplyEvent(t), UNCHANGED doVars, UNCHANGED querierVars
  PROVE  Phase'
  <1>1. pc[t] = "apply" /\ ref[t] = cur
      BY DEF ApplyEvent, Known, Phase, RefsCurrent
  <1>2. req[t].op \in {"connect", "data", "pubkey", "compute", "disconnect"}
      BY <1>1, OwnerRaises, QuerierRaises, Threads
  <1>3. StateSays' /\ (cur' = cur \/ Alone(t))
      BY <1>2, ApplyConnect, ApplyStore, ApplyLate
  <1>4. /\ pc'[t] = "reply" /\ UNCHANGED <<req, record>>
        /\ \A u \in Thread \ {t} : pc'[u] = pc[u]
        /\ AllJoined => AllJoined'
        /\ AllIn => AllIn'
      BY ApplyMiles
  <1>5. InOrder'
      BY <1>1, <1>4, Threads
      DEF Known, Phase, InOrder, DataPending, AllSaved, doVars, querierVars
  <1>6. \A u \in Thread \ {t} : pc[u] = "apply" => ref'[u] = ref[u]
      BY ApplyFacts DEF Known, SysInv
  <1>7. RefsCurrent'
      BY <1>3, <1>4, <1>6 DEF Known, Phase, RefsCurrent, Alone
  <1> QED BY <1>3, <1>5, <1>7 DEF Phase
-----------------------------------------------------------------------------
(* An owner has all data in only when the event of its last file is        *)
(* applied: until then that file is not saved, or its event is under way.  *)
LEMMA OwnerStepPhase ==
  ASSUME Known, NEW o \in Owner, OwnerStep(o), UNCHANGED doVars, UNCHANGED querierVars
  PROVE  Phase'
  <1>1. UNCHANGED <<heap, cur, ref, req>> /\ pc[o] \in {"run", "write"}
      BY DEF OwnerStep, OpenData, IgnoreData, WriteData
  <1>2. /\ pc'[o] \in {"write", "raise", "reply"}
        /\ \A u \in Thread \ {o} : pc'[u] = pc[u]
      BY Threads
      DEF OwnerStep, OpenData, IgnoreData, WriteData, Goto, Known, SysInv, CloudInv,
          CloudTypeOK
  <1>3. DataPending(o) /\ NumFiles[o] - 1 \notin record[o].saved
      BY <1>1, NotYetClosed DEF Known, FirstDatas
  <1>4. dpc[o] = "upload" /\ AllJoined
      BY <1>3, OwnerPending DEF DataPending, Known, Phase, InOrder
  <1>5. ~ DataIn(o)
      <2>1. ~ AllSaved(o)
          BY <1>3, LastFile DEF Known, UploadsTrue
      <2> QED BY <2>1 DEF DataIn
  <1>6. ~ DataIn(o)'
      <2>1. CASE OpenData(o) \/ IgnoreData(o)
          <3>1. record'[o].saved = record[o].saved /\ record'[o].num = NumFiles[o]
              BY <2>1, SizedByOwner DEF Known, UploadsTrue, OpenData, IgnoreData
          <3>2. NumFiles[o] - 1 \in 0 .. NumFiles[o] - 1
              BY DataownerAssumption
          <3> QED BY <1>3, <3>1, <3>2 DEF DataIn, AllSaved
      <2>2. CASE WriteData(o)
          BY <2>2, Threads
          DEF WriteData, Goto, DataIn, Known, SysInv, CloudInv, CloudTypeOK
      <2> QED BY <2>1, <2>2 DEF OwnerStep
  <1>7. \A u \in Owner \ {o} : record'[u] = record[u]
      BY OtherSideSame, Threads DEF Known, CloudWorks, CallbackStep, CloudSame
  <1>8. MilesSame
      <2>1. \A u \in Owner : /\ Joined(u)' <=> Joined(u)
                             /\ DataIn(u)' <=> DataIn(u)
          BY <1>2, <1>4, <1>5, <1>6, <1>7, Threads
          DEF Joined, DataIn, AllSaved, doVars
      <2>2. (Joined("Q")' <=> Joined("Q")) /\ (KeyIn' <=> KeyIn)
            /\ (ResultIn' <=> ResultIn) /\ (Left' <=> Left)
          BY <1>2, Threads DEF Joined, KeyIn, ResultIn, Left, querierVars
      <2> QED BY <2>1, <2>2, Threads DEF MilesSame
  <1>9. InOrder'
      <2>1. AllJoined' /\ (AllIn => AllIn')
          BY <1>4, <1>8, MilesFrame
      <2>2. \A u \in Owner \ {o} : AllSaved(u)' <=> AllSaved(u)
          BY <1>7 DEF AllSaved
      <2> QED BY <1>1, <1>2, <1>4, <2>1, <2>2, Threads
           DEF Known, Phase, InOrder, DataPending, doVars, querierVars
  <1>10. RefsCurrent'
      BY <1>1, <1>2 DEF Known, Phase, RefsCurrent
  <1> QED BY <1>1, <1>8, <1>9, <1>10, SaysFrame DEF Known, Phase

(* The cloud has nothing to do with what an owner says to the querier.     *)
LEMMA ElsewherePhase ==
  ASSUME Known, UNCHANGED cloudVars,
         step'["Q"] = step["Q"], await'["Q"] = await["Q"],
         \A o \in Owner :
            \/ dpc'[o] = dpc[o]
            \/ dpc[o] \notin {"start", "hello"} /\ dpc'[o] \notin {"start", "hello"}
            \/ dpc[o] = "start" /\ dpc'[o] = "hello"
  PROVE  Phase'
  <1>1. UNCHANGED <<heap, cur, ref, req, pc, record>>
      BY DEF cloudVars
  <1>2. \A o \in Owner : dpc[o] = "start" => pc[o] = "idle" /\ ~ AllSaved(o)
      BY DEF Known, Phase, InOrder
  <1>3. \A o \in Owner : (AllSaved(o)' <=> AllSaved(o)) /\ (DataPending(o)' <=> DataPending(o))
      BY <1>1 DEF AllSaved, DataPending
  <1>4. MilesSame
      <2>1. \A o \in Owner : Joined(o)' <=> Joined(o)
          BY <1>1, <1>2, Threads DEF Joined
      <2> QED BY <1>1, <1>3, <2>1, Threads
           DEF MilesSame, Joined, DataIn, KeyIn, ResultIn, Left
  <1>5. InOrder'
      BY <1>1, <1>2, <1>3, <1>4, MilesFrame DEF Known, Phase, InOrder
  <1> QED BY <1>1, <1>4, <1>5, SaysFrame DEF Known, Phase, RefsCurrent

LEMMA OwnerSidePhase ==
  ASSUME Known, NEW o \in Owner,
         \/ QuerierCallsOwner(o) \/ OwnerAnswersQuerier(o) \/ OwnerFailsToSend(o)
         \/ OwnerStarts(o)
  PROVE  Phase'
  <1>1. /\ UNCHANGED cloudVars
        /\ step'["Q"] = step["Q"] /\ await'["Q"] = await["Q"]
      BY Threads
      DEF Known, SysInv, Scripted, QuerierTypeOK, QuerierCallsOwner, Send,
          OwnerAnswersQuerier, OwnerThrewBroken, Broken, Served, Unanswered,
          OwnerFailsToSend, OwnerStarts, querierVars
  <1>2. dpc \in [Owner -> {"start", "hello", "idle", "upload", "reply", "threw"}]
      BY DEF Known, SysInv, DoInv, DoTypeOK
  <1>3. /\ \A p \in Owner \ {o} : dpc'[p] = dpc[p]
        /\ \/ dpc[o] \notin {"start", "hello"} /\ dpc'[o] \notin {"start", "hello"}
           \/ dpc[o] = "start" /\ dpc'[o] = "hello"
      BY <1>2
      DEF QuerierCallsOwner, Handle, HandleLink, HandlePubkey, HandleFpmax, HandleUpload,
          FailEncrypt, OwnerAnswersQuerier, OwnerThrewBroken, DoReply, OwnerFailsToSend,
          FailSend, OwnerStarts, ConnectCloud, DoGoto
  <1> QED BY <1>1, <1>3, ElsewherePhase

LEMMA OwnerCallsCloudPhase ==
  ASSUME Known, NEW o \in Owner, OwnerCallsCloud(o) PROVE Phase'
  <1>1. /\ UNCHANGED <<heap, cur, ref, record>> /\ pc[o] = "idle"
        /\ dpc[o] \in {"hello", "upload"}
        /\ UNCHANGED doVars /\ UNCHANGED querierVars
      BY DEF OwnerCallsCloud, Receive
  <1>2. /\ pc'[o] \in {"raise", "run"} /\ req'[o] = OwnerRequest(o)
        /\ \A u \in Thread \ {o} : pc'[u] = pc[u] /\ req'[u] = req[u]
      BY Threads DEF Known, SysInv, CloudInv, CloudTypeOK, OwnerCallsCloud, Receive, Goto
  <1>3. ~ AllSaved(o) /\ ~ AllSaved(o)'
      <2>1. ~ Closed(o) \/ dpc[o] = "hello"
          BY <1>1 DEF Closed
      <2>2. ~ AllSaved(o)
          BY <2>1, LastFile DEF Known, UploadsTrue, FirstDatas, FirstData, Phase, InOrder
      <2> QED BY <1>1, <2>2 DEF AllSaved
  <1>4. MilesSame
      <2>1. \A u \in Owner : /\ Joined(u)' <=> Joined(u)
                             /\ DataIn(u)' <=> DataIn(u)
          BY <1>1, <1>2, <1>3, Threads DEF Joined, DataIn, AllSaved, doVars
      <2>2. (Joined("Q")' <=> Joined("Q")) /\ (KeyIn' <=> KeyIn)
            /\ (ResultIn' <=> ResultIn) /\ (Left' <=> Left)
          BY <1>1, <1>2, Threads DEF Joined, KeyIn, ResultIn, Left, querierVars
      <2> QED BY <2>1, <2>2, Threads DEF MilesSame
  <1>5. DataPending(o)' => AllJoined
      <2> SUFFICES ASSUME DataPending(o)' PROVE StateOf # "Init"
          BY DEF Known, Phase, StateSays
      <2>1. OwnerRequest(o).op = "data"
          BY <1>2 DEF DataPending
      <2>2. Accepts(OwnerRequest(o))
          BY DEF OwnerCallsCloud, Receive
      <2> QED BY <2>1, <2>2 DEF Accepts, Need, Rank
  <1>6. InOrder'
      <2>1. (AllJoined => AllJoined') /\ (AllIn => AllIn')
          BY <1>4, MilesFrame
      <2>2. \A u \in Owner \ {o} : /\ AllSaved(u)' <=> AllSaved(u)
                                   /\ DataPending(u)' <=> DataPending(u)
          BY <1>1, <1>2, Threads DEF AllSaved, DataPending
      <2> QED BY <1>1, <1>2, <1>3, <1>5, <2>1, <2>2, Threads
           DEF Known, Phase, InOrder, doVars, querierVars
  <1>7. RefsCurrent'
      BY <1>1, <1>2 DEF Known, Phase, RefsCurrent
  <1> QED BY <1>1, <1>4, <1>6, <1>7, SaysFrame DEF Known, Phase

LEMMA CloudAnswersOwnerPhase ==
  ASSUME Known, NEW o \in Owner, CloudAnswersOwner(o) PROVE Phase'
  <1>1. /\ UNCHANGED <<heap, cur, ref, record>> /\ pc[o] \in {"reply", "threw"}
        /\ UNCHANGED querierVars
      BY DEF CloudAnswersOwner, Reply
  <1>2. pc[o] = "reply"
      BY <1>1 DEF Known, SysInv, CloudInv, OwnerThread
  <1>3. /\ pc'[o] = "idle"
        /\ \A u \in Thread \ {o} : pc'[u] = pc[u] /\ req'[u] = req[u]
      BY Threads DEF Known, SysInv, CloudInv, CloudTypeOK, CloudAnswersOwner, Reply, Goto
  <1>4. /\ dpc'[o] \notin {"start", "hello"}
        /\ \A u \in Owner \ {o} : dpc'[u] = dpc[u]
      <2>1. dpc[o] # "start"
          BY <1>2 DEF Known, Phase, InOrder
      <2>2. CloudServed(o)
          BY <2>1 DEF CloudAnswersOwner
      <2> QED BY <2>2 DEF CloudServed, DoGoto, Known, SysInv, DoInv, DoTypeOK
  <1>5. MilesSame
      <2>1. \A u \in Owner : /\ Joined(u)' <=> Joined(u)
                             /\ DataIn(u)' <=> DataIn(u)
          BY <1>1, <1>2, <1>3, <1>4, Threads DEF Joined, DataIn, AllSaved
      <2>2. (Joined("Q")' <=> Joined("Q")) /\ (KeyIn' <=> KeyIn)
            /\ (ResultIn' <=> ResultIn) /\ (Left' <=> Left)
          BY <1>1, <1>3, Threads DEF Joined, KeyIn, ResultIn, Left, querierVars
      <2> QED BY <2>1, <2>2, Threads DEF MilesSame
  <1>6. InOrder'
      <2>1. (AllJoined => AllJoined') /\ (AllIn => AllIn')
          BY <1>5, MilesFrame
      <2>2. \A u \in Owner : AllSaved(u)' <=> AllSaved(u)
          BY <1>1 DEF AllSaved
      <2>3. \A u \in Owner : DataPending(u)' => DataPending(u)
          BY <1>3, Threads DEF DataPending
      <2> QED BY <1>1, <1>3, <1>4, <2>1, <2>2, <2>3, Threads
           DEF Known, Phase, InOrder, querierVars
  <1>7. RefsCurrent'
      BY <1>1, <1>3 DEF Known, Phase, RefsCurrent
  <1> QED BY <1>1, <1>5, <1>6, <1>7, SaysFrame DEF Known, Phase
-----------------------------------------------------------------------------
(* A session that has not been disturbed was not before.                   *)
LEMMA UndisturbedStep ==
  ASSUME SysInv, [Next]_vars, Undisturbed'
  PROVE  Undisturbed /\ ~ NewSession /\ \A o \in Owner : ~ OwnerRestarts(o)
  <1>1. sess = 1 /\ ~ NewSession
      BY SessionStep DEF Undisturbed, NewSession, NextQuerier
  <1>2. restarts \in [Owner -> Nat]
      BY DEF SysInv, DoInv, DoTypeOK
  <1>3. ASSUME NEW o \in Owner, OwnerRestarts(o) PROVE FALSE
      <2>1. restarts'[o] = restarts[o] + 1
          BY <1>2, <1>3 DEF OwnerRestarts, Restart
      <2>2. restarts'[o] = 0
          BY DEF Undisturbed
      <2> QED BY <1>2, <2>1, <2>2
  <1>4. restarts' = restarts
      <2>1. CASE UNCHANGED doVars
          BY <2>1 DEF doVars
      <2>2. ASSUME NEW o \in Owner, QuerierCallsOwner(o) PROVE restarts' = restarts
          BY <2>2 DEF QuerierCallsOwner, Handle, HandleLink, HandlePubkey, HandleFpmax,
             HandleUpload, FailEncrypt
      <2>3. ASSUME NEW o \in Owner,
                   OwnerAnswersQuerier(o) \/ CloudAnswersOwner(o) \/ OwnerFailsToSend(o)
                   \/ OwnerStarts(o)
            PROVE  restarts' = restarts
          BY <2>3 DEF OwnerAnswersQuerier, OwnerThrewBroken, DoReply, CloudAnswersOwner,
             CloudServed, OwnerFailsToSend, FailSend, OwnerStarts, ConnectCloud, doVars
      <2>4. \/ UNCHANGED doVars
            \/ \E o \in Owner : \/ QuerierCallsOwner(o)
                                \/ OwnerAnswersQuerier(o) \/ CloudAnswersOwner(o)
                                \/ OwnerFailsToSend(o) \/ OwnerStarts(o)
          BY <1>1, <1>3 DEF Next, QuerierCallsCloud, CloudAnswersQuerier, OwnerCallsCloud,
             CloudWorks, Timeout, Quiet, vars
      <2> QED BY <2>1, <2>2, <2>3, <2>4
  <1> QED BY <1>1, <1>3, <1>4 DEF Undisturbed

\* What the phase rests on, for any session.
PhaseSysInv == FirstSysInv /\ CountInv /\ PhaseInv

LEMMA PhaseNext == PhaseSysInv /\ [Next]_vars => PhaseInv'
  <1> SUFFICES ASSUME PhaseSysInv, [Next]_vars, Undisturbed' PROVE Phase'
      BY DEF PhaseInv
  <1>1. Undisturbed /\ ~ NewSession /\ \A o \in Owner : ~ OwnerRestarts(o)
      BY UndisturbedStep DEF PhaseSysInv, FirstSysInv
  <1>2. Known
      BY <1>1 DEF PhaseSysInv, FirstSysInv, FirstInv, PhaseInv, Undisturbed, Known
  <1>3. ASSUME NEW t \in Thread, CloudWorks(t) PROVE Phase'
      BY <1>2, <1>3, QuerierStepPhase, OwnerStepPhase, LoadStatePhase, ApplyPhase
      DEF CloudWorks, CallbackStep
  <1>4. ASSUME \/ \E t \in Thread : Timeout(t)
               \/ UNCHANGED vars
        PROVE  Phase'
      <2>1. UNCHANGED cloudVars /\ UNCHANGED doVars /\ step' = step /\ await' = await
          BY <1>4 DEF Timeout, GiveUp, vars, querierVars
      <2> QED BY <1>2, <2>1, ElsewherePhase DEF doVars
  <1> QED BY <1>1, <1>2, <1>3, <1>4, QuerierCallsCloudPhase, CloudAnswersQuerierPhase,
          OwnerSidePhase, OwnerCallsCloudPhase, CloudAnswersOwnerPhase
       DEF Next, Quiet

(* As long as the first querier runs and no owner was started again, the   *)
(* state object of the cloud is that of the session's phase: Phase.        *)
THEOREM PhaseInvariant == Spec => []PhaseSysInv
  <1>1. Init => PhaseInv /\ CountInv
      BY PhaseInit, CountInit
  <1>2. PhaseSysInv /\ [Next]_vars => CountInv'
      BY CountNext DEF PhaseSysInv, FirstSysInv
  <1>3. Spec => [](FirstSysInv)
      BY FirstSession
  <1>4. FirstSysInv /\ CountInv /\ PhaseInv <=> PhaseSysInv
      BY DEF PhaseSysInv
  <1> QED BY <1>1, <1>2, <1>3, <1>4, PhaseNext, PTL DEF Spec

(* The three connections that make the cloud Connected are those of the    *)
(* querier and of both owners (state.cpp:26), whatever is given up or      *)
(* fails: in the first session, any number of which may follow, and while  *)
(* no owner was started again.                                             *)
THEOREM ConnectedIsAll == Spec => [](Undisturbed => ConnectedMeansAll)
  <1>1. PhaseSysInv => (Undisturbed => ConnectedMeansAll)
      BY DEF PhaseSysInv, PhaseInv, Phase, StateSays, AllJoined, ConnectedMeansAll
  <1> QED BY <1>1, PhaseInvariant, PTL
-----------------------------------------------------------------------------
(* The round of a session.                                                 *)
Round == {<<"Init", "Connected">>, <<"Connected", "Ready">>, <<"Ready", "Computed">>,
          <<"Computed", "Init">>}

\* An event that moves the state is the one its phase waits for.
LEMMA ApplyMoves ==
  ASSUME Known, NEW t \in Thread, ApplyEvent(t), StateOf' # StateOf
  PROVE  <<StateOf, StateOf'>> \in Round
  <1> DEFINE obj == heap[cur]
             e   == EventOf(t)
  <1>1. pc[t] = "apply" /\ ref[t] = cur
      BY DEF ApplyEvent, Known, Phase, RefsCurrent
  <1>2. /\ obj \in Object /\ StateOf = obj.id
        /\ \/ Successor(obj, e) = Nil /\ cur' = cur /\ heap'[cur] = Changed(obj, e)
           \/ Successor(obj, e) # Nil /\ heap'[cur'] = Successor(obj, e)
      BY <1>1, ApplyFacts DEF Known, SysInv, StateOf
  <1>3. Successor(obj, e) # Nil /\ StateOf' = Successor(obj, e).id
      BY <1>2, ChangedFacts, EventFacts, <1>1 DEF StateOf, Known, SysInv
  <1>4. e = "DisconnectSocket" <=> req[t].op = "disconnect"
      BY <1>1, EventFacts DEF Known, SysInv
  <1>5. req[t].op = "disconnect" <=> obj.id = "Computed"
      <2>1. ASSUME req[t].op = "disconnect" PROVE ResultIn /\ ~ Left
          BY <1>1, <2>1, OwnerRaises, QuerierRaises, Threads
      <2>2. ASSUME req[t].op # "disconnect" PROVE ~ AllIn \/ ~ ResultIn
          BY <1>1, <2>2, OwnerRaises, QuerierRaises, OrderFacts, Threads DEF AllIn, AllJoined
      <2>3. obj.id = "Computed" <=> ResultIn /\ ~ Left
          BY OrderFacts DEF Known, Phase, StateSays, StateOf
      <2> QED BY <2>1, <2>2, <2>3, OrderFacts
  <1> HIDE DEF obj, e
  <1>6. obj.id = "Init" => Successor(obj, e).id = "Connected"
      BY <1>3 DEF Successor, AfterInit, StateConnected
  <1>7. obj.id = "Connected" => Successor(obj, e).id = "Ready"
      BY <1>3, <1>4, <1>5 DEF Successor, AfterConnected, OnDisconnect, StateReady
  <1>8. obj.id = "Ready" => Successor(obj, e).id = "Computed"
      BY <1>3, <1>4, <1>5 DEF Successor, AfterReady, OnDisconnect, StateComputed
  <1>9. obj.id = "Computed" => Successor(obj, e).id = "Init"
      BY <1>4, <1>5
      DEF Successor, AfterComputed, OnDisconnect, StateInit, Stored
  <1>10. obj.id \in {"Init", "Connected", "Ready", "Computed"}
      BY <1>2 DEF Object, StateId
  <1> QED BY <1>2, <1>3, <1>6, <1>7, <1>8, <1>9, <1>10 DEF Round

(* Only an event changes the state objects.                                *)
LEMMA MovesByEvent ==
  ASSUME [Next]_vars, StateOf' # StateOf
  PROVE  \E t \in Thread : ApplyEvent(t) /\ UNCHANGED doVars /\ UNCHANGED querierVars
  <1>1. heap' # heap \/ cur' # cur
      BY DEF StateOf
  <1>2. ~ UNCHANGED cloudVars
      BY <1>1 DEF cloudVars
  <1>3. \E t \in Thread : CloudWorks(t)
      BY <1>1, <1>2
      DEF Next, QuerierCallsCloud, Receive, CloudAnswersQuerier, Reply, QuerierCallsOwner,
          OwnerAnswersQuerier, OwnerThrewBroken, OwnerCallsCloud, CloudAnswersOwner,
          OwnerFailsToSend, OwnerStarts, OwnerRestarts, Timeout, NewSession, Quiet, vars
  <1> QED BY <1>1, <1>3
       DEF CloudWorks, CallbackStep, QuerierStep, StorePubkey, StartCompute, ReadData,
           RejectData, SaveResult, SendResult, OwnerStep, OpenData, IgnoreData, WriteData,
           LoadState

(* However many queriers follow, while the first runs and no owner was     *)
(* started again the cloud goes through the round and nowhere else: no     *)
(* event comes twice, too late, or to an object that was replaced.         *)
THEOREM FirstRound ==
  Spec => [][Undisturbed' /\ StateOf' # StateOf => <<StateOf, StateOf'>> \in Round]_vars
  <1>1. ASSUME PhaseSysInv, [Next]_vars, Undisturbed', StateOf' # StateOf
        PROVE  <<StateOf, StateOf'>> \in Round
      <2>1. Undisturbed
          BY <1>1, UndisturbedStep DEF PhaseSysInv, FirstSysInv
      <2>2. Known
          BY <1>1, <2>1 DEF PhaseSysInv, FirstSysInv, FirstInv, PhaseInv, Undisturbed, Known
      <2> QED BY <1>1, <2>2, MovesByEvent, ApplyMoves
  <1>2. PhaseSysInv /\ [Next]_vars
          => [Undisturbed' /\ StateOf' # StateOf => <<StateOf, StateOf'>> \in Round]_vars
      BY <1>1
  <1> QED BY <1>2, PhaseInvariant, PTL DEF Spec

(* For one querier and owners that are not started again, the state of the *)
(* cloud makes no move but those of the state machine.                     *)
THEOREM StatesMove ==
  ASSUME MaxSession = 1, MaxRestart = [o \in Owner |-> 0] PROVE Spec => StateMoves
  <1>1. SysInv => Undisturbed
      <2> SUFFICES ASSUME SysInv PROVE Undisturbed
          OBVIOUS
      <2>1. sess = 1
          BY DEF SysInv, Scripted, QuerierTypeOK, Session
      <2>2. \A o \in Owner : restarts[o] = 0
          BY DEF SysInv, DoInv, DoTypeOK
      <2>3. restarts \in [Owner -> Nat]
          BY DEF SysInv, DoInv, DoTypeOK
      <2> QED BY <2>1, <2>2, <2>3 DEF Undisturbed
  <1>2. ASSUME Undisturbed',
               [Undisturbed' /\ StateOf' # StateOf => <<StateOf, StateOf'>> \in Round]_vars
        PROVE  [StateOf' # StateOf => <<StateOf, StateOf'>> \in Moves]_vars
      BY <1>2 DEF Round, Moves
  <1> QED BY <1>1, <1>2, SystemInvariant, FirstRound, PTL DEF StateMoves
=============================================================================
