------------------------------ MODULE Querier -------------------------------
(***************************************************************************)
(* The querier processes, one after the other (a session each).  Each has  *)
(* three client threads, which send their requests in a fixed order and    *)
(* wait for each to be served; a refused request is sent again.            *)
(***************************************************************************)
EXTENDS Parties, Naturals, Sequences

CONSTANTS
  MaxSession,       \* bound on the number of querier processes
  KeyOf             \* the key, and parameters, of each session

Session == 1 .. MaxSession

ASSUME QuerierAssumption == MaxSession \in Nat \ {0} /\ KeyOf \in [Session -> Key]

\* What each client thread sends: "Q" to the cloud, "A" and "B" to the owners.
Script == [t \in Thread |->
            IF t = "Q"
              THEN <<"connect", "pubkey", "compute", "download", "disconnect">>
              ELSE <<"connect", "pubkey", "fpmax", "upload", "disconnect">>]

\* The requests that are retried without a time limit.
Patient == {"compute", "download"}

NoAnswer == [key |-> NoKey, used |-> {}]

VARIABLES
  sess,     \* the session that is running
  step,     \* per client thread, the position in its script
  await,    \* per client thread, is its request being served?
  failed,   \* client threads that ended in an exception
  answer    \* per session, the result its querier downloaded

querierVars == <<sess, step, await, failed, answer>>

QuerierTypeOK ==
  /\ sess \in Session
  /\ step \in [Thread -> 1 .. 6]
  /\ await \in [Thread -> BOOLEAN]
  /\ failed \subseteq Thread

Fresh == /\ step' = [t \in Thread |-> 1]
         /\ await' = [t \in Thread |-> FALSE]
         /\ failed' = {}

QuerierInit ==
  /\ sess = 1
  /\ step = [t \in Thread |-> 1]
  /\ await = [t \in Thread |-> FALSE]
  /\ failed = {}
  /\ answer = [s \in Session |-> NoAnswer]

Ended(t) == step[t] > Len(Script[t]) \/ t \in failed

\* The request thread t sends next, if it is not waiting for an answer.
Sends(t) == ~ Ended(t) /\ ~ await[t]
Op(t)    == Script[t][step[t]]

RequestOf(t) == IF Op(t) \in {"pubkey", "fpmax"}
                  THEN [op |-> Op(t), key |-> KeyOf[sess]]
                  ELSE [op |-> Op(t)]

Send(t) ==
  /\ Sends(t)
  /\ await' = [await EXCEPT ![t] = TRUE]
  /\ UNCHANGED <<sess, step, failed, answer>>

(* The request of t was served; the cloud client's download brings the     *)
(* result, which the querier decrypts with its own secret key.             *)
Served(t, result) ==
  /\ await[t]
  /\ await' = [await EXCEPT ![t] = FALSE]
  /\ step' = [step EXCEPT ![t] = @ + 1]
  /\ answer' = IF Op(t) = "download" THEN [answer EXCEPT ![sess] = result]
                                     ELSE answer
  /\ UNCHANGED <<sess, failed>>

\* The server answered nothing, and the thread takes it for a refusal.
Unanswered(t) ==
  /\ await[t]
  /\ await' = [await EXCEPT ![t] = FALSE]
  /\ UNCHANGED <<sess, step, failed, answer>>

\* The server broke off the request: the thread catches the exception and ends.
Broken(t) ==
  /\ await[t]
  /\ await' = [await EXCEPT ![t] = FALSE]
  /\ failed' = failed \cup {t}
  /\ UNCHANGED <<sess, step, answer>>

(* The server of t was killed: its connection is broken, unless there was  *)
(* none yet.                                                               *)
Disconnected(t) ==
  IF Ended(t) THEN UNCHANGED querierVars
  ELSE \/ /\ await' = [await EXCEPT ![t] = FALSE]
          /\ failed' = failed \cup {t}
          /\ UNCHANGED <<sess, step, answer>>
       \/ /\ step[t] = 1 /\ ~ await[t]
          /\ UNCHANGED querierVars

\* A refused request has been retried for OPSICA_TIMEOUT_SEC.
GiveUp(t) ==
  /\ Sends(t)
  /\ Op(t) \notin Patient
  /\ failed' = failed \cup {t}
  /\ UNCHANGED <<sess, step, await, answer>>

SessionOver == \A t \in Thread : Ended(t)

\* The next querier starts, with its own key.
NextQuerier ==
  /\ sess < MaxSession
  /\ sess' = sess + 1
  /\ Fresh
  /\ UNCHANGED answer
=============================================================================
