----------------------------- MODULE PsiSession -----------------------------
(***************************************************************************)
(* What the system promises one querier (steps (1) to (11) of the flow in  *)
(* the repository's README): its key reaches the cloud and both owners,    *)
(* each owner encrypts its set under that key and delivers it, the cloud   *)
(* computes on the two sets of that key, and the querier gets the result;  *)
(* or it meets an error, after which nothing more need happen, but what    *)
(* happens is still right.                                                 *)
(***************************************************************************)
CONSTANTS Owner,     \* the data owners
          Cloud      \* the cloud

VARIABLES
  informed,     \* who holds the querier's key
  delivered,    \* the owners whose whole set, under that key, the cloud holds
  computed,     \* has the cloud the result for that key and those sets?
  answered,     \* has the querier received it?
  failed        \* has the querier met an error?

psiVars == <<informed, delivered, computed, answered, failed>>

PsiInit == informed = {} /\ delivered = {} /\ ~ computed /\ ~ answered /\ ~ failed

Inform(p) == /\ p \notin informed
             /\ informed' = informed \cup {p}
             /\ UNCHANGED <<delivered, computed, answered, failed>>

Deliver(o) == /\ o \in informed \ delivered
              /\ delivered' = delivered \cup {o}
              /\ UNCHANGED <<informed, computed, answered, failed>>

Compute == /\ Cloud \in informed
           /\ delivered = Owner
           /\ computed' = TRUE
           /\ UNCHANGED <<informed, delivered, answered, failed>>

Answer == /\ computed
          /\ answered' = TRUE
          /\ UNCHANGED <<informed, delivered, computed, failed>>

Fail == failed' = TRUE /\ UNCHANGED <<informed, delivered, computed, answered>>

Progress == \/ \E p \in Owner \cup {Cloud} : Inform(p)
            \/ \E o \in Owner : Deliver(o)
            \/ Compute
            \/ Answer

PsiNext == Progress \/ Fail

PsiSpec == PsiInit /\ [][PsiNext]_psiVars

(* Nothing stands still before the querier has its answer or an error. *)
PsiFairSpec == PsiSpec /\ WF_psiVars(~ failed /\ Progress)
=============================================================================
