----------------------- MODULE LifecyclePhasesProofs -----------------------
(***************************************************************************)
(* Proofs about the abstract lifecycle.  ServerLifecycleProofs instantiates *)
(* this module with the refinement mapping, so what is proved here holds   *)
(* of the implementation too.                                              *)
(***************************************************************************)
EXTENDS LifecyclePhases, TLAPS

\* Every abstract step keeps the consistency conditions.
LEMMA ConsistentStep == Consistent /\ [Next]_vars => Consistent'
<1> SUFFICES ASSUME Consistent, [Next]_vars PROVE Consistent'
  OBVIOUS
<1>1. ASSUME NEW r \in Requests, Request(r) PROVE Consistent'
  \* The first request: stopCause was "none", so the status was Starting
  \* or Running, and a signal drains while the idle path stops.
  BY <1>1 DEF Request, Consistent, TypeOK, Requests, Statuses
<1>2. CASE Listen
  BY <1>2 DEF Listen, Consistent, TypeOK, Requests, Statuses
<1>3. CASE Fail
  BY <1>3 DEF Fail, Consistent, TypeOK, Statuses
<1>4. CASE Drained
  BY <1>4 DEF Drained, Consistent, TypeOK, Requests, Statuses
<1>5. CASE Exit
  \* Before the exit nothing was rotated; the exit rotates exactly when the
  \* stop was clean.
  <2>1. ~exited /\ ~rotated /\ exited' /\ UNCHANGED <<status, stopCause>>
    BY <1>5 DEF Exit, Consistent
  <2>2. CASE status = "Stopped" /\ rotated' = TRUE
    BY <2>1, <2>2 DEF Consistent, TypeOK, Statuses
  <2>3. CASE status = "Failed" /\ UNCHANGED rotated
    BY <2>1, <2>3 DEF Consistent, TypeOK, Statuses
  <2>4. QED
    BY <1>5, <2>2, <2>3 DEF Exit
<1>6. CASE UNCHANGED vars
  BY <1>6 DEF vars, Consistent, TypeOK
<1>7. QED
  BY <1>1, <1>2, <1>3, <1>4, <1>5, <1>6 DEF Next

\* The controller's consistency conditions hold at every moment: rotate has
\* fired exactly after a clean stop and exit, exit follows the end of
\* serving, and drains are signals' only.
THEOREM ConsistentHolds == SafetySpec => []Consistent
<1>1. Init => Consistent
  BY DEF Init, Consistent, TypeOK, Statuses
<1>2. QED
  BY <1>1, ConsistentStep, PTL DEF SafetySpec

=============================================================================
