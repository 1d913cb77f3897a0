--------------------------- MODULE OidIoctlProofs ---------------------------
(***************************************************************************)
(* Proofs about OidIoctl: type correctness, that OidEntry belongs to the   *)
(* issuer that waits for it, and that an announced request is not lost,    *)
(* for any set of requests, any mix of handlers and any busy-wait.         *)
(***************************************************************************)
EXTENDS OidIoctl, TLAPS

\* Exactly the owner of the semaphore is between its down and its up.
SemHasOwner ==
  \A r \in Requests : pc[r] \in Holding <=> ioctl_sem = r

\* A request fails only under HALT, and then no handler is started any more.
FailedOnlyAtHalt ==
  /\ main = "exited" => fgHalt
  /\ OidEntry.rStatus = "FAILURE" => fgHalt /\ main \in {"idle", "exited"}

\* A handler runs for some request.
HandlerHasRequest == main = "handler" => prIoReq \in Requests

IInv ==
  /\ TypeOK
  /\ SemHasOwner
  /\ EntryIsOwners
  /\ FailedOnlyAtHalt
  /\ HandlerHasRequest
  /\ RequestNotLost

USE ConstantsAssumption

\* Every step keeps the inductive invariant: one step per action, under it the
\* types and the conjuncts the action can disturb, then the rest.
LEMMA NextKeepsIInv == IInv /\ [Next]_vars => IInv'
<1> SUFFICES ASSUME IInv, [Next]_vars PROVE IInv'
  OBVIOUS
<1> USE DEF IInv, Returns, Goto, ioctlVars, mainVars, fwVars, stopVars, Labels,
            Statuses
<1>1. ASSUME NEW r \in Requests, IoctlEnters(r) PROVE IInv'
  <2>1. TypeOK'
    BY <1>1 DEF IoctlEnters, TypeOK
  <2>2. SemHasOwner' /\ EntryIsOwners' /\ FailedOnlyAtHalt' /\
       HandlerHasRequest' /\ RequestNotLost'
    BY <1>1 DEF IoctlEnters, TypeOK, SemHasOwner, EntryIsOwners,
       FailedOnlyAtHalt, HandlerHasRequest, RequestNotLost,
       Holding, Submitted
  <2> QED BY <2>1, <2>2
<1>2. ASSUME NEW r \in Requests, IoctlInterrupted(r) PROVE IInv'
  <2>1. TypeOK'
    BY <1>2 DEF IoctlInterrupted, TypeOK
  <2>2. SemHasOwner' /\ EntryIsOwners' /\ FailedOnlyAtHalt' /\
       HandlerHasRequest' /\ RequestNotLost'
    BY <1>2 DEF IoctlInterrupted, TypeOK, SemHasOwner, EntryIsOwners,
       FailedOnlyAtHalt, HandlerHasRequest, RequestNotLost,
       Holding, Submitted
  <2> QED BY <2>1, <2>2
<1>3. ASSUME NEW r \in Requests, IoctlDown(r) PROVE IInv'
  <2>1. TypeOK'
    BY <1>3 DEF IoctlDown, TypeOK
  <2>2. SemHasOwner'
    BY <1>3 DEF IoctlDown, TypeOK, SemHasOwner, Holding
  <2>3. EntryIsOwners' /\ FailedOnlyAtHalt' /\ HandlerHasRequest' /\
       RequestNotLost'
    BY <1>3 DEF IoctlDown, TypeOK, SemHasOwner, EntryIsOwners,
       FailedOnlyAtHalt, HandlerHasRequest, RequestNotLost,
       Holding, Submitted
  <2> QED BY <2>1, <2>2, <2>3
<1>4. ASSUME NEW r \in Requests, IoctlFills(r) PROVE IInv'
  <2>1. TypeOK'
    BY <1>4 DEF IoctlFills, TypeOK
  <2>2. EntryIsOwners'
    BY <1>4 DEF IoctlFills, TypeOK, EntryIsOwners, SemHasOwner, Holding,
       Submitted
  <2>3. RequestNotLost'
    BY <1>4 DEF IoctlFills, TypeOK, RequestNotLost, EntryIsOwners,
       SemHasOwner, FailedOnlyAtHalt,
       HandlerHasRequest, Holding, Submitted
  <2>4. SemHasOwner' /\ FailedOnlyAtHalt' /\ HandlerHasRequest'
    BY <1>4 DEF IoctlFills, TypeOK, SemHasOwner, EntryIsOwners,
       FailedOnlyAtHalt, HandlerHasRequest, RequestNotLost,
       Holding, Submitted
  <2> QED BY <2>1, <2>2, <2>3, <2>4
<1>5. ASSUME NEW r \in Requests, IoctlSignals(r) PROVE IInv'
  <2>1. TypeOK'
    BY <1>5 DEF IoctlSignals, TypeOK
  <2>2. RequestNotLost'
    BY <1>5 DEF IoctlSignals, TypeOK, RequestNotLost, EntryIsOwners,
       SemHasOwner, FailedOnlyAtHalt,
       HandlerHasRequest, Holding, Submitted
  <2>3. SemHasOwner' /\ EntryIsOwners' /\ FailedOnlyAtHalt' /\
       HandlerHasRequest'
    BY <1>5 DEF IoctlSignals, TypeOK, SemHasOwner, EntryIsOwners,
       FailedOnlyAtHalt, HandlerHasRequest, RequestNotLost,
       Holding, Submitted
  <2> QED BY <2>1, <2>2, <2>3
<1>6. ASSUME NEW r \in Requests, IoctlPolls(r) PROVE IInv'
  <2>1. TypeOK'
    BY <1>6 DEF IoctlPolls, TypeOK
  <2>2. SemHasOwner' /\ EntryIsOwners' /\ FailedOnlyAtHalt' /\
       HandlerHasRequest' /\ RequestNotLost'
    BY <1>6 DEF IoctlPolls, TypeOK, SemHasOwner, EntryIsOwners,
       FailedOnlyAtHalt, HandlerHasRequest, RequestNotLost,
       Holding, Submitted
  <2> QED BY <2>1, <2>2
<1>7. ASSUME NEW r \in Requests, IoctlJudges(r) PROVE IInv'
  <2>1. TypeOK'
    BY <1>7 DEF IoctlJudges, TypeOK
  <2>2. RequestNotLost'
    BY <1>7 DEF IoctlJudges, TypeOK, RequestNotLost, EntryIsOwners,
       SemHasOwner, FailedOnlyAtHalt,
       HandlerHasRequest, Holding, Submitted
  <2>3. SemHasOwner' /\ EntryIsOwners' /\ FailedOnlyAtHalt' /\
       HandlerHasRequest'
    BY <1>7 DEF IoctlJudges, TypeOK, SemHasOwner, EntryIsOwners,
       FailedOnlyAtHalt, HandlerHasRequest, RequestNotLost,
       Holding, Submitted
  <2> QED BY <2>1, <2>2, <2>3
<1>8. ASSUME NEW r \in Requests, IoctlGivesUp(r) PROVE IInv'
  <2>1. TypeOK'
    <3>1. fgOid' \in BOOLEAN
      BY <1>8 DEF IoctlGivesUp, TypeOK
    <3>2. pc' \in [Requests -> Labels]
      BY <1>8 DEF IoctlGivesUp, TypeOK
    <3>3. result' \in [Requests -> Statuses]
      BY <1>8 DEF IoctlGivesUp, TypeOK
    <3> QED
      BY <3>1, <3>2, <3>3, <1>8 DEF IoctlGivesUp, TypeOK
  <2>2. SemHasOwner'
    BY <1>8 DEF IoctlGivesUp, TypeOK, SemHasOwner, Holding
  <2>3. RequestNotLost'
    BY <1>8 DEF IoctlGivesUp, TypeOK, RequestNotLost, EntryIsOwners,
       SemHasOwner, FailedOnlyAtHalt,
       HandlerHasRequest, Holding, Submitted
  <2>4. EntryIsOwners' /\ FailedOnlyAtHalt' /\ HandlerHasRequest'
    BY <1>8 DEF IoctlGivesUp, TypeOK, SemHasOwner, EntryIsOwners,
       FailedOnlyAtHalt, HandlerHasRequest, RequestNotLost,
       Holding, Submitted
  <2> QED BY <2>1, <2>2, <2>3, <2>4
<1>9. ASSUME NEW r \in Requests, IoctlReadsStatus(r) PROVE IInv'
  <2>1. TypeOK'
    BY <1>9 DEF IoctlReadsStatus, TypeOK
  <2>2. SemHasOwner'
    BY <1>9 DEF IoctlReadsStatus, TypeOK, SemHasOwner, Holding
  <2>3. RequestNotLost'
    BY <1>9 DEF IoctlReadsStatus, TypeOK, RequestNotLost, EntryIsOwners,
       SemHasOwner, FailedOnlyAtHalt,
       HandlerHasRequest, Holding, Submitted
  <2>4. EntryIsOwners' /\ FailedOnlyAtHalt' /\ HandlerHasRequest'
    BY <1>9 DEF IoctlReadsStatus, TypeOK, SemHasOwner, EntryIsOwners,
       FailedOnlyAtHalt, HandlerHasRequest, RequestNotLost,
       Holding, Submitted
  <2> QED BY <2>1, <2>2, <2>3, <2>4
<1>10. ASSUME NEW r \in Requests, DirectIoctl(r) PROVE IInv'
  <2>1. TypeOK'
    BY <1>10 DEF DirectIoctl, TypeOK
  <2>2. RequestNotLost'
    BY <1>10 DEF DirectIoctl, TypeOK, RequestNotLost, EntryIsOwners,
       SemHasOwner, FailedOnlyAtHalt,
       HandlerHasRequest, Holding, Submitted
  <2>3. SemHasOwner' /\ EntryIsOwners' /\ FailedOnlyAtHalt' /\
       HandlerHasRequest'
    BY <1>10 DEF DirectIoctl, TypeOK, SemHasOwner, EntryIsOwners,
       FailedOnlyAtHalt, HandlerHasRequest, RequestNotLost,
       Holding, Submitted
  <2> QED BY <2>1, <2>2, <2>3
<1>11. ASSUME NEW r \in Requests, FirmwareAnswers(r) PROVE IInv'
  <2>1. TypeOK'
    BY <1>11 DEF FirmwareAnswers, kalOidComplete, TypeOK
  <2>2. RequestNotLost'
    BY <1>11 DEF FirmwareAnswers, kalOidComplete, TypeOK, RequestNotLost,
       EntryIsOwners, SemHasOwner, FailedOnlyAtHalt,
       HandlerHasRequest, Holding, Submitted
  <2>3. SemHasOwner' /\ EntryIsOwners' /\ FailedOnlyAtHalt' /\
       HandlerHasRequest'
    BY <1>11 DEF FirmwareAnswers, kalOidComplete, TypeOK, SemHasOwner,
       EntryIsOwners, FailedOnlyAtHalt, HandlerHasRequest, RequestNotLost,
       Holding, Submitted
  <2> QED BY <2>1, <2>2, <2>3
<1>12. ASSUME MainTakesOid PROVE IInv'
  <2>1. TypeOK'
    <3>1. CASE fgHalt
      <4>1. OidEntry' = [OidEntry EXCEPT !.rStatus = "FAILURE"]
            /\ rPendComp' = TRUE /\ UNCHANGED main
        BY <1>12, <3>1 DEF MainTakesOid
      <4>2. OidEntry' \in [req : Requests \cup {"none"}, rStatus : Statuses]
        BY <4>1 DEF TypeOK
      <4> QED BY <4>1, <4>2, <1>12 DEF MainTakesOid, TypeOK
    <3>2. CASE ~fgHalt
      <4>1. main' = "dispatch" /\ UNCHANGED <<OidEntry, rPendComp>>
        BY <1>12, <3>2 DEF MainTakesOid
      <4> QED BY <4>1, <1>12 DEF MainTakesOid, TypeOK
    <3> QED BY <3>1, <3>2
  <2>2. FailedOnlyAtHalt'
    BY <1>12 DEF MainTakesOid, TypeOK, FailedOnlyAtHalt, HandlerHasRequest
  <2>3. RequestNotLost'
    BY <1>12 DEF MainTakesOid, TypeOK, RequestNotLost, EntryIsOwners,
       SemHasOwner, FailedOnlyAtHalt,
       HandlerHasRequest, Holding, Submitted
  <2>4. SemHasOwner' /\ EntryIsOwners' /\ HandlerHasRequest'
    BY <1>12 DEF MainTakesOid, TypeOK, SemHasOwner, EntryIsOwners,
       FailedOnlyAtHalt, HandlerHasRequest, RequestNotLost,
       Holding, Submitted
  <2> QED BY <2>1, <2>2, <2>3, <2>4
<1>13. ASSUME MainCallsHandler PROVE IInv'
  <2>1. TypeOK'
    BY <1>13 DEF MainCallsHandler, TypeOK
  <2>2. HandlerHasRequest'
    BY <1>13 DEF MainCallsHandler, TypeOK, HandlerHasRequest
  <2>3. RequestNotLost'
    BY <1>13 DEF MainCallsHandler, TypeOK, RequestNotLost, EntryIsOwners,
       SemHasOwner, FailedOnlyAtHalt,
       HandlerHasRequest, Holding, Submitted
  <2>4. SemHasOwner' /\ EntryIsOwners' /\ FailedOnlyAtHalt'
    BY <1>13 DEF MainCallsHandler, TypeOK, SemHasOwner, EntryIsOwners,
       FailedOnlyAtHalt, HandlerHasRequest, RequestNotLost,
       Holding, Submitted
  <2> QED BY <2>1, <2>2, <2>3, <2>4
<1>14. ASSUME HandlerReturns PROVE IInv'
  <2>1. TypeOK'
    <3>1. prIoReq \in Requests
      BY <1>14 DEF HandlerReturns, HandlerHasRequest
    <3>2. CASE Kind[prIoReq] = "firmware"
      <4>1. OidEntry' = [OidEntry EXCEPT !.rStatus = "PENDING"]
            /\ pendingCmds' = pendingCmds \cup {prIoReq}
            /\ oidTimer' \in {TRUE, oidTimer} /\ UNCHANGED rPendComp
        BY <1>14, <3>2 DEF HandlerReturns
      <4> QED BY <4>1, <3>1, <1>14 DEF HandlerReturns, TypeOK
    <3>3. CASE Kind[prIoReq] # "firmware"
      <4>1. OidEntry' = [OidEntry EXCEPT !.rStatus = prIoReq]
            /\ rPendComp' = TRUE /\ UNCHANGED fwVars
        BY <1>14, <3>3 DEF HandlerReturns
      <4> QED BY <4>1, <3>1, <1>14 DEF HandlerReturns, TypeOK
    <3> QED BY <3>2, <3>3
  <2>2. FailedOnlyAtHalt'
    <3>1. prIoReq \in Requests /\ main' = "idle"
      BY <1>14 DEF HandlerReturns, HandlerHasRequest
    <3>2. OidEntry'.rStatus \in {"PENDING", prIoReq}
      BY <1>14 DEF HandlerReturns, TypeOK
    <3>3. OidEntry'.rStatus # "FAILURE"
      BY <3>1, <3>2
    <3> QED
      BY <3>1, <3>3 DEF FailedOnlyAtHalt
  <2>3. RequestNotLost'
    BY <1>14 DEF HandlerReturns, TypeOK, RequestNotLost, EntryIsOwners,
       SemHasOwner, FailedOnlyAtHalt,
       HandlerHasRequest, Holding, Submitted
  <2>4. SemHasOwner' /\ EntryIsOwners' /\ HandlerHasRequest'
    BY <1>14 DEF HandlerReturns, TypeOK, SemHasOwner, EntryIsOwners,
       FailedOnlyAtHalt, HandlerHasRequest, RequestNotLost,
       Holding, Submitted
  <2> QED BY <2>1, <2>2, <2>3, <2>4
<1>15. ASSUME MainExits PROVE IInv'
  <2>1. TypeOK'
    <3>1. fgOid' \in BOOLEAN /\ rPendComp' \in BOOLEAN /\ oidTimer' \in BOOLEAN
      BY <1>15 DEF MainExits, kalOidComplete, TypeOK
    <3>2. pendingCmds' \subseteq Requests
      BY <1>15 DEF MainExits, kalOidComplete, TypeOK
    <3> QED
      BY <3>1, <3>2, <1>15 DEF MainExits, kalOidComplete, TypeOK
  <2>2. RequestNotLost'
    BY <1>15 DEF MainExits, kalOidComplete, TypeOK, RequestNotLost,
       EntryIsOwners, SemHasOwner, FailedOnlyAtHalt,
       HandlerHasRequest, Holding, Submitted
  <2>3. SemHasOwner' /\ EntryIsOwners' /\ FailedOnlyAtHalt' /\
       HandlerHasRequest'
    BY <1>15 DEF MainExits, kalOidComplete, TypeOK, SemHasOwner,
       EntryIsOwners, FailedOnlyAtHalt, HandlerHasRequest, RequestNotLost,
       Holding, Submitted
  <2> QED BY <2>1, <2>2, <2>3
<1>16. ASSUME OidTimesOut PROVE IInv'
  <2>1. TypeOK'
    BY <1>16 DEF OidTimesOut, kalOidComplete, TypeOK
  <2>2. RequestNotLost'
    BY <1>16 DEF OidTimesOut, kalOidComplete, TypeOK, RequestNotLost,
       EntryIsOwners, SemHasOwner, FailedOnlyAtHalt,
       HandlerHasRequest, Holding, Submitted
  <2>3. SemHasOwner' /\ EntryIsOwners' /\ FailedOnlyAtHalt' /\
       HandlerHasRequest'
    BY <1>16 DEF OidTimesOut, kalOidComplete, TypeOK, SemHasOwner,
       EntryIsOwners, FailedOnlyAtHalt, HandlerHasRequest, RequestNotLost,
       Holding, Submitted
  <2> QED BY <2>1, <2>2, <2>3
<1>17. ASSUME SetHaltFlag PROVE IInv'
  <2>1. TypeOK'
    BY <1>17 DEF SetHaltFlag, TypeOK
  <2>2. SemHasOwner' /\ EntryIsOwners' /\ FailedOnlyAtHalt' /\
       HandlerHasRequest' /\ RequestNotLost'
    BY <1>17 DEF SetHaltFlag, TypeOK, SemHasOwner, EntryIsOwners,
       FailedOnlyAtHalt, HandlerHasRequest, RequestNotLost,
       Holding, Submitted
  <2> QED BY <2>1, <2>2
<1>18. ASSUME SetHaltBit PROVE IInv'
  <2>1. TypeOK'
    BY <1>18 DEF SetHaltBit, TypeOK
  <2>2. SemHasOwner' /\ EntryIsOwners' /\ FailedOnlyAtHalt' /\
       HandlerHasRequest' /\ RequestNotLost'
    BY <1>18 DEF SetHaltBit, TypeOK, SemHasOwner, EntryIsOwners,
       FailedOnlyAtHalt, HandlerHasRequest, RequestNotLost,
       Holding, Submitted
  <2> QED BY <2>1, <2>2
<1>19. ASSUME StopSnapshotsThreads PROVE IInv'
  <2>1. TypeOK'
    <3>1. g_u4HaltFlag' \in BOOLEAN /\ fgHalt' \in BOOLEAN
          /\ main_thread' \in BOOLEAN /\ stopped' \in BOOLEAN
      BY <1>19 DEF StopSnapshotsThreads, TypeOK
    <3> QED
      BY <3>1, <1>19 DEF StopSnapshotsThreads, TypeOK
  <2>2. SemHasOwner' /\ EntryIsOwners' /\ FailedOnlyAtHalt' /\
       HandlerHasRequest' /\ RequestNotLost'
    BY <1>19 DEF StopSnapshotsThreads, TypeOK, SemHasOwner, EntryIsOwners,
       FailedOnlyAtHalt, HandlerHasRequest, RequestNotLost,
       Holding, Submitted
  <2> QED BY <2>1, <2>2
<1>20. ASSUME StopFailsOngoingIoctl PROVE IInv'
  <2>1. TypeOK'
    <3>1. OidEntry' \in [req : Requests \cup {"none"}, rStatus : Statuses]
      BY <1>20 DEF StopFailsOngoingIoctl, TypeOK
    <3>2. fgOid' \in BOOLEAN /\ rPendComp' \in BOOLEAN
      BY <1>20 DEF StopFailsOngoingIoctl, TypeOK
    <3> QED
      BY <3>1, <3>2, <1>20 DEF StopFailsOngoingIoctl, TypeOK
  <2>2. FailedOnlyAtHalt'
    BY <1>20 DEF StopFailsOngoingIoctl, TypeOK, FailedOnlyAtHalt,
       HandlerHasRequest
  <2>3. RequestNotLost'
    BY <1>20 DEF StopFailsOngoingIoctl, TypeOK, RequestNotLost, EntryIsOwners,
       SemHasOwner, FailedOnlyAtHalt,
       HandlerHasRequest, Holding, Submitted
  <2>4. SemHasOwner' /\ EntryIsOwners' /\ HandlerHasRequest'
    BY <1>20 DEF StopFailsOngoingIoctl, TypeOK, SemHasOwner, EntryIsOwners,
       FailedOnlyAtHalt, HandlerHasRequest, RequestNotLost,
       Holding, Submitted
  <2> QED BY <2>1, <2>2, <2>3, <2>4
<1>21. CASE UNCHANGED vars
   BY <1>21 DEF vars, TypeOK, SemHasOwner, EntryIsOwners, FailedOnlyAtHalt,
     HandlerHasRequest, RequestNotLost,
     Holding, Submitted
<1> QED
   BY <1>1, <1>2, <1>3, <1>4, <1>5, <1>6, <1>7, <1>8, <1>9, <1>10, <1>11,
     <1>12, <1>13, <1>14, <1>15, <1>16, <1>17, <1>18, <1>19, <1>20,
     <1>21
     DEF Next, kalIoctl, MainThread

\* The inductive invariant holds in every reachable state.
THEOREM Invariance == Spec => []IInv
<1>1. Init => IInv
  <2> SUFFICES ASSUME Init PROVE IInv
    OBVIOUS
  <2>1. TypeOK
    <3>1. /\ pc \in [Requests -> Labels] /\ result \in [Requests -> Statuses]
          /\ runs \in [Requests -> Nat]
      BY DEF Init, Labels, Statuses
    <3>2. /\ polls \in 0 .. MaxPolls
          /\ OidEntry \in [req : Requests \cup {"none"}, rStatus : Statuses]
      BY DEF Init, Statuses
    <3> QED
      BY <3>1, <3>2 DEF Init, TypeOK
  <2>2. SemHasOwner /\ EntryIsOwners /\ RequestNotLost
    BY DEF Init, SemHasOwner, EntryIsOwners, RequestNotLost, Holding, Submitted
  <2>3. FailedOnlyAtHalt /\ HandlerHasRequest
    BY DEF Init, FailedOnlyAtHalt, HandlerHasRequest
  <2> QED BY <2>1, <2>2, <2>3 DEF IInv
<1> QED
  BY <1>1, NextKeepsIInv, PTL DEF Spec

\* Every variable keeps its type.
THEOREM TypeCorrect == Spec => []TypeOK
<1>1. IInv => TypeOK
  BY DEF IInv
<1> QED
  BY <1>1, Invariance, PTL

\* The request in OidEntry is the one of the issuer that waits for it.
THEOREM EntryNotReplaced == Spec => []EntryIsOwners
<1>1. IInv => EntryIsOwners
  BY DEF IInv
<1> QED
  BY <1>1, Invariance, PTL

\* The OID bit, shared by announcements and completions, loses no request.
THEOREM NoRequestLost == Spec => []RequestNotLost
<1>1. IInv => RequestNotLost
  BY DEF IInv
<1> QED
  BY <1>1, Invariance, PTL
=============================================================================
