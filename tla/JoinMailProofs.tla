---------------------------- MODULE JoinMailProofs ----------------------------
(***************************************************************************)
(* Theorems about JoinFsm: its types, and what main_thread may rely on     *)
(* when it takes a message from its mailbox.                               *)
(*                                                                         *)
(* As in JoinFsmProofs the proof follows the calls from the bottom up, a   *)
(* lemma per operator.                                                     *)
(***************************************************************************)
EXTENDS JoinFsmProofs

Typed(d) == d \in Drvs

-----------------------------------------------------------------------------
(***************************************************************************)
(* Types: the record and the mailbox                                       *)
(***************************************************************************)

LEMMA StaTyped ==
  ASSUME NEW d, Typed(d)
  PROVE  /\ d.sta \in StaType
         /\ d.mbox \in Seq(Messages)
         /\ d.sta.fgIsInUse \in BOOLEAN /\ d.sta.ucStaState \in 1 .. 3
         /\ d.ucSeqNumOfReqMsg \in Nat /\ d.prPendingSAAMsg \in Nat
         /\ d.ucSeqNumOfChReq \in Nat /\ d.ucSeqNumOfChAbort \in Nat
         /\ d.sta.ucAuthAssocReqSeqNum \in Nat /\ d.sta.owner \in Nat
  BY DEF Typed, Drvs, StaType

LEMMA MessagesTyped ==
  /\ \A r \in Reasons : AbortMsg(r) \in Messages
  /\ \A n \in Nat : /\ GrantMsg(n) \in Messages
                    /\ SaaStartMsg(n) \in Messages /\ SaaAbortMsg(n) \in Messages
  BY DEF Messages, AbortMsg, GrantMsg, SaaStartMsg, SaaAbortMsg

LEMMA PostTyped ==
  ASSUME NEW d, Typed(d), NEW m \in Messages
  PROVE  Typed(Post(d, m))
<1>1. Append(d.mbox, m) \in Seq(Messages)
  BY StaTyped
<1> QED
  BY <1>1 DEF Typed, Drvs, Post

(* A state with another record is well typed if that record is.            *)
LEMMA NewStaTyped ==
  ASSUME NEW d, Typed(d), NEW s \in StaType
  PROVE  Typed([d EXCEPT !.sta = s])
  BY DEF Typed, Drvs

LEMMA StaUpdates ==
  ASSUME NEW s \in StaType
  PROVE  /\ [s EXCEPT !.ucTxAuthAssocRetryCount = 0] \in StaType
         /\ [s EXCEPT !.ucStaState = 3] \in StaType
<1>1. ASSUME NEW n \in 0 .. 2
      PROVE  [s EXCEPT !.ucTxAuthAssocRetryCount = n] \in StaType
  BY DEF StaType
<1>2. ASSUME NEW k \in 1 .. 3
      PROVE  [s EXCEPT !.ucStaState = k] \in StaType
  BY DEF StaType
<1>3. 0 \in 0 .. 2 /\ 3 \in 1 .. 3
  OBVIOUS
<1> QED
  BY <1>1, <1>2, <1>3

(* The flags that handlers set on their way.                               *)
LEMMA FlagsTyped ==
  ASSUME NEW d, Typed(d), NEW b \in BOOLEAN
  PROVE  /\ Typed([d EXCEPT !.rJoinTimeoutTimer = b])
         /\ Typed([d EXCEPT !.fgIsCfg80211Connecting = b])
<1>1. Typed([d EXCEPT !.rJoinTimeoutTimer = b])
  BY DEF Typed, Drvs
<1>2. Typed([d EXCEPT !.fgIsCfg80211Connecting = b])
  BY DEF Typed, Drvs
<1> QED
  BY <1>1, <1>2

LEMMA FreeTyped ==
  ASSUME NEW d, Typed(d)
  PROVE  Typed(cnmStaRecFree(d))
  BY DEF Typed, Drvs, StaType, cnmStaRecFree

LEMMA ChangeStateTyped ==
  ASSUME NEW d, Typed(d), NEW new \in 1 .. 3
  PROVE  Typed(cnmStaRecChangeState(d, new))
<1> DEFINE valid == d.sta.fgIsValid /\ ~(d.sta.ucStaState = 3 /\ new # 3)
           s == [d.sta EXCEPT !.ucStaState = new, !.fgIsValid = valid]
           cmds == IF \/ new = 3 /\ d.sta.ucStaState # 3
                      \/ new = 2 /\ d.sta.ucStaState = 1
                      \/ new = 1
                   THEN d.cmds + 1 ELSE d.cmds
<1>1. valid \in BOOLEAN
  BY DEF Typed, Drvs, StaType
<1>2. cmds \in Nat
  BY DEF Typed, Drvs
<1>3. s \in StaType
  <2> HIDE DEF valid
  <2> QED
    BY <1>1, StaTyped DEF StaType
<1>4. cnmStaRecChangeState(d, new) \in {d, [d EXCEPT !.sta = s, !.cmds = cmds]}
  BY DEF Typed, Drvs, cnmStaRecChangeState
<1>5. Typed([d EXCEPT !.sta = s, !.cmds = cmds])
  <2> HIDE DEF s, cmds
  <2> QED
    BY <1>2, <1>3 DEF Typed, Drvs
<1> QED
  BY <1>4, <1>5

LEMMA TimerTyped ==
  ASSUME NEW d, Typed(d)
  PROVE  Typed(StartTimer(d)) /\ Typed(StopTimer(d))
<1>1. /\ [d.sta EXCEPT !.rTxReqDoneOrRxRespTimer = TRUE] \in StaType
      /\ [d.sta EXCEPT !.rTxReqDoneOrRxRespTimer = FALSE] \in StaType
  BY DEF Typed, Drvs, StaType
<1>2. Typed(StartTimer(d))
  BY <1>1, StaTyped, NewStaTyped DEF StartTimer
<1>3. Typed(StopTimer(d))
  BY <1>1, StaTyped, NewStaTyped DEF StopTimer
<1> QED
  BY <1>2, <1>3

-----------------------------------------------------------------------------
(***************************************************************************)
(* Types: AIS, the channel and the states                                  *)
(***************************************************************************)

LEMMA ReleaseTyped ==
  ASSUME NEW d, Typed(d)
  PROVE  Typed(aisFsmReleaseCh(d))
<1> DEFINE fw == d.fwCh \ {d.ucSeqNumOfChReq}
<1>1. fw \in SUBSET Nat
  BY DEF Typed, Drvs
<1>2. Typed([d EXCEPT !.fgIsChannelRequested = FALSE,
                      !.fgIsChannelGranted = FALSE,
                      !.ucSeqNumOfChAbort = d.ucSeqNumOfChReq, !.fwCh = fw])
  <2> HIDE DEF fw
  <2> QED
    BY <1>1 DEF Typed, Drvs
<1> QED
  BY <1>2 DEF aisFsmReleaseCh

LEMMA AbortNormalTrTyped ==
  ASSUME NEW d, Typed(d)
  PROVE  Typed(aisFsmStateAbort_NORMAL_TR(d))
<1>1. Typed(aisFsmReleaseCh(d))
  BY ReleaseTyped
<1> QED
  BY <1>1 DEF Typed, Drvs, aisFsmStateAbort_NORMAL_TR

LEMMA AbortJoinTyped ==
  ASSUME NEW d, Typed(d)
  PROVE  Typed(aisFsmStateAbort_JOIN(d))
<1> DEFINE e == Post(d, SaaAbortMsg(d.ucSeqNumOfReqMsg))
<1>1. Typed(aisFsmReleaseCh(e))
  BY StaTyped, MessagesTyped, PostTyped, ReleaseTyped
<1> HIDE DEF e
<1> QED
  BY <1>1 DEF Typed, Drvs, aisFsmStateAbort_JOIN, e

LEMMA WaitTyped ==
  ASSUME NEW d, Typed(d)
  PROVE  Typed(WaitForNextScan(d))
  BY DEF Typed, Drvs, States, WaitForNextScan

LEMMA ReqChannelTyped ==
  ASSUME NEW d, Typed(d)
  PROVE  Typed(ReqChannelJoin(d))
<1>1. Typed([d EXCEPT !.eCurrentState = "REQ_CHANNEL_JOIN"])
  BY DEF Typed, Drvs, States
<1>2. Typed([d EXCEPT !.eCurrentState = "REQ_CHANNEL_JOIN",
                      !.sta.fgIsTxAllowed = @ /\ ~d.prStaRecOfAP,
                      !.ucSeqNumOfChReq = @ + 1,
                      !.fgIsChannelRequested = TRUE,
                      !.fwCh = @ \cup {d.ucSeqNumOfChReq + 1}])
  <2> DEFINE s == [d.sta EXCEPT !.fgIsTxAllowed = @ /\ ~d.prStaRecOfAP]
             n == d.ucSeqNumOfChReq + 1
             fw == d.fwCh \cup {n}
  <2>1. s \in StaType
    BY DEF Typed, Drvs, StaType
  <2>2. n \in Nat /\ fw \in SUBSET Nat
    BY DEF Typed, Drvs
  <2>3. Typed([d EXCEPT !.eCurrentState = "REQ_CHANNEL_JOIN", !.sta = s,
                        !.ucSeqNumOfChReq = n,
                        !.fgIsChannelRequested = TRUE, !.fwCh = fw])
    <3> HIDE DEF s, n, fw
    <3> QED
      BY <2>1, <2>2 DEF Typed, Drvs, States
  <2> QED
    BY <2>3 DEF Typed, Drvs
<1> QED
  BY <1>1, <1>2, WaitTyped DEF ReqChannelJoin

LEMMA SearchTyped ==
  ASSUME NEW d, Typed(d), NEW found
  PROVE  Typed(Search(d, found))
<1>1. Typed([d EXCEPT !.prTargetBssDesc = TRUE])
  BY DEF Typed, Drvs
<1> QED
  BY <1>1, ReqChannelTyped, WaitTyped DEF Search

LEMMA IdleTyped ==
  ASSUME NEW d, Typed(d), NEW found
  PROVE  Typed(Idle(d, found))
<1>1. Typed([d EXCEPT !.eCurrentState = "IDLE"])
  BY DEF Typed, Drvs, States
<1>2. Typed(cnmStaRecFree(d))
  BY FreeTyped
<1>3. Typed([cnmStaRecFree(d) EXCEPT !.eCurrentState = "IDLE"])
  BY <1>2 DEF Typed, Drvs, States
<1> QED
  BY <1>1, <1>3, SearchTyped DEF Idle

LEMMA InitJoinTyped ==
  ASSUME NEW d, Typed(d)
  PROVE  Typed(aisFsmStateInit_JOIN(d))
<1> DEFINE n == d.ucSeqNumOfReqMsg + 1
           limit == IF d.eConnectionState THEN 1 ELSE 2
           new == [NoSta EXCEPT !.fgIsInUse = TRUE, !.owner = n,
                                !.ucTxAuthAssocRetryLimit = limit]
           e == [d EXCEPT !.eCurrentState = "JOIN", !.sta = new,
                          !.prStaRecOfAP = TRUE, !.prTargetStaRec = TRUE,
                          !.ucSeqNumOfReqMsg = n, !.prPendingSAAMsg = n,
                          !.fgIsCfg80211Connecting = TRUE]
<1>1. n \in Nat /\ limit \in 1 .. 2
  BY StaTyped
<1>2. new \in StaType
  <2> HIDE DEF n, limit
  <2>1. NoSta \in StaType
    BY DEF NoSta, StaType
  <2> QED
    BY <1>1, <2>1 DEF StaType
<1>3. Typed(e)
  <2> HIDE DEF n, new
  <2> QED
    BY <1>1, <1>2 DEF Typed, Drvs, States
<1> QED
  BY <1>3, ChangeStateTyped DEF aisFsmStateInit_JOIN

LEMMA JoinTyped ==
  ASSUME NEW d, Typed(d), NEW found
  PROVE  Typed(Join(d, found))
  BY InitJoinTyped, IdleTyped DEF Join

LEMMA JoinFailureTyped ==
  ASSUME NEW d, Typed(d), NEW found
  PROVE  Typed(JoinFailure(d, found))
<1>1. Typed([d EXCEPT !.fgIsDisconnectedByNonRequest = TRUE])
  BY DEF Typed, Drvs
<1> QED
  BY <1>1, IdleTyped DEF JoinFailure

LEMMA DisconnectingTyped ==
  ASSUME NEW d, Typed(d), NEW sent
  PROVE  Typed(Disconnecting(d, sent))
<1> DEFINE f == IF sent /\ d.prStaRecOfAP THEN d.frames \cup {"DEAUTH"}
                ELSE d.frames
<1>1. f \in SUBSET (Frames \cup {"DEAUTH"})
  BY DEF Typed, Drvs
<1>2. "DISCONNECTING" \in States
  BY DEF States
<1>3. Typed([d EXCEPT !.eCurrentState = "DISCONNECTING",
                      !.fgIsDisconnectedByNonRequest = TRUE,
                      !.rDeauthDoneTimer = TRUE, !.frames = f])
  <2> HIDE DEF f
  <2> QED
    BY <1>1, <1>2 DEF Typed, Drvs
<1> QED
  BY <1>3 DEF Disconnecting

LEMMA IndicationTyped ==
  ASSUME NEW d, Typed(d), NEW reason
  PROVE  Typed(aisIndicationOfMediaStateToHost(d, reason))
<1>1. Typed([d EXCEPT !.eConnectionStateIndicated = FALSE,
                      !.prTargetBssDesc = FALSE, !.prTargetStaRec = FALSE,
                      !.prPendingSAAMsg = 0])
  BY DEF Typed, Drvs
<1> QED
  BY <1>1 DEF aisIndicationOfMediaStateToHost

LEMMA DisconnectTyped ==
  ASSUME NEW d, Typed(d), NEW reason, NEW found
  PROVE  Typed(aisFsmDisconnect(d, reason, found))
<1>1. Typed([d EXCEPT !.eConnectionState = FALSE, !.prStaRecOfAP = FALSE])
  BY DEF Typed, Drvs
<1> QED
  BY <1>1, IndicationTyped, IdleTyped DEF aisFsmDisconnect

-----------------------------------------------------------------------------
(***************************************************************************)
(* Types: aborts                                                           *)
(***************************************************************************)

LEMMA StoppedTyped ==
  ASSUME NEW d, Typed(d)
  PROVE  Typed(Stopped(d))
<1>1. Typed([d EXCEPT !.rBGScanTimer = FALSE])
  BY DEF Typed, Drvs
<1> QED
  BY <1>1, ReleaseTyped, AbortJoinTyped, AbortNormalTrTyped DEF Stopped

LEMMA TeardownTyped ==
  ASSUME NEW d, Typed(d), NEW checks, NEW reason, NEW found, NEW sent
  PROVE  Typed(Teardown(d, checks, reason, found, sent))
  BY DisconnectingTyped, AbortNormalTrTyped, DisconnectTyped DEF Teardown

LEMMA StateAbortTyped ==
  ASSUME NEW d, Typed(d), NEW reason, NEW found, NEW sent
  PROVE  Typed(aisFsmStateAbort(d, reason, found, sent))
<1> DEFINE e == [Stopped(d) EXCEPT !.recent = TRUE]
<1>1. Typed([d EXCEPT !.recent = TRUE])
  BY DEF Typed, Drvs
<1>2. Typed(Stopped(d))
  BY StoppedTyped
<1>3. Typed(e)
  BY <1>2 DEF Typed, Drvs
<1>4. Typed(Teardown(e, ChecksConnected(d), reason, found, sent))
  BY <1>3, TeardownTyped
<1> QED
  BY <1>1, <1>4 DEF aisFsmStateAbort

LEMMA ReconnectTyped ==
  ASSUME NEW d, Typed(d), NEW found
  PROVE  Typed(Reconnect(d, found))
<1>1. Typed([d EXCEPT !.fgIsCfg80211Connecting = FALSE,
                      !.fgIsConnReqIssued = TRUE])
  BY DEF Typed, Drvs
<1>2. Typed([d EXCEPT !.fgIsConnReqIssued = TRUE,
                      !.fgIsDisconnectedByNonRequest = FALSE])
  BY DEF Typed, Drvs
<1> QED
  BY <1>1, <1>2, IdleTyped DEF Reconnect

LEMMA RunEventAbortTyped ==
  ASSUME NEW d, Typed(d), NEW reason, NEW found, NEW sent
  PROVE  Typed(aisFsmRunEventAbort(d, reason, found, sent))
  BY StateAbortTyped, ReconnectTyped DEF aisFsmRunEventAbort

LEMMA DisassociateTyped ==
  ASSUME NEW d, Typed(d)
  PROVE  Typed(wlanoidSetDisassociate(d))
<1>1. Typed([d EXCEPT !.fgIsConnReqIssued = FALSE])
  BY DEF Typed, Drvs
<1>2. AbortMsg("NEW_CONNECTION") \in Messages
  BY MessagesTyped DEF Reasons
<1> QED
  BY <1>1, <1>2, PostTyped DEF wlanoidSetDisassociate

-----------------------------------------------------------------------------
(***************************************************************************)
(* Types: the end of a join                                                *)
(***************************************************************************)

LEMMA RoamingTyped ==
  ASSUME NEW d, Typed(d)
  PROVE  Typed(aisFsmRoamingDisconnectPrevAP(d))
  BY DEF Typed, Drvs, aisFsmRoamingDisconnectPrevAP

LEMMA ConnectTyped ==
  ASSUME NEW d, Typed(d)
  PROVE  Typed(Connect(d))
<1>1. Typed([d EXCEPT !.eConnectionState = TRUE,
                      !.eConnectionStateIndicated = TRUE, !.prStaRecOfAP = TRUE])
  BY DEF Typed, Drvs
<1> QED
  BY <1>1, ChangeStateTyped DEF Connect

LEMMA JoinSucceedsTyped ==
  ASSUME NEW d, Typed(d)
  PROVE  Typed(JoinSucceeds(d))
<1> DEFINE c == Connect(IF d.eConnectionState
                        THEN aisFsmRoamingDisconnectPrevAP(d) ELSE d)
<1>1. Typed(c)
  BY RoamingTyped, ConnectTyped
<1> HIDE DEF c
<1>2. Typed([c EXCEPT !.fgIsCfg80211Connecting = FALSE,
                      !.eCurrentState = "NORMAL_TR"])
  BY <1>1 DEF Typed, Drvs, States
<1> QED
  BY <1>2 DEF JoinSucceeds, c

LEMMA WithdrawTyped ==
  ASSUME NEW d, Typed(d)
  PROVE  Typed(Withdraw(d))
<1> DEFINE r == aisFsmReleaseCh(d)
           c == [r EXCEPT !.rJoinTimeoutTimer = FALSE]
<1>1. Typed(c)
  BY ReleaseTyped, FlagsTyped
<1> HIDE DEF c
<1> QED
  BY <1>1, FreeTyped DEF Withdraw, c

LEMMA JoinFailsTyped ==
  ASSUME NEW d, Typed(d), NEW status, NEW e \in Ends
  PROVE  Typed(JoinFails(d, status, e))
<1> DEFINE w == Withdraw(d)
           again == [w EXCEPT !.sta.fgIsTxAllowed = @ \/ d.prStaRecOfAP]
           over == [w EXCEPT !.fgIsCfg80211Connecting = FALSE]
           waits == [again EXCEPT !.prTargetBssDesc = e.found,
                                  !.prTargetStaRec = d.prStaRecOfAP]
<1>1. Typed(w) /\ d.prStaRecOfAP \in BOOLEAN /\ e.found \in BOOLEAN
  BY WithdrawTyped DEF Typed, Drvs, Ends
<1> HIDE DEF w
<1>2. Typed(again)
  <2> DEFINE s == [w.sta EXCEPT !.fgIsTxAllowed = @ \/ d.prStaRecOfAP]
  <2>1. s \in StaType
    BY <1>1 DEF Typed, Drvs, StaType
  <2> QED
    BY <1>1, <2>1 DEF Typed, Drvs
<1>3. Typed(over)
  BY <1>1, FlagsTyped
<1> HIDE DEF again, over
<1>4. Typed(waits)
  <2> DEFINE bss == e.found
             sta == d.prStaRecOfAP
  <2>1. bss \in BOOLEAN /\ sta \in BOOLEAN
    BY <1>1
  <2> HIDE DEF bss, sta
  <2>2. Typed([again EXCEPT !.prTargetBssDesc = bss, !.prTargetStaRec = sta])
    BY <1>2, <2>1 DEF Typed, Drvs
  <2> QED
    BY <2>2 DEF waits, bss, sta
<1> HIDE DEF waits
<1>5. /\ Typed(JoinFailure(over, e.found)) /\ Typed(wlanoidSetDisassociate(again))
      /\ Typed(WaitForNextScan(waits))
  BY <1>2, <1>3, <1>4, JoinFailureTyped, DisassociateTyped, WaitTyped
<1> QED
  BY <1>5 DEF JoinFails, w, again, over, waits

LEMMA JoinCompleteTyped ==
  ASSUME NEW d, Typed(d), NEW n, NEW status, NEW e \in Ends
  PROVE  Typed(aisFsmRunEventJoinComplete(d, n, status, e))
  BY JoinSucceedsTyped, JoinFailsTyped DEF aisFsmRunEventJoinComplete

-----------------------------------------------------------------------------
(***************************************************************************)
(* Types: SAA                                                              *)
(***************************************************************************)

LEMMA SendCompleteTyped ==
  ASSUME NEW d, Typed(d), NEW status, NEW e \in Ends
  PROVE  Typed(saaFsmSendEventJoinComplete(d, status, e))
  BY JoinCompleteTyped DEF saaFsmSendEventJoinComplete

LEMMA TransmitTyped ==
  ASSUME NEW d, Typed(d), NEW kind \in Frames, NEW sent
  PROVE  Typed(Transmit(d, kind, sent))
<1>1. [d.sta EXCEPT !.eAuthAssocSent = kind] \in StaType
  BY StaTyped DEF StaType
<1>2. Typed([d EXCEPT !.sta.eAuthAssocSent = kind])
  BY <1>1 DEF Typed, Drvs
<1>3. Typed([d EXCEPT !.sta.eAuthAssocSent = kind,
                      !.frames = @ \cup {kind}, !.air = @ \cup {kind}])
  BY <1>1 DEF Typed, Drvs
<1> QED
  BY <1>2, <1>3, TimerTyped DEF Transmit

LEMMA SendAssocTyped ==
  ASSUME NEW d, Typed(d), NEW sent
  PROVE  Typed(SendAssoc(d, sent))
  BY ChangeStateTyped, TransmitTyped DEF SendAssoc, Frames

(* The retry counter stays within its limit, which is at most 2.           *)
LEMMA SendAuthAssocTyped ==
  ASSUME NEW d, Typed(d), NEW sent, NEW e \in Ends
  PROVE  Typed(saaSendAuthAssoc(d, sent, e))
<1> DEFINE tries == d.sta.ucTxAuthAssocRetryCount
           limit == d.sta.ucTxAuthAssocRetryLimit
           again == [d EXCEPT !.sta.ucTxAuthAssocRetryCount = @ + 1]
           armed == [d EXCEPT !.sta.ucStaState = 3]
<1>1. tries \in 0 .. 2 /\ limit \in 1 .. 2
  BY StaTyped DEF StaType
<1>2. ASSUME ~(tries >= limit) PROVE Typed(again)
  <2>1. tries + 1 \in 0 .. 2
    BY <1>1, <1>2
  <2>2. [d.sta EXCEPT !.ucTxAuthAssocRetryCount = tries + 1] \in StaType
    <3> DEFINE n == tries + 1
    <3> HIDE DEF n
    <3>1. [d.sta EXCEPT !.ucTxAuthAssocRetryCount = n] \in StaType
      BY <2>1, StaTyped DEF StaType, n
    <3> QED
      BY <3>1 DEF n
  <2> QED
    BY <2>2 DEF Typed, Drvs
<1>3. Typed(armed)
  <2>1. [d.sta EXCEPT !.ucStaState = 3] \in StaType
    BY StaTyped, StaUpdates
  <2> QED
    BY <2>1 DEF Typed, Drvs
<1>4. Typed(saaFsmSendEventJoinComplete(d, "REJECTED", e))
  BY SendCompleteTyped
<1>5. Typed(StartTimer(d)) /\ Typed(StartTimer(cnmStaRecChangeState(armed, 1)))
  BY <1>3, TimerTyped, ChangeStateTyped
<1>6. ASSUME ~(tries >= limit)
      PROVE  Typed(SendAssoc(again, sent)) /\ Typed(Transmit(again, "AUTH", sent))
  BY <1>2, <1>6, SendAssocTyped, TransmitTyped DEF Frames
<1> HIDE DEF again, armed
<1> QED
  BY <1>1, <1>4, <1>5, <1>6 DEF saaSendAuthAssoc, again, armed

LEMMA SaaStartTyped ==
  ASSUME NEW d, Typed(d), NEW n \in Nat, NEW sent, NEW e \in Ends
  PROVE  Typed(saaFsmRunEventStart(d, n, sent, e))
<1>1. Typed([d EXCEPT !.sta.ucAuthAssocReqSeqNum = n,
                      !.sta.ucTxAuthAssocRetryCount = 0])
  <2>1. [d.sta EXCEPT !.ucAuthAssocReqSeqNum = n,
                      !.ucTxAuthAssocRetryCount = 0] \in StaType
    <3> DEFINE t == [d.sta EXCEPT !.ucAuthAssocReqSeqNum = n]
    <3>1. t \in StaType
      BY StaTyped DEF StaType
    <3>2. [t EXCEPT !.ucTxAuthAssocRetryCount = 0] \in StaType
      <4> HIDE DEF t
      <4> QED
        BY <3>1 DEF StaType
    <3> QED
      BY <3>2, StaTyped DEF StaType
  <2> QED
    BY <2>1 DEF Typed, Drvs
<1> QED
  BY <1>1, TimerTyped, SendAuthAssocTyped DEF saaFsmRunEventStart

LEMMA NoRetryTyped ==
  ASSUME NEW d, Typed(d)
  PROVE  Typed([d EXCEPT !.sta.ucTxAuthAssocRetryCount = 0])
<1>1. [d.sta EXCEPT !.ucTxAuthAssocRetryCount = 0] \in StaType
  BY StaTyped, StaUpdates
<1> QED
  BY <1>1 DEF Typed, Drvs

LEMMA SaaAbortTyped ==
  ASSUME NEW d, Typed(d)
  PROVE  Typed(saaFsmRunEventAbort(d))
  BY NoRetryTyped, TimerTyped, FreeTyped DEF saaFsmRunEventAbort

LEMMA SaaTxDoneTyped ==
  ASSUME NEW d, Typed(d), NEW kind, NEW sent, NEW e \in Ends,
         NEW status \in {"SUCCESS", "LIFE_TIMEOUT", "DROPPED_IN_DRIVER"}
  PROVE  Typed(saaFsmRunEventTxDone(d, kind, status, sent, e))
  BY NoRetryTyped, TimerTyped, SendAuthAssocTyped DEF saaFsmRunEventTxDone

LEMMA SaaRxAuthTyped ==
  ASSUME NEW d, Typed(d), NEW status, NEW e \in Ends
  PROVE  Typed(saaFsmRunEventRxAuth(d, status, e))
<1> DEFINE ok == (status = "SUCCESS")
           c == StopTimer([d EXCEPT !.sta.ucTxAuthAssocRetryCount = 0,
                                    !.authed = ok])
<1>1. Typed([d EXCEPT !.sta.ucTxAuthAssocRetryCount = 0, !.authed = ok])
  <2>1. [d.sta EXCEPT !.ucTxAuthAssocRetryCount = 0] \in StaType
    BY StaTyped, StaUpdates
  <2>2. ok \in BOOLEAN
    OBVIOUS
  <2> HIDE DEF ok
  <2> QED
    BY <2>1, <2>2 DEF Typed, Drvs
<1>2. Typed(c)
  <2> HIDE DEF ok
  <2> QED
    BY <1>1, TimerTyped
<1> HIDE DEF c
<1>3. Typed(saaFsmSendEventJoinComplete(c, status, e))
  BY <1>2, SendCompleteTyped
<1> QED
  BY <1>2, <1>3 DEF saaFsmRunEventRxAuth, c

LEMMA SaaRxAssocTyped ==
  ASSUME NEW d, Typed(d), NEW status, NEW e \in Ends
  PROVE  Typed(saaFsmRunEventRxAssoc(d, status, e))
<1> DEFINE c == StopTimer([d EXCEPT !.sta.ucTxAuthAssocRetryCount = 0,
                                    !.sta.eAuthAssocSent = "NONE"])
<1>1. Typed([d EXCEPT !.sta.ucTxAuthAssocRetryCount = 0,
                      !.sta.eAuthAssocSent = "NONE"])
  <2>1. [d.sta EXCEPT !.ucTxAuthAssocRetryCount = 0,
                      !.eAuthAssocSent = "NONE"] \in StaType
    <3>1. [d.sta EXCEPT !.ucTxAuthAssocRetryCount = 0] \in StaType
      BY StaTyped, StaUpdates
    <3> QED
      BY <3>1 DEF StaType
  <2> QED
    BY <2>1 DEF Typed, Drvs
<1>2. Typed(c)
  BY <1>1, TimerTyped
<1> HIDE DEF c
<1>3. Typed(saaFsmSendEventJoinComplete(c, status, e))
  BY <1>2, SendCompleteTyped
<1> QED
  BY <1>3 DEF saaFsmRunEventRxAssoc, c

LEMMA SaaRxDeauthTyped ==
  ASSUME NEW d, Typed(d)
  PROVE  Typed(saaFsmRunEventRxDeauth(d))
<1>1. AbortMsg("DEAUTHENTICATED") \in Messages
  BY MessagesTyped DEF Reasons
<1> QED
  BY <1>1, ChangeStateTyped, PostTyped DEF saaFsmRunEventRxDeauth

-----------------------------------------------------------------------------
(***************************************************************************)
(* Types: grants, and the answers of the firmware                          *)
(***************************************************************************)

LEMMA GrantTyped ==
  ASSUME NEW d, Typed(d), NEW token, NEW found
  PROVE  Typed(aisFsmRunEventChGrant(d, token, found))
<1>1. Typed([d EXCEPT !.rJoinTimeoutTimer = TRUE, !.fgIsChannelGranted = TRUE])
  BY DEF Typed, Drvs
<1> QED
  BY <1>1, ReleaseTyped, JoinTyped DEF aisFsmRunEventChGrant

LEMMA FirePendingTyped ==
  ASSUME NEW d, Typed(d)
  PROVE  Typed(aisFsmFirePendingSAA(d))
<1>1. Typed([d EXCEPT !.prPendingSAAMsg = 0])
  BY DEF Typed, Drvs
<1>2. Typed(Post(d, SaaStartMsg(d.prPendingSAAMsg)))
  BY StaTyped, MessagesTyped, PostTyped
<1>3. Typed([Post(d, SaaStartMsg(d.prPendingSAAMsg)) EXCEPT !.prPendingSAAMsg = 0])
  BY <1>2 DEF Typed, Drvs
<1> QED
  BY <1>1, <1>3 DEF aisFsmFirePendingSAA

LEMMA CmdResultTyped ==
  ASSUME NEW d, Typed(d), NEW done \in BOOLEAN
  PROVE  Typed(nicUniCmdStaRecHandleEventPkt(d, done))
<1> DEFINE e == [d EXCEPT !.sta.fgIsValid = @ \/ ~d.sta.fgIsTxAllowed,
                          !.sta.fgIsTxAllowed = TRUE]
<1>1. Typed(e)
  <2> DEFINE b == d.sta.fgIsValid \/ ~d.sta.fgIsTxAllowed
  <2>1. b \in BOOLEAN
    OBVIOUS
  <2>2. [d.sta EXCEPT !.fgIsValid = b, !.fgIsTxAllowed = TRUE] \in StaType
    <3> HIDE DEF b
    <3> QED
      BY <2>1, StaTyped DEF StaType
  <2>3. Typed([d EXCEPT !.sta.fgIsValid = b, !.sta.fgIsTxAllowed = TRUE])
    <3> HIDE DEF b
    <3> QED
      BY <2>2 DEF Typed, Drvs
  <2> QED
    BY <2>3 DEF Typed, Drvs, StaType
<1>2. CASE ~done \/ ~d.sta.fgIsInUse
  BY <1>2 DEF nicUniCmdStaRecHandleEventPkt
<1>3. CASE done /\ d.sta.fgIsInUse /\ d.sta.ucStaState < 3
  <2>1. d.sta.ucStaState + 1 \in 1 .. 3
    BY <1>3, StaTyped
  <2> QED
    BY <1>3, <2>1, ChangeStateTyped DEF nicUniCmdStaRecHandleEventPkt
<1>4. CASE done /\ d.sta.fgIsInUse /\ ~(d.sta.ucStaState < 3)
  BY <1>1, <1>4, FirePendingTyped DEF nicUniCmdStaRecHandleEventPkt
<1> QED
  BY <1>2, <1>3, <1>4

LEMMA JoinTimesOutTyped ==
  ASSUME NEW d, Typed(d), NEW sent
  PROVE  Typed(JoinTimesOut(d, sent))
  BY AbortJoinTyped, DisconnectingTyped, ReleaseTyped DEF JoinTimesOut

-----------------------------------------------------------------------------
(***************************************************************************)
(* Types: the steps                                                        *)
(***************************************************************************)

LEMMA HeadTyped ==
  ASSUME Typed(drv), drv.mbox # <<>>
  PROVE  Head(drv.mbox) \in Messages /\ Typed([drv EXCEPT !.mbox = Tail(@)])
<1>1. Head(drv.mbox) \in Messages /\ Tail(drv.mbox) \in Seq(Messages)
  BY StaTyped
<1> QED
  BY <1>1 DEF Typed, Drvs

LEMMA MboxKeepsTyped ==
  ASSUME Typed(drv), mboxRcvAllMsg
  PROVE  Typed(drv')
<1> DEFINE msg == Head(drv.mbox)
           d == [drv EXCEPT !.mbox = Tail(@)]
<1>1. msg \in Messages /\ Typed(d)
  BY HeadTyped DEF mboxRcvAllMsg
<1>2. msg.type = "saaStart" => msg.seq \in Nat
  BY <1>1 DEF Messages
<1> HIDE DEF msg, d
<1>3. \/ \E found, sent \in BOOLEAN :
           drv' = aisFsmRunEventAbort(d, msg.reason, found, sent)
      \/ \E found \in BOOLEAN : drv' = aisFsmRunEventChGrant(d, msg.token, found)
      \/ \E sent \in BOOLEAN, e \in Ends :
           /\ msg.type = "saaStart"
           /\ drv' = saaFsmRunEventStart(d, msg.seq, sent, e)
      \/ drv' = saaFsmRunEventAbort(d)
  BY DEF mboxRcvAllMsg, Leaves, msg, d
<1> QED
  BY <1>1, <1>2, <1>3, RunEventAbortTyped, GrantTyped, SaaStartTyped, SaaAbortTyped

LEMMA OidKeepsTyped ==
  ASSUME Typed(drv), wlanoidSetConnect \/ OidLeave
  PROVE  Typed(drv')
<1>1. Typed([drv EXCEPT !.fgIsConnReqIssued = TRUE])
  BY DEF Typed, Drvs
<1>2. AbortMsg("NEW_CONNECTION") \in Messages
  BY MessagesTyped DEF Reasons
<1>3. CASE wlanoidSetConnect
  BY <1>1, <1>2, <1>3, PostTyped DEF wlanoidSetConnect, Leaves
<1>4. CASE OidLeave
  BY <1>4, DisassociateTyped DEF OidLeave, Leaves
<1> QED
  BY <1>3, <1>4

LEMMA RxKeepsTyped ==
  ASSUME Typed(drv), grants \subseteq Nat, Rx
  PROVE  Typed(drv')
<1>1. CASE RxChGrant
  BY <1>1, PostTyped, MessagesTyped DEF RxChGrant, Receives, Leaves
<1>2. CASE RxCmdResult
  <2>1. Typed([drv EXCEPT !.cmds = @ - 1])
    <3> DEFINE n == drv.cmds - 1
    <3>1. n \in Nat
      BY <1>2 DEF Typed, Drvs, RxCmdResult
    <3> HIDE DEF n
    <3>2. Typed([drv EXCEPT !.cmds = n])
      BY <3>1 DEF Typed, Drvs
    <3> QED
      BY <3>2 DEF n, Typed, Drvs
  <2> QED
    BY <1>2, <2>1, CmdResultTyped DEF RxCmdResult, Receives, Leaves
<1>3. CASE TxDone
  <2>1. PICK kind \in drv.frames \cap Frames, sent \in BOOLEAN, e \in Ends,
             status \in {"SUCCESS", "LIFE_TIMEOUT", "DROPPED_IN_DRIVER"} :
          drv' = saaFsmRunEventTxDone([drv EXCEPT !.frames = @ \ {kind}],
                                      kind, status, sent, e)
    BY <1>3 DEF TxDone, Receives, Leaves
  <2>2. Typed([drv EXCEPT !.frames = @ \ {kind}])
    BY DEF Typed, Drvs
  <2> QED
    BY <2>1, <2>2, SaaTxDoneTyped
<1>4. CASE RxAuth
  <2>1. Typed([drv EXCEPT !.air = @ \ {"AUTH"}])
    BY DEF Typed, Drvs
  <2> QED
    BY <1>4, <2>1, SaaRxAuthTyped DEF RxAuth, Receives, Leaves
<1>5. CASE RxAssoc
  <2>1. Typed([drv EXCEPT !.air = @ \ {"ASSOC"}])
    BY DEF Typed, Drvs
  <2> QED
    BY <1>5, <2>1, SaaRxAssocTyped DEF RxAssoc, Receives, Leaves
<1>6. CASE RxDeauth
  BY <1>6, SaaRxDeauthTyped DEF RxDeauth, Receives, Leaves
<1>7. CASE aisDeauthXmitComplete
  <2>1. PICK status \in {"SUCCESS", "LIFE_TIMEOUT", "DROPPED_IN_DRIVER"},
             found \in BOOLEAN :
          LET d == [drv EXCEPT !.frames = @ \ {"DEAUTH"},
                               !.rDeauthDoneTimer = @ /\ status # "SUCCESS"]
          IN drv' = IF /\ d.eCurrentState = "DISCONNECTING"
                       /\ status # "DROPPED_IN_DRIVER"
                    THEN aisFsmStateAbort(d, "DEAUTHENTICATED", found, FALSE)
                    ELSE d
    BY <1>7 DEF aisDeauthXmitComplete, Receives, Leaves
  <2> DEFINE d == [drv EXCEPT !.frames = @ \ {"DEAUTH"},
                              !.rDeauthDoneTimer = @ /\ status # "SUCCESS"]
  <2>2. Typed(d)
    <3> DEFINE b == drv.rDeauthDoneTimer /\ status # "SUCCESS"
    <3>1. b \in BOOLEAN
      OBVIOUS
    <3> HIDE DEF b
    <3>2. Typed([drv EXCEPT !.frames = @ \ {"DEAUTH"}, !.rDeauthDoneTimer = b])
      BY <3>1 DEF Typed, Drvs
    <3> QED
      BY <3>2 DEF b, Typed, Drvs
  <2> HIDE DEF d
  <2> QED
    BY <2>1, <2>2, StateAbortTyped DEF d
<1> QED
  BY <1>1, <1>2, <1>3, <1>4, <1>5, <1>6, <1>7 DEF Rx

LEMMA TimeoutsKeepTyped ==
  ASSUME Typed(drv), Timeouts
  PROVE  Typed(drv')
<1>1. CASE aisFsmRunEventDeauthTimeout
  <2> DEFINE d == [drv EXCEPT !.rDeauthDoneTimer = FALSE]
  <2>1. Typed(d)
    BY DEF Typed, Drvs
  <2>2. PICK found \in BOOLEAN :
          drv' = IF d.eCurrentState = "DISCONNECTING"
                 THEN aisFsmStateAbort(d, "DEAUTHENTICATED", found, FALSE)
                 ELSE d
    BY <1>1 DEF aisFsmRunEventDeauthTimeout, Leaves
  <2> HIDE DEF d
  <2> QED
    BY <2>1, <2>2, StateAbortTyped
<1>2. CASE aisFsmRunEventJoinTimeout
  <2>1. Typed([drv EXCEPT !.rJoinTimeoutTimer = FALSE])
    BY DEF Typed, Drvs
  <2> QED
    BY <1>2, <2>1, JoinTimesOutTyped DEF aisFsmRunEventJoinTimeout, Leaves
<1>3. CASE aisFsmRunEventBGSleepTimeOut
  <2> DEFINE s == IF drv.eCurrentState = "WAIT_FOR_NEXT_SCAN" THEN "NORMAL_TR"
                  ELSE drv.eCurrentState
  <2>1. s \in States
    BY DEF Typed, Drvs, States
  <2>2. drv' = [drv EXCEPT !.rBGScanTimer = FALSE, !.eCurrentState = s]
    BY <1>3 DEF aisFsmRunEventBGSleepTimeOut, Leaves, Typed, Drvs
  <2> HIDE DEF s
  <2> QED
    BY <2>1, <2>2 DEF Typed, Drvs
<1>4. CASE SaaTimeout
  BY <1>4, TimerTyped, SendAuthAssocTyped DEF SaaTimeout, Leaves
<1> QED
  BY <1>1, <1>2, <1>3, <1>4 DEF Timeouts

LEMMA Cfg80211KeepsTyped ==
  ASSUME Typed(drv), Cfg80211 \/ Tick
  PROVE  Typed(drv')
<1>1. CASE mtk_cfg80211_auth
  <2>1. PICK known \in BOOLEAN :
          drv' = [drv EXCEPT !.prTargetBssDesc = known, !.authed = FALSE]
    BY <1>1 DEF mtk_cfg80211_auth
  <2>2. Typed([drv EXCEPT !.prTargetBssDesc = known, !.authed = FALSE])
    BY DEF Typed, Drvs
  <2> QED
    BY <2>1, <2>2
<1>2. CASE mtk_cfg80211_auth_returns
  BY <1>2, FlagsTyped DEF mtk_cfg80211_auth_returns
<1>3. CASE mtk_cfg80211_assoc
  <2>1. drv' = [drv EXCEPT !.fgIsSendAssoc = TRUE,
                           !.fgIsCfg80211Connecting = TRUE, !.authed = FALSE]
    BY <1>3 DEF mtk_cfg80211_assoc
  <2>2. Typed([drv EXCEPT !.fgIsSendAssoc = TRUE,
                          !.fgIsCfg80211Connecting = TRUE, !.authed = FALSE])
    BY DEF Typed, Drvs
  <2> QED
    BY <2>1, <2>2
<1>4. CASE mtk_cfg80211_disassoc
  <2>1. PICK clears \in BOOLEAN :
          drv' = [drv EXCEPT !.fgIsCfg80211Connecting = @ /\ ~clears,
                             !.authed = FALSE]
    BY <1>4 DEF mtk_cfg80211_disassoc
  <2> DEFINE b == drv.fgIsCfg80211Connecting /\ ~clears
             e == [drv EXCEPT !.fgIsCfg80211Connecting = b]
  <2>2. b \in BOOLEAN
    OBVIOUS
  <2>3. drv' = [e EXCEPT !.authed = FALSE]
    BY <2>1 DEF Typed, Drvs
  <2>4. Typed(e)
    BY <2>2, FlagsTyped
  <2> HIDE DEF e
  <2>5. Typed([e EXCEPT !.authed = FALSE])
    BY <2>4 DEF Typed, Drvs
  <2> QED
    BY <2>3, <2>5
<1>5. CASE Tick
  <2>1. drv' = [drv EXCEPT !.recent = FALSE]
    BY <1>5 DEF Tick
  <2>2. Typed([drv EXCEPT !.recent = FALSE])
    BY DEF Typed, Drvs
  <2> QED
    BY <2>1, <2>2
<1> QED
  BY <1>1, <1>2, <1>3, <1>4, <1>5 DEF Cfg80211

LEMMA NextKeepsTyped ==
  ASSUME TypeOK, Next
  PROVE  Typed(drv')
<1>1. Typed(drv) /\ grants \subseteq Nat
  BY DEF TypeOK, Typed
<1>2. CASE wlanoidSetConnect \/ OidLeave
  BY <1>1, <1>2, OidKeepsTyped
<1>3. CASE mboxRcvAllMsg
  BY <1>1, <1>3, MboxKeepsTyped
<1>4. CASE Rx
  BY <1>1, <1>4, RxKeepsTyped
<1>5. CASE Timeouts
  BY <1>1, <1>5, TimeoutsKeepTyped
<1>6. CASE Cfg80211 \/ Tick
  BY <1>1, <1>6, Cfg80211KeepsTyped
<1>7. CASE NextStep \/ FwGrants
  BY <1>1, <1>7 DEF NextStep, FwGrants
<1> QED
  BY <1>2, <1>3, <1>4, <1>5, <1>6, <1>7 DEF Next, MainThread

(* Where main_thread is, the calls, the grants and the bounds.             *)
Around ==
  /\ step \in {"oid", "mbox", "rx", "timer"}
  /\ op \in {"none", "auth", "flag", "assoc", "leave"}
  /\ grants \subseteq Nat
  /\ ops \in 0 .. MaxOps /\ deauths \in 0 .. MaxDeauths /\ fwGranted \in Nat

LEMMA NextKeepsAround ==
  ASSUME TypeOK, Next
  PROVE  Around'
<1>1. Around /\ drv.fwCh \subseteq Nat
  BY DEF TypeOK, Around, Drvs
<1>2. CASE wlanoidSetConnect \/ OidLeave
  BY <1>1, <1>2 DEF Around, wlanoidSetConnect, OidLeave
<1>3. CASE mboxRcvAllMsg
  BY <1>1, <1>3 DEF Around, mboxRcvAllMsg
<1>4. CASE Rx
  <2>1. CASE RxDeauth
    BY <1>1, <2>1, BoundsAssumption DEF Around, RxDeauth
  <2>2. CASE RxChGrant
    BY <1>1, <2>2 DEF Around, RxChGrant
  <2> QED
    BY <1>1, <1>4, <2>1, <2>2
       DEF Around, Rx, RxCmdResult, TxDone, RxAuth, RxAssoc, aisDeauthXmitComplete
<1>5. CASE Timeouts
  BY <1>1, <1>5
     DEF Around, Timeouts, aisFsmRunEventDeauthTimeout, aisFsmRunEventJoinTimeout,
         aisFsmRunEventBGSleepTimeOut, SaaTimeout
<1>6. CASE Cfg80211
  <2>1. ops < MaxOps => ops + 1 \in 0 .. MaxOps
    BY <1>1, BoundsAssumption DEF Around
  <2> QED
    BY <1>1, <1>6, <2>1
       DEF Around, Cfg80211, mtk_cfg80211_auth, mtk_cfg80211_auth_returns,
           mtk_cfg80211_assoc, mtk_cfg80211_disassoc
<1>7. CASE NextStep \/ Tick
  BY <1>1, <1>7 DEF Around, NextStep, Tick
<1>8. CASE FwGrants
  <2>1. PICK token \in drv.fwCh :
          fwGranted' = token /\ grants' = grants \cup {token}
    BY <1>8 DEF FwGrants
  <2> QED
    BY <1>1, <1>8, <2>1 DEF Around, FwGrants
<1> QED
  BY <1>2, <1>3, <1>4, <1>5, <1>6, <1>7, <1>8 DEF Next, MainThread

(* The state of main_thread is well typed after every handler: the retry   *)
(* counter of SAA stays below its limit, the state of a record is one of   *)
(* the three, and no command is answered that was not sent.                *)
THEOREM JoinTypeCorrect == Spec => []TypeOK
<1>1. Init => TypeOK
  <2> SUFFICES ASSUME Init PROVE TypeOK
    OBVIOUS
  <2>1. NoSta \in StaType
    BY DEF NoSta, StaType
  <2>2. drv \in Drvs
    <3> HIDE DEF NoSta
    <3> QED
      BY <2>1 DEF Init, Drvs, States
  <2> QED
    BY <2>2, BoundsAssumption DEF Init, TypeOK
<1>2. TypeOK /\ [Next]_vars => TypeOK'
  <2> SUFFICES ASSUME TypeOK, [Next]_vars PROVE TypeOK'
    OBVIOUS
  <2>1. CASE Next
    BY <2>1, NextKeepsTyped, NextKeepsAround DEF TypeOK, Typed, Around
  <2>2. CASE UNCHANGED vars
    BY <2>2 DEF vars, TypeOK
  <2> QED
    BY <2>1, <2>2
<1> QED
  BY <1>1, <1>2, PTL DEF Spec

-----------------------------------------------------------------------------
(***************************************************************************)
(* What the mailbox holds.  Below, m is a mailbox, req the number of the   *)
(* last join, num the join that SAA was started for, pending the one that  *)
(* waits for its record, owner the join that made the record, ch the last  *)
(* channel request, gs the grants that are on their way, and fw the last   *)
(* one the firmware has given.                                             *)
(***************************************************************************)

(* Every start that waits is for a join that SAA was not started for, and  *)
(* that no other start will be posted for.                                 *)
Starts(m, req, num, pending) ==
  /\ \A i \in 1 .. Len(m) :
       m[i].type = "saaStart" =>
         m[i].seq <= req /\ m[i].seq \notin {0, num, pending}
  /\ \A i, j \in 1 .. Len(m) :
       m[i].type = "saaStart" /\ m[j].type = "saaStart" /\ m[i].seq = m[j].seq
       => i = j

(* In front of an abort for SAA there is no grant that AIS would take.     *)
AbortsFirst(m, owner, ch) ==
  \A i \in 1 .. Len(m) :
    m[i].type = "saaAbort" =>
      /\ owner <= m[i].seq
      /\ \A j \in 1 .. i : m[j].type = "grant" => m[j].token < ch

(* No request is granted twice.                                            *)
GrantsOnce(m, gs, fw) ==
  /\ \A g \in gs : g <= fw
  /\ \A i \in 1 .. Len(m) :
       m[i].type = "grant" => m[i].token <= fw /\ m[i].token \notin gs
  /\ \A i, j \in 1 .. Len(m) :
       /\ m[i].type = "grant" /\ m[j].type = "grant"
       /\ m[i].token = m[j].token
       => i = j

Consumed(m, gs, token) ==
  /\ token \notin gs
  /\ \A i \in 1 .. Len(m) : m[i].type = "grant" => m[i].token # token

NoAbortWaits(m) == \A i \in 1 .. Len(m) : m[i].type # "saaAbort"

LEMMA KindsTyped ==
  ASSUME NEW m \in Seq(Messages), NEW i \in 1 .. Len(m)
  PROVE  /\ m[i].type = "grant" => m[i].token \in Nat
         /\ m[i].type \in {"saaStart", "saaAbort"} => m[i].seq \in Nat
<1>1. m[i] \in Messages
  OBVIOUS
<1> QED
  BY <1>1 DEF Messages

LEMMA AppendPlaces ==
  ASSUME NEW m \in Seq(Messages), NEW x \in Messages
  PROVE  /\ Append(m, x) \in Seq(Messages)
         /\ Len(Append(m, x)) = Len(m) + 1
         /\ \A i \in 1 .. Len(m) : Append(m, x)[i] = m[i]
         /\ Append(m, x)[Len(m) + 1] = x
  OBVIOUS

LEMMA TailPlaces ==
  ASSUME NEW m \in Seq(Messages), m # <<>>
  PROVE  /\ Tail(m) \in Seq(Messages) /\ Head(m) = m[1]
         /\ Len(m) \in Nat \ {0} /\ Len(Tail(m)) = Len(m) - 1
         /\ \A i \in 1 .. Len(m) - 1 : Tail(m)[i] = m[i + 1]
  OBVIOUS

(* What handlers post: an abort for AIS, ...                               *)
LEMMA PostAbort ==
  ASSUME NEW m \in Seq(Messages), NEW r \in Reasons,
         NEW req \in Nat, NEW num, NEW pending, NEW owner \in Nat, NEW ch \in Nat,
         NEW gs, NEW fw \in Nat, NEW token
  PROVE  LET p == Append(m, AbortMsg(r))
         IN /\ Starts(m, req, num, pending) => Starts(p, req, num, pending)
            /\ AbortsFirst(m, owner, ch) => AbortsFirst(p, owner, ch)
            /\ GrantsOnce(m, gs, fw) => GrantsOnce(p, gs, fw)
            /\ Consumed(m, gs, token) => Consumed(p, gs, token)
<1> DEFINE x == AbortMsg(r)
           p == Append(m, x)
<1>1. x \in Messages /\ x.type = "abort"
  BY MessagesTyped DEF AbortMsg
<1>2. /\ p \in Seq(Messages) /\ Len(m) \in Nat /\ Len(p) = Len(m) + 1
      /\ \A i \in 1 .. Len(m) : p[i] = m[i]
      /\ p[Len(m) + 1] = x
  BY <1>1, AppendPlaces
<1> HIDE DEF x, p
<1>3. Starts(m, req, num, pending) => Starts(p, req, num, pending)
  <2>1. \A i \in 1 .. Len(p) :
          p[i].type = "saaStart" =>
            i \in 1 .. Len(m) /\ p[i] = m[i]
    BY <1>1, <1>2
  <2> QED
    BY <2>1 DEF Starts
<1>4. AbortsFirst(m, owner, ch) => AbortsFirst(p, owner, ch)
  BY <1>1, <1>2 DEF AbortsFirst
<1>5. GrantsOnce(m, gs, fw) => GrantsOnce(p, gs, fw)
  <2>1. \A i \in 1 .. Len(p) :
          p[i].type = "grant" => i \in 1 .. Len(m) /\ p[i] = m[i]
    BY <1>1, <1>2
  <2> QED
    BY <2>1 DEF GrantsOnce
<1>6. Consumed(m, gs, token) => Consumed(p, gs, token)
  BY <1>1, <1>2 DEF Consumed
<1> QED
  BY <1>3, <1>4, <1>5, <1>6 DEF p, x

(* ... the start of the last join, ...                                     *)
LEMMA PostStart ==
  ASSUME NEW m \in Seq(Messages),
         NEW req \in Nat, NEW num, NEW pending, NEW owner \in Nat, NEW ch \in Nat,
         NEW gs, NEW fw \in Nat, NEW token, pending = req, req \notin {0, num}
  PROVE  LET p == Append(m, SaaStartMsg(req))
         IN /\ Starts(m, req, num, pending) => Starts(p, req, num, 0)
            /\ AbortsFirst(m, owner, ch) => AbortsFirst(p, owner, ch)
            /\ GrantsOnce(m, gs, fw) => GrantsOnce(p, gs, fw)
            /\ Consumed(m, gs, token) => Consumed(p, gs, token)
<1> DEFINE x == SaaStartMsg(req)
           p == Append(m, x)
<1>1. x \in Messages /\ x.type = "saaStart" /\ x.seq = req
  BY MessagesTyped DEF SaaStartMsg
<1>2. /\ p \in Seq(Messages) /\ Len(m) \in Nat /\ Len(p) = Len(m) + 1
      /\ \A i \in 1 .. Len(m) : p[i] = m[i]
      /\ p[Len(m) + 1] = x
  BY <1>1, AppendPlaces
<1> HIDE DEF x, p
<1>3. Starts(m, req, num, pending) => Starts(p, req, num, 0)
  <2> SUFFICES ASSUME Starts(m, req, num, pending)
               PROVE  Starts(p, req, num, 0)
    OBVIOUS
  <2>1. \A i \in 1 .. Len(p) :
          p[i].type = "saaStart" =>
            \/ i \in 1 .. Len(m) /\ p[i] = m[i]
            \/ i = Len(m) + 1 /\ p[i].seq = req
    BY <1>1, <1>2
  <2>2. \A i \in 1 .. Len(m) :
          m[i].type = "saaStart" =>
            m[i].seq <= req /\ m[i].seq \notin {0, num, req}
    BY DEF Starts
  <2>3. \A i \in 1 .. Len(p) :
          p[i].type = "saaStart" =>
            p[i].seq <= req /\ p[i].seq \notin {0, num}
    BY <2>1, <2>2
  <2>4. ASSUME NEW i \in 1 .. Len(p), NEW j \in 1 .. Len(p),
               p[i].type = "saaStart", p[j].type = "saaStart", p[i].seq = p[j].seq
        PROVE  i = j
    <3>1. CASE i \in 1 .. Len(m) /\ p[i] = m[i] /\ j \in 1 .. Len(m) /\ p[j] = m[j]
      BY <2>4, <3>1 DEF Starts
    <3> QED
      BY <2>1, <2>2, <2>4, <3>1
  <2> QED
    BY <2>3, <2>4 DEF Starts
<1>4. AbortsFirst(m, owner, ch) => AbortsFirst(p, owner, ch)
  BY <1>1, <1>2 DEF AbortsFirst
<1>5. GrantsOnce(m, gs, fw) => GrantsOnce(p, gs, fw)
  <2>1. \A i \in 1 .. Len(p) :
          p[i].type = "grant" => i \in 1 .. Len(m) /\ p[i] = m[i]
    BY <1>1, <1>2
  <2> QED
    BY <2>1 DEF GrantsOnce
<1>6. Consumed(m, gs, token) => Consumed(p, gs, token)
  BY <1>1, <1>2 DEF Consumed
<1> QED
  BY <1>3, <1>4, <1>5, <1>6 DEF p, x

(* ... and an abort for SAA, which AIS posts when it has consumed the      *)
(* grant of its last request.                                              *)
LEMMA PostSaaAbort ==
  ASSUME NEW m \in Seq(Messages),
         NEW req \in Nat, NEW num, NEW pending, NEW owner \in Nat, NEW ch \in Nat,
         NEW gs, NEW fw \in Nat, NEW token,
         owner <= req, fw <= ch, GrantsOnce(m, gs, fw), Consumed(m, gs, ch)
  PROVE  LET p == Append(m, SaaAbortMsg(req))
         IN /\ Starts(m, req, num, pending) => Starts(p, req, num, pending)
            /\ AbortsFirst(m, owner, ch) => AbortsFirst(p, owner, ch)
            /\ GrantsOnce(p, gs, fw)
            /\ Consumed(m, gs, token) => Consumed(p, gs, token)
<1> DEFINE x == SaaAbortMsg(req)
           p == Append(m, x)
<1>1. x \in Messages /\ x.type = "saaAbort" /\ x.seq = req
  BY MessagesTyped DEF SaaAbortMsg
<1>2. /\ p \in Seq(Messages) /\ Len(m) \in Nat /\ Len(p) = Len(m) + 1
      /\ \A i \in 1 .. Len(m) : p[i] = m[i]
      /\ p[Len(m) + 1] = x
  BY <1>1, AppendPlaces
<1> HIDE DEF x, p
<1>3. Starts(m, req, num, pending) => Starts(p, req, num, pending)
  <2>1. \A i \in 1 .. Len(p) :
          p[i].type = "saaStart" =>
            i \in 1 .. Len(m) /\ p[i] = m[i]
    BY <1>1, <1>2
  <2> QED
    BY <2>1 DEF Starts
<1>4. \A j \in 1 .. Len(p) : p[j].type = "grant" => p[j].token < ch
  <2>1. \A j \in 1 .. Len(m) : m[j].type = "grant" => m[j].token < ch
    BY KindsTyped DEF GrantsOnce, Consumed
  <2> QED
    BY <1>1, <1>2, <2>1
<1>5. AbortsFirst(m, owner, ch) => AbortsFirst(p, owner, ch)
  BY <1>1, <1>2, <1>4 DEF AbortsFirst
<1>6. GrantsOnce(p, gs, fw)
  <2>1. \A i \in 1 .. Len(p) :
          p[i].type = "grant" => i \in 1 .. Len(m) /\ p[i] = m[i]
    BY <1>1, <1>2
  <2> QED
    BY <2>1 DEF GrantsOnce
<1>7. Consumed(m, gs, token) => Consumed(p, gs, token)
  BY <1>1, <1>2 DEF Consumed
<1> QED
  BY <1>3, <1>5, <1>6, <1>7 DEF p, x

(* An event passes on a grant that was on its way.                         *)
LEMMA PostGrant ==
  ASSUME NEW m \in Seq(Messages), NEW gs \in SUBSET Nat, NEW token \in gs,
         NEW req \in Nat, NEW num, NEW pending, NEW owner \in Nat, NEW ch \in Nat,
         NEW fw \in Nat, NEW other \in Nat
  PROVE  LET p == Append(m, GrantMsg(token))
         IN /\ Starts(m, req, num, pending) => Starts(p, req, num, pending)
            /\ AbortsFirst(m, owner, ch) => AbortsFirst(p, owner, ch)
            /\ GrantsOnce(m, gs, fw) => GrantsOnce(p, gs \ {token}, fw)
            /\ Consumed(m, gs, other) => Consumed(p, gs \ {token}, other)
<1> DEFINE x == GrantMsg(token)
           p == Append(m, x)
<1>1. x \in Messages /\ x.type = "grant" /\ x.token = token
  BY MessagesTyped DEF GrantMsg
<1>2. /\ p \in Seq(Messages) /\ Len(m) \in Nat /\ Len(p) = Len(m) + 1
      /\ \A i \in 1 .. Len(m) : p[i] = m[i]
      /\ p[Len(m) + 1] = x
  BY <1>1, AppendPlaces
<1> HIDE DEF x, p
<1>3. Starts(m, req, num, pending) => Starts(p, req, num, pending)
  <2>1. \A i \in 1 .. Len(p) :
          p[i].type = "saaStart" =>
            i \in 1 .. Len(m) /\ p[i] = m[i]
    BY <1>1, <1>2
  <2> QED
    BY <2>1 DEF Starts
<1>4. AbortsFirst(m, owner, ch) => AbortsFirst(p, owner, ch)
  BY <1>1, <1>2 DEF AbortsFirst
<1>5. GrantsOnce(m, gs, fw) => GrantsOnce(p, gs \ {token}, fw)
  <2> SUFFICES ASSUME GrantsOnce(m, gs, fw)
               PROVE  GrantsOnce(p, gs \ {token}, fw)
    OBVIOUS
  <2>1. \A i \in 1 .. Len(p) :
          p[i].type = "grant" =>
            \/ i \in 1 .. Len(m) /\ p[i] = m[i]
            \/ i = Len(m) + 1 /\ p[i].token = token
    BY <1>1, <1>2
  <2>2. token <= fw /\ \A g \in gs \ {token} : g <= fw
    BY DEF GrantsOnce
  <2>3. \A i \in 1 .. Len(m) :
          m[i].type = "grant" => m[i].token <= fw /\ m[i].token \notin gs
    BY DEF GrantsOnce
  <2>4. \A i \in 1 .. Len(p) :
          p[i].type = "grant" =>
            p[i].token <= fw /\ p[i].token \notin gs \ {token}
    BY <2>1, <2>2, <2>3
  <2>5. ASSUME NEW i \in 1 .. Len(p), NEW j \in 1 .. Len(p),
               p[i].type = "grant", p[j].type = "grant", p[i].token = p[j].token
        PROVE  i = j
    <3>1. CASE i \in 1 .. Len(m) /\ p[i] = m[i] /\ j \in 1 .. Len(m) /\ p[j] = m[j]
      BY <2>5, <3>1 DEF GrantsOnce
    <3> QED
      BY <2>1, <2>3, <2>5, <3>1
  <2> QED
    BY <2>2, <2>4, <2>5 DEF GrantsOnce
<1>6. Consumed(m, gs, other) => Consumed(p, gs \ {token}, other)
  BY <1>1, <1>2 DEF Consumed
<1> QED
  BY <1>3, <1>4, <1>5, <1>6 DEF p, x

(* The first message is taken.                                             *)
Rest(m, req, num, pending, owner, ch, gs, fw) ==
  LET t == Tail(m)
      x == Head(m)
  IN /\ Starts(t, req, num, pending) /\ AbortsFirst(t, owner, ch)
     /\ GrantsOnce(t, gs, fw)
     /\ Consumed(m, gs, fw) => Consumed(t, gs, fw)
     /\ x.type = "grant" =>
          /\ x.token \in Nat /\ x.token <= fw /\ Consumed(t, gs, x.token)
          /\ x.token >= ch => NoAbortWaits(t)
     /\ x.type = "saaStart" =>
          /\ x.seq \in Nat /\ x.seq # pending
          /\ Starts(t, req, x.seq, pending)

LEMMA TakeFirst ==
  ASSUME NEW m \in Seq(Messages), m # <<>>,
         NEW req \in Nat, NEW num, NEW pending, NEW owner \in Nat, NEW ch \in Nat,
         NEW gs, NEW fw \in Nat,
         Starts(m, req, num, pending), AbortsFirst(m, owner, ch),
         GrantsOnce(m, gs, fw)
  PROVE  Rest(m, req, num, pending, owner, ch, gs, fw)
<1> DEFINE t == Tail(m)
           x == Head(m)
<1>1. /\ t \in Seq(Messages) /\ x = m[1]
      /\ Len(m) \in Nat \ {0} /\ Len(t) = Len(m) - 1
      /\ \A i \in 1 .. Len(t) : i + 1 \in 1 .. Len(m) /\ t[i] = m[i + 1]
  BY TailPlaces
<1> HIDE DEF t, x
<1>9. \A i \in 1 .. Len(t) : i \in Nat /\ i + 1 \in 1 .. Len(m)
  BY <1>1
<1>10. \A i \in 1 .. Len(t) : \A j \in 1 .. i :
        j \in 1 .. Len(t) /\ j + 1 \in 1 .. i + 1
  BY <1>1
<1>2. Starts(t, req, num, pending)
  <2>1. \A i \in 1 .. Len(t) :
          t[i].type = "saaStart" =>
            t[i].seq <= req /\ t[i].seq \notin {0, num, pending}
    BY <1>1 DEF Starts
  <2>2. ASSUME NEW i \in 1 .. Len(t), NEW j \in 1 .. Len(t),
               t[i].type = "saaStart", t[j].type = "saaStart", t[i].seq = t[j].seq
        PROVE  i = j
    <3>1. i + 1 \in 1 .. Len(m) /\ j + 1 \in 1 .. Len(m)
      BY <1>1
    <3>2. i + 1 = j + 1
      BY <1>1, <2>2, <3>1 DEF Starts
    <3> QED
      BY <3>2
  <2> QED
    BY <2>1, <2>2 DEF Starts
<1>3. AbortsFirst(t, owner, ch)
  <2> SUFFICES ASSUME NEW i \in 1 .. Len(t), t[i].type = "saaAbort"
               PROVE  /\ owner <= t[i].seq
                      /\ \A j \in 1 .. i : t[j].type = "grant" => t[j].token < ch
    BY DEF AbortsFirst
  <2>1. /\ owner <= m[i + 1].seq
        /\ \A j \in 1 .. i + 1 : m[j].type = "grant" => m[j].token < ch
    BY <1>1 DEF AbortsFirst
  <2>2. ASSUME NEW j \in 1 .. i
        PROVE  j + 1 \in 1 .. i + 1 /\ t[j] = m[j + 1]
    BY <1>1, <1>10
  <2> QED
    BY <1>1, <2>1, <2>2
<1>4. GrantsOnce(t, gs, fw)
  <2>1. ASSUME NEW i \in 1 .. Len(t), NEW j \in 1 .. Len(t),
               t[i].type = "grant", t[j].type = "grant", t[i].token = t[j].token
        PROVE  i = j
    <3>1. i + 1 \in 1 .. Len(m) /\ j + 1 \in 1 .. Len(m)
      BY <1>1
    <3>2. i + 1 = j + 1
      BY <1>1, <2>1, <3>1 DEF GrantsOnce
    <3> QED
      BY <3>2
  <2> QED
    BY <1>1, <2>1 DEF GrantsOnce
<1>5. Consumed(m, gs, fw) => Consumed(t, gs, fw)
  BY <1>1 DEF Consumed
<1>6. ASSUME x.type = "grant"
      PROVE  /\ x.token \in Nat /\ x.token <= fw /\ Consumed(t, gs, x.token)
             /\ x.token >= ch => NoAbortWaits(t)
  <2>1. x.token \in Nat /\ 1 \in 1 .. Len(m)
    BY <1>1, <1>6, KindsTyped
  <2>2. x.token <= fw /\ x.token \notin gs
    BY <1>1, <1>6, <2>1 DEF GrantsOnce
  <2>3. Consumed(t, gs, x.token)
    <3> SUFFICES ASSUME NEW i \in 1 .. Len(t), t[i].type = "grant",
                        t[i].token = x.token
                 PROVE  FALSE
      BY <2>2 DEF Consumed
    <3>1. i + 1 \in 1 .. Len(m) /\ m[i + 1] = t[i]
      BY <1>1
    <3>2. i + 1 # 1
      BY <1>9
    <3> QED
      BY <1>1, <1>6, <2>1, <3>1, <3>2 DEF GrantsOnce
  <2>4. ASSUME NEW i \in 1 .. Len(t), t[i].type = "saaAbort"
        PROVE  x.token < ch
    <3>1. i + 1 \in 1 .. Len(m) /\ m[i + 1].type = "saaAbort" /\ 1 \in 1 .. i + 1
      BY <1>1, <2>4
    <3> QED
      BY <1>1, <1>6, <3>1 DEF AbortsFirst
  <2> QED
    BY <2>1, <2>2, <2>3, <2>4 DEF NoAbortWaits
<1>7. ASSUME x.type = "saaStart"
      PROVE  x.seq \in Nat /\ x.seq # pending /\ Starts(t, req, x.seq, pending)
  <2>1. x.seq \in Nat /\ 1 \in 1 .. Len(m)
    BY <1>1, <1>7, KindsTyped
  <2>2. x.seq # pending
    BY <1>1, <1>7, <2>1 DEF Starts
  <2>3. ASSUME NEW i \in 1 .. Len(t), t[i].type = "saaStart"
        PROVE  t[i].seq # x.seq
    <3>1. i + 1 \in 1 .. Len(m) /\ m[i + 1] = t[i] /\ i + 1 # 1
      BY <1>1, <1>9
    <3> QED
      BY <1>1, <1>7, <2>1, <2>3, <3>1 DEF Starts
  <2> QED
    BY <1>2, <2>1, <2>2, <2>3 DEF Starts
<1> QED
  BY <1>2, <1>3, <1>4, <1>5, <1>6, <1>7 DEF Rest, t, x

-----------------------------------------------------------------------------
(***************************************************************************)
(* Sound states of main_thread                                             *)
(***************************************************************************)

Numbers(d) ==
  /\ d.prPendingSAAMsg \in {0, d.ucSeqNumOfReqMsg}
  /\ d.prPendingSAAMsg # 0 => d.prPendingSAAMsg # d.sta.ucAuthAssocReqSeqNum
  /\ d.sta.owner = d.ucSeqNumOfReqMsg

(* At most the last request has not been given back.                       *)
Channel(d) ==
  /\ d.ucSeqNumOfChAbort <= d.ucSeqNumOfChReq
  /\ d.ucSeqNumOfChReq <= d.ucSeqNumOfChAbort + 1
  /\ ~d.fgIsChannelRequested => d.ucSeqNumOfChAbort = d.ucSeqNumOfChReq

Mail(d, gs, fw) ==
  /\ Starts(d.mbox, d.ucSeqNumOfReqMsg, d.sta.ucAuthAssocReqSeqNum,
            d.prPendingSAAMsg)
  /\ AbortsFirst(d.mbox, d.sta.owner, d.ucSeqNumOfChReq)
  /\ GrantsOnce(d.mbox, gs, fw)
  /\ fw <= d.ucSeqNumOfChReq

(* JOIN was entered by the grant of the last request.                      *)
Joined(d, gs, fw) == fw = d.ucSeqNumOfChReq /\ Consumed(d.mbox, gs, fw)

Sound(d, gs, fw) ==
  /\ Typed(d) /\ gs \in SUBSET Nat /\ fw \in Nat
  /\ Numbers(d) /\ Channel(d) /\ Mail(d, gs, fw)
  /\ d.eCurrentState = "JOIN" => Joined(d, gs, fw)

(* Nothing of all that changes, except that JOIN is left and that a start  *)
(* no longer waits for its record.                                         *)
Keeps(d, e) ==
  /\ e.prPendingSAAMsg \in {0, d.prPendingSAAMsg}
  /\ e.ucSeqNumOfReqMsg = d.ucSeqNumOfReqMsg
  /\ e.ucSeqNumOfChReq = d.ucSeqNumOfChReq
  /\ e.ucSeqNumOfChAbort = d.ucSeqNumOfChAbort
  /\ e.fgIsChannelRequested = d.fgIsChannelRequested
  /\ e.sta.ucAuthAssocReqSeqNum = d.sta.ucAuthAssocReqSeqNum
  /\ e.sta.owner = d.sta.owner
  /\ e.eCurrentState = "JOIN" => d.eCurrentState = "JOIN"

Same(d, e) == e.mbox = d.mbox /\ Keeps(d, e)

LEMMA SameSound ==
  ASSUME NEW d, NEW gs, NEW fw, Sound(d, gs, fw),
         NEW e, Typed(e), Same(d, e)
  PROVE  Sound(e, gs, fw)
<1>1. Starts(e.mbox, e.ucSeqNumOfReqMsg, e.sta.ucAuthAssocReqSeqNum,
             e.prPendingSAAMsg)
  BY DEF Sound, Same, Keeps, Mail, Starts
<1>2. Numbers(e) /\ Channel(e)
  BY DEF Sound, Same, Keeps, Numbers, Channel
<1> QED
  BY <1>1, <1>2 DEF Sound, Same, Keeps, Mail, Joined

(* A handler that only posts a message: it is enough to look at the        *)
(* mailbox p it leaves.                                                    *)
LEMMA PostedSound ==
  ASSUME NEW d, NEW gs, NEW fw, Sound(d, gs, fw),
         NEW e, Typed(e), Keeps(d, e),
         Starts(e.mbox, d.ucSeqNumOfReqMsg, d.sta.ucAuthAssocReqSeqNum,
                e.prPendingSAAMsg),
         AbortsFirst(e.mbox, d.sta.owner, d.ucSeqNumOfChReq),
         GrantsOnce(e.mbox, gs, fw),
         Consumed(d.mbox, gs, fw) => Consumed(e.mbox, gs, fw)
  PROVE  Sound(e, gs, fw)
<1>1. Mail(e, gs, fw)
  BY DEF Sound, Keeps, Mail
<1>2. Numbers(e) /\ Channel(e)
  BY DEF Sound, Keeps, Numbers, Channel
<1>3. e.eCurrentState = "JOIN" => Joined(e, gs, fw)
  BY DEF Sound, Keeps, Joined
<1> QED
  BY <1>1, <1>2, <1>3 DEF Sound

LEMMA MailTyped ==
  ASSUME NEW d, NEW gs, NEW fw, Sound(d, gs, fw)
  PROVE  /\ Typed(d) /\ d.mbox \in Seq(Messages) /\ fw \in Nat
         /\ d.ucSeqNumOfReqMsg \in Nat /\ d.sta.ucAuthAssocReqSeqNum \in Nat
         /\ d.sta.owner \in Nat /\ d.ucSeqNumOfChReq \in Nat
         /\ Starts(d.mbox, d.ucSeqNumOfReqMsg, d.sta.ucAuthAssocReqSeqNum,
                   d.prPendingSAAMsg)
         /\ AbortsFirst(d.mbox, d.sta.owner, d.ucSeqNumOfChReq)
         /\ GrantsOnce(d.mbox, gs, fw)
         /\ d.sta.owner = d.ucSeqNumOfReqMsg
         /\ fw <= d.ucSeqNumOfChReq
         /\ d.eCurrentState = "JOIN" =>
              fw = d.ucSeqNumOfChReq /\ Consumed(d.mbox, gs, fw)
  BY StaTyped DEF Sound, Mail, Numbers, Joined

LEMMA FreeSound ==
  ASSUME NEW d, NEW gs, NEW fw, Sound(d, gs, fw)
  PROVE  Sound(cnmStaRecFree(d), gs, fw)
<1>1. Same(d, cnmStaRecFree(d))
  BY DEF Sound, Typed, Drvs, StaType, Same, Keeps, cnmStaRecFree
<1> QED
  BY <1>1, SameSound, FreeTyped DEF Sound

LEMMA ChangeStateSound ==
  ASSUME NEW d, NEW gs, NEW fw, Sound(d, gs, fw),
         NEW new \in 1 .. 3
  PROVE  Sound(cnmStaRecChangeState(d, new), gs, fw)
<1>1. Same(d, cnmStaRecChangeState(d, new))
  BY DEF Sound, Typed, Drvs, StaType, Same, Keeps, cnmStaRecChangeState
<1> QED
  BY <1>1, SameSound, ChangeStateTyped DEF Sound

LEMMA TimerSound ==
  ASSUME NEW d, NEW gs, NEW fw, Sound(d, gs, fw)
  PROVE  Sound(StartTimer(d), gs, fw) /\ Sound(StopTimer(d), gs, fw)
<1>1. Same(d, StartTimer(d)) /\ Same(d, StopTimer(d))
  BY DEF Sound, Typed, Drvs, StaType, Same, Keeps, StartTimer, StopTimer
<1> QED
  BY <1>1, SameSound, TimerTyped DEF Sound

LEMMA PostAbortSound ==
  ASSUME NEW d, NEW gs, NEW fw, Sound(d, gs, fw),
         NEW r \in Reasons
  PROVE  Sound(Post(d, AbortMsg(r)), gs, fw)
<1> DEFINE p == Append(d.mbox, AbortMsg(r))
           e == Post(d, AbortMsg(r))
<1>1. Typed(e)
  BY MessagesTyped, PostTyped DEF Sound
<1>2. e.mbox = p /\ e.prPendingSAAMsg = d.prPendingSAAMsg /\ Keeps(d, e)
  BY DEF Sound, Typed, Drvs, Post, Keeps
<1>3. /\ Starts(p, d.ucSeqNumOfReqMsg, d.sta.ucAuthAssocReqSeqNum,
                d.prPendingSAAMsg)
      /\ AbortsFirst(p, d.sta.owner, d.ucSeqNumOfChReq)
      /\ GrantsOnce(p, gs, fw)
      /\ Consumed(d.mbox, gs, fw) => Consumed(p, gs, fw)
  BY MailTyped, PostAbort
<1> HIDE DEF p, e
<1>4. Sound(e, gs, fw)
  BY <1>1, <1>2, <1>3, PostedSound
<1> QED
  BY <1>4 DEF e

(* What waits for its record is the last join.                             *)
LEMMA FirePendingSound ==
  ASSUME NEW d, NEW gs, NEW fw, Sound(d, gs, fw)
  PROVE  Sound(aisFsmFirePendingSAA(d), gs, fw)
<1> DEFINE forgets == [d EXCEPT !.prPendingSAAMsg = 0]
           p == Append(d.mbox, SaaStartMsg(d.prPendingSAAMsg))
           e == [Post(d, SaaStartMsg(d.prPendingSAAMsg)) EXCEPT !.prPendingSAAMsg = 0]
<1>1. Sound(forgets, gs, fw)
  <2>1. Typed(forgets) /\ Same(d, forgets)
    BY DEF Sound, Typed, Drvs, Same, Keeps
  <2> QED
    BY <2>1, SameSound
<1>2. ASSUME d.prPendingSAAMsg # 0
      PROVE  Sound(e, gs, fw)
  <2>1. /\ d.prPendingSAAMsg = d.ucSeqNumOfReqMsg
        /\ d.ucSeqNumOfReqMsg \notin {0, d.sta.ucAuthAssocReqSeqNum}
    BY <1>2 DEF Sound, Numbers
  <2>2. Typed(Post(d, SaaStartMsg(d.prPendingSAAMsg)))
    BY StaTyped, MessagesTyped, PostTyped DEF Sound
  <2>3. Typed(e)
    BY <2>2 DEF Typed, Drvs
  <2>4. e.mbox = p /\ e.prPendingSAAMsg = 0 /\ Keeps(d, e)
    BY DEF Sound, Typed, Drvs, Post, Keeps
  <2>5. /\ Starts(p, d.ucSeqNumOfReqMsg, d.sta.ucAuthAssocReqSeqNum, 0)
        /\ AbortsFirst(p, d.sta.owner, d.ucSeqNumOfChReq)
        /\ GrantsOnce(p, gs, fw)
        /\ Consumed(d.mbox, gs, fw) => Consumed(p, gs, fw)
    BY <2>1, MailTyped, PostStart
  <2> HIDE DEF p, e
  <2> QED
    BY <2>3, <2>4, <2>5, PostedSound
<1> QED
  BY <1>1, <1>2 DEF aisFsmFirePendingSAA

-----------------------------------------------------------------------------
(***************************************************************************)
(* Soundness: AIS, the channel and the states                              *)
(***************************************************************************)

LEMMA ReleaseSound ==
  ASSUME NEW d, NEW gs, NEW fw, Sound(d, gs, fw)
  PROVE  Sound(aisFsmReleaseCh(d), gs, fw)
<1>1. Typed(aisFsmReleaseCh(d))
  BY ReleaseTyped DEF Sound
<1> DEFINE e == aisFsmReleaseCh(d)
<1>2. CASE ~(d.fgIsChannelGranted \/ d.fgIsChannelRequested)
  BY <1>2 DEF aisFsmReleaseCh
<1>3. CASE d.fgIsChannelGranted \/ d.fgIsChannelRequested
  <2>1. /\ e.mbox = d.mbox /\ e.prPendingSAAMsg = d.prPendingSAAMsg
        /\ e.ucSeqNumOfReqMsg = d.ucSeqNumOfReqMsg
        /\ e.ucSeqNumOfChReq = d.ucSeqNumOfChReq
        /\ e.ucSeqNumOfChAbort = d.ucSeqNumOfChReq
        /\ e.sta = d.sta /\ e.eCurrentState = d.eCurrentState
    BY <1>3 DEF Sound, Typed, Drvs, aisFsmReleaseCh
  <2>2. Channel(e)
    <3>1. d.ucSeqNumOfChReq \in Nat
      BY MailTyped
    <3> HIDE DEF e
    <3> QED
      BY <2>1, <3>1 DEF Channel
  <2> HIDE DEF e
  <2>3. Numbers(e) /\ Mail(e, gs, fw) /\ (Joined(d, gs, fw) => Joined(e, gs, fw))
    BY <2>1 DEF Sound, Numbers, Mail, Joined
  <2>4. Sound(e, gs, fw)
    BY <1>1, <2>1, <2>2, <2>3 DEF Sound, e
  <2> QED
    BY <2>4 DEF e
<1> QED
  BY <1>2, <1>3

LEMMA AbortNormalTrSound ==
  ASSUME NEW d, NEW gs, NEW fw, Sound(d, gs, fw)
  PROVE  Sound(aisFsmStateAbort_NORMAL_TR(d), gs, fw)
<1> DEFINE r == aisFsmReleaseCh(d)
           e == [r EXCEPT !.rJoinTimeoutTimer = FALSE]
<1>1. Sound(r, gs, fw)
  BY ReleaseSound
<1>2. Typed(e)
  BY <1>1, FlagsTyped DEF Sound
<1>3. Same(r, e)
  <2> HIDE DEF r
  <2> QED
    BY <1>1 DEF Sound, Typed, Drvs, Same, Keeps
<1> QED
  BY <1>1, <1>2, <1>3, SameSound DEF aisFsmStateAbort_NORMAL_TR

LEMMA AbortJoinSound ==
  ASSUME NEW d, NEW gs, NEW fw, Sound(d, gs, fw),
         d.eCurrentState = "JOIN"
  PROVE  Sound(aisFsmStateAbort_JOIN(d), gs, fw)
<1> DEFINE p == Append(d.mbox, SaaAbortMsg(d.ucSeqNumOfReqMsg))
           e == Post(d, SaaAbortMsg(d.ucSeqNumOfReqMsg))
           r == aisFsmReleaseCh(e)
           t == [r EXCEPT !.rJoinTimeoutTimer = FALSE]
<1>1. Typed(e)
  BY StaTyped, MessagesTyped, PostTyped DEF Sound
<1>2. e.mbox = p /\ e.prPendingSAAMsg = d.prPendingSAAMsg /\ Keeps(d, e)
  BY DEF Sound, Typed, Drvs, Post, Keeps
<1>3. /\ Starts(p, d.ucSeqNumOfReqMsg, d.sta.ucAuthAssocReqSeqNum,
                d.prPendingSAAMsg)
      /\ AbortsFirst(p, d.sta.owner, d.ucSeqNumOfChReq)
      /\ GrantsOnce(p, gs, fw)
      /\ Consumed(d.mbox, gs, fw) => Consumed(p, gs, fw)
  BY MailTyped, PostSaaAbort
<1>4. Sound(e, gs, fw)
  <2> HIDE DEF p, e
  <2> QED
    BY <1>1, <1>2, <1>3, PostedSound
<1>5. Sound(r, gs, fw)
  BY <1>4, ReleaseSound
<1>6. Typed(t)
  BY <1>5, FlagsTyped DEF Sound
<1>7. Same(r, t)
  <2> HIDE DEF r
  <2> QED
    BY <1>5 DEF Sound, Typed, Drvs, Same, Keeps
<1> QED
  BY <1>5, <1>6, <1>7, SameSound DEF aisFsmStateAbort_JOIN

LEMMA WaitSound ==
  ASSUME NEW d, NEW gs, NEW fw, Sound(d, gs, fw)
  PROVE  Sound(WaitForNextScan(d), gs, fw)
<1>1. Typed(WaitForNextScan(d))
  BY WaitTyped DEF Sound
<1>2. Same(d, WaitForNextScan(d))
  BY DEF Sound, Typed, Drvs, Same, Keeps, WaitForNextScan
<1> QED
  BY <1>1, <1>2, SameSound

(* The number grows only when the last request has been given back.        *)
LEMMA ReqChannelSound ==
  ASSUME NEW d, NEW gs, NEW fw, Sound(d, gs, fw)
  PROVE  Sound(ReqChannelJoin(d), gs, fw)
<1> DEFINE e == ReqChannelJoin(d)
<1>1. Typed(e)
  BY ReqChannelTyped DEF Sound
<1>2. CASE d.fgIsChannelRequested /\ d.fgIsCfg80211Connecting
  <2>1. Same(d, e)
    BY <1>2 DEF Sound, Typed, Drvs, Same, Keeps, ReqChannelJoin
  <2> QED
    BY <1>1, <2>1, SameSound
<1>3. CASE d.fgIsChannelRequested /\ ~d.fgIsCfg80211Connecting
  BY <1>3, WaitSound DEF ReqChannelJoin
<1>4. CASE ~d.fgIsChannelRequested
  <2>1. /\ e.mbox = d.mbox /\ e.prPendingSAAMsg = d.prPendingSAAMsg
        /\ e.ucSeqNumOfReqMsg = d.ucSeqNumOfReqMsg
        /\ e.ucSeqNumOfChReq = d.ucSeqNumOfChReq + 1
        /\ e.ucSeqNumOfChAbort = d.ucSeqNumOfChAbort
        /\ e.fgIsChannelRequested
        /\ e.sta.ucAuthAssocReqSeqNum = d.sta.ucAuthAssocReqSeqNum
        /\ e.sta.owner = d.sta.owner
        /\ e.eCurrentState = "REQ_CHANNEL_JOIN"
    BY <1>4 DEF Sound, Typed, Drvs, StaType, ReqChannelJoin
  <2>2. AbortsFirst(e.mbox, e.sta.owner, e.ucSeqNumOfChReq)
    <3> SUFFICES ASSUME NEW i \in 1 .. Len(d.mbox), d.mbox[i].type = "saaAbort"
                 PROVE  /\ d.sta.owner <= d.mbox[i].seq
                        /\ \A j \in 1 .. i :
                             d.mbox[j].type = "grant" =>
                               d.mbox[j].token < d.ucSeqNumOfChReq + 1
      BY <2>1 DEF AbortsFirst
    <3>1. /\ d.sta.owner <= d.mbox[i].seq
          /\ \A j \in 1 .. i :
               d.mbox[j].type = "grant" => d.mbox[j].token < d.ucSeqNumOfChReq
      BY DEF Sound, Mail, AbortsFirst
    <3>2. \A j \in 1 .. i :
            d.mbox[j].type = "grant" => d.mbox[j].token \in Nat
      BY StaTyped, KindsTyped DEF Sound
    <3>3. d.ucSeqNumOfChReq \in Nat
      BY StaTyped DEF Sound
    <3> QED
      BY <3>1, <3>2, <3>3
  <2>3. Mail(e, gs, fw)
    <3>1. d.ucSeqNumOfChReq \in Nat /\ fw \in Nat
      BY StaTyped DEF Sound
    <3> HIDE DEF e
    <3> QED
      BY <2>1, <2>2, <3>1 DEF Sound, Mail
  <2>4. Channel(e) /\ Numbers(e)
    <3>1. d.ucSeqNumOfChReq \in Nat /\ d.ucSeqNumOfChAbort \in Nat
      BY StaTyped DEF Sound
    <3> HIDE DEF e
    <3> QED
      BY <1>4, <2>1, <3>1 DEF Sound, Channel, Numbers
  <2>5. Sound(e, gs, fw)
    <3> HIDE DEF e
    <3> QED
      BY <1>1, <2>1, <2>3, <2>4 DEF Sound
  <2> QED
    BY <2>5
<1>5. d.fgIsChannelRequested \in BOOLEAN /\ d.fgIsCfg80211Connecting \in BOOLEAN
  BY DEF Sound, Typed, Drvs
<1> QED
  BY <1>2, <1>3, <1>4, <1>5

LEMMA SearchSound ==
  ASSUME NEW d, NEW gs, NEW fw, Sound(d, gs, fw), NEW found
  PROVE  Sound(Search(d, found), gs, fw)
<1> DEFINE e == [d EXCEPT !.prTargetBssDesc = TRUE]
<1>1. Typed(e) /\ Same(d, e)
  BY DEF Sound, Typed, Drvs, Same, Keeps
<1>2. Sound(e, gs, fw)
  BY <1>1, SameSound
<1> QED
  BY <1>2, ReqChannelSound, WaitSound DEF Search

LEMMA IdleSound ==
  ASSUME NEW d, NEW gs, NEW fw, Sound(d, gs, fw), NEW found
  PROVE  Sound(Idle(d, found), gs, fw)
<1> DEFINE f == cnmStaRecFree(d)
           rests == [d EXCEPT !.eCurrentState = "IDLE"]
           frees == [f EXCEPT !.eCurrentState = "IDLE"]
<1>1. Sound(rests, gs, fw)
  <2>1. Typed(rests) /\ Same(d, rests)
    BY DEF Sound, Typed, Drvs, States, Same, Keeps
  <2> QED
    BY <2>1, SameSound
<1>2. Sound(frees, gs, fw)
  <2>1. Sound(f, gs, fw)
    BY FreeSound
  <2>2. Typed(frees) /\ Same(f, frees)
    <3> HIDE DEF f
    <3> QED
      BY <2>1 DEF Sound, Typed, Drvs, States, Same, Keeps
  <2> QED
    BY <2>1, <2>2, SameSound
<1> QED
  BY <1>1, <1>2, SearchSound DEF Idle

(* A join begins when the grant of the last request has been taken and no  *)
(* abort for SAA waits.  Nothing of what waits is about the new join.      *)
LEMMA InitJoinSound ==
  ASSUME NEW d, NEW gs, NEW fw, Sound(d, gs, fw),
         Joined(d, gs, fw), NoAbortWaits(d.mbox)
  PROVE  Sound(aisFsmStateInit_JOIN(d), gs, fw)
<1> DEFINE n == d.ucSeqNumOfReqMsg + 1
           limit == IF d.eConnectionState THEN 1 ELSE 2
           new == [NoSta EXCEPT !.fgIsInUse = TRUE, !.owner = n,
                                !.ucTxAuthAssocRetryLimit = limit]
           e == [d EXCEPT !.eCurrentState = "JOIN", !.sta = new,
                          !.prStaRecOfAP = TRUE, !.prTargetStaRec = TRUE,
                          !.ucSeqNumOfReqMsg = n, !.prPendingSAAMsg = n,
                          !.fgIsCfg80211Connecting = TRUE]
<1>1. /\ n \in Nat /\ n = d.ucSeqNumOfReqMsg + 1 /\ d.ucSeqNumOfReqMsg \in Nat
      /\ limit \in 1 .. 2
  BY StaTyped DEF Sound
<1>2. new \in StaType /\ new.owner = n /\ new.ucAuthAssocReqSeqNum = 0
  <2> HIDE DEF n, limit
  <2>1. NoSta \in StaType /\ NoSta.ucAuthAssocReqSeqNum = 0
    BY DEF NoSta, StaType
  <2> QED
    BY <1>1, <2>1 DEF StaType
<1>3. Typed(e)
  <2> HIDE DEF n, new
  <2> QED
    BY <1>1, <1>2 DEF Sound, Typed, Drvs, States
<1>4. /\ e.mbox = d.mbox /\ e.prPendingSAAMsg = n /\ e.ucSeqNumOfReqMsg = n
      /\ e.ucSeqNumOfChReq = d.ucSeqNumOfChReq
      /\ e.ucSeqNumOfChAbort = d.ucSeqNumOfChAbort
      /\ e.fgIsChannelRequested = d.fgIsChannelRequested
      /\ e.sta = new /\ e.eCurrentState = "JOIN"
  <2> HIDE DEF n, new
  <2> QED
    BY DEF Sound, Typed, Drvs
<1> HIDE DEF n, new
<1>5. Starts(d.mbox, n, 0, n)
  <2>1. d.mbox \in Seq(Messages)
    BY StaTyped DEF Sound
  <2>2. \A i \in 1 .. Len(d.mbox) :
          d.mbox[i].type = "saaStart" => d.mbox[i].seq \in Nat
    BY <2>1, KindsTyped
  <2>3. Starts(d.mbox, d.ucSeqNumOfReqMsg, d.sta.ucAuthAssocReqSeqNum,
               d.prPendingSAAMsg)
    BY DEF Sound, Mail
  <2>4. \A i \in 1 .. Len(d.mbox) :
          d.mbox[i].type = "saaStart" =>
            d.mbox[i].seq <= n /\ d.mbox[i].seq \notin {0, n}
    BY <1>1, <2>2, <2>3 DEF Starts
  <2> QED
    BY <2>3, <2>4 DEF Starts
<1>6. AbortsFirst(d.mbox, n, d.ucSeqNumOfChReq)
  BY DEF NoAbortWaits, AbortsFirst
<1>7. Sound(e, gs, fw)
  <2> HIDE DEF e
  <2>1. Numbers(e) /\ Channel(e)
    BY <1>1, <1>2, <1>4 DEF Sound, Numbers, Channel
  <2>2. Mail(e, gs, fw)
    BY <1>2, <1>4, <1>5, <1>6 DEF Sound, Mail
  <2>3. Joined(e, gs, fw)
    BY <1>4 DEF Joined
  <2> QED
    BY <1>3, <1>4, <2>1, <2>2, <2>3 DEF Sound
<1> QED
  BY <1>7, ChangeStateSound DEF aisFsmStateInit_JOIN, n, new

LEMMA JoinSound ==
  ASSUME NEW d, NEW gs, NEW fw, Sound(d, gs, fw), NEW found,
         Joined(d, gs, fw), NoAbortWaits(d.mbox)
  PROVE  Sound(Join(d, found), gs, fw)
  BY InitJoinSound, IdleSound DEF Join

LEMMA JoinFailureSound ==
  ASSUME NEW d, NEW gs, NEW fw, Sound(d, gs, fw), NEW found
  PROVE  Sound(JoinFailure(d, found), gs, fw)
<1> DEFINE e == [d EXCEPT !.fgIsDisconnectedByNonRequest = TRUE]
<1>1. Typed(e) /\ Same(d, e)
  BY DEF Sound, Typed, Drvs, Same, Keeps
<1>2. Sound(e, gs, fw)
  BY <1>1, SameSound
<1> QED
  BY <1>2, IdleSound DEF JoinFailure

LEMMA DisconnectingSound ==
  ASSUME NEW d, NEW gs, NEW fw, Sound(d, gs, fw), NEW sent
  PROVE  Sound(Disconnecting(d, sent), gs, fw)
<1>1. Typed(Disconnecting(d, sent))
  BY DisconnectingTyped DEF Sound
<1>2. Same(d, Disconnecting(d, sent))
  BY DEF Sound, Typed, Drvs, Same, Keeps, Disconnecting
<1> QED
  BY <1>1, <1>2, SameSound

LEMMA DisconnectSound ==
  ASSUME NEW d, NEW gs, NEW fw, Sound(d, gs, fw),
         NEW reason, NEW found
  PROVE  Sound(aisFsmDisconnect(d, reason, found), gs, fw)
<1> DEFINE e == [d EXCEPT !.eConnectionState = FALSE, !.prStaRecOfAP = FALSE]
           i == aisIndicationOfMediaStateToHost(e, reason)
<1>1. Sound(e, gs, fw)
  <2>1. Typed(e) /\ Same(d, e)
    BY DEF Sound, Typed, Drvs, Same, Keeps
  <2> QED
    BY <2>1, SameSound
<1>2. Sound(i, gs, fw)
  <2> HIDE DEF e
  <2>1. Typed(i)
    BY <1>1, IndicationTyped DEF Sound
  <2>2. Same(e, i)
    BY <1>1 DEF Sound, Typed, Drvs, Same, Keeps, aisIndicationOfMediaStateToHost
  <2> QED
    BY <1>1, <2>1, <2>2, SameSound
<1> QED
  BY <1>2, IdleSound DEF aisFsmDisconnect

-----------------------------------------------------------------------------
(***************************************************************************)
(* Soundness: aborts                                                       *)
(***************************************************************************)

LEMMA StoppedSound ==
  ASSUME NEW d, NEW gs, NEW fw, Sound(d, gs, fw)
  PROVE  Sound(Stopped(d), gs, fw)
<1> DEFINE e == [d EXCEPT !.rBGScanTimer = FALSE]
<1>1. Typed(e) /\ Same(d, e)
  BY DEF Sound, Typed, Drvs, Same, Keeps
<1>2. Sound(e, gs, fw)
  BY <1>1, SameSound
<1> QED
  BY <1>2, ReleaseSound, AbortJoinSound, AbortNormalTrSound DEF Stopped

LEMMA TeardownSound ==
  ASSUME NEW d, NEW gs, NEW fw, Sound(d, gs, fw),
         NEW checks, NEW reason, NEW found, NEW sent
  PROVE  Sound(Teardown(d, checks, reason, found, sent), gs, fw)
  BY DisconnectingSound, AbortNormalTrSound, DisconnectSound DEF Teardown

LEMMA StateAbortSound ==
  ASSUME NEW d, NEW gs, NEW fw, Sound(d, gs, fw),
         NEW reason, NEW found, NEW sent
  PROVE  Sound(aisFsmStateAbort(d, reason, found, sent), gs, fw)
<1> DEFINE s == Stopped(d)
           e == [s EXCEPT !.recent = TRUE]
           f == [d EXCEPT !.recent = TRUE]
<1>1. Sound(f, gs, fw)
  <2>1. Typed(f) /\ Same(d, f)
    BY DEF Sound, Typed, Drvs, Same, Keeps
  <2> QED
    BY <2>1, SameSound
<1>2. Sound(s, gs, fw)
  BY StoppedSound
<1>3. Sound(e, gs, fw)
  <2> HIDE DEF s
  <2>1. Typed(e) /\ Same(s, e)
    BY <1>2 DEF Sound, Typed, Drvs, Same, Keeps
  <2> QED
    BY <1>2, <2>1, SameSound
<1>4. Sound(Teardown(e, ChecksConnected(d), reason, found, sent), gs, fw)
  <2> HIDE DEF e
  <2> QED
    BY <1>3, TeardownSound
<1> QED
  BY <1>1, <1>4 DEF aisFsmStateAbort

LEMMA ReconnectSound ==
  ASSUME NEW d, NEW gs, NEW fw, Sound(d, gs, fw), NEW found
  PROVE  Sound(Reconnect(d, found), gs, fw)
<1> DEFINE notes == [d EXCEPT !.fgIsCfg80211Connecting = FALSE,
                              !.fgIsConnReqIssued = TRUE]
           over == [d EXCEPT !.fgIsConnReqIssued = TRUE,
                             !.fgIsDisconnectedByNonRequest = FALSE]
<1>1. Typed(notes) /\ Typed(over)
  BY DEF Sound, Typed, Drvs
<1>2. Same(d, notes) /\ Same(d, over)
  BY DEF Sound, Typed, Drvs, Same, Keeps
<1>3. Sound(notes, gs, fw) /\ Sound(over, gs, fw)
  BY <1>1, <1>2, SameSound
<1> QED
  BY <1>3, IdleSound DEF Reconnect

LEMMA RunEventAbortSound ==
  ASSUME NEW d, NEW gs, NEW fw, Sound(d, gs, fw),
         NEW reason, NEW found, NEW sent
  PROVE  Sound(aisFsmRunEventAbort(d, reason, found, sent), gs, fw)
  BY StateAbortSound, ReconnectSound DEF aisFsmRunEventAbort

LEMMA DisassociateSound ==
  ASSUME NEW d, NEW gs, NEW fw, Sound(d, gs, fw)
  PROVE  Sound(wlanoidSetDisassociate(d), gs, fw)
<1> DEFINE e == [d EXCEPT !.fgIsConnReqIssued = FALSE]
<1>1. Typed(e) /\ Same(d, e)
  BY DEF Sound, Typed, Drvs, Same, Keeps
<1>2. Sound(e, gs, fw)
  BY <1>1, SameSound
<1> QED
  BY <1>2, PostAbortSound DEF wlanoidSetDisassociate, Reasons

-----------------------------------------------------------------------------
(***************************************************************************)
(* Soundness: the end of a join                                            *)
(***************************************************************************)

LEMMA JoinSucceedsSound ==
  ASSUME NEW d, NEW gs, NEW fw, Sound(d, gs, fw)
  PROVE  Sound(JoinSucceeds(d), gs, fw)
<1> DEFINE r == aisFsmRoamingDisconnectPrevAP(d)
           f == IF d.eConnectionState THEN r ELSE d
           e == [f EXCEPT !.eConnectionState = TRUE,
                          !.eConnectionStateIndicated = TRUE, !.prStaRecOfAP = TRUE]
           c == cnmStaRecChangeState(e, 3)
           n == [c EXCEPT !.fgIsCfg80211Connecting = FALSE,
                          !.eCurrentState = "NORMAL_TR"]
<1>1. Sound(f, gs, fw)
  <2>1. Typed(r)
    BY RoamingTyped DEF Sound
  <2>2. Same(d, r)
    BY DEF Sound, Typed, Drvs, Same, Keeps, aisFsmRoamingDisconnectPrevAP
  <2> QED
    BY <2>1, <2>2, SameSound
<1>2. Sound(e, gs, fw)
  <2> HIDE DEF f
  <2>1. Typed(e) /\ Same(f, e)
    BY <1>1 DEF Sound, Typed, Drvs, Same, Keeps
  <2> QED
    BY <1>1, <2>1, SameSound
<1>3. Sound(c, gs, fw)
  <2> HIDE DEF e
  <2>1. 3 \in 1 .. 3
    OBVIOUS
  <2> QED
    BY <1>2, <2>1, ChangeStateSound, Zenon
<1>4. Sound(n, gs, fw)
  <2> HIDE DEF c
  <2>1. Typed(n) /\ Same(c, n)
    BY <1>3 DEF Sound, Typed, Drvs, States, Same, Keeps
  <2> QED
    BY <1>3, <2>1, SameSound
<1> QED
  BY <1>4 DEF JoinSucceeds, Connect

LEMMA WithdrawSound ==
  ASSUME NEW d, NEW gs, NEW fw, Sound(d, gs, fw)
  PROVE  Sound(Withdraw(d), gs, fw)
<1> DEFINE r == aisFsmReleaseCh(d)
           c == [r EXCEPT !.rJoinTimeoutTimer = FALSE]
<1>1. Sound(r, gs, fw)
  BY ReleaseSound
<1>2. Sound(c, gs, fw)
  <2> HIDE DEF r
  <2>1. Typed(c)
    BY <1>1, FlagsTyped DEF Sound
  <2>2. Same(r, c)
    BY <1>1 DEF Sound, Typed, Drvs, Same, Keeps
  <2> QED
    BY <1>1, <2>1, <2>2, SameSound
<1> HIDE DEF c
<1> QED
  BY <1>2, FreeSound DEF Withdraw, c

LEMMA JoinFailsSound ==
  ASSUME NEW d, NEW gs, NEW fw, Sound(d, gs, fw), NEW status, NEW e \in Ends
  PROVE  Sound(JoinFails(d, status, e), gs, fw)
<1> DEFINE w == Withdraw(d)
           again == [w EXCEPT !.sta.fgIsTxAllowed = @ \/ d.prStaRecOfAP]
           over == [w EXCEPT !.fgIsCfg80211Connecting = FALSE]
           waits == [again EXCEPT !.prTargetBssDesc = e.found,
                                  !.prTargetStaRec = d.prStaRecOfAP]
<1>1. d.prStaRecOfAP \in BOOLEAN /\ e.found \in BOOLEAN
  BY DEF Sound, Typed, Drvs, Ends
<1>2. Sound(w, gs, fw)
  BY WithdrawSound
<1> HIDE DEF w
<1>3. Sound(again, gs, fw)
  <2> DEFINE s == [w.sta EXCEPT !.fgIsTxAllowed = @ \/ d.prStaRecOfAP]
  <2>1. s \in StaType
    BY <1>1, <1>2 DEF Sound, Typed, Drvs, StaType
  <2>2. Typed(again)
    BY <1>2, <2>1 DEF Sound, Typed, Drvs
  <2>3. Same(w, again)
    BY <1>2 DEF Sound, Typed, Drvs, StaType, Same, Keeps
  <2> QED
    BY <1>2, <2>2, <2>3, SameSound
<1>4. Sound(over, gs, fw)
  <2>1. Typed(over)
    BY <1>2, FlagsTyped DEF Sound
  <2>2. Same(w, over)
    BY <1>2 DEF Sound, Typed, Drvs, Same, Keeps
  <2> QED
    BY <1>2, <2>1, <2>2, SameSound
<1> HIDE DEF again, over
<1>5. Sound(waits, gs, fw)
  <2> DEFINE bss == e.found
             sta == d.prStaRecOfAP
             x == [again EXCEPT !.prTargetBssDesc = bss, !.prTargetStaRec = sta]
  <2>1. bss \in BOOLEAN /\ sta \in BOOLEAN
    BY <1>1
  <2>2. Sound(x, gs, fw)
    <3> HIDE DEF bss, sta
    <3>1. Typed(x)
      BY <1>3, <2>1 DEF Sound, Typed, Drvs
    <3>2. Same(again, x)
      BY <1>3, <2>1 DEF Sound, Typed, Drvs, Same, Keeps
    <3> QED
      BY <1>3, <3>1, <3>2, SameSound
  <2> QED
    BY <2>2
<1> HIDE DEF waits
<1>6. /\ Sound(JoinFailure(over, e.found), gs, fw)
      /\ Sound(wlanoidSetDisassociate(again), gs, fw)
      /\ Sound(WaitForNextScan(waits), gs, fw)
  BY <1>3, <1>4, <1>5, JoinFailureSound, DisassociateSound, WaitSound
<1> QED
  BY <1>6 DEF JoinFails, w, again, over, waits

LEMMA SendCompleteSound ==
  ASSUME NEW d, NEW gs, NEW fw, Sound(d, gs, fw), NEW status, NEW e \in Ends
  PROVE  Sound(saaFsmSendEventJoinComplete(d, status, e), gs, fw)
  BY JoinSucceedsSound, JoinFailsSound
     DEF saaFsmSendEventJoinComplete, aisFsmRunEventJoinComplete

-----------------------------------------------------------------------------
(***************************************************************************)
(* Soundness: SAA                                                          *)
(***************************************************************************)

LEMMA TransmitSound ==
  ASSUME NEW d, NEW gs, NEW fw, Sound(d, gs, fw),
         NEW kind \in Frames, NEW sent
  PROVE  Sound(Transmit(d, kind, sent), gs, fw)
<1> DEFINE notes == [d EXCEPT !.sta.eAuthAssocSent = kind]
           sends == [d EXCEPT !.sta.eAuthAssocSent = kind,
                              !.frames = @ \cup {kind}, !.air = @ \cup {kind}]
<1>1. [d.sta EXCEPT !.eAuthAssocSent = kind] \in StaType
  BY StaTyped DEF Sound, StaType
<1>2. Typed(notes) /\ Typed(sends)
  BY <1>1 DEF Sound, Typed, Drvs
<1>3. Same(d, notes) /\ Same(d, sends)
  BY DEF Sound, Typed, Drvs, StaType, Same, Keeps
<1>4. Sound(notes, gs, fw) /\ Sound(sends, gs, fw)
  BY <1>2, <1>3, SameSound
<1> QED
  BY <1>4, TimerSound DEF Transmit

LEMMA SendAssocSound ==
  ASSUME NEW d, NEW gs, NEW fw, Sound(d, gs, fw), NEW sent
  PROVE  Sound(SendAssoc(d, sent), gs, fw)
  BY ChangeStateSound, TransmitSound DEF SendAssoc, Frames

LEMMA SendAuthAssocSound ==
  ASSUME NEW d, NEW gs, NEW fw, Sound(d, gs, fw),
         NEW sent, NEW e \in Ends
  PROVE  Sound(saaSendAuthAssoc(d, sent, e), gs, fw)
<1> DEFINE tries == d.sta.ucTxAuthAssocRetryCount
           limit == d.sta.ucTxAuthAssocRetryLimit
           again == [d EXCEPT !.sta.ucTxAuthAssocRetryCount = @ + 1]
           armed == [d EXCEPT !.sta.ucStaState = 3]
<1>1. tries \in 0 .. 2 /\ limit \in 1 .. 2
  BY StaTyped DEF Sound, StaType
<1>2. ASSUME ~(tries >= limit) PROVE Sound(again, gs, fw)
  <2> DEFINE n == tries + 1
  <2>1. n \in 0 .. 2
    BY <1>1, <1>2
  <2> HIDE DEF n
  <2>2. Typed([d EXCEPT !.sta.ucTxAuthAssocRetryCount = n])
    <3>1. d.sta \in StaType
      BY StaTyped DEF Sound
    <3>2. [d.sta EXCEPT !.ucTxAuthAssocRetryCount = n] \in StaType
      BY <2>1, <3>1 DEF StaType
    <3> QED
      BY <3>2 DEF Sound, Typed, Drvs
  <2>3. Same(d, [d EXCEPT !.sta.ucTxAuthAssocRetryCount = n])
    BY DEF Sound, Typed, Drvs, StaType, Same, Keeps
  <2> QED
    BY <2>2, <2>3, SameSound DEF n
<1>3. Sound(armed, gs, fw)
  <2>1. Typed(armed)
    <3>1. d.sta \in StaType
      BY StaTyped DEF Sound
    <3>2. [d.sta EXCEPT !.ucStaState = 3] \in StaType
      BY <3>1 DEF StaType
    <3> QED
      BY <3>2 DEF Sound, Typed, Drvs
  <2>2. Same(d, armed)
    BY DEF Sound, Typed, Drvs, StaType, Same, Keeps
  <2> QED
    BY <2>1, <2>2, SameSound
<1>4. Sound(saaFsmSendEventJoinComplete(d, "REJECTED", e), gs, fw)
  BY SendCompleteSound
<1>5. /\ Sound(StartTimer(d), gs, fw)
      /\ Sound(StartTimer(cnmStaRecChangeState(armed, 1)), gs, fw)
  BY <1>3, TimerSound, ChangeStateSound
<1>6. ASSUME ~(tries >= limit)
      PROVE  /\ Sound(SendAssoc(again, sent), gs, fw)
             /\ Sound(Transmit(again, "AUTH", sent), gs, fw)
  BY <1>2, <1>6, SendAssocSound, TransmitSound DEF Frames
<1> HIDE DEF again, armed
<1> QED
  BY <1>1, <1>4, <1>5, <1>6 DEF saaSendAuthAssoc, again, armed

(* SAA takes the start of a join that none of the other starts is for.     *)
LEMMA SaaStartSound ==
  ASSUME NEW d, NEW gs, NEW fw, Sound(d, gs, fw),
         NEW n \in Nat, NEW sent, NEW e \in Ends, n # d.prPendingSAAMsg,
         Starts(d.mbox, d.ucSeqNumOfReqMsg, n, d.prPendingSAAMsg)
  PROVE  Sound(saaFsmRunEventStart(d, n, sent, e), gs, fw)
<1> DEFINE c == [d EXCEPT !.sta.ucAuthAssocReqSeqNum = n,
                          !.sta.ucTxAuthAssocRetryCount = 0]
<1>1. Typed(c)
  <2> DEFINE t == [d.sta EXCEPT !.ucAuthAssocReqSeqNum = n]
  <2>1. t \in StaType
    BY StaTyped DEF Sound, StaType
  <2>2. [t EXCEPT !.ucTxAuthAssocRetryCount = 0] \in StaType
    <3> HIDE DEF t
    <3> QED
      BY <2>1 DEF StaType
  <2>3. c = [d EXCEPT !.sta = [t EXCEPT !.ucTxAuthAssocRetryCount = 0]]
    BY StaTyped DEF Sound, Typed, Drvs, StaType
  <2> HIDE DEF t, c
  <2> QED
    BY <2>2, <2>3, NewStaTyped DEF Sound
<1>2. /\ c.mbox = d.mbox /\ c.prPendingSAAMsg = d.prPendingSAAMsg
      /\ c.ucSeqNumOfReqMsg = d.ucSeqNumOfReqMsg
      /\ c.ucSeqNumOfChReq = d.ucSeqNumOfChReq
      /\ c.ucSeqNumOfChAbort = d.ucSeqNumOfChAbort
      /\ c.fgIsChannelRequested = d.fgIsChannelRequested
      /\ c.sta.ucAuthAssocReqSeqNum = n /\ c.sta.owner = d.sta.owner
      /\ c.eCurrentState = d.eCurrentState
  BY DEF Sound, Typed, Drvs, StaType
<1>3. Sound(c, gs, fw)
  <2> HIDE DEF c
  <2>1. Numbers(c) /\ Channel(c) /\ Mail(c, gs, fw)
    BY <1>2 DEF Sound, Numbers, Channel, Mail
  <2> QED
    BY <1>1, <1>2, <2>1 DEF Sound, Joined
<1>4. Sound(StopTimer(c), gs, fw)
  BY <1>3, TimerSound
<1> HIDE DEF c
<1> QED
  BY <1>4, SendAuthAssocSound DEF saaFsmRunEventStart, c

LEMMA NoRetrySound ==
  ASSUME NEW d, NEW gs, NEW fw, Sound(d, gs, fw)
  PROVE  Sound([d EXCEPT !.sta.ucTxAuthAssocRetryCount = 0], gs, fw)
<1> DEFINE e == [d EXCEPT !.sta.ucTxAuthAssocRetryCount = 0]
<1>1. Same(d, e)
  BY DEF Sound, Typed, Drvs, StaType, Same, Keeps
<1>2. Typed(e)
  BY NoRetryTyped DEF Sound
<1> QED
  BY <1>1, <1>2, SameSound

LEMMA SaaAbortSound ==
  ASSUME NEW d, NEW gs, NEW fw, Sound(d, gs, fw)
  PROVE  Sound(saaFsmRunEventAbort(d), gs, fw)
  BY NoRetrySound, TimerSound, FreeSound DEF saaFsmRunEventAbort

LEMMA SaaTxDoneSound ==
  ASSUME NEW d, NEW gs, NEW fw, Sound(d, gs, fw),
         NEW kind, NEW sent, NEW e \in Ends,
         NEW status \in {"SUCCESS", "LIFE_TIMEOUT", "DROPPED_IN_DRIVER"}
  PROVE  Sound(saaFsmRunEventTxDone(d, kind, status, sent, e), gs, fw)
  BY NoRetrySound, TimerSound, SendAuthAssocSound DEF saaFsmRunEventTxDone

LEMMA SaaRxAuthSound ==
  ASSUME NEW d, NEW gs, NEW fw, Sound(d, gs, fw), NEW status, NEW e \in Ends
  PROVE  Sound(saaFsmRunEventRxAuth(d, status, e), gs, fw)
<1> DEFINE ok == (status = "SUCCESS")
           f == [d EXCEPT !.sta.ucTxAuthAssocRetryCount = 0]
           g == [f EXCEPT !.authed = ok]
           c == StopTimer([d EXCEPT !.sta.ucTxAuthAssocRetryCount = 0, !.authed = ok])
<1>1. Sound(f, gs, fw)
  BY NoRetrySound
<1>2. ok \in BOOLEAN
  OBVIOUS
<1>3. g = [d EXCEPT !.sta.ucTxAuthAssocRetryCount = 0, !.authed = ok]
  <2> HIDE DEF ok
  <2> QED
    BY DEF Sound, Typed, Drvs
<1>4. Sound(g, gs, fw)
  <2> HIDE DEF f, ok
  <2>1. Typed(g) /\ Same(f, g)
    BY <1>1, <1>2 DEF Sound, Typed, Drvs, Same, Keeps
  <2> QED
    BY <1>1, <2>1, SameSound
<1>5. Sound(c, gs, fw)
  <2> HIDE DEF g, ok
  <2> QED
    BY <1>3, <1>4, TimerSound
<1> HIDE DEF c
<1>6. Sound(saaFsmSendEventJoinComplete(c, status, e), gs, fw)
  BY <1>5, SendCompleteSound
<1> QED
  BY <1>5, <1>6 DEF saaFsmRunEventRxAuth, c

LEMMA SaaRxAssocSound ==
  ASSUME NEW d, NEW gs, NEW fw, Sound(d, gs, fw), NEW status, NEW e \in Ends
  PROVE  Sound(saaFsmRunEventRxAssoc(d, status, e), gs, fw)
<1> DEFINE f == [d EXCEPT !.sta.ucTxAuthAssocRetryCount = 0]
           g == [f EXCEPT !.sta.eAuthAssocSent = "NONE"]
           c == StopTimer([d EXCEPT !.sta.ucTxAuthAssocRetryCount = 0,
                                    !.sta.eAuthAssocSent = "NONE"])
<1>1. Sound(f, gs, fw)
  BY NoRetrySound
<1>2. Sound(g, gs, fw)
  <2> HIDE DEF f
  <2>1. f.sta \in StaType
    BY <1>1, StaTyped DEF Sound
  <2>2. [f.sta EXCEPT !.eAuthAssocSent = "NONE"] \in StaType
    BY <2>1 DEF StaType
  <2>3. Typed(g)
    BY <1>1, <2>2, NewStaTyped DEF Sound
  <2>4. Same(f, g)
    BY <1>1 DEF Sound, Typed, Drvs, StaType, Same, Keeps
  <2> QED
    BY <1>1, <2>3, <2>4, SameSound
<1>3. g = [d EXCEPT !.sta.ucTxAuthAssocRetryCount = 0, !.sta.eAuthAssocSent = "NONE"]
  BY DEF Sound, Typed, Drvs
<1>4. Sound(c, gs, fw)
  <2> HIDE DEF g
  <2> QED
    BY <1>2, <1>3, TimerSound
<1> HIDE DEF c
<1>5. Sound(saaFsmSendEventJoinComplete(c, status, e), gs, fw)
  BY <1>4, SendCompleteSound
<1> QED
  BY <1>5 DEF saaFsmRunEventRxAssoc, c

LEMMA SaaRxDeauthSound ==
  ASSUME NEW d, NEW gs, NEW fw, Sound(d, gs, fw)
  PROVE  Sound(saaFsmRunEventRxDeauth(d), gs, fw)
  BY ChangeStateSound, PostAbortSound DEF saaFsmRunEventRxDeauth, Reasons

-----------------------------------------------------------------------------
(***************************************************************************)
(* Soundness: grants, and the answers of the firmware                      *)
(***************************************************************************)

(* The only grant that AIS takes in REQ_CHANNEL_JOIN is that of its last   *)
(* request, whether cfg80211 connects or not.                              *)
LEMMA GrantSound ==
  ASSUME NEW d, NEW gs, NEW fw, Sound(d, gs, fw),
         NEW token \in Nat, NEW found,
         token <= fw, Consumed(d.mbox, gs, token),
         token >= d.ucSeqNumOfChReq => NoAbortWaits(d.mbox)
  PROVE  Sound(aisFsmRunEventChGrant(d, token, found), gs, fw)
<1> DEFINE e == [d EXCEPT !.rJoinTimeoutTimer = TRUE, !.fgIsChannelGranted = TRUE]
           taken == \/ d.fgIsCfg80211Connecting /\ token = d.ucSeqNumOfChReq
                    \/ ~d.fgIsCfg80211Connecting /\ token > d.ucSeqNumOfChAbort
<1>1. Typed(e) /\ Same(d, e)
  BY DEF Sound, Typed, Drvs, Same, Keeps
<1>2. Sound(e, gs, fw) /\ e.mbox = d.mbox
      /\ e.ucSeqNumOfChReq = d.ucSeqNumOfChReq
  BY <1>1, SameSound DEF Same, Keeps
<1>3. ASSUME taken
      PROVE  Sound(Join(e, found), gs, fw)
  <2>1. /\ d.ucSeqNumOfChReq \in Nat /\ d.ucSeqNumOfChAbort \in Nat /\ fw \in Nat
        /\ fw <= d.ucSeqNumOfChReq
        /\ d.ucSeqNumOfChReq <= d.ucSeqNumOfChAbort + 1
    BY StaTyped DEF Sound, Mail, Channel
  <2>2. token = d.ucSeqNumOfChReq \/ token > d.ucSeqNumOfChAbort
    BY <1>3
  <2>3. token = d.ucSeqNumOfChReq /\ fw = d.ucSeqNumOfChReq
    BY <2>1, <2>2
  <2>4. NoAbortWaits(d.mbox)
    BY <2>1, <2>3
  <2> HIDE DEF e
  <2>5. Joined(e, gs, fw)
    BY <1>2, <2>3 DEF Joined
  <2> QED
    BY <1>2, <2>4, <2>5, JoinSound
<1> HIDE DEF e
<1> QED
  BY <1>3, ReleaseSound DEF aisFsmRunEventChGrant, e

LEMMA CmdResultSound ==
  ASSUME NEW d, NEW gs, NEW fw, Sound(d, gs, fw),
         NEW done \in BOOLEAN
  PROVE  Sound(nicUniCmdStaRecHandleEventPkt(d, done), gs, fw)
<1> DEFINE e == [d EXCEPT !.sta.fgIsValid = @ \/ ~d.sta.fgIsTxAllowed,
                          !.sta.fgIsTxAllowed = TRUE]
<1>1. Sound(e, gs, fw)
  <2>1. Typed(e)
    <3> DEFINE b == d.sta.fgIsValid \/ ~d.sta.fgIsTxAllowed
    <3>1. b \in BOOLEAN
      OBVIOUS
    <3>2. [d.sta EXCEPT !.fgIsValid = b, !.fgIsTxAllowed = TRUE] \in StaType
      <4> HIDE DEF b
      <4> QED
        BY <3>1, StaTyped DEF Sound, StaType
    <3>3. e = [d EXCEPT !.sta = [d.sta EXCEPT !.fgIsValid = b, !.fgIsTxAllowed = TRUE]]
      BY DEF Sound, Typed, Drvs, StaType
    <3> HIDE DEF b, e
    <3> QED
      BY <3>2, <3>3, NewStaTyped DEF Sound
  <2>2. Same(d, e)
    BY DEF Sound, Typed, Drvs, StaType, Same, Keeps
  <2> QED
    BY <2>1, <2>2, SameSound
<1>2. CASE ~done \/ ~d.sta.fgIsInUse
  BY <1>2 DEF nicUniCmdStaRecHandleEventPkt
<1>3. CASE done /\ d.sta.fgIsInUse /\ d.sta.ucStaState < 3
  <2>1. d.sta.ucStaState + 1 \in 1 .. 3
    BY <1>3, StaTyped DEF Sound
  <2> QED
    BY <1>3, <2>1, ChangeStateSound DEF nicUniCmdStaRecHandleEventPkt
<1>4. CASE done /\ d.sta.fgIsInUse /\ ~(d.sta.ucStaState < 3)
  BY <1>1, <1>4, FirePendingSound DEF nicUniCmdStaRecHandleEventPkt
<1> QED
  BY <1>2, <1>3, <1>4

LEMMA JoinTimesOutSound ==
  ASSUME NEW d, NEW gs, NEW fw, Sound(d, gs, fw), NEW sent
  PROVE  Sound(JoinTimesOut(d, sent), gs, fw)
  BY AbortJoinSound, DisconnectingSound, ReleaseSound DEF JoinTimesOut

-----------------------------------------------------------------------------
(***************************************************************************)
(* Soundness: the steps                                                    *)
(***************************************************************************)

LEMMA OidSound ==
  ASSUME Sound(drv, grants, fwGranted),
         wlanoidSetConnect \/ OidLeave
  PROVE  Sound(drv', grants', fwGranted')
<1> DEFINE d == [drv EXCEPT !.fgIsConnReqIssued = TRUE]
<1>1. Typed(d) /\ Same(drv, d)
  BY DEF Sound, Typed, Drvs, Same, Keeps
<1>2. Sound(d, grants, fwGranted)
  BY <1>1, SameSound
<1>3. UNCHANGED <<grants, fwGranted>>
  BY DEF wlanoidSetConnect, OidLeave
<1>4. CASE wlanoidSetConnect
  BY <1>2, <1>3, <1>4, PostAbortSound DEF wlanoidSetConnect, Leaves, Reasons
<1>5. CASE OidLeave
  BY <1>3, <1>5, DisassociateSound DEF OidLeave, Leaves
<1> QED
  BY <1>4, <1>5

LEMMA MboxSound ==
  ASSUME Sound(drv, grants, fwGranted), mboxRcvAllMsg
  PROVE  Sound(drv', grants', fwGranted')
<1> DEFINE m == drv.mbox
           msg == Head(m)
           d == [drv EXCEPT !.mbox = Tail(@)]
           num == drv.sta.ucAuthAssocReqSeqNum
           req == drv.ucSeqNumOfReqMsg
           ch == drv.ucSeqNumOfChReq
           pending == drv.prPendingSAAMsg
<1>1. m # <<>> /\ m \in Seq(Messages) /\ msg \in Messages /\ Typed(d)
  BY HeadTyped, StaTyped DEF mboxRcvAllMsg, Sound
<1>2. /\ d.mbox = Tail(m) /\ d.prPendingSAAMsg = pending
      /\ d.ucSeqNumOfReqMsg = req
      /\ d.ucSeqNumOfChReq = ch
      /\ d.ucSeqNumOfChAbort = drv.ucSeqNumOfChAbort
      /\ d.fgIsChannelRequested = drv.fgIsChannelRequested
      /\ d.sta = drv.sta /\ d.eCurrentState = drv.eCurrentState
  BY DEF Sound, Typed, Drvs
<1>3. Rest(m, req, num, pending, drv.sta.owner, ch, grants, fwGranted)
  <2>1. /\ req \in Nat /\ drv.sta.owner \in Nat /\ ch \in Nat
        /\ fwGranted \in Nat
        /\ Starts(m, req, num, pending)
        /\ AbortsFirst(m, drv.sta.owner, ch)
        /\ GrantsOnce(m, grants, fwGranted)
    BY StaTyped DEF Sound, Mail
  <2> HIDE DEF m, num, req, ch, pending
  <2> QED
    BY <1>1, <2>1, TakeFirst
<1>4. Sound(d, grants, fwGranted)
  <2>1. Mail(d, grants, fwGranted)
    <3> HIDE DEF d
    <3> QED
      BY <1>2, <1>3 DEF Rest, Sound, Mail, num, req, ch, pending
  <2>2. Numbers(d) /\ Channel(d)
    <3> HIDE DEF d
    <3> QED
      BY <1>2 DEF Sound, Numbers, Channel, req, ch, pending
  <2>3. d.eCurrentState = "JOIN" => Joined(d, grants, fwGranted)
    <3> HIDE DEF d
    <3> QED
      BY <1>2, <1>3 DEF Rest, Sound, Joined
  <2> HIDE DEF d
  <2> QED
    BY <1>1, <1>2, <2>1, <2>2, <2>3 DEF Sound
<1>5. UNCHANGED <<grants, fwGranted>>
  BY DEF mboxRcvAllMsg
<1>6. \/ /\ msg.type = "abort"
         /\ \E found, sent \in BOOLEAN :
              drv' = aisFsmRunEventAbort(d, msg.reason, found, sent)
      \/ /\ msg.type = "grant"
         /\ \E found \in BOOLEAN :
              drv' = aisFsmRunEventChGrant(d, msg.token, found)
      \/ /\ msg.type = "saaStart"
         /\ \E sent \in BOOLEAN, e \in Ends :
              drv' = saaFsmRunEventStart(d, msg.seq, sent, e)
      \/ drv' = saaFsmRunEventAbort(d)
  BY DEF mboxRcvAllMsg, Leaves
<1> HIDE DEF m, msg, d, num, req, ch, pending
<1>8. ASSUME msg.type = "grant", NEW found \in BOOLEAN,
             drv' = aisFsmRunEventChGrant(d, msg.token, found)
      PROVE  Sound(drv', grants, fwGranted)
  <2>1. /\ msg.token \in Nat /\ msg.token <= fwGranted
        /\ Consumed(d.mbox, grants, msg.token)
        /\ msg.token >= d.ucSeqNumOfChReq => NoAbortWaits(d.mbox)
    BY <1>2, <1>3, <1>8 DEF Rest, msg
  <2> QED
    BY <1>4, <1>8, <2>1, GrantSound
<1>9. ASSUME msg.type = "saaStart", NEW sent \in BOOLEAN, NEW e \in Ends,
             drv' = saaFsmRunEventStart(d, msg.seq, sent, e)
      PROVE  Sound(drv', grants, fwGranted)
  <2>1. /\ msg.seq \in Nat /\ msg.seq # d.prPendingSAAMsg
        /\ Starts(d.mbox, d.ucSeqNumOfReqMsg, msg.seq, d.prPendingSAAMsg)
    BY <1>2, <1>3, <1>9 DEF Rest, msg
  <2> QED
    BY <1>4, <1>9, <2>1, SaaStartSound
<1>10. Sound(drv', grants, fwGranted)
  BY <1>4, <1>6, <1>8, <1>9, RunEventAbortSound, SaaAbortSound
<1> QED
  BY <1>5, <1>10

LEMMA RxGrantSound ==
  ASSUME Sound(drv, grants, fwGranted), RxChGrant
  PROVE  Sound(drv', grants', fwGranted')
<1>1. PICK token \in grants :
        /\ grants' = grants \ {token} /\ fwGranted' = fwGranted
        /\ drv' = Post(drv, GrantMsg(token))
  BY DEF RxChGrant, Receives, Leaves
<1> DEFINE p == Append(drv.mbox, GrantMsg(token))
           e == Post(drv, GrantMsg(token))
<1>2. /\ grants \in SUBSET Nat /\ token \in Nat /\ fwGranted \in Nat
      /\ grants' \in SUBSET Nat
  BY <1>1 DEF Sound
<1>3. Typed(e)
  BY <1>2, MessagesTyped, PostTyped DEF Sound
<1>4. /\ e.mbox = p /\ e.prPendingSAAMsg = drv.prPendingSAAMsg
      /\ Keeps(drv, e)
  BY DEF Sound, Typed, Drvs, Post, Keeps
<1>8. /\ Starts(p, drv.ucSeqNumOfReqMsg, drv.sta.ucAuthAssocReqSeqNum,
                drv.prPendingSAAMsg)
      /\ AbortsFirst(p, drv.sta.owner, drv.ucSeqNumOfChReq)
      /\ GrantsOnce(p, grants', fwGranted)
      /\ Consumed(drv.mbox, grants, fwGranted) => Consumed(p, grants', fwGranted)
  <2>1. grants' = grants \ {token} /\ token \in grants
    BY <1>1
  <2>2. /\ Starts(p, drv.ucSeqNumOfReqMsg, drv.sta.ucAuthAssocReqSeqNum,
                  drv.prPendingSAAMsg)
        /\ AbortsFirst(p, drv.sta.owner, drv.ucSeqNumOfChReq)
        /\ GrantsOnce(p, grants \ {token}, fwGranted)
        /\ Consumed(drv.mbox, grants, fwGranted) =>
             Consumed(p, grants \ {token}, fwGranted)
    <3>1. /\ drv.mbox \in Seq(Messages)
          /\ drv.ucSeqNumOfReqMsg \in Nat
          /\ drv.sta.owner \in Nat /\ drv.ucSeqNumOfChReq \in Nat
          /\ Starts(drv.mbox, drv.ucSeqNumOfReqMsg, drv.sta.ucAuthAssocReqSeqNum,
                    drv.prPendingSAAMsg)
          /\ AbortsFirst(drv.mbox, drv.sta.owner, drv.ucSeqNumOfChReq)
          /\ GrantsOnce(drv.mbox, grants, fwGranted)
      BY MailTyped
    <3> QED
      BY <1>2, <2>1, <3>1, PostGrant
  <2> QED
    BY <2>1, <2>2
<1>5. Mail(e, grants', fwGranted)
  <2> HIDE DEF p, e
  <2> QED
    BY <1>4, <1>8, MailTyped DEF Mail, Keeps
<1>6. Joined(drv, grants, fwGranted) => Joined(e, grants', fwGranted)
  <2> HIDE DEF p, e
  <2> QED
    BY <1>4, <1>8 DEF Joined, Keeps
<1>7. Sound(e, grants', fwGranted)
  <2> HIDE DEF p, e
  <2>1. Numbers(e) /\ Channel(e)
    BY <1>4 DEF Sound, Keeps, Numbers, Channel
  <2>2. e.eCurrentState = "JOIN" => Joined(e, grants', fwGranted)
    BY <1>4, <1>6 DEF Sound, Keeps
  <2> QED
    BY <1>2, <1>3, <1>5, <2>1, <2>2 DEF Sound
<1> QED
  BY <1>1, <1>7

LEMMA RxSound ==
  ASSUME Sound(drv, grants, fwGranted), Rx
  PROVE  Sound(drv', grants', fwGranted')
<1>1. CASE RxChGrant
  BY <1>1, RxGrantSound
<1>2. CASE RxCmdResult
  <2> DEFINE n == drv.cmds - 1
             d == [drv EXCEPT !.cmds = n]
  <2>1. n \in Nat
    BY <1>2 DEF Sound, Typed, Drvs, RxCmdResult
  <2>2. PICK done \in BOOLEAN : drv' = nicUniCmdStaRecHandleEventPkt(d, done)
    BY <1>2 DEF RxCmdResult, Receives, Leaves, Sound, Typed, Drvs
  <2> HIDE DEF n
  <2>3. Typed(d) /\ Same(drv, d)
    BY <2>1 DEF Sound, Typed, Drvs, Same, Keeps
  <2>4. Sound(d, grants, fwGranted)
    BY <2>3, SameSound
  <2>5. UNCHANGED <<grants, fwGranted>>
    BY <1>2 DEF RxCmdResult
  <2> HIDE DEF d
  <2> QED
    BY <2>2, <2>4, <2>5, CmdResultSound
<1>3. CASE TxDone
  <2>1. PICK kind \in drv.frames \cap Frames, sent \in BOOLEAN, e \in Ends,
             status \in {"SUCCESS", "LIFE_TIMEOUT", "DROPPED_IN_DRIVER"} :
          drv' = saaFsmRunEventTxDone([drv EXCEPT !.frames = @ \ {kind}],
                                      kind, status, sent, e)
    BY <1>3 DEF TxDone, Receives, Leaves
  <2> DEFINE d == [drv EXCEPT !.frames = @ \ {kind}]
  <2>2. Typed(d) /\ Same(drv, d)
    BY DEF Sound, Typed, Drvs, Same, Keeps
  <2>3. Sound(d, grants, fwGranted)
    BY <2>2, SameSound
  <2>4. UNCHANGED <<grants, fwGranted>>
    BY <1>3 DEF TxDone
  <2> HIDE DEF d
  <2> QED
    BY <2>1, <2>3, <2>4, SaaTxDoneSound DEF d
<1>4. CASE RxAuth
  <2> DEFINE d == [drv EXCEPT !.air = @ \ {"AUTH"}]
  <2>1. Typed(d) /\ Same(drv, d)
    BY DEF Sound, Typed, Drvs, Same, Keeps
  <2>2. Sound(d, grants, fwGranted)
    BY <2>1, SameSound
  <2>3. UNCHANGED <<grants, fwGranted>>
    BY <1>4 DEF RxAuth
  <2> QED
    BY <1>4, <2>2, <2>3, SaaRxAuthSound DEF RxAuth, Receives, Leaves
<1>5. CASE RxAssoc
  <2> DEFINE d == [drv EXCEPT !.air = @ \ {"ASSOC"}]
  <2>1. Typed(d) /\ Same(drv, d)
    BY DEF Sound, Typed, Drvs, Same, Keeps
  <2>2. Sound(d, grants, fwGranted)
    BY <2>1, SameSound
  <2>3. UNCHANGED <<grants, fwGranted>>
    BY <1>5 DEF RxAssoc
  <2> QED
    BY <1>5, <2>2, <2>3, SaaRxAssocSound DEF RxAssoc, Receives, Leaves
<1>6. CASE RxDeauth
  BY <1>6, SaaRxDeauthSound DEF RxDeauth, Receives, Leaves
<1>7. CASE aisDeauthXmitComplete
  <2>1. PICK status \in {"SUCCESS", "LIFE_TIMEOUT", "DROPPED_IN_DRIVER"},
             found \in BOOLEAN :
          LET d == [drv EXCEPT !.frames = @ \ {"DEAUTH"},
                               !.rDeauthDoneTimer = @ /\ status # "SUCCESS"]
          IN drv' = IF /\ d.eCurrentState = "DISCONNECTING"
                       /\ status # "DROPPED_IN_DRIVER"
                    THEN aisFsmStateAbort(d, "DEAUTHENTICATED", found, FALSE)
                    ELSE d
    BY <1>7 DEF aisDeauthXmitComplete, Receives, Leaves
  <2> DEFINE b == drv.rDeauthDoneTimer /\ status # "SUCCESS"
             d == [drv EXCEPT !.frames = @ \ {"DEAUTH"}, !.rDeauthDoneTimer = b]
  <2>2. b \in BOOLEAN
    OBVIOUS
  <2>3. drv' = IF /\ d.eCurrentState = "DISCONNECTING"
                  /\ status # "DROPPED_IN_DRIVER"
               THEN aisFsmStateAbort(d, "DEAUTHENTICATED", found, FALSE)
               ELSE d
    BY <2>1 DEF Sound, Typed, Drvs
  <2> HIDE DEF b
  <2>4. Typed(d) /\ Same(drv, d)
    BY <2>2 DEF Sound, Typed, Drvs, Same, Keeps
  <2>5. Sound(d, grants, fwGranted)
    BY <2>4, SameSound
  <2>6. UNCHANGED <<grants, fwGranted>>
    BY <1>7 DEF aisDeauthXmitComplete
  <2> HIDE DEF d
  <2> QED
    BY <2>3, <2>5, <2>6, StateAbortSound
<1> QED
  BY <1>1, <1>2, <1>3, <1>4, <1>5, <1>6, <1>7 DEF Rx

LEMMA TimeoutsSound ==
  ASSUME Sound(drv, grants, fwGranted), Timeouts
  PROVE  Sound(drv', grants', fwGranted')
<1>1. UNCHANGED <<grants, fwGranted>>
  BY DEF Timeouts, aisFsmRunEventDeauthTimeout, aisFsmRunEventJoinTimeout,
         aisFsmRunEventBGSleepTimeOut, SaaTimeout
<1>2. CASE aisFsmRunEventDeauthTimeout
  <2> DEFINE d == [drv EXCEPT !.rDeauthDoneTimer = FALSE]
  <2>1. Typed(d) /\ Same(drv, d)
    BY DEF Sound, Typed, Drvs, Same, Keeps
  <2>2. Sound(d, grants, fwGranted)
    BY <2>1, SameSound
  <2>3. PICK found \in BOOLEAN :
          drv' = IF d.eCurrentState = "DISCONNECTING"
                 THEN aisFsmStateAbort(d, "DEAUTHENTICATED", found, FALSE)
                 ELSE d
    BY <1>2 DEF aisFsmRunEventDeauthTimeout, Leaves
  <2> HIDE DEF d
  <2> QED
    BY <1>1, <2>2, <2>3, StateAbortSound
<1>3. CASE aisFsmRunEventJoinTimeout
  <2> DEFINE d == [drv EXCEPT !.rJoinTimeoutTimer = FALSE]
  <2>1. Typed(d) /\ Same(drv, d)
    BY DEF Sound, Typed, Drvs, Same, Keeps
  <2>2. Sound(d, grants, fwGranted)
    BY <2>1, SameSound
  <2> QED
    BY <1>1, <1>3, <2>2, JoinTimesOutSound DEF aisFsmRunEventJoinTimeout, Leaves
<1>4. CASE aisFsmRunEventBGSleepTimeOut
  <2>1. Typed(drv')
    BY <1>4, TimeoutsKeepTyped DEF Timeouts, Sound
  <2>2. /\ drv'.mbox = drv.mbox /\ drv'.prPendingSAAMsg = drv.prPendingSAAMsg
        /\ drv'.ucSeqNumOfReqMsg = drv.ucSeqNumOfReqMsg
        /\ drv'.ucSeqNumOfChReq = drv.ucSeqNumOfChReq
        /\ drv'.ucSeqNumOfChAbort = drv.ucSeqNumOfChAbort
        /\ drv'.fgIsChannelRequested = drv.fgIsChannelRequested
        /\ drv'.sta = drv.sta
        /\ drv'.eCurrentState = IF drv.eCurrentState = "WAIT_FOR_NEXT_SCAN"
                                THEN "NORMAL_TR" ELSE drv.eCurrentState
    BY <1>4 DEF aisFsmRunEventBGSleepTimeOut, Leaves, Sound, Typed, Drvs
  <2>3. drv'.eCurrentState = "JOIN" => drv.eCurrentState = "JOIN"
    BY <2>2
  <2> QED
    BY <1>1, <2>1, <2>2, <2>3 DEF Sound, Numbers, Channel, Mail, Joined
<1>5. CASE SaaTimeout
  BY <1>1, <1>5, TimerSound, SendAuthAssocSound DEF SaaTimeout, Leaves
<1> QED
  BY <1>2, <1>3, <1>4, <1>5 DEF Timeouts

LEMMA Cfg80211Sound ==
  ASSUME Sound(drv, grants, fwGranted), Cfg80211 \/ Tick
  PROVE  Sound(drv', grants', fwGranted')
<1>1. UNCHANGED <<grants, fwGranted>>
  BY DEF Cfg80211, Tick, mtk_cfg80211_auth, mtk_cfg80211_auth_returns,
         mtk_cfg80211_assoc, mtk_cfg80211_disassoc
<1>2. Typed(drv')
  BY Cfg80211KeepsTyped DEF Sound
<1>3. Same(drv, drv')
  <2>1. CASE mtk_cfg80211_auth
    BY <2>1 DEF mtk_cfg80211_auth, Sound, Typed, Drvs, Same, Keeps
  <2>2. CASE mtk_cfg80211_auth_returns
    BY <2>2 DEF mtk_cfg80211_auth_returns, Sound, Typed, Drvs, Same, Keeps
  <2>3. CASE mtk_cfg80211_assoc
    BY <2>3 DEF mtk_cfg80211_assoc, Sound, Typed, Drvs, Same, Keeps
  <2>4. CASE mtk_cfg80211_disassoc
    BY <2>4 DEF mtk_cfg80211_disassoc, Sound, Typed, Drvs, Same, Keeps
  <2>5. CASE Tick
    BY <2>5 DEF Tick, Sound, Typed, Drvs, Same, Keeps
  <2> QED
    BY <2>1, <2>2, <2>3, <2>4, <2>5 DEF Cfg80211
<1> QED
  BY <1>1, <1>2, <1>3, SameSound

(* The firmware has at most the last request, and none that it granted.    *)
LEMMA FwGrantsSound ==
  ASSUME Sound(drv, grants, fwGranted), FwGrants,
         drv.fwCh \subseteq {drv.ucSeqNumOfChReq}
  PROVE  Sound(drv', grants', fwGranted')
<1>1. /\ drv' = drv /\ fwGranted' = drv.ucSeqNumOfChReq
      /\ grants' = grants \cup {drv.ucSeqNumOfChReq}
      /\ drv.ucSeqNumOfChReq > fwGranted
  BY DEF FwGrants
<1>2. /\ drv.mbox \in Seq(Messages) /\ drv.ucSeqNumOfChReq \in Nat
      /\ fwGranted \in Nat /\ grants \in SUBSET Nat
      /\ GrantsOnce(drv.mbox, grants, fwGranted)
  BY StaTyped DEF Sound, Mail
<1>3. \A i \in 1 .. Len(drv.mbox) :
        drv.mbox[i].type = "grant" =>
          /\ drv.mbox[i].token \in Nat /\ drv.mbox[i].token < drv.ucSeqNumOfChReq
          /\ drv.mbox[i].token \notin grants
  BY <1>1, <1>2, KindsTyped DEF GrantsOnce
<1>4. GrantsOnce(drv.mbox, grants', fwGranted')
  <2>1. \A g \in grants' : g <= fwGranted'
    <3>1. \A g \in grants : g \in Nat /\ g <= fwGranted
      BY <1>2 DEF GrantsOnce
    <3> QED
      BY <1>1, <1>2, <3>1
  <2>2. \A i \in 1 .. Len(drv.mbox) :
          drv.mbox[i].type = "grant" =>
            drv.mbox[i].token <= fwGranted' /\ drv.mbox[i].token \notin grants'
    BY <1>1, <1>2, <1>3
  <2> QED
    BY <1>1, <1>2, <2>1, <2>2 DEF GrantsOnce
<1>5. drv.eCurrentState # "JOIN"
  BY <1>1, <1>2 DEF Sound, Joined
<1>6. /\ grants' \in SUBSET Nat /\ fwGranted' \in Nat
      /\ fwGranted' <= drv'.ucSeqNumOfChReq
  <2>1. fwGranted' \in Nat /\ fwGranted' <= drv'.ucSeqNumOfChReq
    BY <1>1, <1>2
  <2>2. grants' \in SUBSET Nat
    BY <1>1, <1>2
  <2> QED
    BY <2>1, <2>2
<1> QED
  BY <1>1, <1>4, <1>5, <1>6 DEF Sound, Mail

LEMMA NextSound ==
  ASSUME Sound(drv, grants, fwGranted), Next,
         drv.fwCh \subseteq {drv.ucSeqNumOfChReq}
  PROVE  Sound(drv', grants', fwGranted')
<1>1. CASE NextStep
  BY <1>1 DEF NextStep
<1> QED
  BY <1>1, OidSound, MboxSound, RxSound, TimeoutsSound, Cfg80211Sound,
     FwGrantsSound
     DEF Next, MainThread

SoundInv == Sound(drv, grants, fwGranted)

LEMMA StaysSound == Spec => []SoundInv
<1>1. Init => SoundInv
  <2> SUFFICES ASSUME Init PROVE SoundInv
    OBVIOUS
  <2>1. NoSta \in StaType /\ NoSta.ucAuthAssocReqSeqNum = 0 /\ NoSta.owner = 0
    BY DEF NoSta, StaType
  <2>2. Typed(drv)
    <3> HIDE DEF NoSta
    <3> QED
      BY <2>1 DEF Init, Typed, Drvs, States
  <2>3. /\ drv.mbox = <<>> /\ grants = {} /\ fwGranted = 0
        /\ drv.eCurrentState = "IDLE" /\ drv.sta = NoSta
        /\ drv.ucSeqNumOfReqMsg = 0 /\ drv.prPendingSAAMsg = 0
        /\ drv.ucSeqNumOfChReq = 0 /\ drv.ucSeqNumOfChAbort = 0
    BY DEF Init
  <2>4. \A i : i \notin 1 .. Len(drv.mbox)
    BY <2>3
  <2>5. Numbers(drv) /\ Channel(drv)
    BY <2>1, <2>3 DEF Numbers, Channel
  <2>6. Mail(drv, grants, fwGranted)
    BY <2>3, <2>4 DEF Mail, Starts, AbortsFirst, GrantsOnce
  <2> QED
    BY <2>2, <2>3, <2>5, <2>6 DEF SoundInv, Sound
<1>2. SoundInv /\ IInv /\ [Next]_vars => SoundInv'
  <2> SUFFICES ASSUME SoundInv, IInv, [Next]_vars PROVE SoundInv'
    OBVIOUS
  <2>1. CASE Next
    BY <2>1, NextSound DEF SoundInv, IInv, Good, Kept
  <2>2. CASE UNCHANGED vars
    BY <2>2 DEF vars, SoundInv
  <2> QED
    BY <2>1, <2>2
<1> QED
  BY <1>1, <1>2, StaysGood, PTL DEF Spec

(* No path through the handlers lets a new join take the record while an   *)
(* abort for SAA waits: only the grant of a request begins a join, the     *)
(* request is made after the abort was posted, and the mailbox is a queue. *)
THEOREM AbortsMeetTheirJoin == Spec => []AbortHitsOwnJoin
<1>1. SoundInv => AbortHitsOwnJoin
  BY DEF SoundInv, Sound, Mail, AbortsFirst, AbortHitsOwnJoin
<1> QED
  BY StaysSound, <1>1, PTL

(* No answer, abort, timeout or command that comes late makes AIS post a    *)
(* second start for a join, or one for a join that is yet to be made.      *)
THEOREM SaaStartsOnce == Spec => []StartsOnce
<1>1. SoundInv => StartsOnce
  <2> SUFFICES ASSUME SoundInv, NEW i \in 1 .. Len(drv.mbox),
                      drv.mbox[i].type = "saaStart"
               PROVE  /\ drv.mbox[i].seq <= drv.sta.owner
                      /\ drv.mbox[i].seq # drv.sta.ucAuthAssocReqSeqNum
                      /\ \A j \in 1 .. Len(drv.mbox) :
                           j # i => drv.mbox[j] # drv.mbox[i]
    BY DEF StartsOnce
  <2>1. Starts(drv.mbox, drv.ucSeqNumOfReqMsg, drv.sta.ucAuthAssocReqSeqNum,
               drv.prPendingSAAMsg)
    BY DEF SoundInv, Sound, Mail
  <2>2. drv.sta.owner = drv.ucSeqNumOfReqMsg
    BY DEF SoundInv, Sound, Numbers
  <2> QED
    BY <2>1, <2>2 DEF Starts
<1> QED
  BY StaysSound, <1>1, PTL
=============================================================================
