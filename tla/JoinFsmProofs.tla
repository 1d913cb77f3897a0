---------------------------- MODULE JoinFsmProofs ----------------------------
(***************************************************************************)
(* Theorems about JoinFsm, for any number of requests, grants, messages    *)
(* and deauthentications.                                                  *)
(*                                                                         *)
(* Handlers call one another several levels deep.  The proof follows the   *)
(* calls from the bottom up: a lemma per operator says that it leaves a    *)
(* good state when it finds one (Good), or when it finds one whose record  *)
(* is in use (Live).  What the fields hold does not matter for that, only  *)
(* which fields there are (Shape).                                         *)
(***************************************************************************)
EXTENDS JoinFsm, TLAPS

Shape(d) ==
  /\ d = [f \in DOMAIN d |-> d[f]]
  /\ {"fwCh", "sta", "ucSeqNumOfChReq", "fgIsChannelRequested"} \subseteq DOMAIN d
  /\ d.sta = [f \in DOMAIN d.sta |-> d.sta[f]]
  /\ {"fgIsInUse", "rTxReqDoneOrRxRespTimer"} \subseteq DOMAIN d.sta

(* ChannelNotLeaked and NoTimerOnFree, of any state.                       *)
Kept(d) ==
  /\ d.fwCh \subseteq {d.ucSeqNumOfChReq}
  /\ d.fwCh # {} => d.fgIsChannelRequested
  /\ d.sta.rTxReqDoneOrRxRespTimer => d.sta.fgIsInUse

Good(d) == Shape(d) /\ Kept(d)

Live(d) == Good(d) /\ d.sta.fgIsInUse

-----------------------------------------------------------------------------
(***************************************************************************)
(* The record and the mailbox                                              *)
(***************************************************************************)

LEMMA PostGood ==
  ASSUME NEW d, Good(d), NEW m
  PROVE  Good(Post(d, m))
  BY DEF Good, Kept, Shape, Post

LEMMA FreeGood ==
  ASSUME NEW d, Good(d)
  PROVE  Good(cnmStaRecFree(d))
  BY DEF Good, Kept, Shape, cnmStaRecFree

LEMMA ChangeStateGood ==
  ASSUME NEW d, Good(d), NEW new
  PROVE  Good(cnmStaRecChangeState(d, new))
  BY DEF Good, Kept, Shape, cnmStaRecChangeState

LEMMA ChangeStateLive ==
  ASSUME NEW d, Live(d), NEW new
  PROVE  Live(cnmStaRecChangeState(d, new))
<1>1. Good(cnmStaRecChangeState(d, new))
  BY ChangeStateGood DEF Live
<1>2. cnmStaRecChangeState(d, new).sta.fgIsInUse
  BY DEF Live, Good, Shape, cnmStaRecChangeState
<1> QED
  BY <1>1, <1>2 DEF Live

LEMMA StopTimerGood ==
  ASSUME NEW d, Good(d)
  PROVE  Good(StopTimer(d))
  BY DEF Good, Kept, Shape, StopTimer

LEMMA StopTimerLive ==
  ASSUME NEW d, Live(d)
  PROVE  Live(StopTimer(d))
  BY DEF Live, Good, Kept, Shape, StopTimer

(* The timer of SAA is started only for a record in use.                   *)
LEMMA StartTimerLive ==
  ASSUME NEW d, Live(d)
  PROVE  Live(StartTimer(d))
  BY DEF Live, Good, Kept, Shape, StartTimer

-----------------------------------------------------------------------------
(***************************************************************************)
(* AIS: the channel and the states                                         *)
(***************************************************************************)

LEMMA ReleaseGood ==
  ASSUME NEW d, Good(d)
  PROVE  Good(aisFsmReleaseCh(d))
  BY DEF Good, Kept, Shape, aisFsmReleaseCh

LEMMA AbortNormalTrGood ==
  ASSUME NEW d, Good(d)
  PROVE  Good(aisFsmStateAbort_NORMAL_TR(d))
  BY ReleaseGood DEF Good, Kept, Shape, aisFsmStateAbort_NORMAL_TR

LEMMA AbortJoinGood ==
  ASSUME NEW d, Good(d)
  PROVE  Good(aisFsmStateAbort_JOIN(d))
<1> DEFINE e == Post(d, SaaAbortMsg(d.ucSeqNumOfReqMsg))
<1>1. Good(aisFsmReleaseCh(e))
  BY PostGood, ReleaseGood
<1> QED
  BY <1>1 DEF Good, Kept, Shape, aisFsmStateAbort_JOIN

LEMMA WaitGood ==
  ASSUME NEW d, Good(d)
  PROVE  Good(WaitForNextScan(d))
  BY DEF Good, Kept, Shape, WaitForNextScan

(* A new request replaces the number only when the firmware has no other.  *)
LEMMA ReqChannelGood ==
  ASSUME NEW d, Good(d)
  PROVE  Good(ReqChannelJoin(d))
  BY DEF Good, Kept, Shape, ReqChannelJoin, WaitForNextScan

LEMMA SearchGood ==
  ASSUME NEW d, Good(d), NEW found
  PROVE  Good(Search(d, found))
<1> DEFINE e == [d EXCEPT !.prTargetBssDesc = TRUE]
<1>1. Good(e)
  BY DEF Good, Kept, Shape
<1> QED
  BY <1>1, ReqChannelGood, WaitGood DEF Search

LEMMA IdleGood ==
  ASSUME NEW d, Good(d), NEW found
  PROVE  Good(Idle(d, found))
<1>1. Good([d EXCEPT !.eCurrentState = "IDLE"])
  BY DEF Good, Kept, Shape
<1>2. Good([cnmStaRecFree(d) EXCEPT !.eCurrentState = "IDLE"])
  BY FreeGood DEF Good, Kept, Shape
<1> QED
  BY <1>1, <1>2, SearchGood DEF Idle

(* The new record has no timer.                                            *)
LEMMA InitJoinGood ==
  ASSUME NEW d, Good(d)
  PROVE  Good(aisFsmStateInit_JOIN(d))
<1> DEFINE n == d.ucSeqNumOfReqMsg + 1
           limit == IF d.eConnectionState THEN 1 ELSE 2
           new == [NoSta EXCEPT !.fgIsInUse = TRUE, !.owner = n,
                                !.ucTxAuthAssocRetryLimit = limit]
           e == [d EXCEPT !.eCurrentState = "JOIN", !.sta = new,
                          !.prStaRecOfAP = TRUE, !.prTargetStaRec = TRUE,
                          !.ucSeqNumOfReqMsg = n, !.prPendingSAAMsg = n,
                          !.fgIsCfg80211Connecting = TRUE]
<1>1. /\ new = [f \in DOMAIN new |-> new[f]]
      /\ {"fgIsInUse", "rTxReqDoneOrRxRespTimer"} \subseteq DOMAIN new
      /\ ~new.rTxReqDoneOrRxRespTimer
  <2> HIDE DEF n, limit
  <2> QED
    BY DEF NoSta
<1>2. Good(e)
  <2> HIDE DEF n, new
  <2> QED
    BY <1>1 DEF Good, Kept, Shape
<1> QED
  BY <1>2, ChangeStateGood DEF aisFsmStateInit_JOIN

LEMMA JoinGood ==
  ASSUME NEW d, Good(d), NEW found
  PROVE  Good(Join(d, found))
  BY InitJoinGood, IdleGood DEF Join

LEMMA JoinFailureGood ==
  ASSUME NEW d, Good(d), NEW found
  PROVE  Good(JoinFailure(d, found))
<1>1. Good([d EXCEPT !.fgIsDisconnectedByNonRequest = TRUE])
  BY DEF Good, Kept, Shape
<1> QED
  BY <1>1, IdleGood DEF JoinFailure

LEMMA DisconnectingGood ==
  ASSUME NEW d, Good(d), NEW sent
  PROVE  Good(Disconnecting(d, sent))
  BY DEF Good, Kept, Shape, Disconnecting

LEMMA DisconnectGood ==
  ASSUME NEW d, Good(d), NEW reason, NEW found
  PROVE  Good(aisFsmDisconnect(d, reason, found))
<1> DEFINE e == [d EXCEPT !.eConnectionState = FALSE, !.prStaRecOfAP = FALSE]
<1>1. Good(e)
  BY DEF Good, Kept, Shape
<1>2. Good(aisIndicationOfMediaStateToHost(e, reason))
  <2> HIDE DEF e
  <2> QED
    BY <1>1 DEF Good, Kept, Shape, aisIndicationOfMediaStateToHost
<1> QED
  BY <1>2, IdleGood DEF aisFsmDisconnect

-----------------------------------------------------------------------------
(***************************************************************************)
(* AIS: aborts                                                             *)
(***************************************************************************)

LEMMA StoppedGood ==
  ASSUME NEW d, Good(d)
  PROVE  Good(Stopped(d))
<1>1. Good([d EXCEPT !.rBGScanTimer = FALSE])
  BY DEF Good, Kept, Shape
<1> QED
  BY <1>1, ReleaseGood, AbortJoinGood, AbortNormalTrGood DEF Stopped

LEMMA TeardownGood ==
  ASSUME NEW d, Good(d), NEW checks, NEW reason, NEW found, NEW sent
  PROVE  Good(Teardown(d, checks, reason, found, sent))
  BY DisconnectingGood, AbortNormalTrGood, DisconnectGood DEF Teardown

LEMMA StateAbortGood ==
  ASSUME NEW d, Good(d), NEW reason, NEW found, NEW sent
  PROVE  Good(aisFsmStateAbort(d, reason, found, sent))
<1> DEFINE e == [Stopped(d) EXCEPT !.recent = TRUE]
<1>1. Good([d EXCEPT !.recent = TRUE])
  BY DEF Good, Kept, Shape
<1>2. Good(e)
  BY StoppedGood DEF Good, Kept, Shape
<1>3. Good(Teardown(e, ChecksConnected(d), reason, found, sent))
  BY <1>2, TeardownGood
<1> QED
  BY <1>1, <1>3 DEF aisFsmStateAbort

LEMMA ReconnectGood ==
  ASSUME NEW d, Good(d), NEW found
  PROVE  Good(Reconnect(d, found))
<1> DEFINE e == [d EXCEPT !.fgIsConnReqIssued = TRUE,
                          !.fgIsDisconnectedByNonRequest = FALSE]
<1>1. Good([d EXCEPT !.fgIsCfg80211Connecting = FALSE,
                     !.fgIsConnReqIssued = TRUE])
  BY DEF Good, Kept, Shape
<1>2. Good(e)
  BY DEF Good, Kept, Shape
<1> QED
  BY <1>1, <1>2, IdleGood DEF Reconnect

LEMMA RunEventAbortGood ==
  ASSUME NEW d, Good(d), NEW reason, NEW found, NEW sent
  PROVE  Good(aisFsmRunEventAbort(d, reason, found, sent))
  BY StateAbortGood, ReconnectGood DEF aisFsmRunEventAbort

LEMMA DisassociateGood ==
  ASSUME NEW d, Good(d)
  PROVE  Good(wlanoidSetDisassociate(d))
<1>1. Good([d EXCEPT !.fgIsConnReqIssued = FALSE])
  BY DEF Good, Kept, Shape
<1> QED
  BY <1>1, PostGood DEF wlanoidSetDisassociate

-----------------------------------------------------------------------------
(***************************************************************************)
(* AIS: the end of a join                                                  *)
(***************************************************************************)

LEMMA ConnectGood ==
  ASSUME NEW d, Good(d)
  PROVE  Good(Connect(d))
<1>1. Good([d EXCEPT !.eConnectionState = TRUE,
                     !.eConnectionStateIndicated = TRUE, !.prStaRecOfAP = TRUE])
  BY DEF Good, Kept, Shape
<1> QED
  BY <1>1, ChangeStateGood DEF Connect

LEMMA JoinSucceedsGood ==
  ASSUME NEW d, Good(d)
  PROVE  Good(JoinSucceeds(d))
<1> DEFINE c == IF d.eConnectionState THEN aisFsmRoamingDisconnectPrevAP(d) ELSE d
<1>1. Good(aisFsmRoamingDisconnectPrevAP(d))
  BY DEF Good, Kept, Shape, aisFsmRoamingDisconnectPrevAP
<1>2. Good(c)
  BY <1>1
<1> HIDE DEF c
<1>3. Good(Connect(c))
  BY <1>2, ConnectGood
<1>4. Good([Connect(c) EXCEPT !.fgIsCfg80211Connecting = FALSE,
                              !.eCurrentState = "NORMAL_TR"])
  BY <1>3 DEF Good, Kept, Shape
<1> QED
  BY <1>4 DEF JoinSucceeds, c

LEMMA WithdrawGood ==
  ASSUME NEW d, Good(d)
  PROVE  Good(Withdraw(d))
<1> DEFINE c == [aisFsmReleaseCh(d) EXCEPT !.rJoinTimeoutTimer = FALSE]
<1>1. Good(c)
  BY ReleaseGood DEF Good, Kept, Shape
<1> HIDE DEF c
<1>2. Good(cnmStaRecFree(c))
  BY <1>1, FreeGood
<1> QED
  BY <1>1, <1>2 DEF Withdraw, c

LEMMA JoinFailsGood ==
  ASSUME NEW d, Good(d), NEW status, NEW e
  PROVE  Good(JoinFails(d, status, e))
<1> DEFINE w == Withdraw(d)
           again == [w EXCEPT !.sta.fgIsTxAllowed = @ \/ d.prStaRecOfAP]
           over == [w EXCEPT !.fgIsCfg80211Connecting = FALSE]
           waits == [again EXCEPT !.prTargetBssDesc = e.found,
                                  !.prTargetStaRec = d.prStaRecOfAP]
<1>1. Good(w)
  BY WithdrawGood
<1> HIDE DEF w
<1>2. Good(again) /\ Good(over)
  BY <1>1 DEF Good, Kept, Shape
<1> HIDE DEF again, over
<1>3. Good(waits)
  <2> DEFINE bss == e.found
             sta == d.prStaRecOfAP
  <2> HIDE DEF bss, sta
  <2>1. Good([again EXCEPT !.prTargetBssDesc = bss, !.prTargetStaRec = sta])
    BY <1>2 DEF Good, Kept, Shape
  <2> QED
    BY <2>1 DEF waits, bss, sta
<1> HIDE DEF waits
<1>4. /\ Good(JoinFailure(over, e.found)) /\ Good(wlanoidSetDisassociate(again))
      /\ Good(WaitForNextScan(waits))
  BY <1>2, <1>3, JoinFailureGood, DisassociateGood, WaitGood
<1> QED
  BY <1>4 DEF JoinFails, w, again, over, waits

(* Whoever tells AIS that a join is over leaves a good state, although AIS *)
(* may free the record that the caller works on.                           *)
LEMMA JoinCompleteGood ==
  ASSUME NEW d, Good(d), NEW n, NEW status, NEW e
  PROVE  Good(aisFsmRunEventJoinComplete(d, n, status, e))
  BY JoinSucceedsGood, JoinFailsGood DEF aisFsmRunEventJoinComplete

-----------------------------------------------------------------------------
(***************************************************************************)
(* SAA                                                                     *)
(***************************************************************************)

LEMMA SendCompleteGood ==
  ASSUME NEW d, Good(d), NEW status, NEW e
  PROVE  Good(saaFsmSendEventJoinComplete(d, status, e))
  BY JoinCompleteGood DEF saaFsmSendEventJoinComplete

LEMMA TransmitGood ==
  ASSUME NEW d, Live(d), NEW kind, NEW sent
  PROVE  Good(Transmit(d, kind, sent))
<1>1. Live([d EXCEPT !.sta.eAuthAssocSent = kind])
  BY DEF Live, Good, Kept, Shape
<1>2. Good([d EXCEPT !.sta.eAuthAssocSent = kind,
                     !.frames = @ \cup {kind}, !.air = @ \cup {kind}])
  BY DEF Live, Good, Kept, Shape
<1> QED
  BY <1>1, <1>2, StartTimerLive DEF Transmit, Live

LEMMA SendAssocGood ==
  ASSUME NEW d, Live(d), NEW sent
  PROVE  Good(SendAssoc(d, sent))
  BY ChangeStateLive, TransmitGood DEF SendAssoc

LEMMA SendAuthAssocGood ==
  ASSUME NEW d, Live(d), NEW sent, NEW e
  PROVE  Good(saaSendAuthAssoc(d, sent, e))
<1> DEFINE again == [d EXCEPT !.sta.ucTxAuthAssocRetryCount = @ + 1]
           armed == [d EXCEPT !.sta.ucStaState = 3]
<1>1. Live(again)
  BY DEF Live, Good, Kept, Shape
<1>2. Live(armed)
  BY DEF Live, Good, Kept, Shape
<1>3. Good(saaFsmSendEventJoinComplete(d, "REJECTED", e))
  BY SendCompleteGood DEF Live
<1>4. Good(StartTimer(d)) /\ Good(StartTimer(cnmStaRecChangeState(armed, 1)))
  BY <1>2, StartTimerLive, ChangeStateLive DEF Live
<1>5. Good(SendAssoc(again, sent)) /\ Good(Transmit(again, "AUTH", sent))
  BY <1>1, SendAssocGood, TransmitGood
<1> HIDE DEF again, armed
<1> QED
  BY <1>3, <1>4, <1>5 DEF saaSendAuthAssoc, again, armed

LEMMA SaaStartGood ==
  ASSUME NEW d, Good(d), NEW n, NEW sent, NEW e
  PROVE  Good(saaFsmRunEventStart(d, n, sent, e))
<1> DEFINE c == StopTimer([d EXCEPT !.sta.ucAuthAssocReqSeqNum = n,
                                    !.sta.ucTxAuthAssocRetryCount = 0])
<1>1. ASSUME d.sta.fgIsInUse PROVE Live(c)
  BY <1>1 DEF Live, Good, Kept, Shape, StopTimer
<1> QED
  BY <1>1, SendAuthAssocGood DEF saaFsmRunEventStart

LEMMA SaaAbortGood ==
  ASSUME NEW d, Good(d)
  PROVE  Good(saaFsmRunEventAbort(d))
<1>1. Good([d EXCEPT !.sta.ucTxAuthAssocRetryCount = 0])
  BY DEF Good, Kept, Shape
<1> QED
  BY <1>1, StopTimerGood, FreeGood DEF saaFsmRunEventAbort

LEMMA SaaTxDoneGood ==
  ASSUME NEW d, Good(d), NEW kind, NEW sent, NEW e,
         NEW status \in {"SUCCESS", "LIFE_TIMEOUT", "DROPPED_IN_DRIVER"}
  PROVE  Good(saaFsmRunEventTxDone(d, kind, status, sent, e))
<1> DEFINE c == [d EXCEPT !.sta.ucTxAuthAssocRetryCount = 0]
<1>1. CASE ~d.sta.fgIsInUse \/ d.sta.eAuthAssocSent # kind
  BY <1>1 DEF saaFsmRunEventTxDone
<1>2. CASE ~(~d.sta.fgIsInUse \/ d.sta.eAuthAssocSent # kind)
  <2>1. Live(d)
    BY <1>2 DEF Live
  <2>2. Live(c)
    BY <2>1 DEF Live, Good, Kept, Shape
  <2>3. Good(StartTimer(c)) /\ Good(StartTimer(d)) /\ Good(StopTimer(d))
    BY <2>1, <2>2, StartTimerLive, StopTimerLive DEF Live
  <2>4. Good(saaSendAuthAssoc(StopTimer(d), sent, e))
    BY <2>1, StopTimerLive, SendAuthAssocGood
  <2> HIDE DEF c
  <2> QED
    BY <1>2, <2>3, <2>4 DEF saaFsmRunEventTxDone, c
<1> QED
  BY <1>1, <1>2

LEMMA SaaRxAuthGood ==
  ASSUME NEW d, Good(d), NEW status, NEW e
  PROVE  Good(saaFsmRunEventRxAuth(d, status, e))
<1> DEFINE c == StopTimer([d EXCEPT !.sta.ucTxAuthAssocRetryCount = 0,
                                    !.authed = (status = "SUCCESS")])
<1>1. Good([d EXCEPT !.sta.ucTxAuthAssocRetryCount = 0,
                     !.authed = (status = "SUCCESS")])
  BY DEF Good, Kept, Shape
<1>2. Good(c)
  BY <1>1, StopTimerGood
<1> HIDE DEF c
<1>3. Good(saaFsmSendEventJoinComplete(c, status, e))
  BY <1>2, SendCompleteGood
<1> QED
  BY <1>2, <1>3 DEF saaFsmRunEventRxAuth, c

LEMMA SaaRxAssocGood ==
  ASSUME NEW d, Good(d), NEW status, NEW e
  PROVE  Good(saaFsmRunEventRxAssoc(d, status, e))
<1> DEFINE c == StopTimer([d EXCEPT !.sta.ucTxAuthAssocRetryCount = 0,
                                    !.sta.eAuthAssocSent = "NONE"])
<1>1. Good([d EXCEPT !.sta.ucTxAuthAssocRetryCount = 0,
                     !.sta.eAuthAssocSent = "NONE"])
  BY DEF Good, Kept, Shape
<1>2. Good(c)
  BY <1>1, StopTimerGood
<1> HIDE DEF c
<1>3. Good(saaFsmSendEventJoinComplete(c, status, e))
  BY <1>2, SendCompleteGood
<1> QED
  BY <1>3 DEF saaFsmRunEventRxAssoc, c

LEMMA SaaRxDeauthGood ==
  ASSUME NEW d, Good(d)
  PROVE  Good(saaFsmRunEventRxDeauth(d))
  BY ChangeStateGood, PostGood DEF saaFsmRunEventRxDeauth

-----------------------------------------------------------------------------
(***************************************************************************)
(* AIS: grants, and the answers of the firmware                            *)
(***************************************************************************)

LEMMA GrantGood ==
  ASSUME NEW d, Good(d), NEW token, NEW found
  PROVE  Good(aisFsmRunEventChGrant(d, token, found))
<1> DEFINE e == [d EXCEPT !.rJoinTimeoutTimer = TRUE, !.fgIsChannelGranted = TRUE]
<1>1. Good(e)
  BY DEF Good, Kept, Shape
<1> QED
  BY <1>1, ReleaseGood, JoinGood DEF aisFsmRunEventChGrant

LEMMA FirePendingGood ==
  ASSUME NEW d, Good(d)
  PROVE  Good(aisFsmFirePendingSAA(d))
<1>1. Good([d EXCEPT !.prPendingSAAMsg = 0])
  BY DEF Good, Kept, Shape
<1>2. Good([Post(d, SaaStartMsg(d.prPendingSAAMsg)) EXCEPT !.prPendingSAAMsg = 0])
  BY PostGood DEF Good, Kept, Shape
<1> QED
  BY <1>1, <1>2 DEF aisFsmFirePendingSAA

LEMMA CmdResultGood ==
  ASSUME NEW d, Good(d), NEW done \in BOOLEAN
  PROVE  Good(nicUniCmdStaRecHandleEventPkt(d, done))
<1> DEFINE e == [d EXCEPT !.sta.fgIsValid = @ \/ ~d.sta.fgIsTxAllowed,
                          !.sta.fgIsTxAllowed = TRUE]
<1>1. Good(e)
  BY DEF Good, Kept, Shape
<1>2. Good(cnmStaRecChangeState(d, d.sta.ucStaState + 1))
  BY ChangeStateGood
<1>3. Good(aisFsmFirePendingSAA(e))
  BY <1>1, FirePendingGood
<1>4. CASE ~done \/ ~d.sta.fgIsInUse
  BY <1>4 DEF nicUniCmdStaRecHandleEventPkt
<1>5. CASE done /\ d.sta.fgIsInUse /\ d.sta.ucStaState < 3
  BY <1>2, <1>5 DEF nicUniCmdStaRecHandleEventPkt
<1>6. CASE done /\ d.sta.fgIsInUse /\ ~(d.sta.ucStaState < 3)
  BY <1>3, <1>6 DEF nicUniCmdStaRecHandleEventPkt
<1> QED
  BY <1>4, <1>5, <1>6

LEMMA JoinTimesOutGood ==
  ASSUME NEW d, Good(d), NEW sent
  PROVE  Good(JoinTimesOut(d, sent))
  BY AbortJoinGood, DisconnectingGood, ReleaseGood DEF JoinTimesOut

-----------------------------------------------------------------------------
(***************************************************************************)
(* The steps of main_thread                                                *)
(***************************************************************************)

LEMMA InitGood == Init => Good(drv)
  BY DEF Init, NoSta, Good, Kept, Shape

LEMMA OidKeepsGood ==
  ASSUME Good(drv), wlanoidSetConnect \/ OidLeave
  PROVE  Good(drv')
<1>1. Good([drv EXCEPT !.fgIsConnReqIssued = TRUE])
  BY DEF Good, Kept, Shape
<1>2. CASE wlanoidSetConnect
  BY <1>1, <1>2, PostGood DEF wlanoidSetConnect, Leaves
<1>3. CASE OidLeave
  BY <1>3, DisassociateGood DEF OidLeave, Leaves
<1> QED
  BY <1>2, <1>3

LEMMA MboxKeepsGood ==
  ASSUME Good(drv), mboxRcvAllMsg
  PROVE  Good(drv')
<1> DEFINE msg == Head(drv.mbox)
           d == [drv EXCEPT !.mbox = Tail(@)]
<1>1. Good(d)
  BY DEF Good, Kept, Shape
<1> HIDE DEF msg, d
<1>2. \/ \E found, sent \in BOOLEAN :
           drv' = aisFsmRunEventAbort(d, msg.reason, found, sent)
      \/ \E found \in BOOLEAN : drv' = aisFsmRunEventChGrant(d, msg.token, found)
      \/ \E sent \in BOOLEAN, e \in Ends :
           drv' = saaFsmRunEventStart(d, msg.seq, sent, e)
      \/ drv' = saaFsmRunEventAbort(d)
  BY DEF mboxRcvAllMsg, Leaves, msg, d
<1> QED
  BY <1>1, <1>2, RunEventAbortGood, GrantGood, SaaStartGood, SaaAbortGood

LEMMA RxKeepsGood ==
  ASSUME Good(drv), Rx
  PROVE  Good(drv')
<1>1. CASE RxChGrant
  BY <1>1, PostGood DEF RxChGrant, Receives, Leaves
<1>2. CASE RxCmdResult
  <2>1. Good([drv EXCEPT !.cmds = @ - 1])
    BY DEF Good, Kept, Shape
  <2> QED
    BY <1>2, <2>1, CmdResultGood DEF RxCmdResult, Receives, Leaves
<1>3. CASE TxDone
  <2>1. PICK kind \in drv.frames \cap Frames, sent \in BOOLEAN, e \in Ends,
             status \in {"SUCCESS", "LIFE_TIMEOUT", "DROPPED_IN_DRIVER"} :
          drv' = saaFsmRunEventTxDone([drv EXCEPT !.frames = @ \ {kind}],
                                      kind, status, sent, e)
    BY <1>3 DEF TxDone, Receives, Leaves
  <2>2. Good([drv EXCEPT !.frames = @ \ {kind}])
    BY DEF Good, Kept, Shape
  <2> QED
    BY <2>1, <2>2, SaaTxDoneGood
<1>4. CASE RxAuth
  <2>1. Good([drv EXCEPT !.air = @ \ {"AUTH"}])
    BY DEF Good, Kept, Shape
  <2> QED
    BY <1>4, <2>1, SaaRxAuthGood DEF RxAuth, Receives, Leaves
<1>5. CASE RxAssoc
  <2>1. Good([drv EXCEPT !.air = @ \ {"ASSOC"}])
    BY DEF Good, Kept, Shape
  <2> QED
    BY <1>5, <2>1, SaaRxAssocGood DEF RxAssoc, Receives, Leaves
<1>6. CASE RxDeauth
  BY <1>6, SaaRxDeauthGood DEF RxDeauth, Receives, Leaves
<1>7. CASE aisDeauthXmitComplete
  <2>1. PICK status \in {"SUCCESS", "LIFE_TIMEOUT", "DROPPED_IN_DRIVER"},
             found \in BOOLEAN :
          LET d == [drv EXCEPT !.frames = @ \ {"DEAUTH"},
                               !.rDeauthDoneTimer = @ /\ status # "SUCCESS"]
          IN drv' = IF /\ d.eCurrentState = "DISCONNECTING"
                       /\ status # "DROPPED_IN_DRIVER"
                    THEN aisFsmStateAbort(d, "DEAUTHENTICATED", found, FALSE)
                    ELSE d
    BY <1>7 DEF aisDeauthXmitComplete, Receives, Leaves
  <2> DEFINE d == [drv EXCEPT !.frames = @ \ {"DEAUTH"},
                              !.rDeauthDoneTimer = @ /\ status # "SUCCESS"]
  <2>2. Good(d)
    BY DEF Good, Kept, Shape
  <2> HIDE DEF d
  <2> QED
    BY <2>1, <2>2, StateAbortGood DEF d
<1> QED
  BY <1>1, <1>2, <1>3, <1>4, <1>5, <1>6, <1>7 DEF Rx

LEMMA TimeoutsKeepGood ==
  ASSUME Good(drv), Timeouts
  PROVE  Good(drv')
<1>1. CASE aisFsmRunEventDeauthTimeout
  <2> DEFINE d == [drv EXCEPT !.rDeauthDoneTimer = FALSE]
  <2>1. Good(d)
    BY DEF Good, Kept, Shape
  <2>2. PICK found \in BOOLEAN :
          drv' = IF d.eCurrentState = "DISCONNECTING"
                 THEN aisFsmStateAbort(d, "DEAUTHENTICATED", found, FALSE)
                 ELSE d
    BY <1>1 DEF aisFsmRunEventDeauthTimeout, Leaves
  <2> HIDE DEF d
  <2> QED
    BY <2>1, <2>2, StateAbortGood
<1>2. CASE aisFsmRunEventJoinTimeout
  <2>1. Good([drv EXCEPT !.rJoinTimeoutTimer = FALSE])
    BY DEF Good, Kept, Shape
  <2> QED
    BY <1>2, <2>1, JoinTimesOutGood DEF aisFsmRunEventJoinTimeout, Leaves
<1>3. CASE aisFsmRunEventBGSleepTimeOut
  BY <1>3 DEF aisFsmRunEventBGSleepTimeOut, Leaves, Good, Kept, Shape
<1>4. CASE SaaTimeout
  <2>1. Live(drv)
    BY <1>4 DEF SaaTimeout, Live, Good, Kept
  <2> QED
    BY <1>4, <2>1, StopTimerLive, SendAuthAssocGood DEF SaaTimeout, Leaves
<1> QED
  BY <1>1, <1>2, <1>3, <1>4 DEF Timeouts

-----------------------------------------------------------------------------
(***************************************************************************)
(* The steps of the others, and the theorems                               *)
(***************************************************************************)

LEMMA OthersKeepGood ==
  ASSUME Good(drv), Cfg80211 \/ FwGrants \/ Tick \/ NextStep
  PROVE  Good(drv')
<1>1. CASE mtk_cfg80211_auth
  BY <1>1 DEF mtk_cfg80211_auth, Good, Kept, Shape
<1>2. CASE mtk_cfg80211_auth_returns
  BY <1>2 DEF mtk_cfg80211_auth_returns, Good, Kept, Shape
<1>3. CASE mtk_cfg80211_assoc
  BY <1>3 DEF mtk_cfg80211_assoc, Good, Kept, Shape
<1>4. CASE mtk_cfg80211_disassoc
  BY <1>4 DEF mtk_cfg80211_disassoc, Good, Kept, Shape
<1>5. CASE FwGrants
  BY <1>5 DEF FwGrants
<1>6. CASE Tick
  BY <1>6 DEF Tick, Good, Kept, Shape
<1>7. CASE NextStep
  BY <1>7 DEF NextStep
<1> QED
  BY <1>1, <1>2, <1>3, <1>4, <1>5, <1>6, <1>7 DEF Cfg80211

IInv == Good(drv)

LEMMA StaysGood == Spec => []IInv
<1>1. Init => IInv
  BY InitGood DEF IInv
<1>2. IInv /\ [Next]_vars => IInv'
  <2> SUFFICES ASSUME Good(drv), [Next]_vars
               PROVE  Good(drv')
    BY DEF IInv
  <2>1. CASE UNCHANGED vars
    BY <2>1 DEF vars
  <2> QED
    BY <2>1, OidKeepsGood, MboxKeepsGood, RxKeepsGood, TimeoutsKeepGood,
       OthersKeepGood DEF Next, MainThread
<1> QED
  BY <1>1, <1>2, PTL DEF Spec

(* Whatever is asked, granted, refused, answered late or aborted, and in   *)
(* whatever order: the only channel the firmware may keep for AIS is the   *)
(* one that AIS has asked for last and knows that it has to give back.     *)
THEOREM ChannelIsReturned == Spec => []ChannelNotLeaked
<1>1. IInv => ChannelNotLeaked
  BY DEF IInv, Good, Kept, ChannelNotLeaked
<1> QED
  BY StaysGood, <1>1, PTL

(* No path through the handlers frees the record of the access point with  *)
(* its timer pending, or starts the timer of a record that is free.        *)
THEOREM TimerHasRecord == Spec => []NoTimerOnFree
<1>1. IInv => NoTimerOnFree
  BY DEF IInv, Good, Kept, NoTimerOnFree
<1> QED
  BY StaysGood, <1>1, PTL
=============================================================================
