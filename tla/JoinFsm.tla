------------------------------- MODULE JoinFsm -------------------------------
(***************************************************************************)
(* How the station joins an access point: cfg80211 asks (gl_cfg80211.c,    *)
(* wlan_oid.c), the AIS state machine requests a channel and starts the    *)
(* join (mgmt/ais_fsm.c), the record of the access point is armed in the   *)
(* firmware (mgmt/cnm_mem.c, nic_cmd_event.c), and SAA authenticates and   *)
(* associates (mgmt/saa_fsm.c).                                            *)
(*                                                                         *)
(* main_thread owns all of that state.  Its loop serves OIDs, mailbox,     *)
(* received events and timers in this order, and empties the mailbox       *)
(* before it goes on.  cfg80211, the firmware and the access point run     *)
(* beside it.  Handlers call one another several levels deep, therefore    *)
(* main_thread's state is one record, drv, and a handler is an operator    *)
(* from the drv it finds to the drv it leaves.                             *)
(*                                                                         *)
(* Abstractions.  There is one access point, so that its record takes one  *)
(* slot.  No scans, roaming, lost beacons, FT or shared keys; allocations  *)
(* succeed.  The channel manager passes requests and releases on at once.  *)
(* Numbers (8 bits) do not wrap.  Frames of one kind are not told apart.   *)
(* When timers expire is left open, except that those of 100 ms and more   *)
(* do not expire within the 100 ms of the abort limiter.                   *)
(***************************************************************************)
EXTENDS Naturals, Sequences, SequencesExt

CONSTANTS
  MaxOps,      \* bound: the requests of cfg80211
  MaxDeauths,  \* bound: the deauthentications the access point sends
  MaxGrants,   \* bound: the channel requests the firmware grants
  MaxMsgs      \* bound: the messages that the events of one round may leave

ASSUME BoundsAssumption ==
  MaxOps \in Nat /\ MaxDeauths \in Nat /\ MaxGrants \in Nat /\ MaxMsgs \in Nat

VARIABLES
  step,    \* main_thread's place in its loop: "oid", "mbox", "rx", "timer"
  drv,     \* what main_thread owns, see Drvs
  op,      \* the call cfg80211 is in: "none", "auth", "assoc", "leave" with its
           \* OID announced; "flag" when the OID of "auth" has returned
  grants,  \* the channel grants on their way from the firmware
  ops, deauths, \* bound: how many there were
  fwGranted     \* the last channel request the firmware has granted

vars == <<step, drv, op, grants, ops, deauths, fwGranted>>

States == {"IDLE", "REQ_CHANNEL_JOIN", "JOIN", "NORMAL_TR", "DISCONNECTING",
           "WAIT_FOR_NEXT_SCAN"}
Reasons == {"NEW_CONNECTION", "DEAUTHENTICATED"}
Frames == {"AUTH", "ASSOC"}
Answers == {"SUCCESS", "REJECTED", "TEMPORARILY"}

\* What the end of a join depends on: the scan results hold the descriptor of the
\* access point, the policy is CONNECT_BY_BSSID (cfg80211's; roaming discovery,
\* which is left out, sets another), and AIS finds a target for what follows.
Ends == [known : BOOLEAN, byBssid : BOOLEAN, found : BOOLEAN]

\* The record of the access point; "owner" is the join that made it (history).
StaType ==
  [fgIsInUse : BOOLEAN, ucStaState : 1 .. 3, fgIsValid : BOOLEAN,
   fgIsTxAllowed : BOOLEAN, ucAuthAssocReqSeqNum : Nat,
   ucTxAuthAssocRetryCount : 0 .. 2, ucTxAuthAssocRetryLimit : 1 .. 2,
   eAuthAssocSent : Frames \cup {"NONE"},
   rTxReqDoneOrRxRespTimer : BOOLEAN, owner : Nat]

NoSta ==
  [fgIsInUse |-> FALSE, ucStaState |-> 1, fgIsValid |-> FALSE,
   fgIsTxAllowed |-> FALSE, ucAuthAssocReqSeqNum |-> 0,
   ucTxAuthAssocRetryCount |-> 0, ucTxAuthAssocRetryLimit |-> 2,
   eAuthAssocSent |-> "NONE", rTxReqDoneOrRxRespTimer |-> FALSE, owner |-> 0]

AbortMsg(reason) == [type |-> "abort", reason |-> reason]
GrantMsg(token) == [type |-> "grant", token |-> token]
SaaStartMsg(n) == [type |-> "saaStart", seq |-> n]
SaaAbortMsg(n) == [type |-> "saaAbort", seq |-> n]
Messages ==
  [type : {"abort"}, reason : Reasons] \cup [type : {"grant"}, token : Nat]
    \cup [type : {"saaStart", "saaAbort"}, seq : Nat]

\* What main_thread owns.
Drvs ==
  [eCurrentState : States, sta : StaType, mbox : Seq(Messages),
   \* connected, as AIS and as cfg80211 knows
   eConnectionState : BOOLEAN, eConnectionStateIndicated : BOOLEAN,
   fgIsCfg80211Connecting : BOOLEAN, fgIsConnReqIssued : BOOLEAN,
   fgIsDisconnectedByNonRequest : BOOLEAN, fgIsSendAssoc : BOOLEAN,
   \* pointers: not NULL
   prTargetBssDesc : BOOLEAN, prTargetStaRec : BOOLEAN, prStaRecOfAP : BOOLEAN,
   \* timers: pending
   rJoinTimeoutTimer : BOOLEAN, rBGScanTimer : BOOLEAN,
   rDeauthDoneTimer : BOOLEAN,
   fgIsChannelRequested : BOOLEAN, fgIsChannelGranted : BOOLEAN,
   ucSeqNumOfReqMsg : Nat, ucSeqNumOfChReq : Nat, ucSeqNumOfChAbort : Nat,
   prPendingSAAMsg : Nat, \* the join that waits for its record, or 0
   cmds : Nat,            \* the record commands the firmware has yet to answer
   fwCh : SUBSET Nat,     \* the channel requests the firmware has
   frames : SUBSET (Frames \cup {"DEAUTH"}),  \* sent, TxDone has not come
   air : SUBSET Frames,   \* the access point may still answer
   recent : BOOLEAN,      \* the last abort was less than 100 ms ago
   authed : BOOLEAN]      \* cfg80211 was given a good auth response

Init ==
  /\ step = "oid" /\ op = "none" /\ grants = {}
  /\ ops = 0 /\ deauths = 0 /\ fwGranted = 0
  /\ drv =
       [eCurrentState |-> "IDLE",
        eConnectionState |-> FALSE, eConnectionStateIndicated |-> FALSE,
        fgIsCfg80211Connecting |-> FALSE, fgIsConnReqIssued |-> FALSE,
        fgIsDisconnectedByNonRequest |-> FALSE, fgIsSendAssoc |-> FALSE,
        prTargetBssDesc |-> FALSE, prTargetStaRec |-> FALSE,
        prStaRecOfAP |-> FALSE, ucSeqNumOfReqMsg |-> 0, prPendingSAAMsg |-> 0,
        fgIsChannelRequested |-> FALSE, fgIsChannelGranted |-> FALSE,
        ucSeqNumOfChReq |-> 0, ucSeqNumOfChAbort |-> 0,
        rJoinTimeoutTimer |-> FALSE, rBGScanTimer |-> FALSE,
        rDeauthDoneTimer |-> FALSE, recent |-> FALSE, sta |-> NoSta,
        mbox |-> <<>>, fwCh |-> {}, cmds |-> 0, frames |-> {}, air |-> {},
        authed |-> FALSE]

Post(d, msg) == [d EXCEPT !.mbox = Append(@, msg)]

-----------------------------------------------------------------------------
(* The record of the access point (cnm_mem.c).                             *)

\* (Mutant of cnmStaRecFree: the timer is not stopped.)
FreeKeepsTimer(d) == [d EXCEPT !.sta.fgIsInUse = FALSE, !.sta.fgIsValid = FALSE]

cnmStaRecFree(d) ==
  [d EXCEPT !.sta.fgIsInUse = FALSE, !.sta.fgIsValid = FALSE,
            !.sta.rTxReqDoneOrRxRespTimer = FALSE]

\* The firmware has to answer a command that enters state 3, that goes from 1 to
\* 2, or that is for state 1.  Leaving state 3 deactivates the record.
cnmStaRecChangeState(d, new) ==
  LET old == d.sta.ucStaState
      answered == \/ new = 3 /\ old # 3
                  \/ new = 2 /\ old = 1
                  \/ new = 1
  IN IF ~d.sta.fgIsInUse THEN d
     ELSE [d EXCEPT !.sta.ucStaState = new,
                    !.sta.fgIsValid = @ /\ ~(old = 3 /\ new # 3),
                    !.cmds = IF answered THEN @ + 1 ELSE @]

-----------------------------------------------------------------------------
(* AIS: the channel and the states.                                        *)

\* (Mutant of aisFsmReleaseCh: only a channel that was granted is given back.)
ReleaseGrantedCh(d) ==
  IF d.fgIsChannelGranted
  THEN [d EXCEPT !.fgIsChannelRequested = FALSE, !.fgIsChannelGranted = FALSE,
                 !.ucSeqNumOfChAbort = d.ucSeqNumOfChReq,
                 !.fwCh = @ \ {d.ucSeqNumOfChReq}]
  ELSE [d EXCEPT !.fgIsChannelRequested = FALSE]

aisFsmReleaseCh(d) ==
  IF d.fgIsChannelGranted \/ d.fgIsChannelRequested
  THEN [d EXCEPT !.fgIsChannelRequested = FALSE, !.fgIsChannelGranted = FALSE,
                 !.ucSeqNumOfChAbort = d.ucSeqNumOfChReq,
                 !.fwCh = @ \ {d.ucSeqNumOfChReq}]
  ELSE d

aisFsmStateAbort_NORMAL_TR(d) ==
  [aisFsmReleaseCh(d) EXCEPT !.rJoinTimeoutTimer = FALSE]

\* SAA is told to free the record it works on.
aisFsmStateAbort_JOIN(d) ==
  [aisFsmReleaseCh(Post(d, SaaAbortMsg(d.ucSeqNumOfReqMsg)))
     EXCEPT !.rJoinTimeoutTimer = FALSE]

WaitForNextScan(d) ==
  [d EXCEPT !.eCurrentState = "WAIT_FOR_NEXT_SCAN", !.rBGScanTimer = TRUE]

\* A channel that is requested or granted already is not requested again.
ReqChannelJoin(d) ==
  IF d.fgIsChannelRequested
  THEN IF d.fgIsCfg80211Connecting
       THEN [d EXCEPT !.eCurrentState = "REQ_CHANNEL_JOIN"]
       ELSE WaitForNextScan(d)
  ELSE [d EXCEPT !.eCurrentState = "REQ_CHANNEL_JOIN",
                 !.sta.fgIsTxAllowed = @ /\ ~d.prStaRecOfAP,
                 !.ucSeqNumOfChReq = @ + 1,
                 !.fgIsChannelRequested = TRUE,
                 !.fwCh = @ \cup {d.ucSeqNumOfChReq + 1}]

\* The target of cfg80211 if there is one, else what the policy finds.
Search(d, found) ==
  IF (d.fgIsCfg80211Connecting /\ d.prTargetBssDesc) \/ found
  THEN ReqChannelJoin([d EXCEPT !.prTargetBssDesc = TRUE])
  ELSE WaitForNextScan(d)

\* The network is deactivated, which frees the records, if nobody wants it.
Idle(d, found) ==
  IF d.fgIsConnReqIssued
  THEN IF d.fgIsDisconnectedByNonRequest
       THEN [d EXCEPT !.eCurrentState = "IDLE"]
       ELSE Search(d, found)
  ELSE [cnmStaRecFree(d) EXCEPT !.eCurrentState = "IDLE"]

\* A new record takes the slot; SAA is started when the firmware has armed it.
aisFsmStateInit_JOIN(d) ==
  LET n == d.ucSeqNumOfReqMsg + 1
      limit == IF d.eConnectionState THEN 1 ELSE 2
      new == [NoSta EXCEPT !.fgIsInUse = TRUE, !.owner = n,
                           !.ucTxAuthAssocRetryLimit = limit]
  IN cnmStaRecChangeState(
       [d EXCEPT !.eCurrentState = "JOIN", !.sta = new,
                 !.prStaRecOfAP = TRUE, !.prTargetStaRec = TRUE,
                 !.ucSeqNumOfReqMsg = n, !.prPendingSAAMsg = n,
                 !.fgIsCfg80211Connecting = TRUE],
       1)

Join(d, found) ==
  IF d.prTargetBssDesc THEN aisFsmStateInit_JOIN(d) ELSE Idle(d, found)

JoinFailure(d, found) ==
  Idle([d EXCEPT !.fgIsDisconnectedByNonRequest = TRUE], found)

\* The deauthentication goes out if there is a record to send it with, and if it
\* can be sent.
Disconnecting(d, sent) ==
  [d EXCEPT !.eCurrentState = "DISCONNECTING",
            !.fgIsDisconnectedByNonRequest = TRUE,
            !.rDeauthDoneTimer = TRUE,
            !.frames = IF sent /\ d.prStaRecOfAP THEN @ \cup {"DEAUTH"} ELSE @]

\* Once per loss; a join that was deauthenticated is always reported.
aisIndicationOfMediaStateToHost(d, reason) ==
  IF \/ d.eConnectionStateIndicated
     \/ d.eCurrentState = "JOIN" /\ reason = "DEAUTHENTICATED"
  THEN [d EXCEPT !.eConnectionStateIndicated = FALSE,
                 !.prTargetBssDesc = FALSE, !.prTargetStaRec = FALSE,
                 !.prPendingSAAMsg = 0]
  ELSE d

aisFsmDisconnect(d, reason, found) ==
  Idle(aisIndicationOfMediaStateToHost(
         [d EXCEPT !.eConnectionState = FALSE, !.prStaRecOfAP = FALSE], reason),
       found)

-----------------------------------------------------------------------------
(* AIS: aborts.                                                            *)

\* What is stopped, by state.
Stopped(d) ==
  CASE d.eCurrentState = "REQ_CHANNEL_JOIN"   -> aisFsmReleaseCh(d)
    [] d.eCurrentState = "JOIN"               -> aisFsmStateAbort_JOIN(d)
    [] d.eCurrentState = "DISCONNECTING"      -> aisFsmStateAbort_NORMAL_TR(d)
    [] d.eCurrentState = "WAIT_FOR_NEXT_SCAN" -> [d EXCEPT !.rBGScanTimer = FALSE]
    [] OTHER                                  -> d

ChecksConnected(d) == d.eCurrentState \in {"REQ_CHANNEL_JOIN", "JOIN", "NORMAL_TR"}

\* A connected station says goodbye first; otherwise it is disconnected.
Teardown(d, checks, reason, found, sent) ==
  IF checks /\ d.eConnectionState
  THEN IF d.prStaRecOfAP /\ d.sta.fgIsInUse
       THEN Disconnecting(d, sent)
       ELSE aisFsmDisconnect(aisFsmStateAbort_NORMAL_TR(d), reason, found)
  ELSE IF d.eCurrentState = "IDLE" THEN d ELSE aisFsmDisconnect(d, reason, found)

\* Aborts within 100 ms are dropped, and so are those with nothing to abort.
aisFsmStateAbort(d, reason, found, sent) ==
  IF d.recent THEN d
  ELSE IF d.eCurrentState = "IDLE" /\ ~d.eConnectionState
       THEN [d EXCEPT !.recent = TRUE]
       ELSE Teardown([Stopped(d) EXCEPT !.recent = TRUE], ChecksConnected(d),
                     reason, found, sent)

\* After the abort: if cfg80211 has said that it connects, AIS only takes note of
\* it, otherwise it starts over.
Reconnect(d, found) ==
  IF d.fgIsCfg80211Connecting
  THEN [d EXCEPT !.fgIsCfg80211Connecting = FALSE, !.fgIsConnReqIssued = TRUE]
  ELSE Idle([d EXCEPT !.fgIsConnReqIssued = TRUE,
                      !.fgIsDisconnectedByNonRequest = FALSE], found)

aisFsmRunEventAbort(d, reason, found, sent) ==
  IF d.eCurrentState = "DISCONNECTING" THEN d
  ELSE Reconnect(aisFsmStateAbort(d, reason, found, sent), found)

wlanoidSetDisassociate(d) ==
  Post([d EXCEPT !.fgIsConnReqIssued = FALSE], AbortMsg("NEW_CONNECTION"))

-----------------------------------------------------------------------------
(* AIS: the end of a join.                                                 *)

\* The record joined is the one that was bound when the join started, so that no
\* record of a previous access point is left to free.
aisFsmRoamingDisconnectPrevAP(d) == [d EXCEPT !.eConnectionState = FALSE]

Connect(d) ==
  cnmStaRecChangeState(
    [d EXCEPT !.eConnectionState = TRUE, !.eConnectionStateIndicated = TRUE,
              !.prStaRecOfAP = TRUE], 3)

\* A station that is connected already has roamed.
JoinSucceeds(d) ==
  [Connect(IF d.eConnectionState THEN aisFsmRoamingDisconnectPrevAP(d) ELSE d)
     EXCEPT !.fgIsCfg80211Connecting = FALSE, !.eCurrentState = "NORMAL_TR"]

\* What a failed join leaves to do, whatever failed.
Withdraw(d) ==
  LET c == [aisFsmReleaseCh(d) EXCEPT !.rJoinTimeoutTimer = FALSE]
  IN IF d.prStaRecOfAP THEN c ELSE cnmStaRecFree(c)

\* A connected station, or one that is told to come back later, disconnects and
\* stays in JOIN until the abort is handled, or else turns back to the access point
\* it had.  Every other failure, and one whose access point is gone, ends the join.
JoinFails(d, status, e) ==
  LET w == Withdraw(d)
      again == [w EXCEPT !.sta.fgIsTxAllowed = @ \/ d.prStaRecOfAP]
  IN IF ~e.known \/ ~(d.eConnectionState \/ status = "TEMPORARILY")
     THEN JoinFailure([w EXCEPT !.fgIsCfg80211Connecting = FALSE], e.found)
     ELSE IF e.byBssid THEN wlanoidSetDisassociate(again)
     ELSE WaitForNextScan([again EXCEPT !.prTargetBssDesc = e.found,
                                        !.prTargetStaRec = d.prStaRecOfAP])

aisFsmRunEventJoinComplete(d, n, status, e) ==
  IF d.eCurrentState # "JOIN" \/ n # d.ucSeqNumOfReqMsg THEN d
  ELSE IF status = "SUCCESS" THEN JoinSucceeds(d) ELSE JoinFails(d, status, e)

-----------------------------------------------------------------------------
(* SAA (saa_fsm.c).                                                        *)

StartTimer(d) == [d EXCEPT !.sta.rTxReqDoneOrRxRespTimer = TRUE]
StopTimer(d) == [d EXCEPT !.sta.rTxReqDoneOrRxRespTimer = FALSE]

\* AIS is told at once, inside the handler of SAA: the message goes past the mailbox.
saaFsmSendEventJoinComplete(d, status, e) ==
  aisFsmRunEventJoinComplete(d, d.sta.ucAuthAssocReqSeqNum, status, e)

\* The frame goes out, or is tried again later.
Transmit(d, kind, sent) ==
  IF sent
  THEN [d EXCEPT !.sta.eAuthAssocSent = kind,
                 !.frames = @ \cup {kind}, !.air = @ \cup {kind}]
  ELSE StartTimer([d EXCEPT !.sta.eAuthAssocSent = kind])

SendAssoc(d, sent) ==
  Transmit(IF d.sta.ucStaState = 1 THEN cnmStaRecChangeState(d, 2) ELSE d,
           "ASSOC", sent)

\* (Mutant of saaSendAuthAssoc: it never gives up.)
SendWithoutLimit(d, sent, e) ==
  LET again == [d EXCEPT !.sta.ucTxAuthAssocRetryCount = @ + 1]
  IN IF ~d.sta.fgIsValid THEN StartTimer(d)
     ELSE IF d.fgIsSendAssoc THEN SendAssoc(again, sent)
     ELSE Transmit(again, "AUTH", sent)

\* Gives up, waits for the record to be armed, arms it again, or sends.
saaSendAuthAssoc(d, sent, e) ==
  LET tries == d.sta.ucTxAuthAssocRetryCount
      again == [d EXCEPT !.sta.ucTxAuthAssocRetryCount = @ + 1]
  IN CASE tries >= d.sta.ucTxAuthAssocRetryLimit ->
            saaFsmSendEventJoinComplete(d, "REJECTED", e)
       [] tries < d.sta.ucTxAuthAssocRetryLimit /\ ~d.sta.fgIsValid ->
            StartTimer(d)
       [] /\ tries < d.sta.ucTxAuthAssocRetryLimit /\ d.sta.fgIsValid
          /\ d.sta.ucStaState < 3 /\ tries <= 1 ->
            StartTimer(cnmStaRecChangeState([d EXCEPT !.sta.ucStaState = 3], 1))
       [] OTHER ->
            IF d.fgIsSendAssoc THEN SendAssoc(again, sent)
            ELSE Transmit(again, "AUTH", sent)

saaFsmRunEventStart(d, n, sent, e) ==
  IF d.sta.fgIsInUse
  THEN saaSendAuthAssoc(
         StopTimer([d EXCEPT !.sta.ucAuthAssocReqSeqNum = n,
                             !.sta.ucTxAuthAssocRetryCount = 0]), sent, e)
  ELSE d

saaFsmRunEventAbort(d) ==
  cnmStaRecFree(StopTimer([d EXCEPT !.sta.ucTxAuthAssocRetryCount = 0]))

\* Only for a record in use, and for the kind of frame it has sent last.
saaFsmRunEventTxDone(d, kind, status, sent, e) ==
  IF ~d.sta.fgIsInUse \/ d.sta.eAuthAssocSent # kind THEN d
  ELSE CASE status = "SUCCESS" ->
              StartTimer([d EXCEPT !.sta.ucTxAuthAssocRetryCount = 0])
         [] status = "LIFE_TIMEOUT" ->
              IF d.sta.ucStaState < 3 THEN StopTimer(d)
              ELSE saaSendAuthAssoc(StopTimer(d), sent, e)
         [] status = "DROPPED_IN_DRIVER" -> StartTimer(d)

saaFsmRunEventRxAuth(d, status, e) ==
  LET answered == StopTimer([d EXCEPT !.sta.ucTxAuthAssocRetryCount = 0,
                                      !.authed = (status = "SUCCESS")])
  IN IF ~d.sta.fgIsInUse \/ d.sta.eAuthAssocSent # "AUTH" THEN d
     ELSE IF status = "SUCCESS" THEN answered
     ELSE saaFsmSendEventJoinComplete(answered, status, e)

saaFsmRunEventRxAssoc(d, status, e) ==
  IF d.sta.fgIsInUse
  THEN saaFsmSendEventJoinComplete(
         StopTimer([d EXCEPT !.sta.ucTxAuthAssocRetryCount = 0,
                             !.sta.eAuthAssocSent = "NONE"]), status, e)
  ELSE d

\* A deauthentication before anything was sent is an old one.
saaFsmRunEventRxDeauth(d) ==
  IF /\ d.sta.fgIsInUse
     /\ d.eConnectionStateIndicated \/ d.sta.ucStaState > 1
     /\ ~(d.sta.ucStaState = 2 /\ d.sta.eAuthAssocSent = "NONE")
  THEN Post(cnmStaRecChangeState(d, 1), AbortMsg("DEAUTHENTICATED"))
  ELSE d

-----------------------------------------------------------------------------
(* AIS: grants, and the answers of the firmware.                           *)

\* (Mutant of aisFsmRunEventChGrant: a grant is taken in every state.)
ChGrantAlways(d, token, found) ==
  Join([d EXCEPT !.rJoinTimeoutTimer = TRUE, !.fgIsChannelGranted = TRUE], found)

aisFsmRunEventChGrant(d, token, found) ==
  IF d.eCurrentState # "REQ_CHANNEL_JOIN" THEN aisFsmReleaseCh(d)
  ELSE IF \/ d.fgIsCfg80211Connecting /\ token = d.ucSeqNumOfChReq
          \/ ~d.fgIsCfg80211Connecting /\ token > d.ucSeqNumOfChAbort
       THEN Join([d EXCEPT !.rJoinTimeoutTimer = TRUE,
                           !.fgIsChannelGranted = TRUE], found)
       ELSE d

\* (Mutant of aisFsmFirePendingSAA: the start that was posted stays pending.)
FireKeepsPending(d) ==
  IF d.prPendingSAAMsg = 0 \/ ~d.fgIsChannelGranted THEN d
  ELSE IF d.sta.fgIsInUse
       THEN Post(d, SaaStartMsg(d.prPendingSAAMsg))
       ELSE [d EXCEPT !.prPendingSAAMsg = 0]

\* SAA starts when the channel is there as well; the record may be gone.
aisFsmFirePendingSAA(d) ==
  IF d.prPendingSAAMsg = 0 \/ ~d.fgIsChannelGranted THEN d
  ELSE IF d.sta.fgIsInUse
       THEN [Post(d, SaaStartMsg(d.prPendingSAAMsg)) EXCEPT !.prPendingSAAMsg = 0]
       ELSE [d EXCEPT !.prPendingSAAMsg = 0]

\* The firmware has answered a command: what follows depends on the state the
\* record has by now, whatever the command was for.  A refusal is ignored.
nicUniCmdStaRecHandleEventPkt(d, done) ==
  CASE ~done \/ ~d.sta.fgIsInUse -> d
    [] done /\ d.sta.fgIsInUse /\ d.sta.ucStaState < 3 ->
         cnmStaRecChangeState(d, d.sta.ucStaState + 1)
    [] OTHER ->
         aisFsmFirePendingSAA([d EXCEPT !.sta.fgIsValid = @ \/ ~d.sta.fgIsTxAllowed,
                                        !.sta.fgIsTxAllowed = TRUE])

\* fgIsCfg80211Connecting stays set.
JoinTimesOut(d, sent) ==
  CASE d.eCurrentState = "JOIN" -> Disconnecting(aisFsmStateAbort_JOIN(d), sent)
    [] OTHER                    -> aisFsmReleaseCh(d)

-----------------------------------------------------------------------------
(* main_thread's loop.                                                     *)

Leaves(d) == drv' = d

\* An event is left for the next round when the mailbox is full.
Receives(d) == Len(d.mbox) <= MaxMsgs /\ Leaves(d)

wlanoidSetConnect ==
  /\ step = "oid" /\ op \in {"auth", "assoc"}
  /\ step' = "mbox"
  /\ op' = IF op = "auth" THEN "flag" ELSE "none"
  /\ Leaves(Post([drv EXCEPT !.fgIsConnReqIssued = TRUE],
                 AbortMsg("NEW_CONNECTION")))
  /\ UNCHANGED <<grants, ops, deauths, fwGranted>>

OidLeave ==
  /\ step = "oid" /\ op = "leave"
  /\ step' = "mbox" /\ op' = "none"
  /\ Leaves(wlanoidSetDisassociate(drv))
  /\ UNCHANGED <<grants, ops, deauths, fwGranted>>

mboxRcvAllMsg ==
  /\ step = "mbox" /\ drv.mbox # <<>>
  /\ LET msg == Head(drv.mbox)
         d == [drv EXCEPT !.mbox = Tail(@)]
     IN \/ /\ msg.type = "abort"
           /\ \E found, sent \in BOOLEAN :
                Leaves(aisFsmRunEventAbort(d, msg.reason, found, sent))
        \/ /\ msg.type = "grant"
           /\ \E found \in BOOLEAN :
                Leaves(aisFsmRunEventChGrant(d, msg.token, found))
        \/ /\ msg.type = "saaStart"
           /\ \E sent \in BOOLEAN, e \in Ends :
                Leaves(saaFsmRunEventStart(d, msg.seq, sent, e))
        \/ msg.type = "saaAbort" /\ Leaves(saaFsmRunEventAbort(d))
  /\ UNCHANGED <<step, op, grants, ops, deauths, fwGranted>>

RxChGrant ==
  /\ step = "rx"
  /\ \E token \in grants :
       /\ grants' = grants \ {token}
       /\ Receives(Post(drv, GrantMsg(token)))
  /\ UNCHANGED <<step, op, ops, deauths, fwGranted>>

RxCmdResult ==
  /\ step = "rx" /\ drv.cmds > 0
  /\ \E done \in BOOLEAN :
       Receives(nicUniCmdStaRecHandleEventPkt([drv EXCEPT !.cmds = @ - 1], done))
  /\ UNCHANGED <<step, op, grants, ops, deauths, fwGranted>>

TxDone ==
  /\ step = "rx"
  /\ \E kind \in drv.frames \cap Frames, sent \in BOOLEAN, e \in Ends,
        status \in {"SUCCESS", "LIFE_TIMEOUT", "DROPPED_IN_DRIVER"} :
       Receives(saaFsmRunEventTxDone([drv EXCEPT !.frames = @ \ {kind}],
                                   kind, status, sent, e))
  /\ UNCHANGED <<step, op, grants, ops, deauths, fwGranted>>

\* To come back later is an answer to an association only.
RxAuth ==
  /\ step = "rx" /\ "AUTH" \in drv.air
  /\ \E status \in Answers \ {"TEMPORARILY"}, e \in Ends :
       Receives(saaFsmRunEventRxAuth([drv EXCEPT !.air = @ \ {"AUTH"}], status, e))
  /\ UNCHANGED <<step, op, grants, ops, deauths, fwGranted>>

\* A join that succeeds dereferences the target: the driver dies if it is NULL.
RxAssoc ==
  /\ step = "rx" /\ "ASSOC" \in drv.air
  /\ \E status \in Answers, e \in Ends :
       LET d == saaFsmRunEventRxAssoc([drv EXCEPT !.air = @ \ {"ASSOC"}], status, e)
       IN /\ drv.eCurrentState = "JOIN" /\ d.eCurrentState = "NORMAL_TR"
               => drv.prTargetBssDesc
          /\ Receives(d)
  /\ UNCHANGED <<step, op, grants, ops, deauths, fwGranted>>

RxDeauth ==
  /\ step = "rx" /\ deauths < MaxDeauths
  /\ deauths' = deauths + 1
  /\ Receives(saaFsmRunEventRxDeauth(drv))
  /\ UNCHANGED <<step, op, grants, ops, fwGranted>>

\* The deauthentication of DISCONNECTING was sent or not.
aisDeauthXmitComplete ==
  /\ step = "rx" /\ "DEAUTH" \in drv.frames
  /\ \E status \in {"SUCCESS", "LIFE_TIMEOUT", "DROPPED_IN_DRIVER"},
        found \in BOOLEAN :
       LET d == [drv EXCEPT !.frames = @ \ {"DEAUTH"},
                            !.rDeauthDoneTimer = @ /\ status # "SUCCESS"]
       IN Receives(IF /\ d.eCurrentState = "DISCONNECTING"
                    /\ status # "DROPPED_IN_DRIVER"
                 THEN aisFsmStateAbort(d, "DEAUTHENTICATED", found, FALSE) ELSE d)
  /\ UNCHANGED <<step, op, grants, ops, deauths, fwGranted>>

aisFsmRunEventDeauthTimeout ==
  /\ step = "timer" /\ drv.rDeauthDoneTimer /\ ~drv.recent
  /\ LET d == [drv EXCEPT !.rDeauthDoneTimer = FALSE]
     IN \E found \in BOOLEAN :
          Leaves(IF d.eCurrentState = "DISCONNECTING"
                 THEN aisFsmStateAbort(d, "DEAUTHENTICATED", found, FALSE) ELSE d)
  /\ UNCHANGED <<step, op, grants, ops, deauths, fwGranted>>

\* In JOIN the target is dereferenced: the driver dies if it is NULL.
aisFsmRunEventJoinTimeout ==
  /\ step = "timer" /\ drv.rJoinTimeoutTimer /\ ~drv.recent
  /\ drv.eCurrentState = "JOIN" => drv.prTargetBssDesc
  /\ \E sent \in BOOLEAN :
       Leaves(JoinTimesOut([drv EXCEPT !.rJoinTimeoutTimer = FALSE], sent))
  /\ UNCHANGED <<step, op, grants, ops, deauths, fwGranted>>

\* The pause is over, and AIS goes where a connected station rests.
aisFsmRunEventBGSleepTimeOut ==
  /\ step = "timer" /\ drv.rBGScanTimer /\ ~drv.recent
  /\ Leaves([drv EXCEPT !.rBGScanTimer = FALSE,
                        !.eCurrentState =
                          IF @ = "WAIT_FOR_NEXT_SCAN" THEN "NORMAL_TR" ELSE @])
  /\ UNCHANGED <<step, op, grants, ops, deauths, fwGranted>>

\* saaFsmRunEventTxReqTimeOut and saaFsmRunEventRxRespTimeOut.
SaaTimeout ==
  /\ step = "timer" /\ drv.sta.rTxReqDoneOrRxRespTimer
  /\ \E sent \in BOOLEAN, e \in Ends :
       Leaves(saaSendAuthAssoc(StopTimer(drv), sent, e))
  /\ UNCHANGED <<step, op, grants, ops, deauths, fwGranted>>

\* One OID is served in a round; the mailbox is emptied; events and timers that
\* come later are served in the next round.
NextStep ==
  /\ \/ step = "oid" /\ op \in {"none", "flag"} /\ step' = "mbox"
     \/ step = "mbox" /\ drv.mbox = <<>> /\ step' = "rx"
     \/ step = "rx" /\ step' = "timer"
     \/ step = "timer" /\ step' = "oid"
  /\ UNCHANGED <<drv, op, grants, ops, deauths, fwGranted>>

-----------------------------------------------------------------------------
(* cfg80211, the firmware, and time.                                       *)

\* The target is set before the OID, fgIsCfg80211Connecting after it.
mtk_cfg80211_auth ==
  /\ op = "none" /\ ops < MaxOps
  /\ op' = "auth" /\ ops' = ops + 1
  /\ \E known \in BOOLEAN :
       drv' = [drv EXCEPT !.prTargetBssDesc = known, !.authed = FALSE]
  /\ UNCHANGED <<step, grants, deauths, fwGranted>>

mtk_cfg80211_auth_returns ==
  /\ op = "flag"
  /\ op' = "none"
  /\ drv' = [drv EXCEPT !.fgIsCfg80211Connecting = TRUE]
  /\ UNCHANGED <<step, grants, ops, deauths, fwGranted>>

mtk_cfg80211_assoc ==
  /\ op = "none" /\ ops < MaxOps /\ drv.authed
  /\ op' = "assoc" /\ ops' = ops + 1
  /\ drv' = [drv EXCEPT !.fgIsSendAssoc = TRUE, !.fgIsCfg80211Connecting = TRUE,
                        !.authed = FALSE]
  /\ UNCHANGED <<step, grants, deauths, fwGranted>>

\* disassoc and disconnect clear fgIsCfg80211Connecting, deauth does not.
mtk_cfg80211_disassoc ==
  /\ op = "none" /\ ops < MaxOps
  /\ op' = "leave" /\ ops' = ops + 1
  /\ \E clears \in BOOLEAN :
       drv' = [drv EXCEPT !.fgIsCfg80211Connecting = @ /\ ~clears, !.authed = FALSE]
  /\ UNCHANGED <<step, grants, deauths, fwGranted>>

FwGrants ==
  /\ \E token \in drv.fwCh :
       /\ token > fwGranted /\ token <= MaxGrants
       /\ fwGranted' = token
       /\ grants' = grants \cup {token}
  /\ UNCHANGED <<step, drv, op, ops, deauths>>

\* 100 ms have passed since the last abort.
Tick ==
  /\ drv.recent
  /\ drv' = [drv EXCEPT !.recent = FALSE]
  /\ UNCHANGED <<step, op, grants, ops, deauths, fwGranted>>

Rx ==
  \/ RxChGrant \/ RxCmdResult \/ TxDone \/ RxAuth \/ RxAssoc \/ RxDeauth
  \/ aisDeauthXmitComplete
Timeouts ==
  \/ aisFsmRunEventDeauthTimeout \/ aisFsmRunEventJoinTimeout
  \/ aisFsmRunEventBGSleepTimeOut \/ SaaTimeout
MainThread ==
  wlanoidSetConnect \/ OidLeave \/ mboxRcvAllMsg \/ Rx \/ Timeouts \/ NextStep
Cfg80211 ==
  \/ mtk_cfg80211_auth \/ mtk_cfg80211_auth_returns \/ mtk_cfg80211_assoc
  \/ mtk_cfg80211_disassoc

Next == MainThread \/ Cfg80211 \/ FwGrants \/ Tick

Spec == Init /\ [][Next]_vars

-----------------------------------------------------------------------------
(* Properties.                                                             *)

TypeOK ==
  /\ step \in {"oid", "mbox", "rx", "timer"}
  /\ op \in {"none", "auth", "flag", "assoc", "leave"}
  /\ grants \subseteq Nat
  /\ ops \in 0 .. MaxOps /\ deauths \in 0 .. MaxDeauths /\ fwGranted \in Nat
  /\ drv \in Drvs

\* A channel the firmware keeps for AIS is one that AIS knows it has asked for,
\* and it is the last one: no abort, late grant or failed join leaves the radio
\* reserved on a channel (aisFsmReleaseCh and its callers).
ChannelNotLeaked ==
  /\ drv.fwCh \subseteq {drv.ucSeqNumOfChReq}
  /\ drv.fwCh # {} => drv.fgIsChannelRequested

\* An abort that waits in the mailbox for SAA finds the record of the join it was
\* meant for: saaFsmRunEventAbort frees the record whatever the number, so that a
\* new join must not reach the slot before it.
AbortHitsOwnJoin ==
  \A i \in 1 .. Len(drv.mbox) :
    drv.mbox[i].type = "saaAbort" => drv.sta.owner <= drv.mbox[i].seq

\* No timer of SAA is pending on a record that was freed: its handlers use the
\* record without a test (saaSendAuthAssoc), and the slot may be another's.
NoTimerOnFree == drv.sta.rTxReqDoneOrRxRespTimer => drv.sta.fgIsInUse

\* SAA is started at most once for a join: saaFsmRunEventStart looks at no number and
\* clears the tries of whatever record it finds, so that a second start would send
\* a join that is under way, or has failed, back to its beginning.
StartsOnce ==
  \A i \in 1 .. Len(drv.mbox) :
    drv.mbox[i].type = "saaStart" =>
      /\ drv.mbox[i].seq <= drv.sta.owner
      /\ drv.mbox[i].seq # drv.sta.ucAuthAssocReqSeqNum
      /\ \A j \in 1 .. Len(drv.mbox) : j # i => drv.mbox[j] # drv.mbox[i]

\* As long as AIS disconnects, something is to come that ends it: the deauthentication
\* is on its way or its timer runs.  aisDeauthXmitComplete is "to inform AIS that
\* DEAUTH frame has been sent and thus state machine could go ahead".
DisconnectIsTimed ==
  drv.eCurrentState = "DISCONNECTING" =>
    drv.rDeauthDoneTimer \/ "DEAUTH" \in drv.frames
=============================================================================
