---------------------------- MODULE ScanFsmProofs ----------------------------
(***************************************************************************)
(* Proofs about ScanFsm: type correctness, that no scan waits while the    *)
(* scan FSM is idle, that none is started twice, and that none of P2P is   *)
(* started after its cancel, whatever the firmware reports and loses,      *)
(* however many scans are asked for.                                       *)
(***************************************************************************)
EXTENDS ScanFsm, TLAPS

IInv == TypeOK /\ NobodyWaitsForIdle

\* The part of IInv the operators of the scan FSM decide.
ScnInv ==
  /\ eCurrentState \in {"IDLE", "SCANNING"}
  /\ rScanParam \in Scans
  /\ rPendingMsgList \in Seq(Scans)
  /\ fwScans \subseteq Scans
  /\ started \in Seq(Scans)
  /\ NobodyWaitsForIdle

\* The part of IInv the operators of AIS decide.
AisInv ==
  /\ aisState \in {"IDLE", "SCAN", "JOIN", "NORMAL_TR", "ONLINE_SCAN"}
  /\ ucSeqNumOfScanReq \in Nat
  /\ rPendingReqList \in Nat
  /\ mbox \in Seq(Messages)

USE ConstantsAssumption

\* Messages are built from scans.
LEMMA MessageTypes ==
  ASSUME NEW scan \in Scans
  PROVE  /\ ReqMsg(scan) \in Messages /\ CancelMsg(scan) \in Messages
         /\ DoneMsg(scan, "DONE") \in Messages
         /\ DoneMsg(scan, "CANCELLED") \in Messages
  BY DEF ReqMsg, CancelMsg, DoneMsg, Messages

\* A sequence without one of its elements.
LEMMA RemoveAtType ==
  ASSUME NEW S, NEW s \in Seq(S), NEW i \in 1 .. Len(s)
  PROVE  RemoveAt(s, i) \in Seq(S)
<1>1. SubSeq(s, 1, i - 1) \in Seq(S)
  OBVIOUS
<1>2. SubSeq(s, i + 1, Len(s)) \in Seq(S)
  OBVIOUS
<1> QED BY <1>1, <1>2 DEF RemoveAt

\* A scan is handed to the firmware.
LEMMA SendKeepsInv ==
  ASSUME TypeOK, NEW scan \in Scans, NEW running, running \subseteq Scans,
         SendScanReq(scan, running)
  PROVE  /\ eCurrentState' = "SCANNING" /\ rScanParam' \in Scans
         /\ fwScans' \subseteq Scans /\ started' \in Seq(Scans)
<1>1. eCurrentState' = "SCANNING" /\ rScanParam' \in Scans /\ fwScans' \subseteq Scans
  BY DEF SendScanReq
<1>2. started' \in Seq(Scans)
  BY DEF SendScanReq, TypeOK
<1> QED BY <1>1, <1>2

\* When a scan has ended the scan FSM is idle only if none waits.
LEMMA StepsKeepInv ==
  ASSUME TypeOK, NEW running, running \subseteq Scans, scnFsmSteps(running)
  PROVE  ScnInv'
<1>1. CASE rPendingMsgList = <<>>
  BY <1>1 DEF TypeOK, scnFsmSteps, ScnInv, NobodyWaitsForIdle
<1>2. CASE rPendingMsgList # <<>>
  <2>1. Head(rPendingMsgList) \in Scans /\ Tail(rPendingMsgList) \in Seq(Scans)
    BY <1>2 DEF TypeOK
  <2>2. SendScanReq(Head(rPendingMsgList), running)
        /\ rPendingMsgList' = Tail(rPendingMsgList)
    BY <1>2 DEF scnFsmSteps
  <2> QED BY <2>1, <2>2, SendKeepsInv DEF ScnInv, NobodyWaitsForIdle
<1> QED BY <1>1, <1>2

\* A request is started at once, or waits behind a scan that runs.
LEMMA StartKeepsInv ==
  ASSUME IInv, NEW scan \in Scans, scnFsmMsgStart(scan)
  PROVE  ScnInv'
<1>1. CASE eCurrentState = "IDLE"
  <2>1. SendScanReq(scan, fwScans) /\ UNCHANGED rPendingMsgList
    BY <1>1 DEF scnFsmMsgStart
  <2> QED BY <2>1, SendKeepsInv DEF IInv, TypeOK, ScnInv, NobodyWaitsForIdle
<1>2. CASE eCurrentState # "IDLE"
  <2>1. /\ rPendingMsgList' = Append(rPendingMsgList, scan)
        /\ UNCHANGED <<eCurrentState, rScanParam, fwScans, started>>
    BY <1>2 DEF scnFsmMsgStart
  <2>2. rPendingMsgList' \in Seq(Scans)
    BY <2>1 DEF IInv, TypeOK
  <2> QED BY <1>2, <2>1, <2>2 DEF IInv, TypeOK, ScnInv, NobodyWaitsForIdle
<1> QED BY <1>1, <1>2

\* A cancel ends the scan that runs, takes out one that waits, or finds none.
LEMMA AbortKeepsInv ==
  ASSUME IInv, NEW scan \in Scans, NEW isOidRequest, NEW m \in Seq(Messages),
         scnFsmMsgAbort(scan, isOidRequest, m)
  PROVE  ScnInv' /\ mbox' \in Seq(Messages) /\ cancelled' \subseteq Scans
<1>1. cancelled' \subseteq Scans
  BY DEF IInv, TypeOK, scnFsmMsgAbort
<1>2. CASE eCurrentState = "SCANNING" /\ rScanParam = scan
  <2>1. scnFsmSteps(fwScans \ {scan})
        /\ mbox' = Append(m, DoneMsg(scan, IF isOidRequest THEN "CANCELLED" ELSE "DONE"))
    BY <1>2 DEF scnFsmMsgAbort
  <2>3. mbox' \in Seq(Messages)
    <3>1. DoneMsg(scan, IF isOidRequest THEN "CANCELLED" ELSE "DONE") \in Messages
      BY MessageTypes
    <3> QED BY <2>1, <3>1
  <2>2. ScnInv'
    BY <2>1, StepsKeepInv DEF IInv, TypeOK
  <2> QED BY <1>1, <2>2, <2>3
<1>3. CASE eCurrentState = "SCANNING" /\ rScanParam # scan
  <2>1. scnFsmRemovePendingMsg(scan, m)
    BY <1>3 DEF scnFsmMsgAbort
  <2>2. mbox' \in Seq(Messages)
    BY <2>1, MessageTypes DEF scnFsmRemovePendingMsg
  <2>3. rPendingMsgList' \in Seq(Scans)
    BY <2>1, RemoveAtType DEF IInv, TypeOK, scnFsmRemovePendingMsg
  <2> QED BY <1>1, <1>3, <2>1, <2>2, <2>3
       DEF IInv, TypeOK, scnFsmRemovePendingMsg, ScnInv, NobodyWaitsForIdle
<1>4. CASE eCurrentState = "IDLE"
  BY <1>1, <1>4 DEF IInv, TypeOK, scnFsmMsgAbort, scnVars, ScnInv, NobodyWaitsForIdle
<1> QED BY <1>2, <1>3, <1>4 DEF IInv, TypeOK

\* A state of AIS that is entered posts a request or leaves the mailbox alone.
LEMMA EnterKeepsInv ==
  ASSUME TypeOK, NEW m \in Seq(Messages),
         EnterIdle(m) \/ EnterNormalTr(m)
  PROVE  AisInv'
<1>1. ASSUME NEW state \in {"SCAN", "ONLINE_SCAN"}, ScanFamily(state, m)
      PROVE  /\ aisState' \in {"IDLE", "SCAN", "JOIN", "NORMAL_TR", "ONLINE_SCAN"}
             /\ ucSeqNumOfScanReq' \in Nat
             /\ mbox' \in Seq(Messages)
  <2>1. ucSeqNumOfScanReq + 1 \in Nat /\ Scan("AIS", ucSeqNumOfScanReq + 1) \in Scans
    BY DEF TypeOK, Scan, Scans, Clients
  <2> QED BY <1>1, <2>1, MessageTypes DEF ScanFamily
<1>2. CASE EnterIdle(m)
  BY <1>1, <1>2 DEF TypeOK, EnterIdle, GoesTo, AisInv
<1>3. CASE EnterNormalTr(m)
  BY <1>1, <1>3 DEF TypeOK, EnterNormalTr, GoesTo, AisInv
<1> QED BY <1>2, <1>3

\* The same of an AIS state entered because a scan is asked for.
LEMMA FamilyKeepsInv ==
  ASSUME TypeOK, NEW state \in {"SCAN", "ONLINE_SCAN"}, ScanFamily(state, mbox)
  PROVE  /\ aisState' \in {"IDLE", "SCAN", "JOIN", "NORMAL_TR", "ONLINE_SCAN"}
         /\ ucSeqNumOfScanReq' \in Nat
         /\ mbox' \in Seq(Messages)
<1>1. ucSeqNumOfScanReq + 1 \in Nat /\ Scan("AIS", ucSeqNumOfScanReq + 1) \in Scans
  BY DEF TypeOK, Scan, Scans, Clients
<1> QED BY <1>1, MessageTypes DEF ScanFamily, TypeOK

\* A cancel of AIS, however it is brought about.
LEMMA AisCancelsKeepsInv ==
  ASSUME IInv, NEW isOidRequest, AisCancels(isOidRequest)
  PROVE  ScnInv' /\ AisInv' /\ cancelled' \subseteq Scans
<1>1. Scan("AIS", ucSeqNumOfScanReq) \in Scans
  BY DEF IInv, TypeOK, Scan, Scans, Clients
<1>2. ScnInv' /\ mbox' \in Seq(Messages) /\ cancelled' \subseteq Scans
  BY <1>1, AbortKeepsInv DEF IInv, TypeOK, AisCancels
<1> QED BY <1>2 DEF IInv, TypeOK, AisCancels, AisInv

\* The initial states.
LEMMA InitIInv == Init => IInv
<1> SUFFICES ASSUME Init PROVE IInv
  OBVIOUS
<1>1. rScanParam \in Scans
  BY DEF Init, Scan, Scans, Clients
<1>2. fgIsConnReqIssued \in BOOLEAN /\ rJoinTimeoutTimer \in BOOLEAN
  <2>1. fgIsConnReqIssued \in BOOLEAN /\ rJoinTimeoutTimer \in {FALSE, fgIsConnReqIssued}
    BY DEF Init
  <2>2. fgIsConnReqIssued = TRUE \/ fgIsConnReqIssued = FALSE
    BY <2>1
  <2> QED BY <2>1, <2>2
<1>3. asked \in 0 .. MaxScans
  BY DEF Init
<1>4. /\ mbox \in Seq(Messages) /\ rPendingMsgList \in Seq(Scans)
      /\ rxEvents \in Seq(Nat) /\ started \in Seq(Scans)
  BY DEF Init
<1>5. NotSet \in Nat
  BY DEF NotSet
<1> QED BY <1>1, <1>2, <1>3, <1>4, <1>5
     DEF Init, IInv, TypeOK, NobodyWaitsForIdle

\* Every step keeps IInv: one step per action.
LEMMA NextKeepsIInv == IInv /\ [Next]_vars => IInv'
<1> SUFFICES ASSUME IInv, [Next]_vars PROVE IInv'
  OBVIOUS
<1>1. CASE wlanoidSetBssidListScanAdv
  <2>1. StartsScan \/ DropsScan
    BY <1>1 DEF wlanoidSetBssidListScanAdv
  <2>2. AisInv' /\ fgIsScanReqIssued' \in BOOLEAN
    <3>1. CASE StartsScan
      BY <3>1, FamilyKeepsInv DEF StartsScan, AisInv, IInv, TypeOK
    <3>2. CASE DropsScan
      BY <3>2, EnterKeepsInv DEF DropsScan, AisStays, GoesTo, AisInv, IInv, TypeOK
    <3> QED BY <2>1, <3>1, <3>2
  <2>3. u2SeqNumOfScanReport' \in Nat
    BY <1>1, <2>2 DEF wlanoidSetBssidListScanAdv, Report, AisInv, IInv, TypeOK
  <2> QED BY <1>1, <2>2, <2>3
       DEF wlanoidSetBssidListScanAdv, AisInv, IInv, TypeOK, NobodyWaitsForIdle,
           scnVars, p2pVars, fwVars
<1>2. CASE wlanoidAbortScan
  <2>1. CASE AisScans
    <3>1. AisCancels(TRUE)
      BY <1>2, <2>1 DEF wlanoidAbortScan
    <3>2. ScnInv' /\ AisInv' /\ cancelled' \subseteq Scans
      BY <3>1, AisCancelsKeepsInv
    <3> QED BY <1>2, <2>1, <3>1, <3>2
         DEF wlanoidAbortScan, AisCancels, ScnInv, AisInv, IInv, TypeOK, p2pVars
  <2>2. CASE ~AisScans
    BY <1>2, <2>2
    DEF wlanoidAbortScan, IInv, TypeOK, NobodyWaitsForIdle, scnVars, aisVars,
        p2pVars, fwVars
  <2> QED BY <2>1, <2>2
<1>3. CASE mboxRcvAllMsg
  <2> DEFINE msg == Head(mbox)
  <2>1. msg \in Messages /\ Tail(mbox) \in Seq(Messages)
    BY <1>3 DEF mboxRcvAllMsg, IInv, TypeOK
  <2>2. msg.scan \in Scans /\ msg.scan.seq \in Nat
    BY <2>1 DEF Messages, Scans
  <2>3. CASE /\ scnFsmMsgStart(msg.scan)
             /\ mbox' = Tail(mbox)
             /\ UNCHANGED <<aisVars, p2pVars, osVars, rxEvents, cancelled, step>>
    <3>1. ScnInv'
      BY <2>2, <2>3, StartKeepsInv
    <3> QED BY <2>1, <2>3, <3>1
         DEF ScnInv, IInv, TypeOK, aisVars, p2pVars, osVars
  <2>4. CASE /\ scnFsmMsgAbort(msg.scan, FALSE, Tail(mbox))
             /\ UNCHANGED <<aisVars, p2pVars, osVars, rxEvents, step>>
    <3>1. ScnInv' /\ mbox' \in Seq(Messages) /\ cancelled' \subseteq Scans
      BY <2>1, <2>2, <2>4, AbortKeepsInv
    <3> QED BY <2>4, <3>1 DEF ScnInv, IInv, TypeOK, aisVars, p2pVars, osVars
  <2>5. CASE AisScanDone(msg.scan.seq) /\ UNCHANGED step
    <3>1. AisInv'
      BY <2>1, <2>5, EnterKeepsInv
      DEF AisScanDone, AisStays, GoesTo, AisInv, IInv, TypeOK
    <3>2. u2SeqNumOfScanReport' \in Nat
      BY <2>5, <3>1 DEF AisScanDone, Report, NotSet, AisInv, IInv, TypeOK
    <3>3. fgIsScanReqIssued' \in BOOLEAN /\ prScanRequest' \in BOOLEAN
      BY <2>5 DEF AisScanDone, IInv, TypeOK
    <3> QED BY <2>5, <3>1, <3>2, <3>3
         DEF AisScanDone, AisInv, IInv, TypeOK, NobodyWaitsForIdle, scnVars,
             p2pVars, fwVars
  <2>6. CASE P2pScanDone(msg.scan.seq) /\ UNCHANGED step
    BY <2>1, <2>6
    DEF P2pScanDone, IInv, TypeOK, NobodyWaitsForIdle, scnVars, aisVars, osVars,
        fwVars
  <2> QED BY <1>3, <2>3, <2>4, <2>5, <2>6 DEF mboxRcvAllMsg
<1>4. CASE scnEventScanDone
  <2>1. ScnInv'
    BY <1>4, StepsKeepInv DEF scnEventScanDone, IInv, TypeOK
  <2>2. Head(rxEvents) \in Nat /\ Tail(rxEvents) \in Seq(Nat)
    BY <1>4 DEF scnEventScanDone, IInv, TypeOK
  <2>3. mbox' \in Seq(Messages)
    <3>1. Scan(rScanParam.client, Head(rxEvents)) \in Scans
      BY <2>2 DEF Scan, Scans, IInv, TypeOK
    <3> QED BY <1>4, <3>1, MessageTypes DEF scnEventScanDone, IInv, TypeOK
  <2> QED BY <1>4, <2>1, <2>2, <2>3
       DEF scnEventScanDone, ScnInv, IInv, TypeOK, aisVars, p2pVars, osVars
<1>5. CASE NextStep
  BY <1>5 DEF NextStep, IInv, TypeOK, NobodyWaitsForIdle, scnVars, aisVars, p2pVars,
              osVars, fwVars
<1>6. CASE aisFsmRunEventScanDoneTimeOut
  <2>1. ScnInv' /\ AisInv' /\ cancelled' \subseteq Scans
    BY <1>6, AisCancelsKeepsInv DEF aisFsmRunEventScanDoneTimeOut
  <2> QED BY <1>6, <2>1
       DEF aisFsmRunEventScanDoneTimeOut, AisCancels, ScnInv, AisInv, IInv, TypeOK,
           p2pVars
<1>7. CASE aisFsmRunEventJoinTimeout
  <2>1. AisInv'
    BY <1>7, FamilyKeepsInv
    DEF aisFsmRunEventJoinTimeout, AisStays, GoesTo, AisInv, IInv, TypeOK
  <2>2. u2SeqNumOfScanReport' \in Nat
    BY <1>7, <2>1 DEF aisFsmRunEventJoinTimeout, Report, AisInv, IInv, TypeOK
  <2> QED BY <1>7, <2>1, <2>2
       DEF aisFsmRunEventJoinTimeout, AisInv, IInv, TypeOK, NobodyWaitsForIdle,
           scnVars, p2pVars, osVars, fwVars
<1>8. CASE p2pFunAbortOngoingScan
  <2>1. ScnInv' /\ AisInv' /\ cancelled' \subseteq Scans
    BY <1>8, AisCancelsKeepsInv DEF p2pFunAbortOngoingScan
  <2> QED BY <1>8, <2>1
       DEF p2pFunAbortOngoingScan, AisCancels, ScnInv, AisInv, IInv, TypeOK, p2pVars
<1>9. CASE P2pScans
  <2>1. ucSeqNumOfScnMsg' \in Nat /\ Scan("P2P", ucSeqNumOfScnMsg') \in Scans
    BY <1>9 DEF P2pScans, Scan, Scans, Clients, IInv, TypeOK
  <2>2. mbox' \in Seq(Messages)
    BY <1>9, <2>1, MessageTypes DEF P2pScans, IInv, TypeOK
  <2> QED BY <1>9, <2>1, <2>2
       DEF P2pScans, IInv, TypeOK, NobodyWaitsForIdle, scnVars, aisVars, osVars,
           fwVars
<1>10. CASE P2pAborts
  <2>1. ucSeqNumOfScnMsg' \in Nat /\ Scan("P2P", ucSeqNumOfScnMsg) \in Scans
    BY <1>10 DEF P2pAborts, Scan, Scans, Clients, IInv, TypeOK
  <2>2. mbox' \in Seq(Messages)
    BY <1>10, <2>1, MessageTypes DEF P2pAborts, IInv, TypeOK
  <2> QED BY <1>10, <2>1, <2>2
       DEF P2pAborts, IInv, TypeOK, NobodyWaitsForIdle, scnVars, aisVars, osVars,
           fwVars
<1>11. CASE mtk_cfg80211_scan \/ mtk_cfg80211_abort_scan \/ wlanStop
  <2>1. /\ prScanRequest' \in BOOLEAN /\ oid' \in {"none", "scan", "abort"}
        /\ asked' \in 0 .. MaxScans
        /\ UNCHANGED <<step, mbox, scnVars, aisVars, p2pVars, fwVars, cancelled>>
    <3>1. asked' = asked \/ (asked < MaxScans /\ asked' = asked + 1)
      BY <1>11 DEF mtk_cfg80211_scan, mtk_cfg80211_abort_scan, wlanStop
    <3>2. asked' \in 0 .. MaxScans
      BY <3>1 DEF IInv, TypeOK
    <3>3. prScanRequest' \in BOOLEAN /\ oid' \in {"none", "scan", "abort"}
      BY <1>11
      DEF mtk_cfg80211_scan, mtk_cfg80211_abort_scan, wlanStop, IInv, TypeOK
    <3> QED BY <1>11, <3>2, <3>3
         DEF mtk_cfg80211_scan, mtk_cfg80211_abort_scan, wlanStop
  <2> QED BY <2>1
       DEF IInv, TypeOK, NobodyWaitsForIdle, scnVars, aisVars, p2pVars, fwVars
<1>12. ASSUME NEW scan \in fwScans, FwEndsScan(scan) PROVE IInv'
  <2>1. rxEvents' \in Seq(Nat)
    <3>1. ASSUME NEW error \in SeqErrors PROVE scan.seq + error \in Nat
      BY DEF IInv, TypeOK, Scans
    <3>2. CASE UNCHANGED rxEvents
      BY <3>2 DEF IInv, TypeOK
    <3>3. CASE \E error \in SeqErrors : rxEvents' = Append(rxEvents, scan.seq + error)
      <4>1. PICK error \in SeqErrors : rxEvents' = Append(rxEvents, scan.seq + error)
        BY <3>3
      <4> QED BY <3>1, <4>1 DEF IInv, TypeOK
    <3> QED BY <1>12, <3>2, <3>3 DEF FwEndsScan
  <2> QED BY <1>12, <2>1
       DEF FwEndsScan, IInv, TypeOK, NobodyWaitsForIdle, scnVars, aisVars, p2pVars,
           osVars
<1>13. CASE aisFsmJoinCompleteAction
  BY <1>13 DEF aisFsmJoinCompleteAction, IInv, TypeOK, NobodyWaitsForIdle, scnVars,
               p2pVars, osVars, fwVars
<1>14. CASE UNCHANGED vars
  BY <1>14 DEF vars, IInv, TypeOK, NobodyWaitsForIdle, scnVars, aisVars, p2pVars,
               osVars, fwVars
<1> QED BY <1>1, <1>2, <1>3, <1>4, <1>5, <1>6, <1>7, <1>8, <1>9, <1>10, <1>11,
           <1>12, <1>13, <1>14 DEF Next, MainThread

\* Type correctness of the scan FSM, its mailbox and its clients.
THEOREM TypeCorrect == Spec => []TypeOK
<1>1. IInv => TypeOK
  BY DEF IInv
<1> QED BY InitIInv, NextKeepsIInv, <1>1, PTL DEF Spec

\* No scan waits in rPendingMsgList while the scan FSM is idle.
THEOREM NobodyWaits == Spec => []NobodyWaitsForIdle
<1>1. IInv => NobodyWaitsForIdle
  BY DEF IInv
<1> QED BY InitIInv, NextKeepsIInv, <1>1, PTL DEF Spec

-----------------------------------------------------------------------------
(* A scan is started once.  A request is posted with a number nobody has   *)
(* used, and from then on it is in one place only: in the mailbox, in      *)
(* rPendingMsgList, or among the scans the firmware was handed.            *)

In(x, s) == \E i \in 1 .. Len(s) : s[i] = x
Once(s) == \A i, j \in 1 .. Len(s) : s[i] = s[j] => i = j

\* The request of a scan is in mailbox m.
Posted(scan, m) ==
  \E i \in 1 .. Len(m) : m[i].type = "req" /\ m[i].scan = scan

PostedOnce(m) ==
  \A i, j \in 1 .. Len(m) :
    m[i].type = "req" /\ m[j].type = "req" /\ m[i].scan = m[j].scan => i = j

\* Its client has given out this number: a is that of AIS, p that of P2P.
Issued(scan, a, p) == scan.seq <= IF scan.client = "AIS" THEN a ELSE p

\* st were handed to the firmware, pd wait, m is the mailbox, c were cancelled.
InOnePlace(st, pd, m) ==
  /\ Once(st) /\ Once(pd) /\ PostedOnce(m)
  /\ \A scan \in Scans :
       /\ In(scan, st) => ~In(scan, pd) /\ ~Posted(scan, m)
       /\ In(scan, pd) => ~Posted(scan, m)

AllIssued(st, pd, m, a, p, c) ==
  \A scan \in Scans :
    \/ In(scan, st) \/ In(scan, pd) \/ Posted(scan, m)
    \/ scan \in c /\ scan.client = "P2P"
    => Issued(scan, a, p)

\* A cancel in the mailbox is one of P2P, and stands behind its request.
CancelsFollow(m, p) ==
  \A i \in 1 .. Len(m) : m[i].type = "cancel" =>
    /\ m[i].scan.client = "P2P" /\ m[i].scan.seq <= p
    /\ \A j \in i .. Len(m) : m[j].type = "req" => m[j].scan # m[i].scan

\* What was cancelled by P2P is not going to be started any more.
CancelledIsGone(pd, m, c) ==
  \A scan \in c : scan.client = "P2P" => ~In(scan, pd) /\ ~Posted(scan, m)

Fresh(st, pd, m, a, p, c) ==
  /\ InOnePlace(st, pd, m)
  /\ AllIssued(st, pd, m, a, p, c)
  /\ CancelsFollow(m, p)
  /\ CancelledIsGone(pd, m, c)

\* The scan that runs is one the firmware was handed.
RunningIsStarted == eCurrentState = "SCANNING" => In(rScanParam, started)

FreshInv ==
  /\ Fresh(started, rPendingMsgList, mbox, ucSeqNumOfScanReq, ucSeqNumOfScnMsg,
           cancelled)
  /\ RunningIsStarted

\* What Append, Tail and RemoveAt do to the members of a sequence.
LEMMA AppendMembers ==
  ASSUME NEW S, NEW s \in Seq(S), NEW x \in S, NEW y
  PROVE  In(y, Append(s, x)) <=> In(y, s) \/ y = x
<1>1. /\ Len(Append(s, x)) = Len(s) + 1
      /\ \A i \in 1 .. Len(s) : Append(s, x)[i] = s[i]
      /\ Append(s, x)[Len(s) + 1] = x
  OBVIOUS
<1>2. Len(s) \in Nat
  OBVIOUS
<1> QED BY <1>1, <1>2 DEF In

LEMMA AppendOnce ==
  ASSUME NEW S, NEW s \in Seq(S), NEW x \in S, Once(s), ~In(x, s)
  PROVE  Once(Append(s, x))
<1>1. /\ Len(Append(s, x)) = Len(s) + 1
      /\ \A i \in 1 .. Len(s) : Append(s, x)[i] = s[i]
      /\ Append(s, x)[Len(s) + 1] = x
  OBVIOUS
<1>2. Len(s) \in Nat
  OBVIOUS
<1> QED BY <1>1, <1>2 DEF In, Once

LEMMA TailMembers ==
  ASSUME NEW S, NEW s \in Seq(S), s # <<>>
  PROVE  /\ In(Head(s), s)
         /\ \A y : In(y, Tail(s)) => In(y, s)
         /\ Once(s) => Once(Tail(s)) /\ ~In(Head(s), Tail(s))
<1>1. /\ Len(s) \in Nat /\ Len(s) >= 1
      /\ Len(Tail(s)) = Len(s) - 1
      /\ Head(s) = s[1]
      /\ \A i \in 1 .. Len(Tail(s)) : Tail(s)[i] = s[i + 1]
  OBVIOUS
<1> QED BY <1>1 DEF In, Once

LEMMA RemoveAtMembers ==
  ASSUME NEW S, NEW s \in Seq(S), NEW k \in 1 .. Len(s)
  PROVE  /\ \A y : In(y, RemoveAt(s, k)) => In(y, s)
         /\ Once(s) => Once(RemoveAt(s, k)) /\ ~In(s[k], RemoveAt(s, k))
<1> DEFINE u == SubSeq(s, 1, k - 1)
           v == SubSeq(s, k + 1, Len(s))
           r == RemoveAt(s, k)
<1>1. Len(s) \in Nat
  OBVIOUS
<1>2. /\ Len(u) = k - 1
      /\ \A i \in 1 .. k - 1 : u[i] = s[i]
      /\ Len(v) = Len(s) - k
      /\ \A i \in 1 .. Len(s) - k : v[i] = s[i + k]
  BY <1>1
<1>3. u \in Seq(S) /\ v \in Seq(S) /\ r = u \o v
  BY DEF RemoveAt
<1> HIDE DEF u, v, r
<1>4. /\ Len(r) = Len(u) + Len(v)
      /\ \A i \in 1 .. Len(r) : r[i] = IF i <= Len(u) THEN u[i] ELSE v[i - Len(u)]
  BY <1>3
<1>5. /\ Len(r) = Len(s) - 1
      /\ \A i \in 1 .. Len(r) : r[i] = IF i < k THEN s[i] ELSE s[i + 1]
  <2>1. Len(r) = Len(s) - 1
    BY <1>1, <1>2, <1>4
  <2>2. ASSUME NEW i \in 1 .. Len(r), i < k PROVE r[i] = s[i]
    BY <1>1, <1>2, <1>4, <2>1, <2>2
  <2>3. ASSUME NEW i \in 1 .. Len(r), ~(i < k) PROVE r[i] = s[i + 1]
    <3>1. r[i] = v[i - (k - 1)]
      BY <1>1, <1>2, <1>4, <2>1, <2>3
    <3>2. i - (k - 1) \in 1 .. Len(s) - k /\ i - (k - 1) + k = i + 1
      BY <1>1, <2>1, <2>3
    <3> QED BY <1>2, <3>1, <3>2
  <2> QED BY <2>1, <2>2, <2>3
<1>6. \A y : In(y, r) => In(y, s)
  BY <1>1, <1>5 DEF In
<1>7. Once(s) => Once(r)
  BY <1>1, <1>5 DEF Once
<1>8. Once(s) => ~In(s[k], r)
  BY <1>1, <1>5 DEF Once, In
<1> QED BY <1>6, <1>7, <1>8 DEF r

\* What it does to the requests in a mailbox that a message is added to it, or
\* its head taken from it.
LEMMA AppendPosted ==
  ASSUME NEW m \in Seq(Messages), NEW msg \in Messages
  PROVE  /\ \A y : Posted(y, Append(m, msg)) <=>
                     Posted(y, m) \/ (msg.type = "req" /\ msg.scan = y)
         /\ PostedOnce(m) /\ (msg.type = "req" => ~Posted(msg.scan, m))
            => PostedOnce(Append(m, msg))
<1>1. /\ Len(Append(m, msg)) = Len(m) + 1
      /\ \A i \in 1 .. Len(m) : Append(m, msg)[i] = m[i]
      /\ Append(m, msg)[Len(m) + 1] = msg
  OBVIOUS
<1>2. Len(m) \in Nat
  OBVIOUS
<1>3. \A y : Posted(y, Append(m, msg)) <=>
               Posted(y, m) \/ (msg.type = "req" /\ msg.scan = y)
  BY <1>1, <1>2 DEF Posted
<1>4. ASSUME PostedOnce(m), msg.type = "req" => ~Posted(msg.scan, m)
      PROVE  PostedOnce(Append(m, msg))
  BY <1>1, <1>2, <1>4 DEF Posted, PostedOnce
<1> QED BY <1>3, <1>4

LEMMA TailPosted ==
  ASSUME NEW m \in Seq(Messages), m # <<>>
  PROVE  /\ \A y : Posted(y, Tail(m)) => Posted(y, m)
         /\ PostedOnce(m) => PostedOnce(Tail(m))
         /\ Head(m).type = "req" => Posted(Head(m).scan, m)
         /\ Head(m).type = "req" /\ PostedOnce(m) => ~Posted(Head(m).scan, Tail(m))
<1>1. /\ Len(m) \in Nat /\ Len(m) >= 1
      /\ Len(Tail(m)) = Len(m) - 1
      /\ Head(m) = m[1]
      /\ \A i \in 1 .. Len(Tail(m)) : Tail(m)[i] = m[i + 1]
  OBVIOUS
<1>2. \A y : Posted(y, Tail(m)) => Posted(y, m)
  BY <1>1 DEF Posted
<1>3. PostedOnce(m) => PostedOnce(Tail(m))
  BY <1>1 DEF PostedOnce
<1>4. Head(m).type = "req" => Posted(Head(m).scan, m)
  BY <1>1 DEF Posted
<1>5. Head(m).type = "req" /\ PostedOnce(m) => ~Posted(Head(m).scan, Tail(m))
  BY <1>1 DEF Posted, PostedOnce
<1> QED BY <1>2, <1>3, <1>4, <1>5

\* A message appended to the mailbox: what CancelsFollow asks of it.
LEMMA AppendCancels ==
  ASSUME NEW m \in Seq(Messages), NEW msg \in Messages, NEW p \in Nat, NEW q \in Nat,
         CancelsFollow(m, p), p <= q,
         msg.type = "cancel" => msg.scan.client = "P2P" /\ msg.scan.seq <= q,
         msg.type = "req" =>
           \A i \in 1 .. Len(m) : m[i].type = "cancel" => m[i].scan # msg.scan
  PROVE  CancelsFollow(Append(m, msg), q)
<1> DEFINE n == Append(m, msg)
<1>1. /\ Len(n) = Len(m) + 1 /\ Len(m) \in Nat
      /\ \A i \in 1 .. Len(m) : n[i] = m[i]
      /\ n[Len(m) + 1] = msg
  OBVIOUS
<1>2. msg.type # "cancel" \/ msg.type # "req"
  OBVIOUS
<1> HIDE DEF n
<1> SUFFICES ASSUME NEW i \in 1 .. Len(n), n[i].type = "cancel"
             PROVE  /\ n[i].scan.client = "P2P" /\ n[i].scan.seq <= q
                    /\ \A j \in i .. Len(n) : n[j].type = "req" => n[j].scan # n[i].scan
  BY DEF CancelsFollow, n
<1>3. CASE i = Len(m) + 1
  BY <1>1, <1>2, <1>3
<1>4. CASE i # Len(m) + 1
  <2>1. i \in 1 .. Len(m) /\ n[i] = m[i]
    BY <1>1, <1>4
  <2>2. /\ m[i].scan.client = "P2P" /\ m[i].scan.seq <= p
        /\ \A j \in i .. Len(m) : m[j].type = "req" => m[j].scan # m[i].scan
    BY <2>1 DEF CancelsFollow
  <2>3. m[i].scan.seq <= q
    <3>1. m[i] \in Messages
      BY <2>1
    <3>2. m[i].scan.seq \in Nat
      BY <3>1 DEF Messages, Scans
    <3>3. m[i].scan.seq <= p
      BY <2>2
    <3> QED BY <3>2, <3>3
  <2>4. ASSUME NEW j \in i .. Len(n), n[j].type = "req"
        PROVE  n[j].scan # n[i].scan
    <3>1. CASE j = Len(m) + 1
      BY <1>1, <2>1, <2>4, <3>1
    <3>2. CASE j # Len(m) + 1
      BY <1>1, <2>1, <2>2, <2>4, <3>2
    <3> QED BY <3>1, <3>2
  <2> QED BY <2>1, <2>2, <2>3, <2>4
<1> QED BY <1>3, <1>4

-----------------------------------------------------------------------------
(* What a step may do to a request keeps Fresh.                            *)

\* The head of the mailbox is taken from it.
LEMMA PopKeepsFresh ==
  ASSUME NEW st \in Seq(Scans), NEW pd \in Seq(Scans), NEW m \in Seq(Messages),
         NEW a \in Nat, NEW p \in Nat, NEW c \in SUBSET Scans,
         Fresh(st, pd, m, a, p, c), m # <<>>
  PROVE  /\ Fresh(st, pd, Tail(m), a, p, c)
         /\ Head(m).type = "req" =>
              /\ ~In(Head(m).scan, st) /\ ~In(Head(m).scan, pd)
              /\ ~Posted(Head(m).scan, Tail(m))
              /\ Issued(Head(m).scan, a, p)
              /\ Head(m).scan \in c => Head(m).scan.client = "AIS"
         /\ Head(m).type = "cancel" =>
              /\ Head(m).scan.client = "P2P" /\ Issued(Head(m).scan, a, p)
              /\ ~Posted(Head(m).scan, Tail(m))
<1>1. /\ Head(m) \in Messages /\ Head(m).scan \in Scans
      /\ Head(m).scan.client \in Clients
  <2>1. Head(m) \in Messages
    OBVIOUS
  <2> QED BY <2>1 DEF Messages, Scans
<1>2. /\ Len(m) \in Nat /\ Len(m) >= 1
      /\ Len(Tail(m)) = Len(m) - 1
      /\ Head(m) = m[1]
      /\ \A i \in 1 .. Len(Tail(m)) : Tail(m)[i] = m[i + 1]
  OBVIOUS
<1>3. InOnePlace(st, pd, Tail(m))
  BY TailPosted DEF Fresh, InOnePlace
<1>4. AllIssued(st, pd, Tail(m), a, p, c)
  BY TailPosted DEF Fresh, AllIssued
<1>5. CancelsFollow(Tail(m), p)
  BY <1>2 DEF Fresh, CancelsFollow
<1>6. CancelledIsGone(pd, Tail(m), c)
  BY TailPosted DEF Fresh, CancelledIsGone
<1>7. ASSUME Head(m).type = "req"
      PROVE  /\ ~In(Head(m).scan, st) /\ ~In(Head(m).scan, pd)
             /\ ~Posted(Head(m).scan, Tail(m))
             /\ Issued(Head(m).scan, a, p)
             /\ Head(m).scan \in c => Head(m).scan.client = "AIS"
  <2>1. Posted(Head(m).scan, m)
    BY <1>7, TailPosted
  <2>2. ~Posted(Head(m).scan, Tail(m))
    BY <1>7, TailPosted DEF Fresh, InOnePlace
  <2> QED BY <1>1, <2>1, <2>2
       DEF Fresh, InOnePlace, AllIssued, CancelledIsGone, Clients
<1>8. ASSUME Head(m).type = "cancel"
      PROVE  /\ Head(m).scan.client = "P2P" /\ Issued(Head(m).scan, a, p)
             /\ ~Posted(Head(m).scan, Tail(m))
  <2>1. /\ m[1].scan.client = "P2P" /\ m[1].scan.seq <= p
        /\ \A j \in 1 .. Len(m) : m[j].type = "req" => m[j].scan # m[1].scan
    BY <1>2, <1>8 DEF Fresh, CancelsFollow
  <2> QED BY <1>2, <2>1 DEF Issued, Posted
<1> QED BY <1>3, <1>4, <1>5, <1>6, <1>7, <1>8 DEF Fresh

\* A scan-done message is posted.
LEMMA DoneKeepsFresh ==
  ASSUME NEW st \in Seq(Scans), NEW pd \in Seq(Scans), NEW m \in Seq(Messages),
         NEW a \in Nat, NEW p \in Nat, NEW c \in SUBSET Scans,
         Fresh(st, pd, m, a, p, c),
         NEW msg \in Messages, msg.type = "done"
  PROVE  Fresh(st, pd, Append(m, msg), a, p, c)
<1>1. \A y : Posted(y, Append(m, msg)) <=> Posted(y, m)
  BY AppendPosted
<1>2. PostedOnce(Append(m, msg))
  BY AppendPosted DEF Fresh, InOnePlace
<1>3. CancelsFollow(Append(m, msg), p)
  BY AppendCancels DEF Fresh
<1> QED BY <1>1, <1>2, <1>3 DEF Fresh, InOnePlace, AllIssued, CancelledIsGone

\* P2P posts a cancel of its last number and goes on to the next.
LEMMA CancelKeepsFresh ==
  ASSUME NEW st \in Seq(Scans), NEW pd \in Seq(Scans), NEW m \in Seq(Messages),
         NEW a \in Nat, NEW p \in Nat, NEW c \in SUBSET Scans,
         Fresh(st, pd, m, a, p, c)
  PROVE  Fresh(st, pd, Append(m, CancelMsg(Scan("P2P", p))), a, p + 1, c)
<1> DEFINE msg == CancelMsg(Scan("P2P", p))
<1>1. Scan("P2P", p) \in Scans
  BY DEF Scan, Scans, Clients
<1>2. msg \in Messages /\ msg.type = "cancel" /\ msg.scan.client = "P2P"
      /\ msg.scan.seq = p
  BY <1>1, MessageTypes DEF CancelMsg, Scan
<1> HIDE DEF msg
<1>4. \A y : Posted(y, Append(m, msg)) <=> Posted(y, m)
  BY <1>2, AppendPosted
<1>5. PostedOnce(Append(m, msg))
  BY <1>2, AppendPosted DEF Fresh, InOnePlace
<1>6. CancelsFollow(Append(m, msg), p + 1)
  BY <1>2, AppendCancels DEF Fresh
<1>7. \A scan \in Scans : Issued(scan, a, p) => Issued(scan, a, p + 1)
  BY DEF Issued, Scans
<1> QED BY <1>4, <1>5, <1>6, <1>7
     DEF Fresh, InOnePlace, AllIssued, CancelledIsGone, msg

\* A client posts a request with the next number.
LEMMA RequestKeepsFresh ==
  ASSUME NEW st \in Seq(Scans), NEW pd \in Seq(Scans), NEW m \in Seq(Messages),
         NEW a \in Nat, NEW p \in Nat, NEW c \in SUBSET Scans,
         Fresh(st, pd, m, a, p, c)
  PROVE  /\ Fresh(st, pd, Append(m, ReqMsg(Scan("AIS", a + 1))), a + 1, p, c)
         /\ Fresh(st, pd, Append(m, ReqMsg(Scan("P2P", p + 1))), a, p + 1, c)
<1>1. ASSUME NEW b \in Nat, NEW q \in Nat, NEW new \in Scans,
             ~Issued(new, a, p), Issued(new, b, q),
             a <= b, p <= q,
             new.client = "P2P" => new.seq > p
      PROVE  Fresh(st, pd, Append(m, ReqMsg(new)), b, q, c)
  <2> DEFINE msg == ReqMsg(new)
  <2>1. msg \in Messages /\ msg.type = "req" /\ msg.scan = new
    BY MessageTypes DEF ReqMsg
  <2> HIDE DEF msg
  <2>3. \A y : Posted(y, Append(m, msg)) <=> Posted(y, m) \/ y = new
    BY <2>1, AppendPosted
  <2>4. /\ ~In(new, st) /\ ~In(new, pd) /\ ~Posted(new, m)
        /\ new \in c => new.client # "P2P"
    BY <1>1 DEF Fresh, AllIssued
  <2>5. PostedOnce(Append(m, msg))
    BY <2>1, <2>4, AppendPosted DEF Fresh, InOnePlace
  <2>6. InOnePlace(st, pd, Append(m, msg))
    BY <2>3, <2>4, <2>5 DEF Fresh, InOnePlace
  <2>7. \A scan \in Scans : Issued(scan, a, p) => Issued(scan, b, q)
    BY <1>1 DEF Issued, Scans
  <2>8. AllIssued(st, pd, Append(m, msg), b, q, c)
    BY <1>1, <2>3, <2>7 DEF Fresh, AllIssued
  <2>9. CancelsFollow(Append(m, msg), q)
    <3>1. ASSUME NEW i \in 1 .. Len(m), m[i].type = "cancel"
          PROVE  m[i].scan # new
      <4>1. m[i].scan.client = "P2P" /\ m[i].scan.seq <= p
        BY <3>1 DEF Fresh, CancelsFollow
      <4>2. m[i].scan # new \/ (new.seq <= p /\ new.seq > p)
        BY <1>1, <4>1
      <4>3. new.seq \in Nat
        BY DEF Scans
      <4> QED BY <4>2, <4>3
    <3> QED BY <1>1, <2>1, <3>1, AppendCancels DEF Fresh
  <2>10. CancelledIsGone(pd, Append(m, msg), c)
    BY <2>3, <2>4 DEF Fresh, CancelledIsGone
  <2> QED BY <2>6, <2>8, <2>9, <2>10 DEF Fresh, msg
<1>2. /\ Scan("AIS", a + 1) \in Scans /\ Scan("P2P", p + 1) \in Scans
      /\ Scan("AIS", a + 1).client = "AIS" /\ Scan("P2P", p + 1).client = "P2P"
      /\ Scan("P2P", p + 1).seq = p + 1
      /\ ~Issued(Scan("AIS", a + 1), a, p) /\ Issued(Scan("AIS", a + 1), a + 1, p)
      /\ ~Issued(Scan("P2P", p + 1), a, p) /\ Issued(Scan("P2P", p + 1), a, p + 1)
  BY DEF Scan, Scans, Clients, Issued
<1>3. Fresh(st, pd, Append(m, ReqMsg(Scan("AIS", a + 1))), a + 1, p, c)
  BY <1>1, <1>2
<1>4. Fresh(st, pd, Append(m, ReqMsg(Scan("P2P", p + 1))), a, p + 1, c)
  BY <1>1, <1>2
<1> QED BY <1>3, <1>4

\* A scan that is nowhere else is handed to the firmware.
LEMMA HandKeepsFresh ==
  ASSUME NEW st \in Seq(Scans), NEW pd \in Seq(Scans), NEW m \in Seq(Messages),
         NEW a \in Nat, NEW p \in Nat, NEW c \in SUBSET Scans,
         Fresh(st, pd, m, a, p, c),
         NEW scan \in Scans, ~In(scan, st), ~In(scan, pd), ~Posted(scan, m),
         Issued(scan, a, p)
  PROVE  Fresh(Append(st, scan), pd, m, a, p, c)
<1>1. \A y : In(y, Append(st, scan)) <=> In(y, st) \/ y = scan
  BY AppendMembers
<1>2. Once(Append(st, scan))
  BY AppendOnce DEF Fresh, InOnePlace
<1> QED BY <1>1, <1>2 DEF Fresh, InOnePlace, AllIssued

\* A scan that is nowhere else is put into rPendingMsgList.
LEMMA WaitKeepsFresh ==
  ASSUME NEW st \in Seq(Scans), NEW pd \in Seq(Scans), NEW m \in Seq(Messages),
         NEW a \in Nat, NEW p \in Nat, NEW c \in SUBSET Scans,
         Fresh(st, pd, m, a, p, c),
         NEW scan \in Scans, ~In(scan, st), ~In(scan, pd), ~Posted(scan, m),
         Issued(scan, a, p), scan \in c => scan.client = "AIS"
  PROVE  Fresh(st, Append(pd, scan), m, a, p, c)
<1>1. \A y : In(y, Append(pd, scan)) <=> In(y, pd) \/ y = scan
  BY AppendMembers
<1>2. Once(Append(pd, scan))
  BY AppendOnce DEF Fresh, InOnePlace
<1> QED BY <1>1, <1>2 DEF Fresh, InOnePlace, AllIssued, CancelledIsGone

\* The first that waits is handed to the firmware: P2P has not cancelled it.
LEMMA NextKeepsFresh ==
  ASSUME NEW st \in Seq(Scans), NEW pd \in Seq(Scans), NEW m \in Seq(Messages),
         NEW a \in Nat, NEW p \in Nat, NEW c \in SUBSET Scans,
         Fresh(st, pd, m, a, p, c), pd # <<>>
  PROVE  /\ Fresh(Append(st, Head(pd)), Tail(pd), m, a, p, c)
         /\ Head(pd) \in c => Head(pd).client # "P2P"
<1> DEFINE scan == Head(pd)
<1>1. scan \in Scans /\ Tail(pd) \in Seq(Scans)
  OBVIOUS
<1>2. /\ In(scan, pd)
      /\ \A y : In(y, Tail(pd)) => In(y, pd)
      /\ Once(Tail(pd)) /\ ~In(scan, Tail(pd))
  BY TailMembers DEF Fresh, InOnePlace
<1>3. /\ ~In(scan, st) /\ ~Posted(scan, m) /\ Issued(scan, a, p)
      /\ scan \in c => scan.client # "P2P"
  BY <1>1, <1>2 DEF Fresh, InOnePlace, AllIssued, CancelledIsGone
<1> HIDE DEF scan
<1>4. Fresh(st, Tail(pd), m, a, p, c)
  BY <1>2 DEF Fresh, InOnePlace, AllIssued, CancelledIsGone
<1>5. Fresh(Append(st, scan), Tail(pd), m, a, p, c)
  BY <1>1, <1>2, <1>3, <1>4, HandKeepsFresh
<1> QED BY <1>3, <1>5 DEF scan

\* A request is taken out of rPendingMsgList, and is not there any more.
LEMMA RemoveKeepsFresh ==
  ASSUME NEW st \in Seq(Scans), NEW pd \in Seq(Scans), NEW m \in Seq(Messages),
         NEW a \in Nat, NEW p \in Nat, NEW c \in SUBSET Scans,
         Fresh(st, pd, m, a, p, c), NEW k \in 1 .. Len(pd)
  PROVE  /\ Fresh(st, RemoveAt(pd, k), m, a, p, c)
         /\ ~In(pd[k], RemoveAt(pd, k))
<1>1. /\ \A y : In(y, RemoveAt(pd, k)) => In(y, pd)
      /\ Once(RemoveAt(pd, k)) /\ ~In(pd[k], RemoveAt(pd, k))
  BY RemoveAtMembers DEF Fresh, InOnePlace
<1> QED BY <1>1 DEF Fresh, InOnePlace, AllIssued, CancelledIsGone

\* A scan is cancelled: if P2P does so, it does not wait any more.
LEMMA CancelledKeepsFresh ==
  ASSUME NEW st \in Seq(Scans), NEW pd \in Seq(Scans), NEW m \in Seq(Messages),
         NEW a \in Nat, NEW p \in Nat, NEW c \in SUBSET Scans,
         Fresh(st, pd, m, a, p, c),
         NEW scan \in Scans,
         scan.client = "P2P" => /\ ~In(scan, pd) /\ ~Posted(scan, m)
                                /\ Issued(scan, a, p)
  PROVE  Fresh(st, pd, m, a, p, c \cup {scan})
BY DEF Fresh, AllIssued, CancelledIsGone

-----------------------------------------------------------------------------
(* The operators of the scan FSM.                                          *)

\* If this step hands over a scan, then not one that P2P has cancelled.
StartsUncancelled ==
  started' # started /\ Last(started').client = "P2P" => Last(started') \notin cancelled

LEMMA SentIsLast ==
  ASSUME NEW st \in Seq(Scans), NEW scan \in Scans
  PROVE  Last(Append(st, scan)) = scan
<1>1. Append(st, scan)[Len(Append(st, scan))] = scan
  OBVIOUS
<1> QED BY <1>1 DEF Last

\* The next one is started, if one waits.
LEMMA StepsKeepFresh ==
  ASSUME IInv, RunningIsStarted, NEW running, scnFsmSteps(running),
         NEW m \in Seq(Messages), NEW c \in SUBSET Scans, cancelled \subseteq c,
         Fresh(started, rPendingMsgList, m, ucSeqNumOfScanReq, ucSeqNumOfScnMsg, c)
  PROVE  /\ Fresh(started', rPendingMsgList', m, ucSeqNumOfScanReq,
                  ucSeqNumOfScnMsg, c)
         /\ RunningIsStarted' /\ StartsUncancelled
<1>1. CASE rPendingMsgList = <<>>
  BY <1>1 DEF scnFsmSteps, RunningIsStarted, StartsUncancelled
<1>2. CASE rPendingMsgList # <<>>
  <2> DEFINE scan == Head(rPendingMsgList)
  <2>1. scan \in Scans /\ started \in Seq(Scans)
    BY <1>2 DEF IInv, TypeOK
  <2>2. /\ eCurrentState' = "SCANNING" /\ rScanParam' = scan
        /\ started' = Append(started, scan)
        /\ rPendingMsgList' = Tail(rPendingMsgList)
    BY <1>2 DEF scnFsmSteps, SendScanReq
  <2>3. /\ Fresh(started', rPendingMsgList', m, ucSeqNumOfScanReq,
                 ucSeqNumOfScnMsg, c)
        /\ scan \in c => scan.client # "P2P"
    BY <1>2, <2>2, NextKeepsFresh DEF IInv, TypeOK
  <2> HIDE DEF scan
  <2>4. Last(started') = scan
    BY <2>1, <2>2, SentIsLast
  <2>5. In(scan, started')
    BY <2>1, <2>2, AppendMembers
  <2>6. RunningIsStarted'
    BY <2>2, <2>5 DEF RunningIsStarted
  <2>7. StartsUncancelled
    BY <2>3, <2>4 DEF StartsUncancelled
  <2> QED BY <2>3, <2>6, <2>7
<1> QED BY <1>1, <1>2

\* A request that has left the mailbox is started or waits.
LEMMA StartKeepsFresh ==
  ASSUME IInv, RunningIsStarted, NEW scan \in Scans, scnFsmMsgStart(scan),
         NEW m \in Seq(Messages),
         Fresh(started, rPendingMsgList, m, ucSeqNumOfScanReq, ucSeqNumOfScnMsg,
               cancelled),
         ~In(scan, started), ~In(scan, rPendingMsgList), ~Posted(scan, m),
         Issued(scan, ucSeqNumOfScanReq, ucSeqNumOfScnMsg),
         scan \in cancelled => scan.client = "AIS"
  PROVE  /\ Fresh(started', rPendingMsgList', m, ucSeqNumOfScanReq,
                  ucSeqNumOfScnMsg, cancelled)
         /\ RunningIsStarted' /\ StartsUncancelled
<1>1. /\ started \in Seq(Scans) /\ rPendingMsgList \in Seq(Scans)
      /\ ucSeqNumOfScanReq \in Nat /\ ucSeqNumOfScnMsg \in Nat
      /\ cancelled \in SUBSET Scans
  BY DEF IInv, TypeOK
<1>2. CASE eCurrentState = "IDLE"
  <2>1. /\ eCurrentState' = "SCANNING" /\ rScanParam' = scan
        /\ started' = Append(started, scan) /\ rPendingMsgList' = rPendingMsgList
    BY <1>2 DEF scnFsmMsgStart, SendScanReq
  <2>2. Fresh(started', rPendingMsgList', m, ucSeqNumOfScanReq,
              ucSeqNumOfScnMsg, cancelled)
    BY <1>1, <2>1, HandKeepsFresh
  <2>3. Last(started') = scan
    BY <1>1, <2>1, SentIsLast
  <2>4. In(scan, started')
    BY <1>1, <2>1, AppendMembers
  <2> QED BY <2>1, <2>2, <2>3, <2>4 DEF RunningIsStarted, StartsUncancelled
<1>3. CASE eCurrentState # "IDLE"
  <2>1. /\ rPendingMsgList' = Append(rPendingMsgList, scan)
        /\ UNCHANGED <<eCurrentState, rScanParam, started>>
    BY <1>3 DEF scnFsmMsgStart
  <2>2. Fresh(started', rPendingMsgList', m, ucSeqNumOfScanReq,
              ucSeqNumOfScnMsg, cancelled)
    BY <1>1, <2>1, WaitKeepsFresh
  <2> QED BY <2>1, <2>2 DEF RunningIsStarted, StartsUncancelled
<1> QED BY <1>2, <1>3

\* A cancel, of a scan whose request is not in the mailbox if P2P cancels it.
LEMMA AbortKeepsFresh ==
  ASSUME IInv, RunningIsStarted, NEW scan \in Scans, NEW isOidRequest,
         NEW m \in Seq(Messages), scnFsmMsgAbort(scan, isOidRequest, m),
         Fresh(started, rPendingMsgList, m, ucSeqNumOfScanReq, ucSeqNumOfScnMsg,
               cancelled),
         scan.client = "P2P" =>
           /\ ~Posted(scan, m)
           /\ Issued(scan, ucSeqNumOfScanReq, ucSeqNumOfScnMsg)
  PROVE  /\ Fresh(started', rPendingMsgList', mbox', ucSeqNumOfScanReq,
                  ucSeqNumOfScnMsg, cancelled')
         /\ RunningIsStarted' /\ StartsUncancelled
<1> DEFINE a == ucSeqNumOfScanReq
           p == ucSeqNumOfScnMsg
           c == cancelled \cup {scan}
<1>1. /\ started \in Seq(Scans) /\ rPendingMsgList \in Seq(Scans)
      /\ a \in Nat /\ p \in Nat
      /\ cancelled \in SUBSET Scans /\ c \in SUBSET Scans /\ cancelled \subseteq c
  BY DEF IInv, TypeOK
<1>2. cancelled' = c
  BY DEF scnFsmMsgAbort
<1>3. \A status \in {"DONE", "CANCELLED"} :
        /\ DoneMsg(scan, status) \in Messages
        /\ DoneMsg(scan, status).type = "done"
  BY MessageTypes DEF DoneMsg
<1> HIDE DEF a, p, c
<1>4. CASE eCurrentState = "SCANNING" /\ rScanParam = scan
  <2>1. PICK status \in {"DONE", "CANCELLED"} :
          mbox' = Append(m, DoneMsg(scan, status)) /\ scnFsmSteps(fwScans \ {scan})
    BY <1>4 DEF scnFsmMsgAbort
  <2>2. In(scan, started)
    BY <1>4 DEF RunningIsStarted
  <2>3. ~In(scan, rPendingMsgList) /\ ~Posted(scan, m)
    BY <2>2 DEF Fresh, InOnePlace
  <2>4. Fresh(started, rPendingMsgList, m, a, p, c)
    BY <1>1, <2>3, CancelledKeepsFresh DEF a, p, c
  <2>5. mbox' \in Seq(Messages)
    BY <1>3, <2>1
  <2>6. Fresh(started, rPendingMsgList, mbox', a, p, c)
    BY <1>1, <1>3, <2>1, <2>4, DoneKeepsFresh
  <2> QED BY <1>1, <1>2, <2>1, <2>5, <2>6, StepsKeepFresh DEF a, p
<1>5. CASE eCurrentState = "SCANNING" /\ rScanParam # scan
  <2>1. /\ scnFsmRemovePendingMsg(scan, m)
        /\ UNCHANGED <<eCurrentState, rScanParam, started>>
    BY <1>5 DEF scnFsmMsgAbort, scnFsmRemovePendingMsg
  <2>2. Fresh(started, rPendingMsgList', mbox', a, p, cancelled')
    <3>1. CASE ~Waits(scan) /\ mbox' = m /\ UNCHANGED rPendingMsgList
      <4>1. ~In(scan, rPendingMsgList)
        BY <3>1, <1>1 DEF Waits, Contains, In
      <4> QED BY <1>1, <1>2, <3>1, <4>1, CancelledKeepsFresh DEF a, p, c
    <3>2. ASSUME NEW k \in 1 .. Len(rPendingMsgList), rPendingMsgList[k] = scan,
                 rPendingMsgList' = RemoveAt(rPendingMsgList, k),
                 mbox' = Append(m, DoneMsg(scan, "CANCELLED"))
          PROVE  Fresh(started, rPendingMsgList', mbox', a, p, cancelled')
      <4>1. /\ rPendingMsgList' \in Seq(Scans)
            /\ Fresh(started, rPendingMsgList', m, a, p, cancelled)
            /\ ~In(scan, rPendingMsgList')
        BY <1>1, <3>2, RemoveKeepsFresh, RemoveAtType DEF a, p
      <4>2. Fresh(started, rPendingMsgList', m, a, p, c)
        BY <1>1, <4>1, CancelledKeepsFresh DEF a, p, c
      <4> QED BY <1>1, <1>2, <1>3, <3>2, <4>1, <4>2, DoneKeepsFresh
    <3> QED BY <2>1, <3>1, <3>2 DEF scnFsmRemovePendingMsg
  <2> QED BY <2>1, <2>2 DEF RunningIsStarted, StartsUncancelled, a, p
<1>6. CASE eCurrentState = "IDLE"
  <2>1. mbox' = m /\ UNCHANGED <<eCurrentState, rScanParam, rPendingMsgList, started>>
    BY <1>6 DEF scnFsmMsgAbort, scnVars
  <2>2. ~In(scan, rPendingMsgList)
    BY <1>6 DEF IInv, NobodyWaitsForIdle, In
  <2>3. Fresh(started, rPendingMsgList, m, a, p, c)
    BY <1>1, <2>2, CancelledKeepsFresh DEF a, p, c
  <2> QED BY <1>2, <2>1, <2>3 DEF RunningIsStarted, StartsUncancelled, a, p
<1> QED BY <1>4, <1>5, <1>6 DEF IInv, TypeOK

-----------------------------------------------------------------------------
(* The steps.                                                              *)

\* AIS posts the request of a new scan, or leaves the mailbox alone.
MayPost(m) ==
  \/ /\ mbox' = Append(m, ReqMsg(Scan("AIS", ucSeqNumOfScanReq + 1)))
     /\ ucSeqNumOfScanReq' = ucSeqNumOfScanReq + 1
  \/ mbox' = m /\ ucSeqNumOfScanReq' = ucSeqNumOfScanReq

LEMMA EnterMayPost ==
  ASSUME NEW m, NEW state, \/ EnterIdle(m) \/ EnterNormalTr(m)
                           \/ ScanFamily(state, m) \/ GoesTo(state, m)
  PROVE  MayPost(m)
BY DEF EnterIdle, EnterNormalTr, ScanFamily, GoesTo, MayPost

LEMMA PostKeepsFresh ==
  ASSUME IInv, RunningIsStarted, NEW m \in Seq(Messages),
         Fresh(started, rPendingMsgList, m, ucSeqNumOfScanReq, ucSeqNumOfScnMsg,
               cancelled),
         MayPost(m), UNCHANGED <<scnVars, started, ucSeqNumOfScnMsg, cancelled>>
  PROVE  FreshInv' /\ StartsUncancelled
<1>1. /\ started \in Seq(Scans) /\ rPendingMsgList \in Seq(Scans)
      /\ ucSeqNumOfScanReq \in Nat /\ ucSeqNumOfScnMsg \in Nat
      /\ cancelled \in SUBSET Scans
  BY DEF IInv, TypeOK
<1>2. Fresh(started, rPendingMsgList, mbox', ucSeqNumOfScanReq', ucSeqNumOfScnMsg,
            cancelled)
  BY <1>1, RequestKeepsFresh DEF MayPost
<1> QED BY <1>2 DEF FreshInv, RunningIsStarted, StartsUncancelled, scnVars

\* Every step keeps FreshInv, and none starts a scan that P2P has cancelled: one
\* step per action.
LEMMA NextKeepsFreshInv ==
  ASSUME IInv, FreshInv, [Next]_vars
  PROVE  FreshInv' /\ StartsUncancelled
<1> DEFINE a == ucSeqNumOfScanReq
           p == ucSeqNumOfScnMsg
<1>1. /\ mbox \in Seq(Messages) /\ started \in Seq(Scans)
      /\ rPendingMsgList \in Seq(Scans) /\ rScanParam \in Scans
      /\ a \in Nat /\ p \in Nat /\ cancelled \in SUBSET Scans
  BY DEF IInv, TypeOK
<1>2. /\ Fresh(started, rPendingMsgList, mbox, a, p, cancelled)
      /\ RunningIsStarted
  BY DEF FreshInv
<1>3. ASSUME MayPost(mbox), UNCHANGED <<scnVars, started, ucSeqNumOfScnMsg, cancelled>>
      PROVE  FreshInv' /\ StartsUncancelled
  BY <1>1, <1>2, <1>3, PostKeepsFresh
<1>4. ASSUME NEW isOidRequest, AisCancels(isOidRequest)
      PROVE  FreshInv' /\ StartsUncancelled
  <2>1. Scan("AIS", a) \in Scans /\ Scan("AIS", a).client = "AIS"
    BY <1>1 DEF Scan, Scans, Clients
  <2>2. /\ scnFsmMsgAbort(Scan("AIS", a), isOidRequest, mbox)
        /\ UNCHANGED <<ucSeqNumOfScanReq, ucSeqNumOfScnMsg>>
    BY <1>4 DEF AisCancels, p2pVars
  <2>3. /\ Fresh(started', rPendingMsgList', mbox', a, p, cancelled')
        /\ RunningIsStarted' /\ StartsUncancelled
    BY <1>1, <1>2, <2>1, <2>2, AbortKeepsFresh
  <2> QED BY <2>2, <2>3 DEF FreshInv
<1>5. CASE wlanoidSetBssidListScanAdv
  <2>1. MayPost(mbox)
    BY <1>5, EnterMayPost
    DEF wlanoidSetBssidListScanAdv, StartsScan, DropsScan, AisStays, MayPost
  <2> QED BY <1>3, <1>5, <2>1 DEF wlanoidSetBssidListScanAdv, p2pVars, fwVars
<1>6. CASE wlanoidAbortScan
  <2>1. CASE AisScans
    BY <1>4, <1>6, <2>1 DEF wlanoidAbortScan
  <2>2. CASE ~AisScans
    <3>1. UNCHANGED <<mbox, scnVars, aisVars, p2pVars, fwVars, cancelled>>
      BY <1>6, <2>2 DEF wlanoidAbortScan
    <3> QED BY <1>3, <3>1 DEF MayPost, aisVars, p2pVars, fwVars
  <2> QED BY <2>1, <2>2
<1>7. CASE mboxRcvAllMsg
  <2> DEFINE msg == Head(mbox)
             m == Tail(mbox)
  <2>1. /\ mbox # <<>> /\ msg \in Messages /\ m \in Seq(Messages)
        /\ msg.scan \in Scans
    <3>1. mbox # <<>> /\ msg \in Messages /\ m \in Seq(Messages)
      BY <1>1, <1>7 DEF mboxRcvAllMsg
    <3> QED BY <3>1 DEF Messages
  <2>2. /\ Fresh(started, rPendingMsgList, m, a, p, cancelled)
        /\ msg.type = "req" =>
             /\ ~In(msg.scan, started) /\ ~In(msg.scan, rPendingMsgList)
             /\ ~Posted(msg.scan, m)
             /\ Issued(msg.scan, a, p)
             /\ msg.scan \in cancelled => msg.scan.client = "AIS"
        /\ msg.type = "cancel" =>
             /\ msg.scan.client = "P2P" /\ Issued(msg.scan, a, p)
             /\ ~Posted(msg.scan, m)
    BY <1>1, <1>2, <2>1, PopKeepsFresh
  <2> HIDE DEF msg, m
  <2>3. CASE /\ msg.type = "req" /\ scnFsmMsgStart(msg.scan)
             /\ mbox' = m
             /\ UNCHANGED <<aisVars, p2pVars, osVars, rxEvents, cancelled>>
    <3>1. /\ Fresh(started', rPendingMsgList', m, a, p, cancelled)
          /\ RunningIsStarted' /\ StartsUncancelled
      BY <1>2, <2>1, <2>2, <2>3, StartKeepsFresh
    <3> QED BY <2>3, <3>1 DEF FreshInv, aisVars, p2pVars
  <2>4. CASE /\ msg.type = "cancel" /\ scnFsmMsgAbort(msg.scan, FALSE, m)
             /\ UNCHANGED <<aisVars, p2pVars, osVars, rxEvents>>
    <3>1. /\ Fresh(started', rPendingMsgList', mbox', a, p, cancelled')
          /\ RunningIsStarted' /\ StartsUncancelled
      BY <1>2, <2>1, <2>2, <2>4, AbortKeepsFresh
    <3> QED BY <2>4, <3>1 DEF FreshInv, aisVars, p2pVars
  <2>5. CASE AisScanDone(msg.scan.seq)
    <3>1. MayPost(m)
      BY <2>5, EnterMayPost DEF AisScanDone, AisStays, m
    <3> QED BY <1>2, <2>1, <2>2, <2>5, <3>1, PostKeepsFresh
         DEF AisScanDone, p2pVars, fwVars
  <2>6. CASE P2pScanDone(msg.scan.seq)
    BY <1>2, <2>1, <2>2, <2>6, PostKeepsFresh
    DEF P2pScanDone, MayPost, m, aisVars, fwVars
  <2> QED BY <1>7, <2>3, <2>4, <2>5, <2>6 DEF mboxRcvAllMsg, msg, m
<1>8. CASE scnEventScanDone
  <2> DEFINE done == DoneMsg(Scan(rScanParam.client, Head(rxEvents)), "DONE")
             m == Append(mbox, done)
  <2>1. done \in Messages /\ done.type = "done"
    <3>1. Scan(rScanParam.client, Head(rxEvents)) \in Scans
      BY <1>8 DEF scnEventScanDone, IInv, TypeOK, Scan, Scans
    <3> QED BY <3>1, MessageTypes DEF DoneMsg
  <2> HIDE DEF done
  <2>2. m \in Seq(Messages) /\ Fresh(started, rPendingMsgList, m, a, p, cancelled)
    BY <1>1, <1>2, <2>1, DoneKeepsFresh
  <2>3. mbox' = m /\ scnFsmSteps(fwScans) /\ UNCHANGED <<aisVars, p2pVars, cancelled>>
    BY <1>8 DEF scnEventScanDone, done
  <2> HIDE DEF m
  <2>4. /\ Fresh(started', rPendingMsgList', m, a, p, cancelled)
        /\ RunningIsStarted' /\ StartsUncancelled
    BY <1>1, <1>2, <2>2, <2>3, StepsKeepFresh
  <2> QED BY <2>3, <2>4 DEF FreshInv, aisVars, p2pVars
<1>9. CASE NextStep
  BY <1>3, <1>9 DEF NextStep, MayPost, aisVars, p2pVars, fwVars
<1>10. CASE aisFsmRunEventScanDoneTimeOut
  BY <1>4, <1>10 DEF aisFsmRunEventScanDoneTimeOut
<1>11. CASE aisFsmRunEventJoinTimeout
  <2>1. MayPost(mbox)
    BY <1>11, EnterMayPost DEF aisFsmRunEventJoinTimeout, AisStays
  <2> QED BY <1>3, <1>11, <2>1 DEF aisFsmRunEventJoinTimeout, p2pVars, fwVars
<1>12. CASE p2pFunAbortOngoingScan
  BY <1>4, <1>12 DEF p2pFunAbortOngoingScan
<1>13. CASE aisFsmJoinCompleteAction
  BY <1>3, <1>13 DEF aisFsmJoinCompleteAction, MayPost, p2pVars, fwVars
<1>14. CASE P2pScans
  <2>1. /\ mbox' = Append(mbox, ReqMsg(Scan("P2P", p + 1)))
        /\ ucSeqNumOfScnMsg' = p + 1
        /\ UNCHANGED <<scnVars, started, ucSeqNumOfScanReq, cancelled>>
    BY <1>14 DEF P2pScans, aisVars, fwVars
  <2>2. Fresh(started, rPendingMsgList, mbox', a, p + 1, cancelled)
    BY <1>1, <1>2, <2>1, RequestKeepsFresh
  <2> QED BY <2>1, <2>2 DEF FreshInv, RunningIsStarted, StartsUncancelled, scnVars
<1>15. CASE P2pAborts
  <2>1. /\ mbox' = Append(mbox, CancelMsg(Scan("P2P", p)))
        /\ ucSeqNumOfScnMsg' = p + 1
        /\ UNCHANGED <<scnVars, started, ucSeqNumOfScanReq, cancelled>>
    BY <1>15 DEF P2pAborts, aisVars, fwVars
  <2>2. Fresh(started, rPendingMsgList, mbox', a, p + 1, cancelled)
    BY <1>1, <1>2, <2>1, CancelKeepsFresh
  <2> QED BY <2>1, <2>2 DEF FreshInv, RunningIsStarted, StartsUncancelled, scnVars
<1>16. CASE mtk_cfg80211_scan \/ mtk_cfg80211_abort_scan \/ wlanStop
  BY <1>3, <1>16 DEF mtk_cfg80211_scan, mtk_cfg80211_abort_scan, wlanStop, MayPost,
                     aisVars, p2pVars, fwVars
<1>17. ASSUME NEW scan \in fwScans, FwEndsScan(scan)
       PROVE  FreshInv' /\ StartsUncancelled
  BY <1>3, <1>17 DEF FwEndsScan, MayPost, aisVars, p2pVars
<1>18. CASE UNCHANGED vars
  BY <1>3, <1>18 DEF vars, MayPost, aisVars, p2pVars, fwVars
<1> QED BY <1>5, <1>6, <1>7, <1>8, <1>9, <1>10, <1>11, <1>12, <1>13, <1>14, <1>15,
           <1>16, <1>17, <1>18 DEF Next, MainThread

\* FreshInv holds in every reachable state.
LEMMA FreshInvariance == Spec => []FreshInv
<1>1. Init => FreshInv
  BY DEF Init, FreshInv, Fresh, InOnePlace, AllIssued, CancelsFollow,
         CancelledIsGone, RunningIsStarted, In, Once, Posted, PostedOnce
<1>2. IInv /\ FreshInv /\ [Next]_vars => FreshInv'
  BY NextKeepsFreshInv
<1> QED BY <1>1, <1>2, InitIInv, NextKeepsIInv, PTL DEF Spec

\* No scan is handed to the firmware twice, whatever the firmware reports under
\* which number, and whichever cancels and timeouts come in between.
THEOREM ScansStartOnce == Spec => []StartedOnce
<1>1. FreshInv => StartedOnce
  BY DEF FreshInv, Fresh, InOnePlace, Once, StartedOnce
<1> QED BY <1>1, FreshInvariance, PTL

\* A P2P scan whose cancel was handled is not handed to the firmware afterwards.
THEOREM CancelledIsNotStarted == Spec => P2pCancelledStaysSo
<1> DEFINE Uncancelled ==
             LET scan == Last(started')
             IN started' # started /\ scan.client = "P2P" => scan \notin cancelled
<1>1. IInv /\ FreshInv /\ [Next]_vars => [Uncancelled]_vars
  BY NextKeepsFreshInv DEF StartsUncancelled
<1> QED BY <1>1, InitIInv, NextKeepsIInv, FreshInvariance, PTL
     DEF Spec, P2pCancelledStaysSo
=============================================================================
