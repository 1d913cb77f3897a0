------------------------------- MODULE ScanFsm -------------------------------
(***************************************************************************)
(* The scan state machine (mgmt/scan_fsm.c) and the mailbox through which  *)
(* it is driven (mgmt/hem_mbox.c), with two of its clients: the station    *)
(* (AIS, mgmt/ais_fsm.c), which scans for cfg80211, and the P2P device.    *)
(*                                                                         *)
(* One scan is with the firmware at a time, the others wait in             *)
(* rPendingMsgList.  Requests and scan-done messages go through the        *)
(* mailbox; a cancel of AIS is handled at once (UNBUF) and overtakes them. *)
(* Everything here runs in main_thread, whose loop serves OIDs, mailbox,   *)
(* received events and timers in this order; cfg80211 and the firmware run *)
(* beside it.                                                              *)
(*                                                                         *)
(* Abstractions.  Nothing asks AIS to connect or to disconnect: it is IDLE *)
(* or connected (NORMAL_TR, rJoinTimeoutTimer running or not) from the     *)
(* start.  The states of a new join are one, JOIN, and it succeeds.  AIS   *)
(* keeps no channel privilege, measures no beacons, and queues scan        *)
(* requests only.  Scan numbers (8 bits) do not wrap.  How long a scan     *)
(* takes and when rScanDoneTimer fires is left open.  OBSS scans and the   *)
(* P2P roles are left out.                                                 *)
(***************************************************************************)
EXTENDS Naturals, Sequences, SequencesExt

CONSTANTS
  P2pPresent,  \* a P2P device is registered
  SeqErrors,   \* what the firmware may add to the number of a scan it ends
  FwLoses,     \* the firmware may lose a scan, or its command may get lost
  MaxScans,    \* bound: the scans cfg80211 asks for
  MaxP2pSeq    \* bound: the scan numbers P2P uses

ASSUME ConstantsAssumption ==
  /\ P2pPresent \in BOOLEAN /\ FwLoses \in BOOLEAN
  /\ SeqErrors \subseteq Nat
  /\ MaxScans \in Nat /\ MaxP2pSeq \in Nat

Clients == {"AIS", "P2P"}
Scans == [client : Clients, seq : Nat]
Scan(c, n) == [client |-> c, seq |-> n]

VARIABLES
  step,            \* main_thread's place in its loop: "oid", "mbox", "rx", "timer"
  mbox,            \* the mailbox
  eCurrentState,   \* of the scan FSM: "IDLE" or "SCANNING"
  rScanParam,      \* the scan it runs or ran last: client and number
  rPendingMsgList, \* the scan requests that wait
  aisState,        \* eCurrentState of AIS
  fgIsConnReqIssued, \* cfg80211 has connected AIS
  ucSeqNumOfScanReq, u2SeqNumOfScanReport, fgIsScanReqIssued, \* of AIS
  rScanDoneTimer, rJoinTimeoutTimer, \* pending
  rPendingReqList, \* how many AIS_REQUEST_SCAN are queued
  p2pState, ucSeqNumOfScnMsg, \* of the P2P device
  prScanRequest,   \* cfg80211 waits for a scan (not NULL)
  oid,             \* the OID cfg80211 has announced: "none", "scan", "abort"
  asked,           \* history: the scans cfg80211 asked for
  fwScans,         \* the scans the firmware is running
  rxEvents,        \* the scan-done events it has sent: their numbers
  started,         \* history: the scans handed to the firmware, in this order
  cancelled        \* history: the scans that were cancelled

scnVars == <<eCurrentState, rScanParam, rPendingMsgList>>
aisVars == <<aisState, fgIsConnReqIssued, ucSeqNumOfScanReq,
             u2SeqNumOfScanReport, fgIsScanReqIssued, rScanDoneTimer,
             rJoinTimeoutTimer, rPendingReqList>>
p2pVars == <<p2pState, ucSeqNumOfScnMsg>>
osVars  == <<prScanRequest, oid, asked>>
fwVars  == <<fwScans, rxEvents, started>>
vars == <<step, mbox, scnVars, aisVars, p2pVars, osVars, fwVars, cancelled>>

NotSet == 65535  \* AIS_SCN_REPORT_SEQ_NOT_SET: scan numbers have 8 bits

Init ==
  /\ step = "oid" /\ mbox = <<>>
  /\ eCurrentState = "IDLE" /\ rScanParam = Scan("AIS", 0)
  /\ rPendingMsgList = <<>>
  /\ fgIsConnReqIssued \in BOOLEAN
  /\ aisState = IF fgIsConnReqIssued THEN "NORMAL_TR" ELSE "IDLE"
  /\ ucSeqNumOfScanReq = 0 /\ u2SeqNumOfScanReport = NotSet
  /\ fgIsScanReqIssued = FALSE
  /\ rScanDoneTimer = FALSE
  /\ rJoinTimeoutTimer \in {FALSE, fgIsConnReqIssued}
  /\ rPendingReqList = 0
  /\ p2pState = "IDLE" /\ ucSeqNumOfScnMsg = 0
  /\ prScanRequest = FALSE /\ oid = "none" /\ asked = 0
  /\ fwScans = {} /\ rxEvents = <<>> /\ started = <<>>
  /\ cancelled = {}

-----------------------------------------------------------------------------
(* The mailbox and the scan FSM.  Operators with an argument m take the    *)
(* mailbox as the caller has left it.                                      *)

ReqMsg(scan) == [type |-> "req", scan |-> scan, status |-> "NONE"]
CancelMsg(scan) == [type |-> "cancel", scan |-> scan, status |-> "NONE"]
DoneMsg(scan, status) == [type |-> "done", scan |-> scan, status |-> status]

\* scnFsmSteps(SCANNING): the command goes to the firmware.
SendScanReq(scan, running) ==
  /\ eCurrentState' = "SCANNING"
  /\ rScanParam' = scan
  /\ started' = Append(started, scan)
  /\ \/ fwScans' = running \cup {scan}
     \/ FwLoses /\ fwScans' = running

\* (Mutants of scnFsmSteps: pending scans are not looked at; stay in the list.)
StepsIgnoresPending(running) ==
  /\ eCurrentState' = "IDLE"
  /\ fwScans' = running
  /\ UNCHANGED <<rScanParam, rPendingMsgList, started>>

StepsKeepsPending(running) ==
  IF rPendingMsgList = <<>>
  THEN /\ eCurrentState' = "IDLE"
       /\ fwScans' = running
       /\ UNCHANGED <<rScanParam, rPendingMsgList, started>>
  ELSE /\ SendScanReq(Head(rPendingMsgList), running)
       /\ UNCHANGED rPendingMsgList

\* scnFsmSteps(IDLE): the next scan that waits is started.
scnFsmSteps(running) ==
  IF rPendingMsgList = <<>>
  THEN /\ eCurrentState' = "IDLE"
       /\ fwScans' = running
       /\ UNCHANGED <<rScanParam, rPendingMsgList, started>>
  ELSE /\ SendScanReq(Head(rPendingMsgList), running)
       /\ rPendingMsgList' = Tail(rPendingMsgList)

scnFsmMsgStart(scan) ==
  IF eCurrentState = "IDLE"
  THEN SendScanReq(scan, fwScans) /\ UNCHANGED rPendingMsgList
  ELSE /\ rPendingMsgList' = Append(rPendingMsgList, scan)
       /\ UNCHANGED <<eCurrentState, rScanParam, fwScans, started>>

Waits(scan) == Contains(rPendingMsgList, scan)

\* (Mutant of scnFsmRemovePendingMsg: answered, but left in the list.)
RemovePendingAnswersOnly(scan, m) ==
  /\ mbox' = IF Waits(scan) THEN Append(m, DoneMsg(scan, "CANCELLED")) ELSE m
  /\ UNCHANGED <<eCurrentState, rScanParam, rPendingMsgList, fwScans, started>>

\* The first pending request of that number goes, and its client is told.
scnFsmRemovePendingMsg(scan, m) ==
  /\ \/ \E i \in 1 .. Len(rPendingMsgList) :
          /\ rPendingMsgList[i] = scan
          /\ \A j \in 1 .. i - 1 : rPendingMsgList[j] # scan
          /\ rPendingMsgList' = RemoveAt(rPendingMsgList, i)
          /\ mbox' = Append(m, DoneMsg(scan, "CANCELLED"))
     \/ ~Waits(scan) /\ mbox' = m /\ UNCHANGED rPendingMsgList
  /\ UNCHANGED <<eCurrentState, rScanParam, fwScans, started>>

\* (Mutant of scnFsmMsgAbort: the client of a running scan is not told.)
AbortTellsNobody(scan, isOidRequest, m) ==
  /\ cancelled' = cancelled \cup {scan}
  /\ \/ /\ eCurrentState = "SCANNING" /\ rScanParam = scan
        /\ mbox' = m
        /\ scnFsmSteps(fwScans \ {scan})
     \/ /\ eCurrentState = "SCANNING" /\ rScanParam # scan
        /\ scnFsmRemovePendingMsg(scan, m)
     \/ /\ eCurrentState = "IDLE"
        /\ mbox' = m
        /\ UNCHANGED <<scnVars, fwScans, started>>

\* A scan in the firmware is cancelled; its scan-done event may be on its way.
scnFsmMsgAbort(scan, isOidRequest, m) ==
  /\ cancelled' = cancelled \cup {scan}
  /\ \/ /\ eCurrentState = "SCANNING" /\ rScanParam = scan
        /\ mbox' =
             Append(m, DoneMsg(scan, IF isOidRequest THEN "CANCELLED" ELSE "DONE"))
        /\ scnFsmSteps(fwScans \ {scan})
     \/ /\ eCurrentState = "SCANNING" /\ rScanParam # scan
        /\ scnFsmRemovePendingMsg(scan, m)
     \/ /\ eCurrentState = "IDLE"
        /\ mbox' = m
        /\ UNCHANGED <<scnVars, fwScans, started>>

\* main_thread receives a scan-done event: whatever its number, and whatever the
\* state, the scan in rScanParam is taken to be done and the next one is started.
scnEventScanDone ==
  /\ step = "rx" /\ rxEvents # <<>>
  /\ rxEvents' = Tail(rxEvents)
  /\ mbox' = Append(mbox, DoneMsg(Scan(rScanParam.client, Head(rxEvents)), "DONE"))
  /\ scnFsmSteps(fwScans)
  /\ UNCHANGED <<step, aisVars, p2pVars, osVars, cancelled>>

-----------------------------------------------------------------------------
(* AIS.                                                                    *)

\* Entering SCAN or ONLINE_SCAN: a request with a new number is posted.
ScanFamily(state, m) ==
  LET n == ucSeqNumOfScanReq + 1
  IN /\ aisState' = state
     /\ ucSeqNumOfScanReq' = n
     /\ mbox' = Append(m, ReqMsg(Scan("AIS", n)))

\* u2SeqNumOfScanReport after that.
Report == IF ucSeqNumOfScanReq' # ucSeqNumOfScanReq
          THEN ucSeqNumOfScanReq' ELSE u2SeqNumOfScanReport

\* AIS does not scan (any more).
GoesTo(state, m) ==
  /\ aisState' = state
  /\ mbox' = m
  /\ UNCHANGED <<ucSeqNumOfScanReq, rPendingReqList>>

\* Entering IDLE: a queued scan starts, or a connection that is wanted is made.
EnterIdle(m) ==
  IF rPendingReqList > 0
  THEN ScanFamily("SCAN", m) /\ rPendingReqList' = rPendingReqList - 1
  ELSE GoesTo(IF fgIsConnReqIssued THEN "JOIN" ELSE "IDLE", m)

\* Entering NORMAL_TR: a queued scan starts, unless the join is still fresh.
EnterNormalTr(m) ==
  IF rPendingReqList > 0 /\ ~rJoinTimeoutTimer
  THEN ScanFamily("ONLINE_SCAN", m) /\ rPendingReqList' = rPendingReqList - 1
  ELSE GoesTo("NORMAL_TR", m)

AisScans == aisState \in {"SCAN", "ONLINE_SCAN"}

AisStays(m) == GoesTo(aisState, m)

\* aisFsmScanRequestAdv, with no scan under way: it starts or is queued.
StartsScan ==
  /\ ~fgIsScanReqIssued
  /\ fgIsScanReqIssued' = TRUE
  /\ \/ /\ aisState = "NORMAL_TR" /\ ~rJoinTimeoutTimer
        /\ ScanFamily("ONLINE_SCAN", mbox)
        /\ UNCHANGED rPendingReqList
     \/ /\ aisState = "IDLE"
        /\ ScanFamily("SCAN", mbox)
        /\ UNCHANGED rPendingReqList
     \/ /\ \/ AisScans \/ aisState = "JOIN"
           \/ aisState = "NORMAL_TR" /\ rJoinTimeoutTimer
        /\ rPendingReqList' = rPendingReqList + 1
        /\ UNCHANGED <<mbox, aisState, ucSeqNumOfScanReq>>

\* The same with one under way: the new one is dropped, and AIS goes IDLE if the
\* old one has taken too long.  In any other state the flag was wrong.
DropsScan ==
  /\ fgIsScanReqIssued
  /\ \/ /\ AisScans
        /\ AisStays(mbox) /\ UNCHANGED fgIsScanReqIssued
     \/ /\ AisScans
        /\ fgIsScanReqIssued' = FALSE
        /\ EnterIdle(mbox)
     \/ /\ ~AisScans
        /\ fgIsScanReqIssued' = FALSE
        /\ AisStays(mbox)

\* The OID of a scan; the timer is started whether the scan is or not.
wlanoidSetBssidListScanAdv ==
  /\ step = "oid" /\ oid = "scan"
  /\ step' = "mbox" /\ oid' = "none"
  /\ StartsScan \/ DropsScan
  /\ u2SeqNumOfScanReport' = Report
  /\ rScanDoneTimer' = TRUE
  /\ UNCHANGED <<scnVars, fgIsConnReqIssued, rJoinTimeoutTimer, p2pVars,
                 prScanRequest, asked, fwVars, cancelled>>

\* The cancel has the number of the last scan of AIS.
AisCancels(isOidRequest) ==
  /\ scnFsmMsgAbort(Scan("AIS", ucSeqNumOfScanReq), isOidRequest, mbox)
  /\ UNCHANGED <<aisState, fgIsConnReqIssued, ucSeqNumOfScanReq,
                 u2SeqNumOfScanReport, fgIsScanReqIssued, rJoinTimeoutTimer,
                 rPendingReqList, p2pVars, prScanRequest, asked, rxEvents>>

\* The OID of an abort: only a state of AIS that scans is cancelled.
wlanoidAbortScan ==
  /\ step = "oid" /\ oid = "abort"
  /\ step' = "mbox" /\ oid' = "none"
  /\ IF AisScans
     THEN AisCancels(TRUE) /\ UNCHANGED rScanDoneTimer
     ELSE UNCHANGED <<mbox, scnVars, aisVars, p2pVars, prScanRequest, asked,
                      fwVars, cancelled>>

aisFsmRunEventScanDoneTimeOut ==
  /\ step = "timer" /\ rScanDoneTimer
  /\ rScanDoneTimer' = FALSE
  /\ AisCancels(FALSE)
  /\ UNCHANGED <<step, oid>>

\* A P2P group owner negotiation request is received while AIS scans.
p2pFunAbortOngoingScan ==
  /\ step = "rx" /\ P2pPresent
  /\ eCurrentState = "SCANNING" /\ rScanParam.client = "AIS"
  /\ AisCancels(FALSE)
  /\ UNCHANGED <<step, rScanDoneTimer, oid>>

\* (Mutant of aisFsmRunEventJoinTimeout: it scans with nothing queued.)
JoinTimeoutScans ==
  /\ step = "timer" /\ rJoinTimeoutTimer
  /\ rJoinTimeoutTimer' = FALSE
  /\ IF aisState = "NORMAL_TR"
     THEN /\ ScanFamily("ONLINE_SCAN", mbox)
          /\ rPendingReqList' = rPendingReqList - 1
     ELSE AisStays(mbox)
  /\ u2SeqNumOfScanReport' = Report
  /\ UNCHANGED <<step, scnVars, fgIsConnReqIssued, fgIsScanReqIssued,
                 rScanDoneTimer, p2pVars, osVars, fwVars, cancelled>>

aisFsmRunEventJoinTimeout ==
  /\ step = "timer" /\ rJoinTimeoutTimer
  /\ rJoinTimeoutTimer' = FALSE
  /\ IF aisState = "NORMAL_TR" /\ rPendingReqList > 0
     THEN /\ ScanFamily("ONLINE_SCAN", mbox)
          /\ rPendingReqList' = rPendingReqList - 1
     ELSE AisStays(mbox)
  /\ u2SeqNumOfScanReport' = Report
  /\ UNCHANGED <<step, scnVars, fgIsConnReqIssued, fgIsScanReqIssued,
                 rScanDoneTimer, p2pVars, osVars, fwVars, cancelled>>

\* aisFsmRunEventScanDone: AIS takes any scan-done for its own and leaves its
\* state; cfg80211 is answered if the number is that of its last scan by then.
AisScanDone(n) ==
  /\ \/ aisState = "SCAN" /\ ~fgIsConnReqIssued /\ EnterIdle(Tail(mbox))
     \/ aisState = "SCAN" /\ fgIsConnReqIssued /\ GoesTo("JOIN", Tail(mbox))
     \/ aisState = "ONLINE_SCAN" /\ EnterNormalTr(Tail(mbox))
     \/ ~AisScans /\ AisStays(Tail(mbox))
  /\ rScanDoneTimer' = FALSE
  /\ IF n = Report
     THEN /\ u2SeqNumOfScanReport' = NotSet
          /\ fgIsScanReqIssued' = FALSE
          /\ prScanRequest' = FALSE
     ELSE /\ u2SeqNumOfScanReport' = Report
          /\ UNCHANGED <<fgIsScanReqIssued, prScanRequest>>
  /\ UNCHANGED <<scnVars, fgIsConnReqIssued, rJoinTimeoutTimer, p2pVars, oid, asked,
                 fwVars, cancelled>>

\* A join is over; its timer still runs.
aisFsmJoinCompleteAction ==
  /\ step = "mbox" /\ aisState = "JOIN"
  /\ aisState' = "NORMAL_TR" /\ rJoinTimeoutTimer' = TRUE
  /\ UNCHANGED <<step, mbox, scnVars, fgIsConnReqIssued, ucSeqNumOfScanReq,
                 u2SeqNumOfScanReport, fgIsScanReqIssued, rScanDoneTimer,
                 rPendingReqList, p2pVars, osVars, fwVars, cancelled>>

-----------------------------------------------------------------------------
(* The P2P device.                                                         *)

P2pScans ==
  /\ step = "mbox" /\ P2pPresent /\ ucSeqNumOfScnMsg < MaxP2pSeq
  /\ p2pState = "IDLE"
  /\ p2pState' = "SCAN"
  /\ ucSeqNumOfScnMsg' = ucSeqNumOfScnMsg + 1
  /\ mbox' = Append(mbox, ReqMsg(Scan("P2P", ucSeqNumOfScnMsg')))
  /\ UNCHANGED <<step, scnVars, aisVars, osVars, fwVars, cancelled>>

\* The cancel goes through the mailbox, and the number is changed after it.
P2pAborts ==
  /\ step = "mbox" /\ p2pState = "SCAN"
  /\ p2pState' = "IDLE"
  /\ ucSeqNumOfScnMsg' = ucSeqNumOfScnMsg + 1
  /\ mbox' = Append(mbox, CancelMsg(Scan("P2P", ucSeqNumOfScnMsg)))
  /\ UNCHANGED <<step, scnVars, aisVars, osVars, fwVars, cancelled>>

\* p2pDevFsmRunEventScanDone: a scan-done with another number is ignored.
P2pScanDone(n) ==
  /\ p2pState' = IF n = ucSeqNumOfScnMsg THEN "IDLE" ELSE p2pState
  /\ mbox' = Tail(mbox)
  /\ UNCHANGED <<ucSeqNumOfScnMsg, scnVars, aisVars, osVars, fwVars, cancelled>>

-----------------------------------------------------------------------------
(* main_thread's loop.                                                     *)

mboxRcvAllMsg ==
  /\ step = "mbox" /\ mbox # <<>>
  /\ LET msg == Head(mbox)
     IN \/ /\ msg.type = "req"
           /\ scnFsmMsgStart(msg.scan)
           /\ mbox' = Tail(mbox)
           /\ UNCHANGED <<aisVars, p2pVars, osVars, rxEvents, cancelled>>
        \/ /\ msg.type = "cancel"
           /\ scnFsmMsgAbort(msg.scan, FALSE, Tail(mbox))
           /\ UNCHANGED <<aisVars, p2pVars, osVars, rxEvents>>
        \/ msg.type = "done" /\ msg.scan.client = "AIS" /\ AisScanDone(msg.scan.seq)
        \/ msg.type = "done" /\ msg.scan.client = "P2P" /\ P2pScanDone(msg.scan.seq)
  /\ UNCHANGED step

\* One OID is served in a round.  The other parts of the loop are left when they
\* have nothing more to do; timers that
\* expire later are served in the next round.
NextStep ==
  /\ \/ step = "oid" /\ oid = "none" /\ step' = "mbox"
     \/ step = "mbox" /\ mbox = <<>> /\ step' = "rx"
     \/ step = "rx" /\ rxEvents = <<>> /\ step' = "timer"
     \/ step = "timer" /\ step' = "oid"
  /\ UNCHANGED <<mbox, scnVars, aisVars, p2pVars, osVars, fwVars, cancelled>>

MainThread ==
  \/ wlanoidSetBssidListScanAdv \/ wlanoidAbortScan
  \/ mboxRcvAllMsg
  \/ scnEventScanDone
  \/ NextStep

-----------------------------------------------------------------------------
(* cfg80211 and the firmware.                                              *)

\* Refused while an earlier scan is not answered (-EBUSY).
mtk_cfg80211_scan ==
  /\ ~prScanRequest /\ oid = "none" /\ asked < MaxScans
  /\ prScanRequest' = TRUE
  /\ oid' = "scan"
  /\ asked' = asked + 1
  /\ UNCHANGED <<step, mbox, scnVars, aisVars, p2pVars, fwVars, cancelled>>

mtk_cfg80211_abort_scan ==
  /\ prScanRequest /\ oid = "none"
  /\ oid' = "abort"
  /\ UNCHANGED <<step, mbox, scnVars, aisVars, p2pVars, prScanRequest, asked,
                 fwVars, cancelled>>

\* wlanStop and suspend answer cfg80211, and leave the scan of AIS as it is.
wlanStop ==
  /\ prScanRequest /\ oid = "none"
  /\ prScanRequest' = FALSE
  /\ UNCHANGED <<step, mbox, scnVars, aisVars, p2pVars, oid, asked, fwVars,
                 cancelled>>

\* The firmware ends a scan and sends the event.
FwEndsScan(scan) ==
  /\ scan \in fwScans
  /\ fwScans' = fwScans \ {scan}
  /\ \/ \E error \in SeqErrors : rxEvents' = Append(rxEvents, scan.seq + error)
     \/ FwLoses /\ UNCHANGED rxEvents
  /\ UNCHANGED <<step, mbox, scnVars, aisVars, p2pVars, osVars, started, cancelled>>

Next ==
  \/ MainThread
  \/ aisFsmRunEventScanDoneTimeOut \/ aisFsmRunEventJoinTimeout
  \/ aisFsmJoinCompleteAction \/ p2pFunAbortOngoingScan
  \/ P2pScans \/ P2pAborts
  \/ mtk_cfg80211_scan \/ mtk_cfg80211_abort_scan \/ wlanStop
  \/ \E scan \in fwScans : FwEndsScan(scan)

Spec == Init /\ [][Next]_vars

\* main_thread is scheduled, the firmware ends its scans, and a pending timer is
\* dispatched (see CnmTimer) whenever main_thread serves timers.
FairSpec ==
  /\ Spec
  /\ WF_vars(MainThread)
  /\ WF_vars(\E scan \in fwScans : FwEndsScan(scan))
  /\ SF_vars(aisFsmJoinCompleteAction)
  /\ SF_vars(aisFsmRunEventJoinTimeout) /\ SF_vars(aisFsmRunEventScanDoneTimeOut)
-----------------------------------------------------------------------------
(* Properties.                                                             *)

Messages == [type : {"req", "cancel", "done"}, scan : Scans,
             status : {"NONE", "DONE", "CANCELLED"}]

\* Every variable keeps its type.
TypeOK ==
  /\ step \in {"oid", "mbox", "rx", "timer"}
  /\ mbox \in Seq(Messages)
  /\ eCurrentState \in {"IDLE", "SCANNING"}
  /\ rScanParam \in Scans
  /\ rPendingMsgList \in Seq(Scans)
  /\ aisState \in {"IDLE", "SCAN", "JOIN", "NORMAL_TR", "ONLINE_SCAN"}
  /\ fgIsConnReqIssued \in BOOLEAN
  /\ ucSeqNumOfScanReq \in Nat /\ u2SeqNumOfScanReport \in Nat
  /\ fgIsScanReqIssued \in BOOLEAN
  /\ rScanDoneTimer \in BOOLEAN /\ rJoinTimeoutTimer \in BOOLEAN
  /\ rPendingReqList \in Nat
  /\ p2pState \in {"IDLE", "SCAN"} /\ ucSeqNumOfScnMsg \in Nat
  /\ prScanRequest \in BOOLEAN /\ oid \in {"none", "scan", "abort"}
  /\ asked \in 0 .. MaxScans
  /\ fwScans \subseteq Scans /\ rxEvents \in Seq(Nat)
  /\ started \in Seq(Scans) /\ cancelled \subseteq Scans

\* No scan waits in the list while the scan FSM is idle: nothing but the end of
\* the scan before it would ever start it.
NobodyWaitsForIdle == rPendingMsgList # <<>> => eCurrentState = "SCANNING"

\* A scan is handed to the firmware once, whatever events and cancels are handled
\* while it waits or runs.
StartedOnce ==
  \A i, j \in 1 .. Len(started) : started[i] = started[j] => i = j

\* A P2P scan that was cancelled is not started afterwards.
P2pCancelledStaysSo ==
  [][LET scan == Last(started')
     IN started' # started /\ scan.client = "P2P" => scan \notin cancelled]_vars

\* Every scan of cfg80211 is answered.
ScanAnswered == prScanRequest ~> ~prScanRequest

\* AIS does not stay in one scan for ever, whatever is cancelled, times out or
\* ends late, if the firmware ends every scan it starts (FwLoses = FALSE).  When
\* it loses one that AIS took from its list, AIS does stay: rScanDoneTimer is
\* stopped when AIS leaves a scan, and is not started again for the next.
AisLeavesScan ==
  \A n \in 1 .. 2 * MaxScans :
    AisScans /\ ucSeqNumOfScanReq = n ~> ~(AisScans /\ ucSeqNumOfScanReq = n)
=============================================================================
