# Formal models of the gen4-mt7902 driver

This directory is a TLA+ verification project for the Linux driver of the
MediaTek MT7902 (this repository, `src/`). It models the parts of the driver in
which several actors share state: threads, callbacks, the firmware, cfg80211 and
the removal of the device. Packet formats, register accesses and tables are
left out.

Six subsystems are modelled, each checked by TLC on small instances and proved
about with TLAPS for all values of its constants:

| module | code | what |
|---|---|---|
| `CnmTimer`, abstract `TimerService` | `mgmt/cnm_timer.c`, parts of `os/linux/gl_kal.c` | the management timer service |
| `OidIoctl` | `os/linux/gl_kal.c`, `common/wlan_lib.c`, `os/linux/gl_init.c` | requests ("OIDs") from other threads to `main_thread` |
| `ScanFsm` | `mgmt/scan_fsm.c`, `mgmt/hem_mbox.c`, `mgmt/ais_fsm.c`, `mgmt/p2p_dev_fsm.c` | the scan service and two of its clients |
| `JoinFsm` | `mgmt/ais_fsm.c`, `mgmt/saa_fsm.c`, `mgmt/cnm_mem.c`, `nic/nic_cmd_event.c`, `common/wlan_oid.c`, `os/linux/gl_cfg80211.c` | how the station joins and leaves an access point |
| `DbdcFsm`, abstract `ChannelQueue` | `mgmt/cnm.c`, `mgmt/rlm.c` | channel privileges and the switch to two radios and back |
| `RxReorder`, abstract `ReorderBuffer` | `nic/que_mgt.c` | receive reordering of a block-ack agreement |

`PROJECT.json` maps every definition to the source lines it stands for and lists
runs, mutants, hazards, findings and theorems. Paths below are relative to `src/`.

To repeat the checks, in this directory:

    tlc -workers 2 -config MCScanFsm.cfg MCScanFsm
    tlapm ScanFsmProofs.tla

## 1. Inventory

### 1.1 The build that is modelled

The default build of the `Makefile`: MT7902 on PCIe, `CFG_SUPPORT_MULTITHREAD`,
`CFG_SUPPORT_SUPPLICANT_SME`, no NAN (`CONFIG_MTK_WIFI_NAN` is not `y`).

### 1.2 Actors

| actor | where | what it does |
|---|---|---|
| `main_thread` | `os/linux/gl_kal.c`, `main_thread` | OIDs, mailbox, received events, timers; runs all state machines |
| `hif_thread` | `gl_kal.c`, `hif_thread` | interrupts of the bus, DMA rings, transmit |
| `rx_thread` | `gl_kal.c`, `rx_thread` | hands received packets to the network stack |
| callers | `gl_cfg80211.c`, `gl_wext.c`, `gl_init.c`, `gl_vendor.c` | system calls; hand OIDs to `main_thread` through `kalIoctl` |
| kernel timer, interrupt | `kalTimeoutHandler`, `mtk_pci_interrupt` | set a flag and wake a thread |
| firmware | external | executes commands, sends events, may lose or delay either |
| removal, reset | `wlanRemove`, `gl_rst.c` | set HALT or RESET, wait for the threads, free everything |

The threads are driven by bits in `prGlueInfo->ulFlag` and wait queues.
`main_thread` serves its bits in a fixed order in every round of its loop.

### 1.3 Components

For each: the state it keeps, its operations, whom it interacts with, what is
hard, and what makes it correct.

**Timer service** (`mgmt/cnm_timer.c`). *State*: list of pending timers, next
expiry, one kernel timer, wake lock. *Operations*: initialise, start, stop,
time-out check, destroy. *Interacts* with every state machine, from any thread.
*Hard*: the lock is released around each callback, so timers start and stop in
the middle of the check; the one kernel timer serves all. *Correct*: no timer is
forgotten or early, each start calls back at most once, the wake lock ends with
the last timer. **Modelled.**

**OID requests** (`kalIoctl`, `kalOidComplete`, `main_thread`'s OID step,
`wlanReleasePendingOid`). *State*: one `OidEntry`, one flag bit, a semaphore, a
completion, the OID timer, the pending commands. *Interacts* with all callers,
`main_thread`, the firmware, removal. *Hard*: the issuer waits for the bit and
not for the completion; the bit is shared by requests and completions; the entry
outlives its issuer; handlers that sleep or answer later. *Correct*: no request is
replaced or lost while its issuer waits, each handler runs once (it does not: section
3.2), nobody waits for ever. **Modelled**, without the handlers themselves
(`common/wlan_oid.c`) and without chip reset.

**Scan service and mailbox** (`mgmt/scan_fsm.c`, `mgmt/hem_mbox.c`). *State*: the
running scan, the pending list, the mailbox. *Operations*: request, cancel,
scan-done event. *Clients*: AIS, P2P device, P2P roles, OBSS (`rlm_obss.c`).
*Hard*: events are attributed to the running scan whatever their number; buffered
and unbuffered messages overtake each other; the firmware loses events or
misnumbers them. *Correct*: no scan is forgotten or started twice, a cancelled
scan is not started, cfg80211 gets one answer for each scan. **Modelled** with
AIS and the P2P device as clients; scheduled scans (PNO) are not.

**AIS, the station** (`mgmt/ais_fsm.c`). *State*: `eCurrentState`, the queue of
postponed requests, join / scan-done / channel timers, the target BSS.
*Operations*: connect, disconnect, scan, remain on channel, management frames,
roam. *Interacts* with scan, channel, SAA, roaming, cfg80211. *Hard*: every
operation can arrive in every state and is queued, refused or aborts another;
`aisFsmSteps` runs several states in one call; a limiter drops aborts. *Correct*:
no request stays in the queue of an idle FSM, a channel privilege is always given
back, each connect has a result. **Scan part modelled** in `ScanFsm`, **joining
and leaving** in `JoinFsm`; roaming, remain-on-channel, lost beacons and IBSS are
not.

**Channel privileges** (`mgmt/cnm.c`). *State*: who holds or waits for channel
time. *Operations*: request, grant, release, recover. *Interacts* with AIS, P2P
and the firmware by tokens. *Hard*: grants that arrive after an abort; requests that are held back
while the radio is switched between one band and two, a switch of eight states
that tells every peer, waits for frames, a command and a guard timer, and may be
decided the other way in between. *Correct*: a request is neither lost nor made
twice, none reaches the firmware while the radio is to change, a late grant is
given back. **Modelled** in `DbdcFsm`, its client in `JoinFsm`; bandwidth changes,
static modes and WMM quotas are not.

**Authentication and association** (`saa_fsm.c`, `aaa_fsm.c`). *State*: per
station record an auth/assoc state, a retry counter, a timer. *Hard*: retries,
a TX-done that fails, an answer that comes after the timeout; the end of a join is
handled by AIS inside the handler that meets it, past the mailbox. *Correct*: SAA
starts once for a join, an abort hits the join it is for, no timer outlives the
record. **Station side modelled** in `JoinFsm`; the side of the access point,
shared keys, FT and the contents of SAE are not.

**Roaming** (`roaming_fsm.c`). Scan, decide, roam, or give up; shares AIS's
requests. **Planned with AIS.**

**Receive reordering** (`nic/que_mgt.c`). *State*: per TID a window of 12-bit
sequence numbers, the reorder list, a bubble timer. *Hard*: window arithmetic
modulo 4096, BAR and packets outside the window, a bubble timer that races the
missing packet. *Correct*: packets are delivered in order, at most once, and
nothing waits for ever. **Modelled** in `RxReorder`; transmit flow control, the
other half of `que_mgt.c`, is not.

**Transmit and command queues** (`nic/nic_tx.c`, `nic/cmd_buf.c`). Resource
counts, command sequence numbers, pending commands matched with their answers.
**Planned** where they meet the OID path; formats are data.

**Shutdown and worker threads** (`wlanRemove`, `wlanOffStopWlanThreads`, the
three threads' exits). *Hard*: `hif_thread` and `rx_thread` are waited for with
a timeout of 30 s, `main_thread` without one; the exits drop or complete what is
under way. *Correct*: nothing is freed under a running thread, no caller is left
behind. **As far as timers and OIDs see it** in `CnmTimer` and `OidIoctl`;
a module of its own is planned.

**Chip reset and SER** (`os/linux/gl_rst.c`, `reset/reset.c`, level 0.5 reset).
**Planned** after shutdown.

**Power ownership** (`nic/nic_pwr_mgt.c`, `hal_pdma.c`). Driver own / firmware own
with a reference count. **Planned.**

**DMA rings** (`hif/common/hal_pdma.c`, `kal_pdma.c`). Producer and consumer
indices that wrap. **Planned.**

**Management memory** (`mgmt/cnm_mem.c`). Block bitmaps and station records. The
life of a record, with the firmware's answer to its change of state, **is part of**
`JoinFsm`; the allocators are sequential and not modelled.

**Not planned.** The remaining cfg80211 entry points (those of scan, join and leave are
in `ScanFsm` and `JoinFsm`; the others are thin callers of `kalIoctl`);
the P2P and AP role FSMs beyond their use of scans and channels; OID handlers
(some 300, parameter checks and command building); RLM and regulatory tables;
RSN, WPS, PMKID (element parsing); TDLS, TWT, WMM, WNM, BOW (optional); NAN (not
built); firmware download and chip descriptions (a sequential protocol and
register tables); the other buses, test modes and vendor tools.

### 1.4 Hard to test

`PROJECT.json` "hazards" lists each at its line with the properties that catch
it. They are of these kinds:

* *released locks*: timers in the middle of a check, `OidEntry` between the test
  of its bit and its use, a block-ack agreement deleted between its test and the
  insertion of a frame;
* *overtaking*: an unbuffered cancel and the buffered request it is to cancel; an
  event of an earlier scan and the scan that runs now; frames that are handed on
  after the lock was released;
* *one bit, timer or slot for many*: the OID bit, the OID timer, the scan-done
  timer, the record that the next join takes over;
* *an answer that is lost, late, or carries no number*: scan-done events, OID
  answers, channel grants, answers of the access point, switch-done events;
* *nested handlers*: an operator of the DBDC machine, of AIS or of SAA is entered
  from within another, several levels deep, and changes what the outer one read;
* *requests that are dropped or postponed*: aborts within 100 ms, decisions while
  a guard timer runs, channel requests under the privilege lock;
* *numbers that wrap*: 12-bit sequence numbers and the window that moves over them;
* *removal at any point*: HALT between any two steps.

Three more places were considered and left out of the list, as less exposed than
those in it: the order in which `kalOidCmdClearance` puts back the commands it
keeps, the wrap of the 8-bit scan numbers, and `AIS_FSM_MAX_TRANSITIONS`.

## 2. What is modelled

### 2.1 CnmTimer and TimerService

`CnmTimer` has one action per critical section of `cnm_timer.c`.

| action | code |
|---|---|
| `cnmTimerStartTimer`, `cnmTimerStopTimer` | the functions of that name, under `SPIN_LOCK_TIMER`; any thread |
| `kalTimeoutHandler` | the softirq: sets `GLUE_FLAG_TIMEOUT` |
| `MainThreadTakesTimeout` | `main_thread` takes the flag; under HALT nothing follows; else `cnmTimerDoTimeOutCheck` takes the lock and reads the clock |
| `CheckMeetsExpired` | the scan of the list up to an expired timer: one more minute, or unlinked and the lock released for the callback |
| `CallbackReturns` | the lock is taken again, the scan starts over |
| `CheckEnds` | the end of the list: kernel timer and wake lock are set |
| `SetHalt`, `MainThreadExits`, `cnmTimerDestroy` | the end of the driver |
| `Jiffy` | time |

While `check = "callback"` the lock is free and every start and stop is enabled:
this stands both for what the callback does and for the other threads. The list
is a set; where its order matters (which expired timer is first, which timers
the scan had visited and merged into the wake-lock type), every order is allowed.
`slip` and `due` are history variables.

`TimerService` is what callers may rely on: a started timer calls back at most
once, not before its time, one callback at a time. `CnmTimer` implements it with
`armed <- pending` and `serving <- (check = "callback")`.

Not modelled: the wrap-around of the 32-bit clock; re-initialising a pending
timer (the code logs it as misuse); `fgTimerFired` logging.

### 2.2 OidIoctl

| action | code |
|---|---|
| `IoctlEnters`, `IoctlDown`, `IoctlInterrupted`, `IoctlFills`, `IoctlSignals`, `IoctlPolls`, `IoctlJudges`, `IoctlGivesUp`, `IoctlReadsStatus` | `kalIoctlByBssIdx`, cut where another thread can see or change the state |
| `MainTakesOid`, `MainCallsHandler`, `HandlerReturns` | `main_thread`: bit cleared, entry read, handler run, status written |
| `DirectIoctl` | `kalIoctl` called by `main_thread` itself |
| `FirmwareAnswers`, `OidTimesOut` | `nicCmdEventQuery*`/`kalOidComplete` and `wlanReleasePendingOid` |
| `SetHaltFlag`, `SetHaltBit`, `StopSnapshotsThreads`, `MainExits`, `StopFailsOngoingIoctl` | `wlanRemove`, `wlanOffStopWlanThreads` |

`Kind` divides handlers by how they end: with an answer, or with a command for the
firmware and PENDING, completed later. How long a handler takes is left open, from
nothing to longer than every poll of its issuer: the polls of 1 ms are not aligned
with `main_thread`, so that the issuer may see the bit clear at any moment between
`MainTakesOid` and `HandlerReturns`. A status is the name of the request that
produced it.

Not modelled: chip reset; two calls of the same request; the order of the command
queue.

### 2.3 ScanFsm

`step` is `main_thread`'s place in its loop: one OID, then the mailbox until it is
empty, then received events, then timers. Every action of `main_thread` is tied to
its step, so that the model orders messages, events and timers as the loop does,
while cfg80211 and the firmware move at any moment.

| action or operator | code |
|---|---|
| `scnFsmMsgStart`, `scnFsmMsgAbort`, `scnFsmRemovePendingMsg`, `scnFsmSteps`, `scnEventScanDone` | the functions of that name in `scan_fsm.c` |
| `mboxRcvAllMsg` | `hem_mbox.c`: dispatch of one message |
| `wlanoidSetBssidListScanAdv`, `wlanoidAbortScan` | the OIDs with `aisFsmScanRequestAdv` and `aisFsmStateAbort_SCAN` |
| `AisScanDone`, `EnterIdle`, `EnterNormalTr`, `ScanFamily` | `aisFsmRunEventScanDone` and the parts of `aisFsmSteps` it leads to |
| `aisFsmRunEventScanDoneTimeOut`, `aisFsmRunEventJoinTimeout`, `aisFsmJoinCompleteAction`, `p2pFunAbortOngoingScan` | the functions of that name |
| `P2pScans`, `P2pAborts`, `P2pScanDone` | `p2p_dev_fsm.c`, `p2p_scan.c` |
| `mtk_cfg80211_scan`, `mtk_cfg80211_abort_scan`, `wlanStop` | cfg80211 |
| `FwEndsScan` | the firmware (external): ends a scan, sends the event, with its own number or one the constant `SeqErrors` makes of it, or loses it |

A scan is a client and a number. `started` and `cancelled` are history variables,
for the properties only. A scan that the firmware has been told to cancel sends no
event any more, but one that was sent before is still on its way.

Here AIS is reduced to its scan states: it is idle, or connected, from the start; a
connection that cfg80211 wants is made in one state `JOIN` that succeeds. Not
modelled: OBSS scans and P2P roles (further clients of the same interface),
scheduled scans, beacon measurement, remain-on-channel, scan numbers beyond 255.

### 2.4 RxReorder and ReorderBuffer

With `CFG_RX_DIRECT` data frames are handled by the receive tasklet (`rx`), while
`main_thread` (`main`) serves the bubble timer and the events that set up and
delete agreements. Both use the queue under `SPIN_LOCK_RX_DIRECT_REORDER`
(`lock`), but touch `fgIsValid`, `fgHasBubble` and `g_arMissTimeout` also outside
of it: each such access, and each round of a loop, is a step of its own.

| action or operator | code |
|---|---|
| `RxReceive`, `RxLocks` | `qmProcessPktWithReordering`: the test of the agreement; then the lock, duplicate detection, and the fall within / ahead / behind |
| `RxFallsWithin`, `RxFallsAhead`, `RxPassesBehind`, `RxDropsBehind` | `qmInsertReorderPkt` with `qmInsertFallWithinReorderPkt`, `qmInsertFallAheadReorderPkt` and the rule of `fgNoDrop` |
| `RxBar` | `qmProcessBarFrame` |
| `RxPopWithin`, `RxWithinEnds`, `RxPopAhead`, `RxAheadEnds`, `RxAheadEndsUntimed` | `qmPopOutDueToFallWithin`, `qmPopOutDueToFallAhead` |
| `RxDeliver` | what was released is handed on, after the lock |
| `BubbleTimeout`, `BubbleFilled`, `BubbleMoved`, `RestartTimer`, `BubbleExpired`, `FlushPop`, `FlushEnds`, `FlushDeliver`, `ResetMissTimeout` | `qmHandleReorderBubbleTimeout`, `qmHandleEventCheckReorderBubble` |
| `qmDelRxBaEntry`, `DelStopsTimer`, `DelForgets`, `qmAddRxBaEntry` | the functions of that name |
| `Suspend` | the suspend that sets the window anew from the next frame |
| `Air` | the access point (external): sends within its window, repeats, gives up with or without a block-ack request, sends one abnormal number |

A frame is its number, unbounded here and cut to `MaxSeq` in every variable of
the code, and its place in an A-MSDU of at most two parts. So `Pos` can say which
of two frames is the earlier one whatever the 12-bit comparisons say.
`ReorderBuffer` is the promise: MSDUs are released lowest first and never behind
what was released. `RxReorder` implements it with `buffer <-` the positions in the
queue and `last <- lastOut`. `lastOut`, `hostLast`, `late`, `passed` and `raced` are
history variables. What falls behind the window is dropped, or let through to the
host out of turn (`fgNoDrop`, `fgIsWaitingForPktWithSsn`): the latter counts as
`late` like every other delivery, and is recorded in `passed`.

Not modelled: several stations and TIDs; how long the two timeouts take (they may
fire at any moment); low-latency and O-share modes, which are off.

### 2.5 DbdcFsm and ChannelQueue

All of it runs in `main_thread`, so that one action is one handler with every call
it makes. The handlers call one another synchronously, and therefore are
operators on the driver's state, the record `g`, that are composed as in the code:
the answer to a frame ends a change of the operating mode, whose callback is an
event of the state machine, whose entry functions send a command and ask for other
changes.

| action | code |
|---|---|
| `Join`, `ComeUp`, `Disconnect`, `GrantedUpdate` | a BSS begins, is up, ends, is updated: `cnmDbdcPreConnectionEnableDecision`, `cnmDbdcRuntimeCheckDecision`, `cnmOpModeGetTRxNss` |
| `p2pFuncDfsSwitchCh` | a BSS of our own moves to the other band |
| `RequestChannel`, `ReleaseChannel` | `cnmChMngrRequestPrivilege`, `cnmChMngrAbortPrivilege` |
| `cnmOpmodeEventHandler` | the firmware asks for a change of the streams (coexistence) |
| `FrameDone` | `rlmOpModeTxDoneHandler` |
| `HwDone` | `cnmDbdcEventHwSwitchDone` |
| `cnmDbdcGuardTimerCallback` | the guard timer |

`On_<state>` are the event functions of the machine, `EntryFunc` and `ExitFunc`
what it does between states. `asked` and `hw` are outside of the driver: who has
asked for a channel, and how the hardware really works. `Init` is the state after
the answer to the command that disables DBDC at start-up.

`ChannelQueue` is the promise to the clients: requests stand in the order they
were made, the firmware knows the first ones, and opening the manager passes all
on. `DbdcFsm` implements it with `queue <- g.fw \o g.pend`, `known <- Len(g.fw)`,
`closed <- g.lock`.

Not modelled: static and disabled modes, WMM quotas, changes of bandwidth, 6 GHz,
failures of memory.

### 2.6 JoinFsm

`main_thread`'s state is one record, `drv`, with AIS, its mailbox, its timers, the
channel it has asked for, and the record of the access point (`sta`). A handler
is an operator from the `drv` it finds to the one it leaves. `step` is the place
in the loop, as in `ScanFsm`: one OID, the mailbox until it is empty, events,
timers.

| action or operator | code |
|---|---|
| `mtk_cfg80211_auth`, `mtk_cfg80211_auth_returns`, `mtk_cfg80211_assoc`, `mtk_cfg80211_disassoc` | cfg80211's side: what is written before the OID, and `fgIsCfg80211Connecting`, written after it |
| `wlanoidSetConnect`, `OidLeave` | the OIDs, which post an abort to AIS |
| `mboxRcvAllMsg` | dispatch to `aisFsmRunEventAbort`, `aisFsmRunEventChGrant`, `saaFsmRunEventStart`, `saaFsmRunEventAbort` |
| `aisFsmStateAbort`, `Teardown`, `aisFsmDisconnect`, `Disconnecting` | the abort in every state, with its limiter of 100 ms (`recent`) |
| `saaSendAuthAssoc`, `saaFsmRunEventTxDone`, `saaFsmRunEventRxAuth`, `saaFsmRunEventRxAssoc`, `saaFsmSendEventJoinComplete` | SAA, down to the end of a join |
| `aisFsmRunEventJoinComplete`, `JoinSucceeds`, `JoinFails`, `Withdraw` | AIS at the end of a join: joined or roamed; refused, refused for now, or failed while connected |
| `Idle`, `Search`, `ReqChannelJoin`, `Join`, `aisFsmStateInit_JOIN`, `JoinFailure` | the states of `aisFsmSteps` |
| `RxChGrant`, `RxCmdResult`, `TxDone`, `RxAuth`, `RxAssoc`, `RxDeauth`, `aisDeauthXmitComplete` | received events |
| `aisFsmRunEventJoinTimeout`, `aisFsmRunEventDeauthTimeout`, `aisFsmRunEventBGSleepTimeOut`, `SaaTimeout` | timers |
| `cnmStaRecChangeState`, `nicUniCmdStaRecHandleEventPkt`, `aisFsmFirePendingSAA`, `cnmStaRecFree` | the record and the firmware's answer to its change of state, on which SAA waits |
| `FwGrants`, `Tick` | the firmware grants a channel; 100 ms pass |

SAA tells AIS the end of a join by a message that does not go through the mailbox
(`MSG_SEND_METHOD_UNBUF`, `saa_fsm.c:956`): `mboxSendMsg` calls
`aisFsmRunEventJoinComplete` at once (`hem_mbox.c:524`), inside the handler of SAA, in
front of every abort and grant that waits. The model does the same: the operator of
SAA ends with the one of AIS, which may free the record and go on to the next
channel request. What AIS looks up there (`Ends`: whether the scan results still hold
the access point, the policy, whether a target is found) is open. The policy is
always BSSID after a connect by cfg80211; roaming discovery (`ais_fsm.c:5701`), which
is not modelled, sets another, and so both are allowed. To come back later
("TEMPORARILY") is an answer to an association only.

`drv.fwCh` is what the firmware holds for AIS, by token. Whether a search finds a
target, whether a frame can be sent, and every result are open.

Abstractions: one access point, hence one slot for records; no scans (a search
ends at once), roaming, lost beacons, FT or shared keys; allocations succeed; the
channel manager passes requests on at once (`DbdcFsm` is about when it does not);
numbers do not wrap; frames of one kind are not told apart; timers of 100 ms and
more do not expire within the limiter's 100 ms. cfg80211 can clear the target
while AIS is in `JOIN`; the join timeout and the end of a join that succeeds then
dereference NULL and the driver dies. The model leaves these steps out (guards of
`aisFsmRunEventJoinTimeout` and `RxAssoc`): it covers the runs in which the driver
lives on.

## 3. What the runs show

### 3.1 Runs that pass

| run | instance | states | shows |
|---|---|---|---|
| `timer` | 2 timers, timeouts 0, 3, 12 ms; "minute" 6 ms, jiffy 2 ms | 711 329 | no timer forgotten or early, no wake lock leaked, `TimerService` implemented; every timer is dispatched, stopped or ended by HALT |
| `oid` | a request that is answered by its handler, one left to the firmware, and one of `main_thread` itself | 74 096 | the entry is not replaced under its owner, no announced request is lost, every `kalIoctl` returns |
| `scan` | AIS and P2P, 2 scans of cfg80211, 2 numbers of P2P, firmware that loses scans and counts one too high | 433 342 | no scan forgotten or started twice, none of P2P started after its cancel |
| `scan_answered` | AIS, 3 scans of cfg80211, a firmware that loses no scan | 11 858 | every scan is answered, AIS leaves every scan |
| `rx` | 4 frames around the wrap of 4-bit numbers, window 3, 2 A-MSDUs, one without its tail, repeats, BARs, a suspend, 2 agreements | 261 590 | what waits is marked and timed, the queue is sorted and in its window, the host gets it in order unless deliveries overlap or a frame is let through, `ReorderBuffer` implemented, every frame leaves |
| `rx_jump` | 4 frames around the wrap of 5-bit numbers and one number 14 ahead | 222 861 | the frames that now fall behind are let through: nothing is dropped that may still come, and nothing else is out of order |
| `dbdc` | a client and a role of our own, refused stream changes, requests of the firmware, frames of any length | 493 308 | the lock brackets each switch, no channel request is lost or doubled, driver and hardware agree, `ChannelQueue` implemented |
| `dbdc_fair` | the same without refusals, firmware requests and slow frames | 32 280 | requests that are held back are passed on, DBDC ends when it is not needed |
| `join` | 2 requests of cfg80211, 3 grants, 1 deauthentication, retries, refusals of each kind, timeouts and late answers | 3 562 772 | the channel is given back, aborts meet the join they were meant for, SAA starts once for a join, no SAA timer outlives its record |

*Why these bounds.* `timer`: two timers are enough for every relation the code
compares (earlier, later, equal to the armed one), and 12 ms is two "minutes", so
that a timeout is split, is an exact multiple, and is re-armed for its second; the timeouts
0 and 3 are the boundary and one that ends inside a jiffy. `oid`: each
kind meets each other as predecessor and successor in the entry, beside a request
that bypasses it; a handler may take any time; the
busy-wait of 3000 rounds is cut to 2, enough to succeed in the first, in the last
and in none. `scan`: with two scans of AIS and two numbers of P2P each client can
have one scan running or posted while an event of its earlier one is on its way
and the other client waits; a third scan (`scan_answered`) lets a queued one
meet both. `rx`: with 4-bit numbers and the first frame at 14 the numbers, the
window and the half range each wrap at a different frame; a window of 3 of which
the access point uses 2 leaves room for a frame ahead of the window after a block-ack
request; a second agreement finds what the first one left. `rx_jump` needs the
wider 5-bit numbers so that 14 ahead is still ahead. `fgNoDrop` ends after 1
frame in order and not 10. `dbdc`: two BSSs are all that two
bands need, one of each kind, since a client announces its streams by a frame and
a role of our own changes at once. `join`: two requests are the
least that let an event of one join meet the next; three grants let one be late
and two begin a join each; two messages left
from the events of a round (`MaxMsgs`) let the end of a join, which goes past the
mailbox, overtake a grant and an abort.

*Fairness.* `CnmTimer`: the clock advances, the kernel runs an expired timer,
`main_thread` is scheduled: weak fairness of each. Nobody is obliged to start or
stop timers or to remove the driver. `OidIoctl`: only the issuing threads are
scheduled; nothing is asked of `main_thread` or the firmware, since the issue is
whether a caller returns without them. `ScanFsm`: `main_thread` is scheduled and
the firmware ends the scans it runs (weak; only with `FwLoses = FALSE`, as in
`scan_answered`, does that mean that it reports them); strong fairness for the three
actions that are
enabled only at one step of the loop and are bound to happen in time: the end of a
join, and the dispatch of a pending timer, which is what `EveryTimerEnds` and
`WakeupInTime` of `CnmTimer` establish. No fairness for cfg80211, P2P, or
the wlanStop path. `RxReorder`: the tasklet runs (weak), and `main_thread`, which
serves due timers, gets the spin lock, which is handed out in turn (strong);
nothing is asked of the access point. `DbdcFsm`: frames of clients are done, well
or not, the firmware answers its commands, and the guard timer fires (weak); in
`dbdc_fair` the guard time is longer than a frame (`SlowFrames = FALSE`). `JoinFsm`
states no fairness: it is checked for safety only.

*Deadlock.* The runs of `CnmTimer` and `OidIoctl` really end (all bounded calls
made, driver removed), those of `RxReorder` with the last frame; they switch the
deadlock check off. `ScanFsm`, `DbdcFsm` and `JoinFsm` never stop, and deadlock is
checked.

### 3.2 Runs that find the code in disagreement with what it says

Each is a run of one property that states a comment of the code; the quotations
and lines are in `PROJECT.json` "findings".

| run | statement | what happens |
|---|---|---|
| `rx_stranded` | `qmDeactivateStaRec`: "Flush RX queues and delete RX BA agreements" | the tasklet has tested the agreement, `main_thread` flushes and deletes it, the tasklet inserts its frame into a queue that nobody flushes |
| `oid_rerun` | `kalOidComplete`: "main_thread will expect to finalize/complete it", hence it raises the OID bit | `main_thread` takes the bit for a new request: a command of its own is answered after the handler of the request in `OidEntry` has returned, and that handler runs again |
| `join_stuck` | `aisDeauthXmitComplete`: "to inform AIS that DEAUTH frame has been sent and thus state machine could go ahead" | the frame is sent within 100 ms of the abort; the timer is stopped, the limiter drops the abort that should follow, AIS stays in `DISCONNECTING` |

They do not contradict the passing runs: `rx` and `rx_jump` have `DelRaces =
FALSE`, the deletion that waits for the tasklet, `join` does not claim that
`DISCONNECTING` ends, and `oid` does not claim that a handler runs once.

Other places where the code does less than it says were met while modelling, and
are noted at their hazards in `PROJECT.json`. `kalIoctl` can return while its
handler runs, however short it is: it reads PENDING then, and the status goes into
the entry of the next request, whose issuer may read it as its own. `rPendComp` is
completed once and never consumed. A scan that AIS takes from its list has no
`rScanDoneTimer` (stopped at `ais_fsm.c:2738`, started again only by
`wlan_oid.c:883`): if the firmware loses it, AIS stays in its scan state until
somebody aborts. Scan-done events end the scan of another
client, whose scan is then not answered. The callback of a deferred
operating-mode change is lost when the change is found to be unnecessary; DBDC
then waits with the channel requests held back. `JOIN` can lose its timer when the
abort that a failed join posts for a connected station, or one told to come back
later, falls into the limiter. A larger instance of `JoinFsm` (6 calls of cfg80211)
shows a start of SAA that reaches the record of the join after its own: an abort is
dropped by the limiter, and the answer to a record command comes late. `StartsOnce`
holds there too; that the record is the one of the start is not claimed. An
authentication that cfg80211 asks for may only clear
`fgIsCfg80211Connecting` and never be tried. A duplicated A-MSDU can cost the next
one its last part: its mark, `fgIsAmsduDuplicated`, is cleared by an insertion only
when the queue is not empty (`que_mgt.c:4857`). If the queue is emptied first, the
first part of the next A-MSDU leaves the mark alone, and its last part, which has come
once, is dropped as a duplicate (`que_mgt.c:4806`). Passing runs are stated so that they
hold beside these: `scan_answered`, `dbdc_fair` and `rx` (which repeats no A-MSDU) on
instances without what triggers them.

### 3.3 Mutants

For every property of a passing run `PROJECT.json` names a changed definition,
written next to the original and marked "(Mutant of ...)", with which TLC finds
the property violated: a forgotten re-arm, a dropped semaphore, a pending scan
that is not removed, and so on. No module uses them.

## 4. What is proved

Proofs are in the eight modules named `...Proofs`; every theorem is for all values
of the constants that satisfy the module's assumption (types of the constants;
periods and jiffies not zero; request names different from status names; a window
of at most half of the numbers). None rests on an unproved lemma.

**CnmTimerProofs.** `TypeCorrect`, `WakeupNeverLost` (`WakeupInTime`),
`WakeLockReleased`, `CallbacksAreNotEarly`, `ServiceImplemented` (refinement of
`TimerService`). The inductive invariant `IInv` has these parts: `TypeOK`;
`ClockRead`: the check's clock is not ahead of the clock; `ScanHorizon`: during a
scan the next expiry is the horizon `rCurSysTime + MaxTimeoutInterval`, or that of
a timer started meanwhile; `NextIsEarliest`: outside a scan the root's next expiry
is not after any pending timer's; `KernelTimerArmed`: between checks the kernel
timer is armed for the root's next expiry or the flag is set; `DueCovered`: a
timer's expiry and its remaining minutes cover the time its caller asked for;
`NoWakeLockLeak`. `WakeupInTime` alone is not inductive: a start compares with the
root's next expiry and not with the kernel timer, so both have to be related.

**OidIoctlProofs.** `TypeCorrect`, `EntryNotReplaced` (`EntryIsOwners`),
`NoRequestLost` (`RequestNotLost`). `IInv`: `TypeOK`; `SemHasOwner`: a thread past
`down` and before `up` owns the semaphore, so that there is one; `EntryIsOwners`;
`FailedOnlyAtHalt`; `HandlerHasRequest`; `RequestNotLost`. Mutual exclusion by the
semaphore is what makes `EntryIsOwners` inductive, and both are needed to see that
the handler that ran was that of the announced request. Nothing is assumed of how
long handlers take.

**ScanFsmProofs.** `TypeCorrect`, `NobodyWaits` (`NobodyWaitsForIdle`),
`ScansStartOnce` (`StartedOnce`) and `CancelledIsNotStarted`
(`P2pCancelledStaysSo`), for any number of scans, any misnumbering, with or without
P2P. For the first two `IInv` is `TypeOK` and the property. For the others
`FreshInv` relates history, pending list and mailbox: a scan is in one of them at
most and once (`InOnePlace`); its number has been given out (`AllIssued`), so that
the next one is new; a cancel stands behind its request in the mailbox
(`CancelsFollow`); and what was cancelled by P2P is in neither (`CancelledIsGone`).
The proofs are by operator: each of `SendScanReq`, `scnFsmSteps`,
`scnFsmMsgStart`, `scnFsmMsgAbort` is shown once to keep the invariants and cited
wherever an action calls it.

**RxReorderProofs.** About the arithmetic, for every modulus divisible by four and
every window: `LessIsBehind`, `WithinIsWindow`, `AheadIsNextHalf` say what the
comparisons of `que_mgt.c`, which distinguish cases by half and quarter of the
range, decide across the wrap. About the protocol: `TypeCorrect`;
`WindowKeepsItsWidth`; and, if deletions do not race with the tasklet (`DelRaces =
FALSE`), `MarkedBubbleIsTimed` (`BubbleIsTimed`).
`IInv` adds to `TypeOK` who holds the lock at which step and the width of the window
outside of critical sections; `CInv` adds what a deletion leaves behind at each
of its steps (`EndsClean`).

**RxOrderProofs.** That the order survives the wrap of the numbers, for every
modulus, window and length of the traffic. Twelve bits can tell old from new only
as long as the parties do not drift apart, and nothing in the driver keeps them
together. So the theorems are about the behaviours in which they stay together:
`Spec /\ []InStep => ...`, where `InStep` says that the start of the window, the
frames the driver holds and the oldest frame of the access point are, as unbounded
numbers, less than a quarter of the modulus (1024 frames) apart until the first
suspend. It says nothing about the 12-bit variables beyond that they are residues
of such numbers. In `rx` repeated `GiveUp`s can leave it (a quarter is 4 there);
TLC checks the properties in those states too.

| theorem | property | assumed of the constants |
|---|---|---|
| `QueueStaysInWindow` | `QueueInWindow` | no deletion races with the tasklet; the access point gives up at most half of the numbers at once |
| `WaitersAreMarked` | `WaitingIsMarked` | the same, and no suspend |
| `ReorderBufferImplemented` | `ImplementsReorderBuffer` | `PlainTraffic`: the same, no A-MSDU is sent again, an abnormal number is beyond what the access point sends |
| `LateOnlyWhenRaced` | `LateOnlyIfRaced` | `PlainTraffic` |
| `NothingLostEarly` | `NoEarlyLoss` | `SingleTraffic`: `PlainTraffic`, nothing is sent again and there is no abnormal number |

`OInv` gives the window an unbounded start `w` with `w % MaxSeq = u2WinStart`
(`Window(w)`), unique under `InStep`. In terms of `w` the queue increases, and at
each step of each thread lies where `Phase(w)` says: behind `w` and inside of the
window between critical sections, before the new window's end while the tasklet
makes room, before `w` while `main_thread` flushes. `LastIsNew(w)` is the reason
why a last part is not inserted twice. The lemmas about lists (`InsertInc`,
`InsertKeepsOrder`, `TailRests`, ...) and about numbers (`Compare`, `WindowIs`,
`AdvanceOne`, `AdvanceBack`) are pure; each action then is one lemma that finds the
next `w`.

For the refinement `RInv` adds that what was released last is before everything
queued (`LastBefore`) and before the window (`Passed`), except for the first part of
an A-MSDU of which no first part can come again (`Spent`). An insertion then is an
`Add` behind `last`, a release a removal of the minimum, and everything else a
stutter. Without "no A-MSDU is sent again" the argument fails: see the duplicated
A-MSDU of section 3.2. `HInv` follows what was
released to the host: while the deliveries have not overlapped and nothing was let
through behind the window, at most one thread has something to deliver, in order and
behind what the host has. `LInv` is
about what may still come: a number that the window has passed is one the access
point is through with, or has sent a later one than, or has arrived (`Done`), and of
a number that is queued or held at most the last part is to come (`Once`). Under
`SingleTraffic` that rules out every other frame in `RxDropsBehind`. TLC
has checked `OInv`, `RInv`, `HInv` and `LInv` on small instances within `InStep`.

**DbdcFsmProofs.** `TypeCorrect`, `LockIsHeldInSwitch` (`LockFollowsState`),
`SwitchesAreLocked` (`SwitchIsLocked`), `HwIsAgreed` (`HwFollowsState`),
`NoRequestIsLost` (`RequestsAreKept`), `QueueIsImplemented` (refinement of
`ChannelQueue`). `Good(g)` ties the state of the machine to the lock, to the mode and to
the one command that may be unanswered; it is shown once per operator,
from the innermost outwards, so that an action only cites the operators it calls.
`Gate(s, t)` says of a nested call that it leaves the requests alone or passes all
on: this makes the refinement one lemma for all handlers. `IInv` adds that the
driver's mode is the hardware's, that nothing is held back without the lock, and that
the line `fw \o pend` holds each asked request once.

**JoinFsmProofs.** `ChannelIsReturned` (`ChannelNotLeaked`) and `TimerHasRecord`
(`NoTimerOnFree`). `Good(drv)` is the two properties and the fact that the fields
they need exist; like for DBDC every operator is shown once to keep it, from
`cnmStaRecFree` and `aisFsmReleaseCh` up to the actions. Nothing about the types of
the other fields is needed.

**JoinMailProofs.** `JoinTypeCorrect` (`TypeOK`), and what the mailbox guarantees
although the end of a join goes past it: `AbortsMeetTheirJoin` (`AbortHitsOwnJoin`)
and `SaaStartsOnce` (`StartsOnce`), for any number of requests, grants and frames.
`Sound` says: the starts that wait, the one that waits for its record and the last
one carried out are all different, and of joins that were made (`Starts`, `Numbers`);
in front of an abort stands no grant that AIS would still take (`AbortsFirst`); each
grant is there once (`GrantsOnce`), so that AIS in `JOIN` has used up the grant of
its last request (`Joined`); and at most the last channel request has not been given
back (`Channel`). The handlers nest several deep, from a timer of SAA to the channel
request of the next join; each is shown to be a `Keeps` (nothing of this changes), or
a `Rest` of the mailbox with messages appended, and cited by what calls it.

**Only model-checked**: every liveness property (`EveryTimerEnds`,
`EveryIoctlReturns`, `ScanAnswered`, `AisLeavesScan`, `NobodyStuck`,
`QueuedIsPassedOn`, `LeftIsDisabled`), which are out of the reach of the prover; of
`RxReorder`, what happens outside of `InStep`, what holds after a suspend, and the
part of `NoEarlyLoss` that is about abnormal numbers and `fgNoDrop` (`rx_jump`). Of
a frame that is sent again after it was released `NoEarlyLoss` is not claimed: the
driver is right to drop it.
Every other property of a passing run is stated by a theorem.

## 5. Plan

1. *More of the system.* In this order: `Shutdown` (the three threads, HALT, the
   joins with and without timeout, `MUTEX_TX_CMD_CLEAR`; nothing is freed under a
   thread); the rest of AIS (roaming, remain-on-channel, the queue of requests
   during a join, lost beacons); `PowerOwn`; `DmaRing`; reset on top of `Shutdown`.
2. *Composition.* `JoinFsm` over the scan service of `ScanFsm` and over the channel
   queue of `DbdcFsm`, by its abstract `ChannelQueue`; `OidIoctl` with `CnmTimer`
   for the OID timer; liveness of a join, once the abort that the limiter drops is
   set apart.
3. *More proofs.* `NoEarlyLoss` with abnormal numbers (`fgNoDrop` is set while the
   window is ahead of the access point, and outlives that); the order of release
   after a suspend; A-MSDUs that are sent again; `Shutdown`'s exclusion between free
   and use.

Each module gets an `MC` module with two or three clients and bounds chosen as
above, a passing run for safety, one for liveness, and a proof module.
