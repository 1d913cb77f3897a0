------------------------------- MODULE DbdcFsm -------------------------------
(***************************************************************************)
(* Channel privileges and the switch between one 2x2 radio and two 1x1     *)
(* radios (DBDC, dynamic mode) of src/mgmt/cnm.c, with the change of the   *)
(* operating mode of a connection (spatial streams, Nss) of cnm.c and      *)
(* src/mgmt/rlm.c that precedes or follows every switch.                   *)
(*                                                                         *)
(* Every handler runs in main_thread, so one action is one handler with    *)
(* all the calls it makes.  The handlers call each other synchronously: a  *)
(* done frame completes an operating-mode change, whose callback is an     *)
(* event of the state machine, whose entry functions send commands and     *)
(* ask for other operating-mode changes.  They are therefore operators     *)
(* from the driver's state g to its next state.                            *)
(*                                                                         *)
(* Built with CFG_SUPPORT_DBDC_NO_BLOCKING_OPMODE and without              *)
(* CFG_DBDC_SW_FOR_P2P_LISTEN: a failed notification does not stop the     *)
(* switch, so that its result is one event, FRAMES_DONE.  Nothing starts   *)
(* the disable countdown, so that a pending guard timer is always of the   *)
(* type SWITCH_GUARD_TIME.                                                 *)
(***************************************************************************)
EXTENDS Naturals, Sequences

CONSTANTS
  Stas,       \* the BSSs in which the driver is a client
  Aps,        \* the BSSs in which it is an access point or group owner
  Deciders,   \* those whose connection asks for a DBDC decision first (P2P)
  Refuses,    \* <<b, n>>: rlmCheckOpChangeParamValid refuses n streams in b
  FwRequests, \* the BSSs the firmware asks operating-mode changes of
  SlowFrames  \* BOOLEAN: a notification may outlast the guard time

Bss == Stas \cup Aps
Bands == {"2G4", "5G"}

\* The clients that change their streams: requests in order of priority.
Reqs == {"DBDC", "COEX"}

MaxNss == 2

States == {"DISABLE_IDLE", "WAIT_PROTOCOL_ENABLE", "WAIT_HW_ENABLE",
           "ENABLE_GUARD", "ENABLE_IDLE", "WAIT_HW_DISABLE",
           "DISABLE_GUARD", "WAIT_PROTOCOL_DISABLE"}

Events == {"LEAVE_AG", "ENTER_AG", "GUARD_TIMEOUT", "FRAMES_DONE", "HW_DONE"}

ASSUME DbdcAssumption ==
  /\ Stas \cap Aps = {}
  /\ Deciders \subseteq Bss
  /\ Refuses \subseteq Bss \X {1, MaxNss}
  /\ FwRequests \subseteq Stas \cup Aps
  /\ SlowFrames \in BOOLEAN

VARIABLES
  g,      \* what main_thread reads and writes (see Init)
  asked,  \* asked[b]: b has asked for the channel and not given it back
  hw      \* BOOLEAN: the hardware works as two radios

vars == <<g, asked, hw>>

Init ==
  /\ g = [state   |-> "DISABLE_IDLE",
          lock    |-> FALSE,          \* fgReqPrivelegeLock
          pend    |-> << >>,          \* rPendingMsgList
          fw      |-> << >>,          \* the requests the firmware holds
          guard   |-> FALSE,          \* the guard timer is pending
          enterAG |-> FALSE,          \* fgPostpondEnterAG
          leaveAG |-> FALSE,          \* fgPostpondLeaveAG
          opDone  |-> TRUE,           \* fgDbdcDisableOpmodeChangeDone
          opState |-> [b \in Bss |-> "DONE"],
          cmds    |-> << >>,          \* commands the firmware has to answer
          hasSent |-> FALSE,          \* fgHasSentCmd
          cmdEn   |-> FALSE,          \* fgCmdEn
          mode    |-> FALSE,          \* fgDbDcModeEn
          link    |-> [b \in Bss |-> "off"],
          band    |-> [b \in Bss |-> "2G4"],
          nss     |-> [b \in Bss |-> MaxNss],
          \* g_arBssOpControl: the request a frame in flight serves, the
          \* streams it announces, and the pool of requests
          run     |-> [b \in Bss |-> "none"],
          runNss  |-> [b \in Bss |-> MaxNss],
          en      |-> [b \in Bss |-> [r \in Reqs |-> FALSE]],
          new     |-> [b \in Bss |-> [r \in Reqs |-> FALSE]]]
  /\ asked = [b \in Bss |-> FALSE]
  /\ hw = FALSE

-----------------------------------------------------------------------------
(***************************************************************************)
(* Concurrency and channel requests                                        *)
(***************************************************************************)

Alive(s) == {b \in Bss : s.link[b] = "up"}

(* Two live BSSs, or a live one and the band now connecting, are in the    *)
(* two bands.                                                              *)
cnmDbdcIsConcurrent(s, connecting) ==
  \E b \in Alive(s) :
    \/ connecting \in Bands \ {s.band[b]}
    \/ \E c \in Alive(s) : s.band[c] # s.band[b]

NoBand == "NULL"

cnmChMngrRequestPrivilege(s, b) ==
  IF s.lock THEN [s EXCEPT !.pend = Append(@, b)]
            ELSE [s EXCEPT !.fw = Append(@, b)]

InSeq(seq, b) == \E i \in DOMAIN seq : seq[i] = b

(* The first entry of b is unlinked.                                       *)
Without(seq, b) ==
  IF InSeq(seq, b)
  THEN LET i == CHOOSE i \in DOMAIN seq :
                  seq[i] = b /\ \A j \in DOMAIN seq : seq[j] = b => i <= j
       IN SubSeq(seq, 1, i - 1) \o SubSeq(seq, i + 1, Len(seq))
  ELSE seq


(* (Mutant of cnmChMngrAbortPrivilege: the queue is not searched.)         *)
AbortsAtFirmware(s, b) == [s EXCEPT !.fw = Without(@, b)]

(* An abort takes a queued request back; any other goes to the firmware.   *)
cnmChMngrAbortPrivilege(s, b) ==
  IF s.lock /\ InSeq(s.pend, b)
  THEN [s EXCEPT !.pend = Without(@, b)]
  ELSE [s EXCEPT !.fw = Without(@, b)]

ReqPrivilegeLock(s) == [s EXCEPT !.lock = TRUE]


(* (Mutant of ReqPrivilegeUnLock: the list is emptied from the tail.)      *)
UnLockFromTail(s) ==
  [s EXCEPT !.lock = FALSE,
            !.fw = @ \o [i \in DOMAIN s.pend |-> s.pend[Len(s.pend) + 1 - i]],
            !.pend = << >>]

(* The queued requests are made again, from the head of the list.          *)
ReqPrivilegeUnLock(s) ==
  [s EXCEPT !.lock = FALSE, !.fw = @ \o s.pend, !.pend = << >>]

-----------------------------------------------------------------------------
(***************************************************************************)
(* Operating-mode change of one BSS                                        *)
(***************************************************************************)


(* (Mutant of Wanted: the streams counted from zero.)                      *)
WantedFromZero(s, b) == IF \E r \in Reqs : s.en[b][r] THEN 0 ELSE MaxNss

(* The streams the enabled requests of b leave it.                         *)
Wanted(s, b) == IF \E r \in Reqs : s.en[b][r] THEN 1 ELSE MaxNss

(* cnmOpModeSetTRxNss for every BSS of the set B at once: each has its own *)
(* control block.  A BSS whose frame is in flight defers the request.  An  *)
(* idle one forgets which requests were new; if it lives and its streams   *)
(* change, an access point changes at once and a client sends a frame.     *)
Busy(s, b) == s.run[b] # "none"

Executes(s, b) == ~Busy(s, b) /\ b \in Alive(s)

Invalid(s, b) == Executes(s, b) /\ <<b, Wanted(s, b)>> \in Refuses

Changes(s, b) ==
  Executes(s, b) /\ ~Invalid(s, b) /\ Wanted(s, b) # s.nss[b]

(* (The request r is entered already.)                                     *)
Execute(a, B, r) ==
  LET idle == {b \in B : ~Busy(a, b)}
      apply == {b \in B \cap Aps : Changes(a, b)}
      send == {b \in B \cap Stas : Changes(a, b)}
  IN [a EXCEPT !.new = [b \in Bss |->
                 IF b \in idle THEN [q \in Reqs |-> FALSE] ELSE @[b]],
               !.nss = [b \in Bss |->
                 IF b \in apply THEN Wanted(a, b) ELSE @[b]],
               !.run = [b \in Bss |-> IF b \in send THEN r ELSE @[b]],
               !.runNss = [b \in Bss |->
                 IF b \in send THEN Wanted(a, b) ELSE @[b]]]

cnmOpModeSetTRxNss(s, B, r, enable) ==
  Execute([s EXCEPT !.en = [b \in Bss |->
                      IF b \in B THEN [@[b] EXCEPT ![r] = enable] ELSE @[b]],
                    !.new = [b \in Bss |->
                      IF b \in B THEN [@[b] EXCEPT ![r] = TRUE] ELSE @[b]]],
          B, r)

(* The streams a connecting BSS starts with.                               *)
cnmOpModeGetTRxNss(s, b) ==
  IF Busy(s, b) THEN s.runNss[b]
  ELSE IF \E r \in Reqs : s.en[b][r] /\ ~s.new[b][r] THEN 1 ELSE MaxNss

(* Ask every BSS for the streams of the mode, and note which of the live   *)
(* ones are still to be told (RUNNING or DEFER) or refused.                *)
NoteAnswers(a, live) ==
  LET waits == {b \in live : Busy(a, b)}
      fails == {b \in live \ waits : <<b, Wanted(a, b)>> \in Refuses}
  IN [a EXCEPT !.opState = [b \in Bss |-> CASE b \in waits -> "WAIT"
                                            [] b \in fails -> "FAIL"
                                            [] OTHER       -> "DONE"],
               !.opDone = IF waits # {} THEN FALSE ELSE @]

cnmDbdcOpmodeChangeAndWait(s, enable) ==
  NoteAnswers(cnmOpModeSetTRxNss(s, Bss, "DBDC", enable), Alive(s))

AwaitsFrames(s) == \E b \in Bss : s.opState[b] = "WAIT"

-----------------------------------------------------------------------------
(***************************************************************************)
(* The state machine                                                       *)
(***************************************************************************)

cnmUpdateDbdcSetting(s, enable) ==
  [s EXCEPT !.hasSent = TRUE, !.cmdEn = enable, !.cmds = Append(@, enable)]

(* A state is left and the next one entered: only WAIT_HW_ENABLE has an    *)
(* exit function.                                                          *)
ExitFunc(s) == IF s.state = "WAIT_HW_ENABLE" THEN ReqPrivilegeUnLock(s) ELSE s


(* (Mutant of EntryFunc: the way out of DBDC does not lock.)               *)
EntryWithoutLock(s, next) ==
  LET n == [s EXCEPT !.state = next]
  IN CASE next = "DISABLE_IDLE"         -> ReqPrivilegeUnLock(n)
       [] next = "WAIT_PROTOCOL_ENABLE" -> ReqPrivilegeLock(n)
       [] next = "WAIT_HW_ENABLE"  ->
            cnmUpdateDbdcSetting(ReqPrivilegeLock(n), TRUE)
       [] next = "WAIT_HW_DISABLE" -> cnmUpdateDbdcSetting(n, FALSE)
       [] next = "ENABLE_GUARD"    -> [n EXCEPT !.guard = TRUE]
       [] next = "DISABLE_GUARD"   ->
            cnmDbdcOpmodeChangeAndWait([n EXCEPT !.guard = TRUE], FALSE)
       [] OTHER                    -> n

EntryFunc(s, next) ==
  LET n == [s EXCEPT !.state = next]
  IN CASE next = "DISABLE_IDLE"         -> ReqPrivilegeUnLock(n)
       [] next = "WAIT_PROTOCOL_ENABLE" -> ReqPrivilegeLock(n)
       [] next = "WAIT_HW_ENABLE"  ->
            cnmUpdateDbdcSetting(ReqPrivilegeLock(n), TRUE)
       [] next = "WAIT_HW_DISABLE" ->
            cnmUpdateDbdcSetting(ReqPrivilegeLock(n), FALSE)
       [] next = "ENABLE_GUARD"    -> [n EXCEPT !.guard = TRUE]
       [] next = "DISABLE_GUARD"   ->
            cnmDbdcOpmodeChangeAndWait([n EXCEPT !.guard = TRUE], FALSE)
       [] OTHER                    -> n

cnmDbdcFsmSteps(s, next) ==
  IF next = s.state THEN s ELSE EntryFunc(ExitFunc(s), next)

(* Ask for one stream everywhere; switch the hardware when nobody is left  *)
(* to be told.                                                             *)
Enable(s) ==
  LET a == cnmDbdcOpmodeChangeAndWait(s, TRUE)
  IN cnmDbdcFsmSteps(a, IF AwaitsFrames(a) THEN "WAIT_PROTOCOL_ENABLE"
                                           ELSE "WAIT_HW_ENABLE")

EnableOrIdle(s) ==
  IF cnmDbdcIsConcurrent(s, NoBand) THEN Enable(s)
  ELSE cnmDbdcFsmSteps(s, "DISABLE_IDLE")

On_DISABLE_IDLE(s, event) == IF event = "ENTER_AG" THEN Enable(s) ELSE s

On_WAIT_PROTOCOL_ENABLE(s, event) ==
  IF event = "FRAMES_DONE" THEN cnmDbdcFsmSteps(s, "WAIT_HW_ENABLE") ELSE s

(* In both enabled states: leave at once, unless two bands are used.       *)
LeaveUnlessConcurrent(s) ==
  IF cnmDbdcIsConcurrent(s, NoBand) THEN s
  ELSE cnmDbdcFsmSteps(s, "WAIT_HW_DISABLE")


(* (Mutant of On_ENABLE_GUARD: the timeout does not decide again.)         *)
GuardToIdle(s, event) ==
  CASE event = "LEAVE_AG" ->
         LeaveUnlessConcurrent([s EXCEPT !.guard = FALSE])
    [] event = "GUARD_TIMEOUT" -> cnmDbdcFsmSteps(s, "ENABLE_IDLE")
    [] OTHER -> s

On_ENABLE_GUARD(s, event) ==
  CASE event = "LEAVE_AG" ->
         LeaveUnlessConcurrent([s EXCEPT !.guard = FALSE])
    [] event = "GUARD_TIMEOUT" ->
         cnmDbdcFsmSteps(s, IF cnmDbdcIsConcurrent(s, NoBand)
                            THEN "ENABLE_IDLE" ELSE "WAIT_HW_DISABLE")
    [] OTHER -> s

On_ENABLE_IDLE(s, event) ==
  IF event = "LEAVE_AG"
  THEN LeaveUnlessConcurrent([s EXCEPT !.guard = FALSE]) ELSE s

(* A decision to leave taken while the hardware switches is postponed.     *)
On_WAIT_HW_ENABLE(s, event) ==
  CASE event = "LEAVE_AG" -> [s EXCEPT !.leaveAG = TRUE]
    [] event = "ENTER_AG" -> [s EXCEPT !.leaveAG = FALSE]
    [] event = "HW_DONE"  ->
         LET n == cnmDbdcFsmSteps(s, "ENABLE_GUARD")
         IN IF s.leaveAG
            THEN [On_ENABLE_GUARD(n, "LEAVE_AG") EXCEPT !.leaveAG = FALSE]
            ELSE n
    [] OTHER -> s

On_DISABLE_GUARD(s, event) ==
  CASE event = "ENTER_AG" -> Enable(s)
    [] event = "GUARD_TIMEOUT" ->
         IF s.opDone THEN EnableOrIdle(s)
         ELSE cnmDbdcFsmSteps(s, "WAIT_PROTOCOL_DISABLE")
    [] OTHER -> s

(* So is a decision to enter.                                              *)
On_WAIT_HW_DISABLE(s, event) ==
  CASE event = "ENTER_AG" -> [s EXCEPT !.enterAG = TRUE]
    [] event = "LEAVE_AG" -> [s EXCEPT !.enterAG = FALSE]
    [] event = "HW_DONE"  ->
         LET n == cnmDbdcFsmSteps(s, "DISABLE_GUARD")
         IN IF s.enterAG
            THEN [On_DISABLE_GUARD(n, "ENTER_AG") EXCEPT !.enterAG = FALSE]
            ELSE n
    [] OTHER -> s

On_WAIT_PROTOCOL_DISABLE(s, event) ==
  IF event = "FRAMES_DONE" THEN EnableOrIdle(s) ELSE s

DbdcEvent(s, event) ==
  CASE s.state = "DISABLE_IDLE"          -> On_DISABLE_IDLE(s, event)
    [] s.state = "WAIT_PROTOCOL_ENABLE"  -> On_WAIT_PROTOCOL_ENABLE(s, event)
    [] s.state = "WAIT_HW_ENABLE"        -> On_WAIT_HW_ENABLE(s, event)
    [] s.state = "ENABLE_GUARD"          -> On_ENABLE_GUARD(s, event)
    [] s.state = "ENABLE_IDLE"           -> On_ENABLE_IDLE(s, event)
    [] s.state = "WAIT_HW_DISABLE"       -> On_WAIT_HW_DISABLE(s, event)
    [] s.state = "DISABLE_GUARD"         -> On_DISABLE_GUARD(s, event)
    [] s.state = "WAIT_PROTOCOL_DISABLE" -> On_WAIT_PROTOCOL_DISABLE(s, event)

Decide(s, concurrent) ==
  DbdcEvent(s, IF concurrent THEN "ENTER_AG" ELSE "LEAVE_AG")

(* Before a connection: while the guard timer is pending, only a decision  *)
(* that differs from the mode stops it and goes on.                        *)
cnmDbdcPreConnectionEnableDecision(s, band) ==
  LET concurrent == cnmDbdcIsConcurrent(s, band)
  IN IF s.guard /\ concurrent = s.mode THEN s
     ELSE Decide([s EXCEPT !.guard = FALSE], concurrent)

(* After a change: nothing while the guard timer is pending (in            *)
(* DISABLE_GUARD it is started again).                                     *)
cnmDbdcRuntimeCheckDecision(s) ==
  LET concurrent == cnmDbdcIsConcurrent(s, NoBand)
  IN IF concurrent = s.mode \/ s.guard THEN s ELSE Decide(s, concurrent)


(* (Mutant of cnmDbdcOpModeChangeDoneCallback: a failed notification is    *)
(* not reported to the state machine.)                                     *)
CallbackOfSuccess(s, b, success) ==
  LET a == [s EXCEPT !.opState[b] = IF success THEN "DONE" ELSE "FAIL"]
  IN IF AwaitsFrames(a) \/ a.opDone \/ ~success THEN a
     ELSE [DbdcEvent(a, "FRAMES_DONE") EXCEPT !.opDone = TRUE]

(* A DBDC notification is done: the state machine is told once none is     *)
(* outstanding, and the flag is set whatever it has done in between.       *)
cnmDbdcOpModeChangeDoneCallback(s, b, success) ==
  LET a == [s EXCEPT !.opState[b] = IF success THEN "DONE" ELSE "FAIL"]
  IN IF AwaitsFrames(a) \/ a.opDone THEN a
     ELSE [DbdcEvent(a, "FRAMES_DONE") EXCEPT !.opDone = TRUE]

(* The initiator of the change is told, then the first request that came   *)
(* in meanwhile is made again.                                             *)
Redo(s, b) ==
  LET first == IF s.new[b]["DBDC"] THEN "DBDC" ELSE "COEX"
  IN IF \E r \in Reqs : s.new[b][r]
     THEN cnmOpModeSetTRxNss(s, {b}, first, s.en[b][first]) ELSE s

cnmOpModeCallbackDispatcher(s, b, success) ==
  Redo([IF s.run[b] = "DBDC"
        THEN cnmDbdcOpModeChangeDoneCallback(s, b, success) ELSE s
          EXCEPT !.run[b] = "none"], b)

(* The last notification frame of a change is done; a frame that fails     *)
(* for good rolls the change back.                                         *)
rlmOpModeTxDoneHandler(s, b, success) ==
  cnmOpModeCallbackDispatcher(
    [s EXCEPT !.nss[b] = IF success THEN s.runNss[b] ELSE @], b, success)


(* (Mutant of cnmDbdcEventHwSwitchDone: the mode is noted on the way in    *)
(* only.)                                                                  *)
HwSwitchNotedOnEnable(s) ==
  CASE s.state \in {"WAIT_HW_ENABLE", "WAIT_HW_DISABLE"} ->
         DbdcEvent([s EXCEPT !.hasSent = FALSE,
                             !.mode = @ \/ s.state = "WAIT_HW_ENABLE"],
                   "HW_DONE")
    [] OTHER ->
         [s EXCEPT !.mode = IF s.hasSent THEN s.cmdEn ELSE @,
                   !.hasSent = FALSE]

(* An answer counts as that of the awaited command in the states that wait *)
(* for one; elsewhere only the mode is noted.                              *)
cnmDbdcEventHwSwitchDone(s) ==
  CASE s.state \in {"WAIT_HW_ENABLE", "WAIT_HW_DISABLE"} ->
         DbdcEvent([s EXCEPT !.hasSent = FALSE,
                             !.mode = s.state = "WAIT_HW_ENABLE"], "HW_DONE")
    [] OTHER ->
         [s EXCEPT !.mode = IF s.hasSent THEN s.cmdEn ELSE @,
                   !.hasSent = FALSE]

-----------------------------------------------------------------------------
(***************************************************************************)
(* Actions                                                                 *)
(***************************************************************************)

(* A connection or an access point begins on a band: P2P asks for the      *)
(* decision; everyone reads the streams to use.                            *)
Join(b, band) ==
  /\ g.link[b] = "off"
  /\ LET s == [g EXCEPT !.link[b] = "joining", !.band[b] = band]
         d == IF b \in Deciders
              THEN cnmDbdcPreConnectionEnableDecision(s, band) ELSE s
     IN g' = [d EXCEPT !.nss[b] = cnmOpModeGetTRxNss(d, b)]
  /\ UNCHANGED <<asked, hw>>

(* The BSS is up on the channel it was granted.  All but a P2P client read *)
(* the streams again.                                                      *)
ComeUp(b) ==
  /\ g.link[b] = "joining"
  /\ InSeq(g.fw, b)
  /\ g' = [g EXCEPT !.link[b] = "up",
                    !.nss[b] = IF b \in Stas \cap Deciders THEN @
                               ELSE cnmOpModeGetTRxNss(g, b)]
  /\ UNCHANGED <<asked, hw>>

(* nicUpdateBss of a BSS that is not connected: at the end of a            *)
(* connection, and when the infrastructure client is granted the channel.  *)
Disconnect(b) ==
  /\ g.link[b] # "off"
  /\ g' = cnmDbdcRuntimeCheckDecision([g EXCEPT !.link[b] = "off"])
  /\ UNCHANGED <<asked, hw>>

GrantedUpdate(b) ==
  /\ b \in Stas \ Deciders
  /\ g.link[b] = "joining"
  /\ InSeq(g.fw, b)
  /\ g' = cnmDbdcRuntimeCheckDecision(g)
  /\ UNCHANGED <<asked, hw>>

(* An access point moves to a channel of the other band.                   *)
p2pFuncDfsSwitchCh(b) ==
  /\ b \in Aps
  /\ g.link[b] = "up"
  /\ \E band \in Bands \ {g.band[b]} :
       g' = cnmDbdcRuntimeCheckDecision([g EXCEPT !.band[b] = band])
  /\ UNCHANGED <<asked, hw>>

RequestChannel(b) ==
  /\ g.link[b] # "off"
  /\ ~asked[b]
  /\ asked' = [asked EXCEPT ![b] = TRUE]
  /\ g' = cnmChMngrRequestPrivilege(g, b)
  /\ UNCHANGED hw

ReleaseChannel(b) ==
  /\ asked[b]
  /\ asked' = [asked EXCEPT ![b] = FALSE]
  /\ g' = cnmChMngrAbortPrivilege(g, b)
  /\ UNCHANGED hw

cnmOpmodeEventHandler(b, enable) ==
  /\ b \in FwRequests
  /\ g' = cnmOpModeSetTRxNss(g, {b}, "COEX", enable)
  /\ UNCHANGED <<asked, hw>>

FrameDone(b, success) ==
  /\ Busy(g, b)
  /\ g' = rlmOpModeTxDoneHandler(g, b, success)
  /\ UNCHANGED <<asked, hw>>

(* The firmware carries its commands out and answers them in order.        *)
HwDone ==
  /\ g.cmds # << >>
  /\ hw' = Head(g.cmds)
  /\ g' = cnmDbdcEventHwSwitchDone([g EXCEPT !.cmds = Tail(@)])
  /\ UNCHANGED asked

cnmDbdcGuardTimerCallback ==
  /\ g.guard
  /\ SlowFrames \/ \A b \in Bss : ~Busy(g, b)
  /\ g' = DbdcEvent([g EXCEPT !.guard = FALSE], "GUARD_TIMEOUT")
  /\ UNCHANGED <<asked, hw>>

Next ==
  \/ \E b \in Bss, band \in Bands : Join(b, band)
  \/ \E b \in Bss : \/ ComeUp(b)
                    \/ Disconnect(b)
                    \/ GrantedUpdate(b)
                    \/ p2pFuncDfsSwitchCh(b)
                    \/ RequestChannel(b)
                    \/ ReleaseChannel(b)
  \/ \E b \in Bss, yes \in BOOLEAN : \/ cnmOpmodeEventHandler(b, yes)
                                     \/ FrameDone(b, yes)
  \/ HwDone
  \/ cnmDbdcGuardTimerCallback

Spec == Init /\ [][Next]_vars

(* Frames (only a client sends them) end, the firmware answers and the     *)
(* timer fires.                                                            *)
FairSpec ==
  /\ Spec
  /\ \A b \in Stas : WF_vars(\E ok \in BOOLEAN : FrameDone(b, ok))
  /\ WF_vars(HwDone)
  /\ WF_vars(cnmDbdcGuardTimerCallback)

-----------------------------------------------------------------------------
(***************************************************************************)
(* Properties                                                              *)
(***************************************************************************)

Links == {"off", "joining", "up"}

(* The states of the driver.                                               *)
Gs == [state : States, lock : BOOLEAN, pend : Seq(Bss), fw : Seq(Bss),
       guard : BOOLEAN, enterAG : BOOLEAN, leaveAG : BOOLEAN,
       opDone : BOOLEAN, opState : [Bss -> {"DONE", "FAIL", "WAIT"}],
       cmds : Seq(BOOLEAN), hasSent : BOOLEAN, cmdEn : BOOLEAN,
       mode : BOOLEAN, link : [Bss -> Links], band : [Bss -> Bands],
       nss : [Bss -> {1, MaxNss}], run : [Bss -> Reqs \cup {"none"}],
       runNss : [Bss -> {1, MaxNss}], en : [Bss -> [Reqs -> BOOLEAN]],
       new : [Bss -> [Reqs -> BOOLEAN]]]

(* The driver's state keeps its types through the nested calls.            *)
TypeOK ==
  /\ g \in Gs
  /\ asked \in [Bss -> BOOLEAN]
  /\ hw \in BOOLEAN

(* Where b's request stands: known to the firmware, or queued.             *)
Places(b) == {i \in DOMAIN (g.fw \o g.pend) : (g.fw \o g.pend)[i] = b}

(* A channel request is neither lost nor made twice, however often the     *)
(* lock is taken and released between the request and its withdrawal, and  *)
(* nothing is left of it when it is withdrawn (cnm.c, rPendingMsgList).    *)
RequestsAreKept ==
  \A b \in Bss : IF asked[b] THEN \E i \in Places(b) : Places(b) = {i}
                 ELSE Places(b) = {}

LockStates == {"WAIT_PROTOCOL_ENABLE", "WAIT_HW_ENABLE", "WAIT_HW_DISABLE",
               "DISABLE_GUARD", "WAIT_PROTOCOL_DISABLE"}

(* The lock is taken and released in entry and exit functions of different *)
(* states: it is held exactly between the decision to switch and the end   *)
(* of the switch, and only then are requests queued.                       *)
LockFollowsState ==
  /\ g.lock <=> g.state \in LockStates
  /\ ~g.lock => g.pend = << >>

(* No channel request reaches the firmware while the hardware is still to  *)
(* change: the lock outlasts every command that changes it.                *)
SwitchIsLocked == (\E i \in DOMAIN g.cmds : g.cmds[i] # hw) => g.lock

(* Once every command is answered, driver and hardware agree on the mode,  *)
(* whatever was decided and postponed on the way.                          *)
HwFollowsState ==
  g.cmds = << >> =>
    /\ g.mode = hw
    /\ hw <=> g.state \in {"ENABLE_GUARD", "ENABLE_IDLE"}

Queue == INSTANCE ChannelQueue
  WITH Clients <- Bss, queue <- g.fw \o g.pend, known <- Len(g.fw),
       closed <- g.lock

(* The requests reach the firmware in the order they were made, and all of *)
(* them as soon as the lock is released.                                   *)
ImplementsChannelQueue == Queue!Spec

(* The queue of channel requests is emptied again and again, although new  *)
(* decisions may be taken while a switch is under way: nobody waits for    *)
(* the lock for ever.                                                      *)
QueuedIsPassedOn == []<>(g.pend = << >>)

(* When only one band is used from some point on, DBDC ends, although      *)
(* decisions are dropped while the guard timer is pending.                 *)
LeftIsDisabled ==
  <>[]~cnmDbdcIsConcurrent(g, NoBand) => []<>~g.mode
=============================================================================
