---------------------------- MODULE DbdcFsmProofs ----------------------------
(***************************************************************************)
(* Theorems about DbdcFsm, for any sets of client and access-point BSSs.   *)
(*                                                                         *)
(* Every handler is a composition of operators on the driver's state, so   *)
(* the proof follows the calls: a lemma per operator says what it keeps    *)
(* (Quiet) or how it turns a well-formed state into another (Turn).        *)
(***************************************************************************)
EXTENDS DbdcFsm, SequenceTheorems, TLAPS

-----------------------------------------------------------------------------
(***************************************************************************)
(* What the lemmas say of one state, and of two                            *)
(***************************************************************************)

(* The states in which the firmware was last told to be two radios and has *)
(* confirmed it.                                                           *)
ModeStates == {"ENABLE_GUARD", "ENABLE_IDLE", "WAIT_HW_DISABLE"}

LockFits(s) == s.lock <=> s.state \in LockStates

ModeFits(s) == s.mode <=> s.state \in ModeStates

(* A command is unanswered exactly in the states that wait for its answer. *)
CmdsFit(s) ==
  /\ s.state = "WAIT_HW_ENABLE" => s.cmds = <<TRUE>>
  /\ s.state = "WAIT_HW_DISABLE" => s.cmds = <<FALSE>>
  /\ s.state \notin {"WAIT_HW_ENABLE", "WAIT_HW_DISABLE"} => s.cmds = << >>

Good(s) == s \in Gs /\ LockFits(s) /\ ModeFits(s) /\ CmdsFit(s)

(* What a step does to the channel requests: nothing, but that it may take *)
(* the lock; or it passes all of them on.                                  *)
Gate(s, t) ==
  \/ t.pend = s.pend /\ t.fw = s.fw /\ (s.lock => t.lock)
  \/ t.pend = << >> /\ t.fw = s.fw \o s.pend

Turn(s, t) == Good(t) /\ Gate(s, t) /\ t.mode = s.mode

(* The state machine, its lock and its commands are left alone.            *)
Quiet(s, t) ==
  /\ t \in Gs
  /\ t.state = s.state /\ t.lock = s.lock /\ t.mode = s.mode
  /\ t.pend = s.pend /\ t.fw = s.fw /\ t.cmds = s.cmds

LEMMA GateComposes ==
  ASSUME NEW s \in Gs, NEW t \in Gs, NEW u \in Gs, Gate(s, t), Gate(t, u)
  PROVE  Gate(s, u)
<1>1. s.fw \in Seq(Bss) /\ s.pend \in Seq(Bss)
  BY DEF Gs
<1>2. (s.fw \o s.pend) \o << >> = s.fw \o s.pend
  BY <1>1
<1> QED
  BY <1>2 DEF Gate

LEMMA QuietKeepsGood ==
  ASSUME NEW s, Good(s), NEW t, Quiet(s, t)
  PROVE  Turn(s, t)
  BY DEF Good, Quiet, Turn, Gate, LockFits, ModeFits, CmdsFit

LEMMA QuietComposes ==
  ASSUME NEW s, NEW t, NEW u, Quiet(s, t), Quiet(t, u)
  PROVE  Quiet(s, u)
  BY DEF Quiet

LEMMA TurnComposes ==
  ASSUME NEW s, Good(s), NEW t, Turn(s, t), NEW u, Turn(t, u)
  PROVE  Turn(s, u)
<1>1. s \in Gs /\ t \in Gs /\ u \in Gs
  BY DEF Turn, Good
<1>2. Gate(s, u)
  BY <1>1, GateComposes DEF Turn
<1> QED
  BY <1>2 DEF Turn

-----------------------------------------------------------------------------
(***************************************************************************)
(* The lock, the commands and the operating-mode changes                   *)
(***************************************************************************)

LEMMA LockTyped ==
  ASSUME NEW s \in Gs
  PROVE  /\ ReqPrivilegeLock(s) \in Gs
         /\ ReqPrivilegeLock(s).lock = TRUE
         /\ ReqPrivilegeLock(s).pend = s.pend
         /\ ReqPrivilegeLock(s).fw = s.fw
  BY DEF ReqPrivilegeLock, Gs

LEMMA UnLockTyped ==
  ASSUME NEW s \in Gs
  PROVE  /\ ReqPrivilegeUnLock(s) \in Gs
         /\ ReqPrivilegeUnLock(s).lock = FALSE
         /\ ReqPrivilegeUnLock(s).pend = << >>
         /\ ReqPrivilegeUnLock(s).fw = s.fw \o s.pend
<1>1. s.fw \in Seq(Bss) /\ s.pend \in Seq(Bss)
  BY DEF Gs
<1>2. s.fw \o s.pend \in Seq(Bss)
  BY <1>1
<1>3. << >> \in Seq(Bss)
  OBVIOUS
<1> DEFINE all == s.fw \o s.pend
           none == << >>
<1> HIDE DEF all, none
<1>4. [s EXCEPT !.lock = FALSE, !.fw = all, !.pend = none] \in Gs
  BY <1>2, <1>3 DEF Gs, all, none
<1>5. ReqPrivilegeUnLock(s)
        = [s EXCEPT !.lock = FALSE, !.fw = all, !.pend = none]
  BY DEF ReqPrivilegeUnLock, all, none
<1> QED
  BY <1>4, <1>5 DEF Gs, all, none

LEMMA SettingTyped ==
  ASSUME NEW s \in Gs, NEW enable \in BOOLEAN, s.cmds = << >>
  PROVE  LET t == cnmUpdateDbdcSetting(s, enable)
         IN /\ t \in Gs
            /\ t.cmds = <<enable>>
            /\ t.lock = s.lock /\ t.pend = s.pend /\ t.fw = s.fw
            /\ t.state = s.state /\ t.mode = s.mode
<1> DEFINE all == Append(s.cmds, enable)
<1>1. all \in Seq(BOOLEAN) /\ all = <<enable>>
  OBVIOUS
<1> HIDE DEF all
<1>2. [s EXCEPT !.hasSent = TRUE, !.cmdEn = enable, !.cmds = all] \in Gs
  BY <1>1 DEF Gs
<1>3. cnmUpdateDbdcSetting(s, enable)
        = [s EXCEPT !.hasSent = TRUE, !.cmdEn = enable, !.cmds = all]
  BY DEF cnmUpdateDbdcSetting, all
<1> QED
  BY <1>1, <1>2, <1>3 DEF Gs

LEMMA WantedTyped ==
  ASSUME NEW s, NEW b
  PROVE  Wanted(s, b) \in {1, MaxNss}
  BY DEF Wanted

LEMMA SetTRxNssQuiet ==
  ASSUME NEW s \in Gs, NEW B \in SUBSET Bss, NEW r \in Reqs,
         NEW enable \in BOOLEAN
  PROVE  Quiet(s, cnmOpModeSetTRxNss(s, B, r, enable))
<1> DEFINE en == [b \in Bss |-> IF b \in B THEN [s.en[b] EXCEPT ![r] = enable]
                                ELSE s.en[b]]
           new1 == [b \in Bss |-> IF b \in B THEN [s.new[b] EXCEPT ![r] = TRUE]
                                  ELSE s.new[b]]
           a == [s EXCEPT !.en = en, !.new = new1]
           idle == {b \in B : ~Busy(a, b)}
           apply == {b \in B \cap Aps : Changes(a, b)}
           send == {b \in B \cap Stas : Changes(a, b)}
           new == [b \in Bss |-> IF b \in idle THEN [q \in Reqs |-> FALSE]
                                 ELSE new1[b]]
           nss == [b \in Bss |-> IF b \in apply THEN Wanted(a, b) ELSE s.nss[b]]
           run == [b \in Bss |-> IF b \in send THEN r ELSE s.run[b]]
           runNss == [b \in Bss |-> IF b \in send THEN Wanted(a, b)
                                    ELSE s.runNss[b]]
<1>1. /\ s.en \in [Bss -> [Reqs -> BOOLEAN]]
      /\ s.new \in [Bss -> [Reqs -> BOOLEAN]]
      /\ s.nss \in [Bss -> {1, MaxNss}]
      /\ s.run \in [Bss -> Reqs \cup {"none"}]
      /\ s.runNss \in [Bss -> {1, MaxNss}]
  BY DEF Gs
<1>2. en \in [Bss -> [Reqs -> BOOLEAN]] /\ new1 \in [Bss -> [Reqs -> BOOLEAN]]
  BY <1>1
<1>3. new \in [Bss -> [Reqs -> BOOLEAN]]
  BY <1>2
<1>4. nss \in [Bss -> {1, MaxNss}] /\ runNss \in [Bss -> {1, MaxNss}]
  BY <1>1, WantedTyped
<1>5. run \in [Bss -> Reqs \cup {"none"}]
  BY <1>1
<1>6. cnmOpModeSetTRxNss(s, B, r, enable)
        = [a EXCEPT !.new = new, !.nss = nss, !.run = run, !.runNss = runNss]
  BY DEF cnmOpModeSetTRxNss, Execute, Gs
<1> HIDE DEF en, new1, new, nss, run, runNss
<1>7. a \in Gs
  BY <1>2 DEF Gs
<1>8. Quiet(s, a)
  BY <1>7 DEF Quiet, Gs
<1> HIDE DEF a
<1>9. [a EXCEPT !.new = new, !.nss = nss, !.run = run, !.runNss = runNss]
        \in Gs
  BY <1>3, <1>4, <1>5, <1>7 DEF Gs
<1> QED
  BY <1>6, <1>8, <1>9 DEF Quiet, Gs

LEMMA ChangeAndWaitQuiet ==
  ASSUME NEW s \in Gs, NEW enable \in BOOLEAN
  PROVE  Quiet(s, cnmDbdcOpmodeChangeAndWait(s, enable))
<1> DEFINE a == cnmOpModeSetTRxNss(s, Bss, "DBDC", enable)
           waits == {b \in Alive(s) : Busy(a, b)}
           fails == {b \in Alive(s) \ waits : <<b, Wanted(a, b)>> \in Refuses}
           opState == [b \in Bss |-> CASE b \in waits -> "WAIT"
                                       [] b \in fails -> "FAIL"
                                       [] OTHER       -> "DONE"]
           opDone == IF waits # {} THEN FALSE ELSE a.opDone
<1>1. Quiet(s, a)
  BY SetTRxNssQuiet DEF Reqs
<1>2. opState \in [Bss -> {"DONE", "FAIL", "WAIT"}]
  OBVIOUS
<1>3. opDone \in BOOLEAN
  BY <1>1 DEF Quiet, Gs
<1>4. cnmDbdcOpmodeChangeAndWait(s, enable)
        = [a EXCEPT !.opState = opState, !.opDone = opDone]
  BY DEF cnmDbdcOpmodeChangeAndWait, NoteAnswers
<1> HIDE DEF a, opState, opDone
<1>5. [a EXCEPT !.opState = opState, !.opDone = opDone] \in Gs
  BY <1>1, <1>2, <1>3 DEF Gs, Quiet
<1> QED
  BY <1>1, <1>4, <1>5 DEF Quiet, Gs

-----------------------------------------------------------------------------
(***************************************************************************)
(* Leaving a state and entering the next                                   *)
(***************************************************************************)

(* What may be entered from s, with no command unanswered: the states that *)
(* neither take nor release the lock only when it already fits them.       *)
MayEnter(s, next) ==
  /\ next # s.state
  /\ s.cmds = << >>
  /\ s.mode <=> next \in ModeStates
  /\ next \in {"ENABLE_GUARD", "ENABLE_IDLE"} =>
       s.state = "WAIT_HW_ENABLE" \/ ~s.lock
  /\ next \in {"DISABLE_GUARD", "WAIT_PROTOCOL_DISABLE"} =>
       s.lock /\ s.state # "WAIT_HW_ENABLE"

LEMMA ExitGate ==
  ASSUME NEW s \in Gs
  PROVE  LET x == ExitFunc(s)
         IN /\ x \in Gs
            /\ Gate(s, x)
            /\ x.cmds = s.cmds /\ x.mode = s.mode
            /\ x.lock <=> s.lock /\ s.state # "WAIT_HW_ENABLE"
<1>1. CASE s.state = "WAIT_HW_ENABLE"
  <2>1. ExitFunc(s) = ReqPrivilegeUnLock(s)
    BY <1>1 DEF ExitFunc
  <2>2. ReqPrivilegeUnLock(s).cmds = s.cmds /\ ReqPrivilegeUnLock(s).mode = s.mode
    BY DEF ReqPrivilegeUnLock, Gs
  <2> QED
    BY <1>1, <2>1, <2>2, UnLockTyped DEF Gate
<1>2. CASE s.state # "WAIT_HW_ENABLE"
  BY <1>2 DEF ExitFunc, Gate
<1> QED
  BY <1>1, <1>2

(* Every entry function brings lock and commands to what the state needs.  *)
LEMMA EntryTurn ==
  ASSUME NEW x \in Gs, NEW next \in States,
         x.cmds = << >>,
         x.mode <=> next \in ModeStates,
         next \in {"ENABLE_GUARD", "ENABLE_IDLE"} => ~x.lock,
         next \in {"DISABLE_GUARD", "WAIT_PROTOCOL_DISABLE"} => x.lock
  PROVE  Turn(x, EntryFunc(x, next)) /\ EntryFunc(x, next).state = next
<1> DEFINE n == [x EXCEPT !.state = next]
           e == EntryFunc(x, next)
           l == ReqPrivilegeLock(n)
           u == ReqPrivilegeUnLock(n)
<1>1. /\ n \in Gs
      /\ n.state = next /\ n.lock = x.lock /\ n.mode = x.mode
      /\ n.pend = x.pend /\ n.fw = x.fw /\ n.cmds = << >>
  BY DEF Gs
<1>2. /\ l \in Gs /\ l.lock = TRUE /\ l.pend = x.pend /\ l.fw = x.fw
      /\ l.state = next /\ l.mode = x.mode /\ l.cmds = << >>
  <2>1. /\ l \in Gs /\ l.lock = TRUE /\ l.pend = x.pend /\ l.fw = x.fw
    BY <1>1, LockTyped
  <2>2. l.state = next /\ l.mode = x.mode /\ l.cmds = << >>
    BY <1>1 DEF ReqPrivilegeLock, Gs
  <2> QED
    BY <2>1, <2>2
<1>3. /\ u \in Gs /\ u.lock = FALSE /\ u.pend = << >> /\ u.fw = x.fw \o x.pend
      /\ u.state = next /\ u.mode = x.mode /\ u.cmds = << >>
  <2>1. /\ u \in Gs /\ u.lock = FALSE /\ u.pend = << >>
        /\ u.fw = x.fw \o x.pend
    BY <1>1, UnLockTyped
  <2>2. u.state = next /\ u.mode = x.mode /\ u.cmds = << >>
    BY <1>1 DEF ReqPrivilegeUnLock, Gs
  <2> QED
    BY <2>1, <2>2
<1> HIDE DEF l, u
<1>4. CASE next = "DISABLE_IDLE"
  <2>1. e = u
    BY <1>4 DEF EntryFunc, u
  <2> QED
    BY <1>3, <1>4, <2>1
    DEF Turn, Good, Gate, LockFits, ModeFits, CmdsFit, LockStates, ModeStates
<1>5. CASE next = "WAIT_PROTOCOL_ENABLE"
  <2>1. e = l
    BY <1>5 DEF EntryFunc, l
  <2> QED
    BY <1>2, <1>5, <2>1
    DEF Turn, Good, Gate, LockFits, ModeFits, CmdsFit, LockStates, ModeStates
<1>6. CASE next = "WAIT_HW_ENABLE"
  <2>1. e = cnmUpdateDbdcSetting(l, TRUE)
    BY <1>6 DEF EntryFunc, l
  <2>2. /\ e \in Gs /\ e.cmds = <<TRUE>> /\ e.lock = TRUE /\ e.pend = x.pend
        /\ e.fw = x.fw /\ e.state = next /\ e.mode = x.mode
    BY <1>2, <2>1, SettingTyped
  <2> QED
    BY <1>6, <2>2
    DEF Turn, Good, Gate, LockFits, ModeFits, CmdsFit, LockStates, ModeStates
<1>7. CASE next = "WAIT_HW_DISABLE"
  <2>1. e = cnmUpdateDbdcSetting(l, FALSE)
    BY <1>7 DEF EntryFunc, l
  <2>2. /\ e \in Gs /\ e.cmds = <<FALSE>> /\ e.lock = TRUE /\ e.pend = x.pend
        /\ e.fw = x.fw /\ e.state = next /\ e.mode = x.mode
    BY <1>2, <2>1, SettingTyped
  <2> QED
    BY <1>7, <2>2
    DEF Turn, Good, Gate, LockFits, ModeFits, CmdsFit, LockStates, ModeStates
<1>8. CASE next = "ENABLE_GUARD"
  <2>1. e = [n EXCEPT !.guard = TRUE]
    BY <1>8 DEF EntryFunc
  <2>2. Quiet(n, e)
    BY <1>1, <2>1 DEF Quiet, Gs
  <2> QED
    BY <1>1, <1>8, <2>2
    DEF Quiet, Turn, Good, Gate, LockFits, ModeFits, CmdsFit, LockStates,
        ModeStates
<1>9. CASE next = "DISABLE_GUARD"
  <2> DEFINE m == [n EXCEPT !.guard = TRUE]
  <2>1. e = cnmDbdcOpmodeChangeAndWait(m, FALSE)
    BY <1>9 DEF EntryFunc
  <2>2. Quiet(n, m)
    BY <1>1 DEF Quiet, Gs
  <2>3. Quiet(m, e)
    BY <2>1, <2>2, ChangeAndWaitQuiet DEF Quiet
  <2>4. Quiet(n, e)
    BY <2>2, <2>3, QuietComposes
  <2> QED
    BY <1>1, <1>9, <2>4
    DEF Quiet, Turn, Good, Gate, LockFits, ModeFits, CmdsFit, LockStates,
        ModeStates
<1>10. CASE next \in {"ENABLE_IDLE", "WAIT_PROTOCOL_DISABLE"}
  <2>1. e = n
    BY <1>10 DEF EntryFunc
  <2> QED
    BY <1>1, <1>10, <2>1
    DEF Turn, Good, Gate, LockFits, ModeFits, CmdsFit, LockStates, ModeStates
<1> QED
  BY <1>4, <1>5, <1>6, <1>7, <1>8, <1>9, <1>10 DEF States

LEMMA StepsTurn ==
  ASSUME NEW s \in Gs, NEW next \in States, MayEnter(s, next)
  PROVE  /\ Turn(s, cnmDbdcFsmSteps(s, next))
         /\ cnmDbdcFsmSteps(s, next).state = next
<1> DEFINE x == ExitFunc(s)
<1>1. cnmDbdcFsmSteps(s, next) = EntryFunc(x, next)
  BY DEF cnmDbdcFsmSteps, MayEnter
<1>2. x \in Gs /\ Gate(s, x) /\ x.cmds = s.cmds /\ x.mode = s.mode
  BY ExitGate
<1>3. x.lock <=> s.lock /\ s.state # "WAIT_HW_ENABLE"
  BY ExitGate
<1> HIDE DEF x
<1>4. Turn(x, EntryFunc(x, next)) /\ EntryFunc(x, next).state = next
  BY <1>2, <1>3, EntryTurn DEF MayEnter
<1>5. Gate(s, EntryFunc(x, next))
  BY <1>2, <1>4, GateComposes DEF Turn, Good
<1> QED
  BY <1>1, <1>2, <1>4, <1>5 DEF Turn

-----------------------------------------------------------------------------
(***************************************************************************)
(* Events                                                                  *)
(***************************************************************************)

LEMMA Stays ==
  ASSUME NEW s, Good(s)
  PROVE  Turn(s, s)
  BY DEF Turn, Gate, Good

LEMMA FlagQuiet ==
  ASSUME NEW s \in Gs, NEW v \in BOOLEAN
  PROVE  /\ Quiet(s, [s EXCEPT !.guard = v])
         /\ Quiet(s, [s EXCEPT !.enterAG = v])
         /\ Quiet(s, [s EXCEPT !.leaveAG = v])
         /\ Quiet(s, [s EXCEPT !.opDone = v])
  BY DEF Quiet, Gs

LEMMA EnableTurn ==
  ASSUME NEW s, Good(s),
         s.state \in {"DISABLE_IDLE", "DISABLE_GUARD", "WAIT_PROTOCOL_DISABLE"}
  PROVE  Turn(s, Enable(s))
<1> DEFINE a == cnmDbdcOpmodeChangeAndWait(s, TRUE)
           next == IF AwaitsFrames(a) THEN "WAIT_PROTOCOL_ENABLE"
                                      ELSE "WAIT_HW_ENABLE"
<1>1. Quiet(s, a)
  BY ChangeAndWaitQuiet DEF Good
<1>2. Enable(s) = cnmDbdcFsmSteps(a, next)
  BY DEF Enable
<1>3. next \in {"WAIT_PROTOCOL_ENABLE", "WAIT_HW_ENABLE"}
  OBVIOUS
<1> HIDE DEF a, next
<1>4. MayEnter(a, next)
  BY <1>1, <1>3
  DEF MayEnter, Quiet, Good, ModeFits, CmdsFit, ModeStates
<1>5. Turn(a, Enable(s))
  BY <1>1, <1>2, <1>3, <1>4, StepsTurn DEF Quiet, States
<1>6. Turn(s, a)
  BY <1>1, QuietKeepsGood
<1> QED
  BY <1>5, <1>6, TurnComposes

LEMMA EnableOrIdleTurn ==
  ASSUME NEW s, Good(s), s.state \in {"DISABLE_GUARD", "WAIT_PROTOCOL_DISABLE"}
  PROVE  Turn(s, EnableOrIdle(s))
<1>1. MayEnter(s, "DISABLE_IDLE")
  BY DEF MayEnter, Good, ModeFits, CmdsFit, ModeStates
<1>2. Turn(s, cnmDbdcFsmSteps(s, "DISABLE_IDLE"))
  BY <1>1, StepsTurn DEF Good, States
<1> QED
  BY <1>2, EnableTurn DEF EnableOrIdle

LEMMA LeaveTurn ==
  ASSUME NEW s, Good(s), s.state \in {"ENABLE_GUARD", "ENABLE_IDLE"}
  PROVE  /\ Turn(s, cnmDbdcFsmSteps(s, "WAIT_HW_DISABLE"))
         /\ Turn(s, LeaveUnlessConcurrent(s))
<1>1. MayEnter(s, "WAIT_HW_DISABLE")
  BY DEF MayEnter, Good, ModeFits, CmdsFit, ModeStates
<1>2. Turn(s, cnmDbdcFsmSteps(s, "WAIT_HW_DISABLE"))
  BY <1>1, StepsTurn DEF Good, States
<1> QED
  BY <1>2, Stays DEF LeaveUnlessConcurrent

LEMMA EnabledLeaveTurn ==
  ASSUME NEW s, Good(s), s.state \in {"ENABLE_GUARD", "ENABLE_IDLE"}
  PROVE  Turn(s, LeaveUnlessConcurrent([s EXCEPT !.guard = FALSE]))
<1> DEFINE a == [s EXCEPT !.guard = FALSE]
<1>1. Quiet(s, a)
  BY FlagQuiet DEF Good
<1> HIDE DEF a
<1>2. Turn(s, a) /\ Good(a) /\ a.state = s.state
  BY <1>1, QuietKeepsGood DEF Turn, Quiet
<1>3. Turn(a, LeaveUnlessConcurrent(a))
  BY <1>2, LeaveTurn
<1>4. Turn(s, LeaveUnlessConcurrent(a))
  BY <1>2, <1>3, TurnComposes
<1> QED
  BY <1>4 DEF a

LEMMA EnableGuardTurn ==
  ASSUME NEW s, Good(s), s.state = "ENABLE_GUARD", NEW event \in Events
  PROVE  Turn(s, On_ENABLE_GUARD(s, event))
<1>1. MayEnter(s, "ENABLE_IDLE")
  BY DEF MayEnter, Good, ModeFits, CmdsFit, LockFits, ModeStates, LockStates
<1>2. Turn(s, cnmDbdcFsmSteps(s, "ENABLE_IDLE"))
  BY <1>1, StepsTurn DEF Good, States
<1>3. Turn(s, cnmDbdcFsmSteps(s, "WAIT_HW_DISABLE"))
  BY LeaveTurn
<1>4. Turn(s, LeaveUnlessConcurrent([s EXCEPT !.guard = FALSE]))
  BY EnabledLeaveTurn
<1>5. Turn(s, s)
  BY Stays
<1>6. CASE event = "LEAVE_AG"
  BY <1>4, <1>6 DEF On_ENABLE_GUARD
<1>7. CASE event = "GUARD_TIMEOUT"
  BY <1>2, <1>3, <1>7 DEF On_ENABLE_GUARD
<1>8. CASE event \notin {"LEAVE_AG", "GUARD_TIMEOUT"}
  BY <1>5, <1>8 DEF On_ENABLE_GUARD
<1> QED
  BY <1>6, <1>7, <1>8

LEMMA DisableGuardTurn ==
  ASSUME NEW s, Good(s), s.state = "DISABLE_GUARD", NEW event \in Events
  PROVE  Turn(s, On_DISABLE_GUARD(s, event))
<1>1. MayEnter(s, "WAIT_PROTOCOL_DISABLE")
  BY DEF MayEnter, Good, ModeFits, CmdsFit, LockFits, ModeStates, LockStates
<1>2. Turn(s, cnmDbdcFsmSteps(s, "WAIT_PROTOCOL_DISABLE"))
  BY <1>1, StepsTurn DEF Good, States
<1>3. Turn(s, Enable(s)) /\ Turn(s, EnableOrIdle(s)) /\ Turn(s, s)
  BY EnableTurn, EnableOrIdleTurn, Stays
<1>4. CASE event = "ENTER_AG"
  BY <1>3, <1>4 DEF On_DISABLE_GUARD
<1>5. CASE event = "GUARD_TIMEOUT"
  BY <1>2, <1>3, <1>5 DEF On_DISABLE_GUARD
<1>6. CASE event \notin {"ENTER_AG", "GUARD_TIMEOUT"}
  BY <1>3, <1>6 DEF On_DISABLE_GUARD
<1> QED
  BY <1>4, <1>5, <1>6

(* Any event but the firmware's answer keeps a well-formed state so.       *)
LEMMA EventTurn ==
  ASSUME NEW s, Good(s), NEW event \in Events \ {"HW_DONE"}
  PROVE  Turn(s, DbdcEvent(s, event))
<1>0. Turn(s, s)
  BY Stays
<1>1. CASE s.state = "DISABLE_IDLE"
  <2>1. Turn(s, Enable(s))
    BY <1>1, EnableTurn
  <2> QED
    BY <1>0, <1>1, <2>1 DEF DbdcEvent, On_DISABLE_IDLE
<1>2. CASE s.state = "WAIT_PROTOCOL_ENABLE"
  <2>1. MayEnter(s, "WAIT_HW_ENABLE")
    BY <1>2 DEF MayEnter, Good, ModeFits, CmdsFit, ModeStates
  <2>2. Turn(s, cnmDbdcFsmSteps(s, "WAIT_HW_ENABLE"))
    BY <2>1, StepsTurn DEF Good, States
  <2> QED
    BY <1>0, <1>2, <2>2 DEF DbdcEvent, On_WAIT_PROTOCOL_ENABLE
<1>3. CASE s.state = "WAIT_HW_ENABLE"
  <2>1. \A v \in BOOLEAN : Turn(s, [s EXCEPT !.leaveAG = v])
    BY FlagQuiet, QuietKeepsGood DEF Good
  <2>2. DbdcEvent(s, event) \in
          {s, [s EXCEPT !.leaveAG = TRUE], [s EXCEPT !.leaveAG = FALSE]}
    BY <1>3 DEF DbdcEvent, On_WAIT_HW_ENABLE, Events
  <2> QED
    BY <1>0, <2>1, <2>2
<1>4. CASE s.state = "ENABLE_GUARD"
  <2>1. DbdcEvent(s, event) = On_ENABLE_GUARD(s, event)
    BY <1>4 DEF DbdcEvent
  <2> QED
    BY <1>4, <2>1, EnableGuardTurn
<1>5. CASE s.state = "ENABLE_IDLE"
  <2>1. DbdcEvent(s, event) = On_ENABLE_IDLE(s, event)
    BY <1>5 DEF DbdcEvent
  <2>2. Turn(s, LeaveUnlessConcurrent([s EXCEPT !.guard = FALSE]))
    BY <1>5, EnabledLeaveTurn
  <2> QED
    BY <1>0, <2>1, <2>2 DEF On_ENABLE_IDLE
<1>6. CASE s.state = "WAIT_HW_DISABLE"
  <2>1. \A v \in BOOLEAN : Turn(s, [s EXCEPT !.enterAG = v])
    BY FlagQuiet, QuietKeepsGood DEF Good
  <2>2. DbdcEvent(s, event) \in
          {s, [s EXCEPT !.enterAG = TRUE], [s EXCEPT !.enterAG = FALSE]}
    BY <1>6 DEF DbdcEvent, On_WAIT_HW_DISABLE, Events
  <2> QED
    BY <1>0, <2>1, <2>2
<1>7. CASE s.state = "DISABLE_GUARD"
  <2>1. DbdcEvent(s, event) = On_DISABLE_GUARD(s, event)
    BY <1>7 DEF DbdcEvent
  <2> QED
    BY <1>7, <2>1, DisableGuardTurn
<1>8. CASE s.state = "WAIT_PROTOCOL_DISABLE"
  <2>1. Turn(s, EnableOrIdle(s))
    BY <1>8, EnableOrIdleTurn
  <2> QED
    BY <1>0, <1>8, <2>1 DEF DbdcEvent, On_WAIT_PROTOCOL_DISABLE
<1>9. s.state \in States
  BY DEF Good, Gs
<1> QED
  BY <1>1, <1>2, <1>3, <1>4, <1>5, <1>6, <1>7, <1>8, <1>9 DEF States

(* The firmware's answer, its command taken from the list and the mode     *)
(* noted, ends the wait, and a decision postponed meanwhile is carried out.*)
Answered(s) ==
  /\ s \in Gs
  /\ s.state \in {"WAIT_HW_ENABLE", "WAIT_HW_DISABLE"}
  /\ s.mode <=> s.state = "WAIT_HW_ENABLE"
  /\ s.lock /\ s.cmds = << >>

LEMMA AnsweredTurn ==
  ASSUME NEW s, Answered(s)
  PROVE  Turn(s, DbdcEvent(s, "HW_DONE"))
<1>1. CASE s.state = "WAIT_HW_ENABLE"
  <2> DEFINE n == cnmDbdcFsmSteps(s, "ENABLE_GUARD")
             t == On_ENABLE_GUARD(n, "LEAVE_AG")
  <2>1. MayEnter(s, "ENABLE_GUARD")
    BY <1>1 DEF MayEnter, Answered, ModeStates
  <2>2. Turn(s, n) /\ n.state = "ENABLE_GUARD"
    BY <2>1, StepsTurn DEF Answered, States
  <2>3. DbdcEvent(s, "HW_DONE")
          = IF s.leaveAG THEN [t EXCEPT !.leaveAG = FALSE] ELSE n
    BY <1>1 DEF DbdcEvent, On_WAIT_HW_ENABLE
  <2> HIDE DEF n
  <2>4. Good(n) /\ "LEAVE_AG" \in Events
    BY <2>2 DEF Turn, Events
  <2>5. Turn(n, t)
    BY <2>2, <2>4, EnableGuardTurn
  <2> HIDE DEF t
  <2>6. Good(t) /\ Quiet(t, [t EXCEPT !.leaveAG = FALSE])
    BY <2>5, FlagQuiet DEF Turn, Good
  <2>7. Turn(t, [t EXCEPT !.leaveAG = FALSE])
    BY <2>6, QuietKeepsGood
  <2>8. Turn(n, [t EXCEPT !.leaveAG = FALSE])
    BY <2>4, <2>5, <2>7, TurnComposes
  <2>9. Turn(s, [t EXCEPT !.leaveAG = FALSE])
    <3>1. Gate(s, [t EXCEPT !.leaveAG = FALSE])
      BY <2>2, <2>8, GateComposes DEF Turn, Good, Answered
    <3> QED
      BY <2>2, <2>8, <3>1 DEF Turn
  <2> QED
    BY <2>2, <2>3, <2>9
<1>2. CASE s.state = "WAIT_HW_DISABLE"
  <2> DEFINE n == cnmDbdcFsmSteps(s, "DISABLE_GUARD")
             t == On_DISABLE_GUARD(n, "ENTER_AG")
  <2>1. MayEnter(s, "DISABLE_GUARD")
    BY <1>2 DEF MayEnter, Answered, ModeStates
  <2>2. Turn(s, n) /\ n.state = "DISABLE_GUARD"
    BY <2>1, StepsTurn DEF Answered, States
  <2>3. DbdcEvent(s, "HW_DONE")
          = IF s.enterAG THEN [t EXCEPT !.enterAG = FALSE] ELSE n
    BY <1>2 DEF DbdcEvent, On_WAIT_HW_DISABLE
  <2> HIDE DEF n
  <2>4. Good(n) /\ "ENTER_AG" \in Events
    BY <2>2 DEF Turn, Events
  <2>5. Turn(n, t)
    BY <2>2, <2>4, DisableGuardTurn
  <2> HIDE DEF t
  <2>6. Good(t) /\ Quiet(t, [t EXCEPT !.enterAG = FALSE])
    BY <2>5, FlagQuiet DEF Turn, Good
  <2>7. Turn(t, [t EXCEPT !.enterAG = FALSE])
    BY <2>6, QuietKeepsGood
  <2>8. Turn(n, [t EXCEPT !.enterAG = FALSE])
    BY <2>4, <2>5, <2>7, TurnComposes
  <2>9. Turn(s, [t EXCEPT !.enterAG = FALSE])
    <3>1. Gate(s, [t EXCEPT !.enterAG = FALSE])
      BY <2>2, <2>8, GateComposes DEF Turn, Good, Answered
    <3> QED
      BY <2>2, <2>8, <3>1 DEF Turn
  <2> QED
    BY <2>2, <2>3, <2>9
<1> QED
  BY <1>1, <1>2 DEF Answered

-----------------------------------------------------------------------------
(***************************************************************************)
(* Decisions, completed notifications and answers                          *)
(***************************************************************************)

LEMMA DecideTurn ==
  ASSUME NEW s, Good(s), NEW concurrent \in BOOLEAN
  PROVE  Turn(s, Decide(s, concurrent))
<1>1. (IF concurrent THEN "ENTER_AG" ELSE "LEAVE_AG") \in Events \ {"HW_DONE"}
  BY DEF Events
<1> QED
  BY <1>1, EventTurn DEF Decide

LEMMA PreConnectionTurn ==
  ASSUME NEW s, Good(s), NEW band
  PROVE  Turn(s, cnmDbdcPreConnectionEnableDecision(s, band))
<1> DEFINE a == [s EXCEPT !.guard = FALSE]
           concurrent == cnmDbdcIsConcurrent(s, band)
<1>1. concurrent \in BOOLEAN
  BY DEF cnmDbdcIsConcurrent
<1>2. Turn(s, a) /\ Good(a)
  BY FlagQuiet, QuietKeepsGood DEF Good, Turn
<1>3. cnmDbdcPreConnectionEnableDecision(s, band)
        \in {s, Decide(a, concurrent)}
  BY DEF cnmDbdcPreConnectionEnableDecision
<1> HIDE DEF a, concurrent
<1>4. Turn(a, Decide(a, concurrent))
  BY <1>1, <1>2, DecideTurn
<1>5. Turn(s, Decide(a, concurrent))
  BY <1>2, <1>4, TurnComposes
<1> QED
  BY <1>3, <1>5, Stays

LEMMA RuntimeCheckTurn ==
  ASSUME NEW s, Good(s)
  PROVE  Turn(s, cnmDbdcRuntimeCheckDecision(s))
<1> DEFINE concurrent == cnmDbdcIsConcurrent(s, NoBand)
<1>1. concurrent \in BOOLEAN
  BY DEF cnmDbdcIsConcurrent
<1>2. cnmDbdcRuntimeCheckDecision(s) \in {s, Decide(s, concurrent)}
  BY DEF cnmDbdcRuntimeCheckDecision
<1> HIDE DEF concurrent
<1> QED
  BY <1>1, <1>2, DecideTurn, Stays

LEMMA CallbackTurn ==
  ASSUME NEW s, Good(s), NEW b \in Bss, NEW success \in BOOLEAN
  PROVE  Turn(s, cnmDbdcOpModeChangeDoneCallback(s, b, success))
<1> DEFINE result == IF success THEN "DONE" ELSE "FAIL"
           a == [s EXCEPT !.opState[b] = result]
           e == DbdcEvent(a, "FRAMES_DONE")
           t == [e EXCEPT !.opDone = TRUE]
<1>1. result \in {"DONE", "FAIL", "WAIT"}
  OBVIOUS
<1>2. cnmDbdcOpModeChangeDoneCallback(s, b, success) \in {a, t}
  BY DEF cnmDbdcOpModeChangeDoneCallback
<1> HIDE DEF result
<1>3. Quiet(s, a)
  BY <1>1 DEF Good, Quiet, Gs
<1> HIDE DEF a
<1>4. Turn(s, a) /\ Good(a)
  BY <1>3, QuietKeepsGood DEF Turn
<1>5. Turn(a, e) /\ Good(e)
  BY <1>4, EventTurn DEF Turn, Events
<1> HIDE DEF e
<1>6. Turn(e, t)
  BY <1>5, FlagQuiet, QuietKeepsGood DEF Good
<1>7. Turn(a, t)
  BY <1>4, <1>5, <1>6, TurnComposes
<1>8. Turn(s, t)
  BY <1>4, <1>7, TurnComposes
<1> QED
  BY <1>2, <1>4, <1>8

LEMMA DispatcherTurn ==
  ASSUME NEW s, Good(s), NEW b \in Bss, NEW success \in BOOLEAN
  PROVE  Turn(s, cnmOpModeCallbackDispatcher(s, b, success))
<1> DEFINE told == IF s.run[b] = "DBDC"
                   THEN cnmDbdcOpModeChangeDoneCallback(s, b, success) ELSE s
           free == [told EXCEPT !.run[b] = "none"]
           first == IF free.new[b]["DBDC"] THEN "DBDC" ELSE "COEX"
           enable == free.en[b][first]
           again == cnmOpModeSetTRxNss(free, {b}, first, enable)
<1>1. Turn(s, told) /\ Good(told)
  BY CallbackTurn, Stays DEF Turn
<1>2. cnmOpModeCallbackDispatcher(s, b, success) \in {free, again}
  BY DEF cnmOpModeCallbackDispatcher, Redo
<1> HIDE DEF told
<1>3. Quiet(told, free)
  BY <1>1 DEF Good, Quiet, Gs
<1> HIDE DEF free
<1>4. first \in Reqs
  BY DEF Reqs
<1> HIDE DEF first
<1>5. enable \in BOOLEAN
  BY <1>3, <1>4 DEF Quiet, Gs
<1> HIDE DEF enable
<1>6. Quiet(free, again)
  BY <1>3, <1>4, <1>5, SetTRxNssQuiet DEF Quiet
<1>7. Quiet(told, again)
  BY <1>3, <1>6, QuietComposes
<1> HIDE DEF again
<1>8. Turn(told, free) /\ Turn(told, again)
  BY <1>1, <1>3, <1>7, QuietKeepsGood
<1>9. Turn(s, free) /\ Turn(s, again)
  BY <1>1, <1>8, TurnComposes
<1> QED
  BY <1>2, <1>9

LEMMA TxDoneTurn ==
  ASSUME NEW s, Good(s), NEW b \in Bss, NEW success \in BOOLEAN
  PROVE  Turn(s, rlmOpModeTxDoneHandler(s, b, success))
<1> DEFINE nss == IF success THEN s.runNss[b] ELSE s.nss[b]
           a == [s EXCEPT !.nss[b] = nss]
<1>1. nss \in {1, MaxNss}
  BY DEF Good, Gs
<1>2. rlmOpModeTxDoneHandler(s, b, success)
        = cnmOpModeCallbackDispatcher(a, b, success)
  BY DEF rlmOpModeTxDoneHandler
<1> HIDE DEF nss
<1>3. Quiet(s, a)
  BY <1>1 DEF Good, Quiet, Gs
<1> HIDE DEF a
<1>4. Turn(s, a) /\ Good(a)
  BY <1>3, QuietKeepsGood DEF Turn
<1>5. Turn(a, cnmOpModeCallbackDispatcher(a, b, success))
  BY <1>4, DispatcherTurn
<1> QED
  BY <1>2, <1>4, <1>5, TurnComposes

LEMMA GetTRxNssTyped ==
  ASSUME NEW s \in Gs, NEW b \in Bss
  PROVE  cnmOpModeGetTRxNss(s, b) \in {1, MaxNss}
  BY DEF cnmOpModeGetTRxNss, Gs

(* All but the answer turns a well-formed state; the answer does too, and  *)
(* the mode becomes that of the command answered.                          *)
LEMMA HwSwitchDoneTurn ==
  ASSUME NEW s, Good(s), s.cmds # << >>
  PROVE  LET t == cnmDbdcEventHwSwitchDone([s EXCEPT !.cmds = Tail(@)])
         IN Good(t) /\ Gate(s, t) /\ t.mode = Head(s.cmds)
<1> DEFINE rest == Tail(s.cmds)
           a == [s EXCEPT !.cmds = rest]
           m == s.state = "WAIT_HW_ENABLE"
           n == [a EXCEPT !.hasSent = FALSE, !.mode = m]
           t == cnmDbdcEventHwSwitchDone(a)
<1>1. /\ s.state \in {"WAIT_HW_ENABLE", "WAIT_HW_DISABLE"}
      /\ s.cmds = <<m>>
  BY DEF Good, CmdsFit
<1>2. rest = << >> /\ rest \in Seq(BOOLEAN) /\ Head(s.cmds) = m
  BY <1>1
<1>3. m \in BOOLEAN
  OBVIOUS
<1> HIDE DEF rest
<1>4. /\ a \in Gs
      /\ a.state = s.state /\ a.lock = s.lock /\ a.cmds = << >>
      /\ a.pend = s.pend /\ a.fw = s.fw
  BY <1>2 DEF Good, Gs
<1>5. t = DbdcEvent(n, "HW_DONE")
  BY <1>1, <1>4 DEF cnmDbdcEventHwSwitchDone
<1> HIDE DEF a
<1>6. /\ n \in Gs
      /\ n.state = s.state /\ n.lock = s.lock /\ n.cmds = << >>
      /\ n.pend = s.pend /\ n.fw = s.fw /\ n.mode = m
  BY <1>3, <1>4 DEF Gs
<1> HIDE DEF n, t
<1>7. Answered(n)
  BY <1>1, <1>6 DEF Answered, Good, LockFits, LockStates
<1>8. Turn(n, t)
  BY <1>5, <1>7, AnsweredTurn
<1>9. Good(t) /\ Gate(s, t) /\ t.mode = m
  BY <1>6, <1>8 DEF Turn, Gate
<1> QED
  BY <1>2, <1>9 DEF a, t, rest

-----------------------------------------------------------------------------
(***************************************************************************)
(* The inductive invariant                                                 *)
(***************************************************************************)

(* Every action but a channel request, its withdrawal and the answer.      *)
Handler ==
  \/ \E b \in Bss, band \in Bands : Join(b, band)
  \/ \E b \in Bss : \/ ComeUp(b)
                    \/ Disconnect(b)
                    \/ GrantedUpdate(b)
                    \/ p2pFuncDfsSwitchCh(b)
  \/ \E b \in Bss, yes \in BOOLEAN : \/ cnmOpmodeEventHandler(b, yes)
                                     \/ FrameDone(b, yes)
  \/ cnmDbdcGuardTimerCallback

LEMMA NextCases ==
  Next <=> \/ Handler
           \/ \E b \in Bss : RequestChannel(b) \/ ReleaseChannel(b)
           \/ HwDone
  BY DEF Next, Handler

LEMMA HandlerTurn ==
  ASSUME Good(g), Handler
  PROVE  Turn(g, g') /\ UNCHANGED <<asked, hw>>
<1>0. g \in Gs
  BY DEF Good
<1>1. ASSUME NEW b \in Bss, NEW band \in Bands, Join(b, band)
      PROVE  Turn(g, g') /\ UNCHANGED <<asked, hw>>
  <2> DEFINE s == [g EXCEPT !.link[b] = "joining", !.band[b] = band]
             d == IF b \in Deciders
                  THEN cnmDbdcPreConnectionEnableDecision(s, band) ELSE s
             nss == cnmOpModeGetTRxNss(d, b)
  <2>1. g' = [d EXCEPT !.nss[b] = nss] /\ UNCHANGED <<asked, hw>>
    BY <1>1 DEF Join
  <2>2. Quiet(g, s)
    BY <1>0 DEF Quiet, Gs, Links
  <2> HIDE DEF s
  <2>3. Turn(g, s) /\ Good(s)
    BY <2>2, QuietKeepsGood DEF Turn
  <2>4. Turn(s, d) /\ Good(d)
    BY <2>3, PreConnectionTurn, Stays DEF Turn
  <2> HIDE DEF d
  <2>5. nss \in {1, MaxNss}
    BY <2>4, GetTRxNssTyped DEF Good
  <2> HIDE DEF nss
  <2>6. Quiet(d, g')
    BY <2>1, <2>4, <2>5 DEF Quiet, Gs, Good
  <2>7. Turn(d, g')
    BY <2>4, <2>6, QuietKeepsGood
  <2>8. Turn(s, g')
    BY <2>3, <2>4, <2>7, TurnComposes
  <2> QED
    BY <2>1, <2>3, <2>8, TurnComposes
<1>2. ASSUME NEW b \in Bss, ComeUp(b)
      PROVE  Turn(g, g') /\ UNCHANGED <<asked, hw>>
  <2> DEFINE nss == IF b \in Stas \cap Deciders THEN g.nss[b]
                    ELSE cnmOpModeGetTRxNss(g, b)
  <2>1. /\ g' = [g EXCEPT !.link[b] = "up", !.nss[b] = nss]
        /\ UNCHANGED <<asked, hw>>
    BY <1>2 DEF ComeUp
  <2>2. nss \in {1, MaxNss}
    BY <1>0, GetTRxNssTyped DEF Gs
  <2> HIDE DEF nss
  <2>3. Quiet(g, g')
    BY <1>0, <2>1, <2>2 DEF Quiet, Gs, Links
  <2> QED
    BY <2>1, <2>3, QuietKeepsGood
<1>3. ASSUME NEW b \in Bss, Disconnect(b)
      PROVE  Turn(g, g') /\ UNCHANGED <<asked, hw>>
  <2> DEFINE s == [g EXCEPT !.link[b] = "off"]
  <2>1. g' = cnmDbdcRuntimeCheckDecision(s) /\ UNCHANGED <<asked, hw>>
    BY <1>3 DEF Disconnect
  <2>2. Quiet(g, s)
    BY <1>0 DEF Quiet, Gs, Links
  <2> HIDE DEF s
  <2>3. Turn(g, s) /\ Good(s)
    BY <2>2, QuietKeepsGood DEF Turn
  <2>4. Turn(s, g')
    BY <2>1, <2>3, RuntimeCheckTurn
  <2> QED
    BY <2>1, <2>3, <2>4, TurnComposes
<1>4. ASSUME NEW b \in Bss, GrantedUpdate(b)
      PROVE  Turn(g, g') /\ UNCHANGED <<asked, hw>>
  BY <1>4, RuntimeCheckTurn DEF GrantedUpdate
<1>5. ASSUME NEW b \in Bss, p2pFuncDfsSwitchCh(b)
      PROVE  Turn(g, g') /\ UNCHANGED <<asked, hw>>
  <2>1. PICK band \in Bands \ {g.band[b]} :
          g' = cnmDbdcRuntimeCheckDecision([g EXCEPT !.band[b] = band])
    BY <1>5 DEF p2pFuncDfsSwitchCh
  <2> DEFINE s == [g EXCEPT !.band[b] = band]
  <2>2. g' = cnmDbdcRuntimeCheckDecision(s) /\ UNCHANGED <<asked, hw>>
    BY <1>5, <2>1 DEF p2pFuncDfsSwitchCh
  <2>3. Quiet(g, s)
    BY <1>0 DEF Quiet, Gs
  <2> HIDE DEF s
  <2>4. Turn(g, s) /\ Good(s)
    BY <2>3, QuietKeepsGood DEF Turn
  <2>5. Turn(s, g')
    BY <2>2, <2>4, RuntimeCheckTurn
  <2> QED
    BY <2>2, <2>4, <2>5, TurnComposes
<1>6. ASSUME NEW b \in Bss, NEW yes \in BOOLEAN, cnmOpmodeEventHandler(b, yes)
      PROVE  Turn(g, g') /\ UNCHANGED <<asked, hw>>
  <2>1. /\ g' = cnmOpModeSetTRxNss(g, {b}, "COEX", yes)
        /\ UNCHANGED <<asked, hw>>
    BY <1>6 DEF cnmOpmodeEventHandler
  <2>2. Quiet(g, g')
    BY <1>0, <2>1, SetTRxNssQuiet DEF Reqs
  <2> QED
    BY <2>1, <2>2, QuietKeepsGood
<1>7. ASSUME NEW b \in Bss, NEW yes \in BOOLEAN, FrameDone(b, yes)
      PROVE  Turn(g, g') /\ UNCHANGED <<asked, hw>>
  BY <1>7, TxDoneTurn DEF FrameDone
<1>8. ASSUME cnmDbdcGuardTimerCallback
      PROVE  Turn(g, g') /\ UNCHANGED <<asked, hw>>
  <2> DEFINE s == [g EXCEPT !.guard = FALSE]
  <2>1. g' = DbdcEvent(s, "GUARD_TIMEOUT") /\ UNCHANGED <<asked, hw>>
    BY <1>8 DEF cnmDbdcGuardTimerCallback
  <2>2. Quiet(g, s)
    BY <1>0, FlagQuiet
  <2> HIDE DEF s
  <2>3. Turn(g, s) /\ Good(s)
    BY <2>2, QuietKeepsGood DEF Turn
  <2>4. Turn(s, g')
    BY <2>1, <2>3, EventTurn DEF Events
  <2> QED
    BY <2>1, <2>3, <2>4, TurnComposes
<1> QED
  BY <1>1, <1>2, <1>3, <1>4, <1>5, <1>6, <1>7, <1>8 DEF Handler

-----------------------------------------------------------------------------
(***************************************************************************)
(* The line of channel requests: those the firmware knows, then the queue  *)
(***************************************************************************)

Line == g.fw \o g.pend

Cut(q, i) == SubSeq(q, 1, i - 1) \o SubSeq(q, i + 1, Len(q))

(* The line holds the clients that have asked, each once.                  *)
Once(q, who) ==
  /\ \A b \in Bss : who[b] <=> InSeq(q, b)
  /\ \A i, j \in 1 .. Len(q) : q[i] = q[j] => i = j

LEMMA CutProperties ==
  ASSUME NEW S, NEW q \in Seq(S), NEW i \in 1 .. Len(q)
  PROVE  /\ Cut(q, i) \in Seq(S)
         /\ Len(Cut(q, i)) = Len(q) - 1
         /\ \A k \in 1 .. Len(q) - 1 :
              Cut(q, i)[k] = IF k < i THEN q[k] ELSE q[k + 1]
<1> DEFINE l == SubSeq(q, 1, i - 1)
           r == SubSeq(q, i + 1, Len(q))
<1>1. \A k \in 1 .. Len(q) : q[k] \in S
  OBVIOUS
<1>2. /\ l \in Seq(S) /\ Len(l) = i - 1
      /\ \A k \in 1 .. i - 1 : l[k] = q[k]
  BY <1>1, SubSeqProperties
<1>3. /\ r \in Seq(S) /\ Len(r) = Len(q) - i
      /\ \A k \in 1 .. Len(q) - i : r[k] = q[i + k]
  BY <1>1, SubSeqProperties
<1> HIDE DEF l, r
<1>4. /\ l \o r \in Seq(S)
      /\ Len(l \o r) = Len(l) + Len(r)
      /\ \A k \in 1 .. Len(l) + Len(r) :
           (l \o r)[k] = IF k <= Len(l) THEN l[k] ELSE r[k - Len(l)]
  BY <1>2, <1>3, ConcatProperties
<1>5. Cut(q, i) = l \o r
  BY DEF Cut, l, r
<1>6. Len(q) \in Nat /\ i \in Nat /\ Len(l) + Len(r) = Len(q) - 1
  BY <1>2, <1>3
<1>7. ASSUME NEW k \in 1 .. Len(q) - 1
      PROVE  (l \o r)[k] = IF k < i THEN q[k] ELSE q[k + 1]
  <2>1. CASE k < i
    BY <1>2, <1>4, <1>6, <2>1
  <2>2. CASE ~(k < i)
    <3>1. (l \o r)[k] = r[k - (i - 1)]
      BY <1>2, <1>4, <1>6, <2>2
    <3>2. k - (i - 1) \in 1 .. Len(q) - i /\ i + (k - (i - 1)) = k + 1
      BY <1>6, <2>2
    <3> QED
      BY <1>3, <2>2, <3>1, <3>2
  <2> QED
    BY <2>1, <2>2
<1> QED
  BY <1>4, <1>5, <1>6, <1>7

LEMMA CutOfConcat ==
  ASSUME NEW S, NEW f \in Seq(S), NEW p \in Seq(S)
  PROVE  /\ \A i \in 1 .. Len(f) : Cut(f, i) \o p = Cut(f \o p, i)
         /\ \A i \in 1 .. Len(p) : f \o Cut(p, i) = Cut(f \o p, Len(f) + i)
<1> DEFINE q == f \o p
<1>1. /\ q \in Seq(S) /\ Len(q) = Len(f) + Len(p)
      /\ \A k \in 1 .. Len(f) + Len(p) :
           q[k] = IF k <= Len(f) THEN f[k] ELSE p[k - Len(f)]
  BY ConcatProperties
<1>0. Len(f) \in Nat /\ Len(p) \in Nat
  OBVIOUS
<1> HIDE DEF q
<1>2. ASSUME NEW i \in 1 .. Len(f)
      PROVE  Cut(f, i) \o p = Cut(q, i)
  <2> DEFINE c == Cut(f, i)
             d == Cut(q, i)
             e == c \o p
  <2>1. /\ c \in Seq(S) /\ Len(c) = Len(f) - 1
        /\ \A k \in 1 .. Len(f) - 1 : c[k] = IF k < i THEN f[k] ELSE f[k + 1]
    BY CutProperties
  <2>2. /\ d \in Seq(S) /\ Len(d) = Len(q) - 1
        /\ \A k \in 1 .. Len(q) - 1 : d[k] = IF k < i THEN q[k] ELSE q[k + 1]
    <3>1. i \in 1 .. Len(q)
      BY <1>1
    <3> QED
      BY <1>1, <3>1, CutProperties
  <2> HIDE DEF c, d
  <2>3. /\ e \in Seq(S) /\ Len(e) = Len(c) + Len(p)
        /\ \A k \in 1 .. Len(c) + Len(p) :
             e[k] = IF k <= Len(c) THEN c[k] ELSE p[k - Len(c)]
    BY <2>1, ConcatProperties
  <2> HIDE DEF e
  <2>4. ASSUME NEW k \in 1 .. Len(e)
        PROVE  e[k] = d[k]
    <3>1. k \in Nat /\ k >= 1 /\ k <= Len(f) + Len(p) - 1
      BY <1>0, <2>1, <2>3
    <3>2. CASE k < i
      BY <1>0, <1>1, <2>1, <2>2, <2>3, <3>1, <3>2
    <3>3. CASE k >= i /\ k < Len(f)
      BY <1>0, <1>1, <2>1, <2>2, <2>3, <3>1, <3>3
    <3>4. CASE k >= Len(f) /\ k >= i
      <4>1. e[k] = p[k - (Len(f) - 1)]
        BY <1>0, <2>1, <2>3, <3>1, <3>4
      <4>2. d[k] = q[k + 1]
        BY <1>0, <1>1, <2>2, <3>1, <3>4
      <4>3. q[k + 1] = p[k + 1 - Len(f)]
        BY <1>0, <1>1, <3>1, <3>4
      <4>4. k - (Len(f) - 1) = k + 1 - Len(f)
        BY <1>0, <3>1
      <4> QED
        BY <4>1, <4>2, <4>3, <4>4
    <3> QED
      BY <1>0, <3>1, <3>2, <3>3, <3>4
  <2>5. Len(e) = Len(d)
    BY <1>0, <1>1, <2>1, <2>2, <2>3
  <2>6. e = d
    BY <2>2, <2>3, <2>4, <2>5, SeqEqual
  <2> QED
    BY <2>6 DEF c, d, e
<1>3. ASSUME NEW i \in 1 .. Len(p)
      PROVE  f \o Cut(p, i) = Cut(q, Len(f) + i)
  <2> DEFINE c == Cut(p, i)
             d == Cut(q, Len(f) + i)
             e == f \o c
  <2>1. /\ c \in Seq(S) /\ Len(c) = Len(p) - 1
        /\ \A k \in 1 .. Len(p) - 1 : c[k] = IF k < i THEN p[k] ELSE p[k + 1]
    BY CutProperties
  <2>2. /\ d \in Seq(S) /\ Len(d) = Len(q) - 1
        /\ \A k \in 1 .. Len(q) - 1 :
             d[k] = IF k < Len(f) + i THEN q[k] ELSE q[k + 1]
    <3>1. Len(f) + i \in 1 .. Len(q)
      BY <1>1
    <3> QED
      BY <1>1, <3>1, CutProperties
  <2> HIDE DEF c, d
  <2>3. /\ e \in Seq(S) /\ Len(e) = Len(f) + Len(c)
        /\ \A k \in 1 .. Len(f) + Len(c) :
             e[k] = IF k <= Len(f) THEN f[k] ELSE c[k - Len(f)]
    BY <2>1, ConcatProperties
  <2> HIDE DEF e
  <2>4. ASSUME NEW k \in 1 .. Len(e)
        PROVE  e[k] = d[k]
    <3>1. k \in Nat /\ k >= 1 /\ k <= Len(f) + Len(p) - 1
      BY <1>0, <2>1, <2>3
    <3>0. i \in Nat /\ i >= 1 /\ i <= Len(p)
      BY <1>0
    <3>2. CASE k <= Len(f)
      <4>1. e[k] = f[k]
        BY <1>0, <2>1, <2>3, <3>1, <3>2
      <4>2. d[k] = q[k]
        BY <1>0, <1>1, <2>2, <3>0, <3>1, <3>2
      <4>3. q[k] = f[k]
        BY <1>0, <1>1, <3>1, <3>2
      <4> QED
        BY <4>1, <4>2, <4>3
    <3>3. CASE k > Len(f) /\ k < Len(f) + i
      <4>1. e[k] = c[k - Len(f)]
        BY <1>0, <2>1, <2>3, <3>1, <3>3
      <4>2. c[k - Len(f)] = p[k - Len(f)]
        BY <1>0, <2>1, <3>0, <3>1, <3>3
      <4>3. d[k] = q[k]
        BY <1>0, <1>1, <2>2, <3>0, <3>1, <3>3
      <4>4. q[k] = p[k - Len(f)]
        BY <1>0, <1>1, <3>1, <3>3
      <4> QED
        BY <4>1, <4>2, <4>3, <4>4
    <3>4. CASE k > Len(f) /\ k >= Len(f) + i
      <4>1. e[k] = c[k - Len(f)]
        BY <1>0, <2>1, <2>3, <3>1, <3>4
      <4>2. c[k - Len(f)] = p[k - Len(f) + 1]
        <5>1. /\ k - Len(f) \in 1 .. Len(p) - 1
              /\ ~(k - Len(f) < i)
          BY <1>0, <3>0, <3>1, <3>4
        <5> HIDE <1>0
        <5> QED
          BY <2>1, <5>1
      <4>3. d[k] = q[k + 1]
        BY <1>0, <1>1, <2>2, <3>0, <3>1, <3>4
      <4>4. q[k + 1] = p[k + 1 - Len(f)]
        BY <1>0, <1>1, <3>1, <3>4
      <4>5. k - Len(f) + 1 = k + 1 - Len(f)
        BY <1>0, <3>1
      <4> QED
        BY <4>1, <4>2, <4>3, <4>4, <4>5
    <3> QED
      BY <1>0, <3>1, <3>2, <3>3, <3>4
  <2>5. Len(e) = Len(d)
    BY <1>0, <1>1, <2>1, <2>2, <2>3
  <2>6. e = d
    BY <2>2, <2>3, <2>4, <2>5, SeqEqual
  <2> QED
    BY <2>6 DEF c, d, e
<1> QED
  BY <1>2, <1>3 DEF q

LEMMA AppendConcat ==
  ASSUME NEW S, NEW f \in Seq(S), NEW p \in Seq(S), NEW b \in S
  PROVE  Append(p, b) \in Seq(S) /\ f \o Append(p, b) = Append(f \o p, b)
<1>1. Append(p, b) = p \o <<b>> /\ Append(f \o p, b) = (f \o p) \o <<b>>
  OBVIOUS
<1>2. <<b>> \in Seq(S)
  OBVIOUS
<1> QED
  BY <1>1, <1>2, ConcatAssociative

(* The places of a line of two parts.                                      *)
LEMMA Places2 ==
  ASSUME NEW S, NEW f \in Seq(S), NEW p \in Seq(S)
  PROVE  /\ Len(f \o p) = Len(f) + Len(p)
         /\ \A i \in 1 .. Len(f) : i \in 1 .. Len(f \o p) /\ (f \o p)[i] = f[i]
         /\ \A i \in 1 .. Len(p) : /\ Len(f) + i \in 1 .. Len(f \o p)
                                   /\ (f \o p)[Len(f) + i] = p[i]
<1> DEFINE q == f \o p
<1>1. /\ q \in Seq(S) /\ Len(q) = Len(f) + Len(p)
      /\ \A k \in 1 .. Len(f) + Len(p) :
           q[k] = IF k <= Len(f) THEN f[k] ELSE p[k - Len(f)]
  BY ConcatProperties
<1>2. Len(f) \in Nat /\ Len(p) \in Nat
  OBVIOUS
<1> HIDE DEF q
<1>3. ASSUME NEW i \in 1 .. Len(f)
      PROVE  i \in 1 .. Len(q) /\ q[i] = f[i]
  BY <1>1, <1>2
<1>4. ASSUME NEW i \in 1 .. Len(p)
      PROVE  Len(f) + i \in 1 .. Len(q) /\ q[Len(f) + i] = p[i]
  <2>1. /\ Len(f) + i \in 1 .. Len(f) + Len(p)
        /\ ~(Len(f) + i <= Len(f))
        /\ Len(f) + i - Len(f) = i
    BY <1>2
  <2> QED
    BY <1>1, <2>1
<1> QED
  BY <1>1, <1>3, <1>4 DEF q

LEMMA OnceInBothParts ==
  ASSUME NEW S, NEW f \in Seq(S), NEW p \in Seq(S),
         \A i, j \in 1 .. Len(f \o p) : (f \o p)[i] = (f \o p)[j] => i = j
  PROVE  /\ \A i, j \in 1 .. Len(f) : f[i] = f[j] => i = j
         /\ \A i, j \in 1 .. Len(p) : p[i] = p[j] => i = j
<1>1. \A i, j \in 1 .. Len(f) : f[i] = f[j] => i = j
  BY Places2
<1>2. ASSUME NEW i \in 1 .. Len(p), NEW j \in 1 .. Len(p), p[i] = p[j]
      PROVE  i = j
  <2> DEFINE q == f \o p
  <2>0. /\ \A k \in 1 .. Len(p) : /\ Len(f) + k \in 1 .. Len(q)
                                  /\ q[Len(f) + k] = p[k]
        /\ \A k, l \in 1 .. Len(q) : q[k] = q[l] => k = l
    BY Places2
  <2> HIDE DEF q
  <2>1. Len(f) + i = Len(f) + j
    BY <1>2, <2>0
  <2>2. Len(f) \in Nat /\ i \in Int /\ j \in Int
    OBVIOUS
  <2> QED
    BY <2>1, <2>2
<1> QED
  BY <1>1, <1>2

LEMMA InOnePart ==
  ASSUME NEW S, NEW f \in Seq(S), NEW p \in Seq(S), NEW b,
         InSeq(f \o p, b), ~InSeq(p, b)
  PROVE  InSeq(f, b)
<1> DEFINE q == f \o p
<1>1. /\ q \in Seq(S) /\ Len(q) = Len(f) + Len(p)
      /\ \A k \in 1 .. Len(f) + Len(p) :
           q[k] = IF k <= Len(f) THEN f[k] ELSE p[k - Len(f)]
  BY ConcatProperties
<1>2. Len(f) \in Nat /\ Len(p) \in Nat
  OBVIOUS
<1>3. InSeq(q, b)
  OBVIOUS
<1> HIDE DEF q
<1>4. PICK k \in 1 .. Len(q) : q[k] = b
  BY <1>1, <1>3 DEF InSeq
<1>5. k <= Len(f)
  <2> SUFFICES ASSUME k > Len(f)
               PROVE  FALSE
    BY <1>1, <1>2
  <2>1. k - Len(f) \in 1 .. Len(p)
    BY <1>1, <1>2
  <2>2. p[k - Len(f)] = b
    BY <1>1, <1>2, <1>4
  <2> QED
    BY <2>1, <2>2 DEF InSeq
<1>6. k \in 1 .. Len(f) /\ f[k] = b
  BY <1>1, <1>2, <1>4, <1>5
<1> QED
  BY <1>6 DEF InSeq

LEMMA WithoutIsCut ==
  ASSUME NEW q \in Seq(Bss), NEW b, InSeq(q, b),
         \A i, j \in 1 .. Len(q) : q[i] = q[j] => i = j
  PROVE  \E i \in 1 .. Len(q) : q[i] = b /\ Without(q, b) = Cut(q, i)
<1> DEFINE First(i) == q[i] = b /\ \A j \in DOMAIN q : q[j] = b => i <= j
           k == CHOOSE i \in DOMAIN q : First(i)
<1>1. PICK m \in 1 .. Len(q) : q[m] = b
  BY DEF InSeq
<1>2. m \in DOMAIN q /\ First(m)
  BY <1>1
<1>3. k \in DOMAIN q /\ q[k] = b
  BY <1>2
<1>4. Without(q, b) = Cut(q, k)
  BY DEF Without, Cut
<1> QED
  BY <1>3, <1>4

(* Taking b out of the part of a line that holds it takes it out of the    *)
(* line.                                                                   *)
LEMMA WithoutOfLine ==
  ASSUME NEW f \in Seq(Bss), NEW p \in Seq(Bss), NEW b,
         \A i, j \in 1 .. Len(f \o p) : (f \o p)[i] = (f \o p)[j] => i = j
  PROVE  /\ InSeq(p, b) =>
              /\ Without(p, b) \in Seq(Bss)
              /\ \E i \in 1 .. Len(f \o p) :
                   /\ (f \o p)[i] = b
                   /\ f \o Without(p, b) = Cut(f \o p, i)
                   /\ ~(i <= Len(f))
         /\ InSeq(f, b) =>
              /\ Without(f, b) \in Seq(Bss)
              /\ Len(Without(f, b)) = Len(f) - 1
              /\ \E i \in 1 .. Len(f \o p) :
                   /\ (f \o p)[i] = b
                   /\ Without(f, b) \o p = Cut(f \o p, i)
                   /\ i <= Len(f)
<1>1. /\ \A i, j \in 1 .. Len(f) : f[i] = f[j] => i = j
      /\ \A i, j \in 1 .. Len(p) : p[i] = p[j] => i = j
  BY OnceInBothParts
<1>2. ASSUME InSeq(p, b)
      PROVE  /\ Without(p, b) \in Seq(Bss)
             /\ \E i \in 1 .. Len(f \o p) :
                  /\ (f \o p)[i] = b
                  /\ f \o Without(p, b) = Cut(f \o p, i)
                  /\ ~(i <= Len(f))
  <2>1. PICK k \in 1 .. Len(p) : p[k] = b /\ Without(p, b) = Cut(p, k)
    BY <1>1, <1>2, WithoutIsCut
  <2>2. Without(p, b) \in Seq(Bss)
    BY <2>1, CutProperties
  <2>3. f \o Cut(p, k) = Cut(f \o p, Len(f) + k)
    BY CutOfConcat
  <2>4. Len(f) + k \in 1 .. Len(f \o p) /\ (f \o p)[Len(f) + k] = b
    BY <2>1, Places2
  <2>5. ~(Len(f) + k <= Len(f))
    OBVIOUS
  <2> QED
    BY <2>1, <2>2, <2>3, <2>4, <2>5
<1>3. ASSUME InSeq(f, b)
      PROVE  /\ Without(f, b) \in Seq(Bss)
             /\ Len(Without(f, b)) = Len(f) - 1
             /\ \E i \in 1 .. Len(f \o p) :
                  /\ (f \o p)[i] = b
                  /\ Without(f, b) \o p = Cut(f \o p, i)
                  /\ i <= Len(f)
  <2>1. PICK k \in 1 .. Len(f) : f[k] = b /\ Without(f, b) = Cut(f, k)
    BY <1>1, <1>3, WithoutIsCut
  <2>2. Without(f, b) \in Seq(Bss) /\ Len(Without(f, b)) = Len(f) - 1
    BY <2>1, CutProperties
  <2>3. Cut(f, k) \o p = Cut(f \o p, k)
    BY CutOfConcat
  <2>4. k \in 1 .. Len(f \o p) /\ (f \o p)[k] = b
    BY <2>1, Places2
  <2>5. k <= Len(f)
    OBVIOUS
  <2> QED
    BY <2>1, <2>2, <2>3, <2>4, <2>5
<1> QED
  BY <1>2, <1>3

LEMMA OnceOfAppend ==
  ASSUME NEW q \in Seq(Bss), NEW who \in [Bss -> BOOLEAN], Once(q, who),
         NEW b \in Bss, ~who[b]
  PROVE  /\ Append(q, b) \in Seq(Bss)
         /\ Once(Append(q, b), [who EXCEPT ![b] = TRUE])
<1> DEFINE r == Append(q, b)
           whoNow == [who EXCEPT ![b] = TRUE]
<1>1. /\ r \in Seq(Bss) /\ Len(r) = Len(q) + 1 /\ r[Len(q) + 1] = b
      /\ \A i \in 1 .. Len(q) : r[i] = q[i]
  OBVIOUS
<1>2. \A i \in 1 .. Len(q) : q[i] # b
  BY DEF Once, InSeq
<1> HIDE DEF r
<1>3. \A i, j \in 1 .. Len(r) : r[i] = r[j] => i = j
  BY <1>1, <1>2 DEF Once
<1>4. ASSUME NEW c \in Bss
      PROVE  whoNow[c] <=> InSeq(r, c)
  <2>1. InSeq(r, c) <=> c = b \/ InSeq(q, c)
    BY <1>1 DEF InSeq
  <2>2. whoNow[c] <=> c = b \/ who[c]
    OBVIOUS
  <2> QED
    BY <2>1, <2>2 DEF Once
<1> QED
  BY <1>1, <1>3, <1>4 DEF Once, r

LEMMA OnceOfCut ==
  ASSUME NEW q \in Seq(Bss), NEW who \in [Bss -> BOOLEAN], Once(q, who),
         NEW i \in 1 .. Len(q)
  PROVE  /\ Cut(q, i) \in Seq(Bss)
         /\ Once(Cut(q, i), [who EXCEPT ![q[i]] = FALSE])
<1> DEFINE r == Cut(q, i)
           b == q[i]
           whoNow == [who EXCEPT ![b] = FALSE]
<1>1. /\ r \in Seq(Bss) /\ Len(r) = Len(q) - 1
      /\ \A k \in 1 .. Len(q) - 1 : r[k] = IF k < i THEN q[k] ELSE q[k + 1]
  BY CutProperties
<1>2. b \in Bss /\ Len(q) \in Nat
  OBVIOUS
<1>3. \A j, k \in 1 .. Len(q) : q[j] = q[k] => j = k
  BY DEF Once
<1> HIDE DEF r
<1>4. \A j, k \in 1 .. Len(r) : r[j] = r[k] => j = k
  BY <1>1, <1>2, <1>3
<1>5. ASSUME NEW c \in Bss
      PROVE  whoNow[c] <=> InSeq(r, c)
  <2>1. ASSUME InSeq(r, c)
        PROVE  InSeq(q, c) /\ c # b
    <3>1. PICK k \in 1 .. Len(q) - 1 : r[k] = c
      BY <2>1, <1>1, <1>2 DEF InSeq
    <3>2. PICK j \in 1 .. Len(q) : j # i /\ q[j] = c
      <4>1. CASE k < i
        BY <4>1, <3>1, <1>1, <1>2
      <4>2. CASE ~(k < i)
        <5>1. k + 1 \in 1 .. Len(q) /\ k + 1 # i /\ q[k + 1] = c
          BY <4>2, <3>1, <1>1, <1>2
        <5> QED
          BY <5>1
      <4> QED
        BY <4>1, <4>2
    <3>3. c # b
      BY <3>2, <1>3
    <3> QED
      BY <3>2, <3>3 DEF InSeq
  <2>2. ASSUME InSeq(q, c), c # b
        PROVE  InSeq(r, c)
    <3>1. PICK j \in 1 .. Len(q) : q[j] = c
      BY <2>2 DEF InSeq
    <3>2. j # i
      BY <2>2, <3>1
    <3>3. CASE j < i
      <4>1. j \in 1 .. Len(r) /\ r[j] = c
        BY <1>1, <1>2, <3>1, <3>3
      <4> QED
        BY <1>1, <4>1 DEF InSeq
    <3>4. CASE j > i
      <4>1. j - 1 \in 1 .. Len(r) /\ r[j - 1] = c
        BY <1>1, <1>2, <3>1, <3>4
      <4> QED
        BY <1>1, <4>1 DEF InSeq
    <3> QED
      BY <3>2, <3>3, <3>4
  <2>3. whoNow[c] <=> c # b /\ who[c]
    BY <1>2
  <2> QED
    BY <2>1, <2>2, <2>3 DEF Once
<1> QED
  BY <1>1, <1>4, <1>5 DEF Once, r

-----------------------------------------------------------------------------
(***************************************************************************)
(* Steps of the whole system                                               *)
(***************************************************************************)

IInv ==
  /\ Good(g)
  /\ asked \in [Bss -> BOOLEAN]
  /\ hw \in BOOLEAN
  /\ g.mode = hw
  /\ ~g.lock => g.pend = << >>
  /\ Once(Line, asked)

LEMMA LineTyped ==
  ASSUME Good(g)
  PROVE  /\ g.fw \in Seq(Bss) /\ g.pend \in Seq(Bss) /\ Line \in Seq(Bss)
         /\ Len(g.fw) \in Nat /\ Len(g.pend) \in Nat
         /\ Len(Line) = Len(g.fw) + Len(g.pend)
<1>1. g.fw \in Seq(Bss) /\ g.pend \in Seq(Bss)
  BY DEF Good, Gs
<1> QED
  BY <1>1, ConcatProperties DEF Line

(* A step that only takes the lock, or passes the queue on, leaves the     *)
(* line as it is.                                                          *)
LEMMA GateKeepsLine ==
  ASSUME IInv, Good(g'), Gate(g, g')
  PROVE  Line' = Line /\ (~g'.lock => g'.pend = << >>)
<1>1. CASE g'.pend = g.pend /\ g'.fw = g.fw /\ (g.lock => g'.lock)
  BY <1>1 DEF IInv, Line
<1>2. CASE g'.pend = << >> /\ g'.fw = g.fw \o g.pend
  <2>1. Line \in Seq(Bss)
    BY LineTyped DEF IInv
  <2>2. Line \o << >> = Line
    BY <2>1, ConcatEmptySeq
  <2> QED
    BY <1>2, <2>2 DEF Line
<1> QED
  BY <1>1, <1>2 DEF Gate

(* A request joins the end of the line; the firmware knows it, and with it *)
(* the whole line, unless the lock is held.                                *)
LEMMA RequestJoinsLine ==
  ASSUME IInv, NEW b \in Bss, RequestChannel(b)
  PROVE  /\ Good(g') /\ g'.mode = g.mode /\ g'.lock = g.lock
         /\ Line' = Append(Line, b)
         /\ g'.lock => g'.fw = g.fw
         /\ ~g'.lock => g'.pend = << >>
<1>0. g \in Gs /\ Good(g)
  BY DEF IInv, Good
<1>1. g.fw \in Seq(Bss) /\ g.pend \in Seq(Bss)
  BY <1>0, LineTyped
<1>2. CASE g.lock
  <2> DEFINE pend == Append(g.pend, b)
  <2>1. g' = [g EXCEPT !.pend = pend]
    BY <1>2 DEF RequestChannel, cnmChMngrRequestPrivilege
  <2>2. pend \in Seq(Bss) /\ g.fw \o pend = Append(g.fw \o g.pend, b)
    <3> DEFINE f == g.fw
               p == g.pend
    <3>1. f \in Seq(Bss) /\ p \in Seq(Bss)
      BY <1>1
    <3> HIDE DEF f, p
    <3>2. Append(p, b) \in Seq(Bss) /\ f \o Append(p, b) = Append(f \o p, b)
      BY <3>1, AppendConcat
    <3> QED
      BY <3>2 DEF f, p
  <2> HIDE DEF pend
  <2>3. /\ g' \in Gs /\ g'.pend = pend
        /\ g'.fw = g.fw /\ g'.lock = g.lock /\ g'.mode = g.mode
        /\ g'.state = g.state /\ g'.cmds = g.cmds
    BY <1>0, <2>1, <2>2 DEF Gs
  <2> QED
    BY <1>0, <1>2, <2>2, <2>3 DEF Line, Good, LockFits, ModeFits, CmdsFit
<1>3. CASE ~g.lock
  <2> DEFINE fw == Append(g.fw, b)
  <2>1. g' = [g EXCEPT !.fw = fw]
    BY <1>3 DEF RequestChannel, cnmChMngrRequestPrivilege
  <2>2. g.pend = << >>
    BY <1>3 DEF IInv
  <2>3. fw \in Seq(Bss) /\ fw \o << >> = Append(g.fw \o << >>, b)
    BY <1>1
  <2> HIDE DEF fw
  <2>4. /\ g' \in Gs /\ g'.fw = fw
        /\ g'.pend = g.pend /\ g'.lock = g.lock /\ g'.mode = g.mode
        /\ g'.state = g.state /\ g'.cmds = g.cmds
    BY <1>0, <2>1, <2>3 DEF Gs
  <2> QED
    BY <1>0, <1>3, <2>2, <2>3, <2>4 DEF Line, Good, LockFits, ModeFits, CmdsFit
<1> QED
  BY <1>2, <1>3

(* A withdrawal takes the client out of the line, wherever it stands.      *)
LEMMA ReleaseLeavesLine ==
  ASSUME IInv, NEW b \in Bss, ReleaseChannel(b)
  PROVE  /\ Good(g') /\ g'.mode = g.mode /\ g'.lock = g.lock
         /\ ~g'.lock => g'.pend = << >>
         /\ \E i \in 1 .. Len(Line) :
              /\ Line[i] = b
              /\ Line' = Cut(Line, i)
              /\ Len(g'.fw) = IF i <= Len(g.fw) THEN Len(g.fw) - 1
                                                ELSE Len(g.fw)
<1>0. g \in Gs /\ Good(g)
  BY DEF IInv, Good
<1> DEFINE f == g.fw
           p == g.pend
           withoutF == Without(f, b)
           withoutP == Without(p, b)
<1>1. f \in Seq(Bss) /\ p \in Seq(Bss)
  BY <1>0, LineTyped
<1>2. Line = f \o p /\ (~g.lock => p = << >>)
  BY DEF Line, IInv
<1>3. Once(Line, asked) /\ asked[b]
  BY DEF IInv, ReleaseChannel
<1>4. g' = IF g.lock /\ InSeq(p, b) THEN [g EXCEPT !.pend = withoutP]
                                    ELSE [g EXCEPT !.fw = withoutF]
  BY DEF ReleaseChannel, cnmChMngrAbortPrivilege
<1> HIDE DEF f, p
<1>5. \A i, j \in 1 .. Len(f \o p) : (f \o p)[i] = (f \o p)[j] => i = j
  BY <1>2, <1>3 DEF Once
<1>6. CASE g.lock /\ InSeq(p, b)
  <2>1. withoutP \in Seq(Bss)
    BY <1>1, <1>5, <1>6, WithoutOfLine
  <2>2. PICK i \in 1 .. Len(f \o p) :
          (f \o p)[i] = b /\ f \o withoutP = Cut(f \o p, i) /\ ~(i <= Len(f))
    BY <1>1, <1>5, <1>6, WithoutOfLine
  <2> HIDE DEF withoutP
  <2>3. /\ g' \in Gs /\ g'.pend = withoutP
        /\ g'.fw = f /\ g'.lock = g.lock /\ g'.mode = g.mode
        /\ g'.state = g.state /\ g'.cmds = g.cmds
    BY <1>0, <1>4, <1>6, <2>1 DEF Gs, f
  <2>4. Good(g')
    BY <1>0, <2>3 DEF Good, LockFits, ModeFits, CmdsFit
  <2>5. Line' = Cut(Line, i)
    BY <1>2, <2>2, <2>3 DEF Line
  <2> QED
    BY <1>2, <1>6, <2>2, <2>3, <2>4, <2>5 DEF f
<1>7. CASE ~(g.lock /\ InSeq(p, b))
  <2>1. InSeq(f \o p, b)
    BY <1>2, <1>3 DEF Once
  <2>2. ~InSeq(p, b)
    BY <1>2, <1>7 DEF InSeq
  <2>3. InSeq(f, b)
    BY <1>1, <2>1, <2>2, InOnePart
  <2>4. withoutF \in Seq(Bss) /\ Len(withoutF) = Len(f) - 1
    BY <1>1, <1>5, <2>3, WithoutOfLine
  <2>5. PICK i \in 1 .. Len(f \o p) :
          (f \o p)[i] = b /\ withoutF \o p = Cut(f \o p, i) /\ i <= Len(f)
    BY <1>1, <1>5, <2>3, WithoutOfLine
  <2> HIDE DEF withoutF
  <2>6. /\ g' \in Gs /\ g'.fw = withoutF
        /\ g'.pend = p /\ g'.lock = g.lock /\ g'.mode = g.mode
        /\ g'.state = g.state /\ g'.cmds = g.cmds
    BY <1>0, <1>4, <1>7, <2>4 DEF Gs, p
  <2>7. Good(g')
    BY <1>0, <2>6 DEF Good, LockFits, ModeFits, CmdsFit
  <2>8. Line' = Cut(Line, i)
    BY <1>2, <2>5, <2>6 DEF Line
  <2> QED
    BY <1>2, <2>4, <2>5, <2>6, <2>7, <2>8 DEF f
<1> QED
  BY <1>6, <1>7

LEMMA InitIInv ==
  Init => IInv
<1> SUFFICES ASSUME Init
             PROVE  IInv
  OBVIOUS
<1>1. << >> \in Seq(Bss) /\ << >> \in Seq(BOOLEAN)
  OBVIOUS
<1>2. g \in Gs
  BY <1>1 DEF Init, Gs, States, Links, Bands, MaxNss
<1>3. /\ g.state = "DISABLE_IDLE" /\ g.lock = FALSE /\ g.mode = FALSE
      /\ g.cmds = << >> /\ g.fw = << >> /\ g.pend = << >>
  BY DEF Init
<1>4. Good(g)
  BY <1>2, <1>3 DEF Good, LockFits, ModeFits, CmdsFit, LockStates, ModeStates
<1>5. asked = [b \in Bss |-> FALSE] /\ hw = FALSE
  BY DEF Init
<1>6. Once(<< >>, asked)
  BY <1>5 DEF Once, InSeq
<1>7. Line = << >>
  BY <1>3, ConcatEmptySeq, <1>1 DEF Line
<1> QED
  BY <1>3, <1>4, <1>5, <1>6, <1>7 DEF IInv

(* Handlers and answers keep the invariant; what they do to the line is a  *)
(* Gate.                                                                   *)
LEMMA InnerStep ==
  ASSUME IInv, Handler \/ HwDone
  PROVE  IInv' /\ Gate(g, g')
<1>1. /\ Good(g') /\ Gate(g, g')
      /\ asked' = asked /\ hw' \in BOOLEAN /\ g'.mode = hw'
  <2>1. CASE Handler
    BY <2>1, HandlerTurn DEF IInv, Turn
  <2>2. CASE HwDone
    <3>1. /\ g' = cnmDbdcEventHwSwitchDone([g EXCEPT !.cmds = Tail(@)])
          /\ g.cmds # << >> /\ hw' = Head(g.cmds) /\ asked' = asked
      BY <2>2 DEF HwDone
    <3>2. Good(g') /\ Gate(g, g') /\ g'.mode = Head(g.cmds)
      BY <3>1, HwSwitchDoneTurn DEF IInv
    <3>3. Head(g.cmds) \in BOOLEAN
      BY <3>1, HeadTailProperties DEF IInv, Good, Gs
    <3> QED
      BY <3>1, <3>2, <3>3
  <2> QED
    BY <2>1, <2>2
<1>2. Line' = Line /\ (~g'.lock => g'.pend = << >>)
  BY <1>1, GateKeepsLine
<1>3. Once(Line, asked)'
  BY <1>1, <1>2 DEF IInv, Once, InSeq
<1> QED
  BY <1>1, <1>2, <1>3 DEF IInv, Good, LockFits, ModeFits, CmdsFit

LEMMA RequestStep ==
  ASSUME IInv, NEW b \in Bss, RequestChannel(b)
  PROVE  IInv'
<1>1. /\ Good(g') /\ g'.mode = g.mode /\ g'.lock = g.lock
      /\ Line' = Append(Line, b)
      /\ ~g'.lock => g'.pend = << >>
  BY RequestJoinsLine
<1>2. /\ ~asked[b] /\ asked' = [asked EXCEPT ![b] = TRUE] /\ hw' = hw
  BY DEF RequestChannel
<1>3. Line \in Seq(Bss) /\ asked \in [Bss -> BOOLEAN] /\ Once(Line, asked)
  BY LineTyped DEF IInv
<1>4. Once(Append(Line, b), [asked EXCEPT ![b] = TRUE])
  BY <1>2, <1>3, OnceOfAppend
<1>5. Once(Line, asked)'
  BY <1>1, <1>2, <1>4 DEF Once, InSeq
<1> QED
  BY <1>1, <1>2, <1>3, <1>5 DEF IInv, Good, LockFits, ModeFits, CmdsFit

LEMMA ReleaseStep ==
  ASSUME IInv, NEW b \in Bss, ReleaseChannel(b)
  PROVE  IInv'
<1>1. /\ Good(g') /\ g'.mode = g.mode /\ g'.lock = g.lock
      /\ ~g'.lock => g'.pend = << >>
  BY ReleaseLeavesLine
<1>2. PICK i \in 1 .. Len(Line) : Line[i] = b /\ Line' = Cut(Line, i)
  BY ReleaseLeavesLine
<1>3. asked' = [asked EXCEPT ![b] = FALSE] /\ hw' = hw
  BY DEF ReleaseChannel
<1>4. Line \in Seq(Bss) /\ asked \in [Bss -> BOOLEAN] /\ Once(Line, asked)
  BY LineTyped DEF IInv
<1>5. Once(Cut(Line, i), [asked EXCEPT ![b] = FALSE])
  BY <1>2, <1>4, OnceOfCut
<1>6. Once(Line, asked)'
  BY <1>2, <1>3, <1>5 DEF Once, InSeq
<1> QED
  BY <1>1, <1>3, <1>4, <1>6 DEF IInv, Good, LockFits, ModeFits, CmdsFit

LEMMA StepIInv ==
  IInv /\ [Next]_vars => IInv'
<1> SUFFICES ASSUME IInv, [Next]_vars
             PROVE  IInv'
  OBVIOUS
<1>1. CASE Next
  BY <1>1, NextCases, InnerStep, RequestStep, ReleaseStep
<1>2. CASE UNCHANGED vars
  BY <1>2 DEF vars, IInv, Good, LockFits, ModeFits, CmdsFit, Once, InSeq, Line
<1> QED
  BY <1>1, <1>2

\* The inductive invariant of the DBDC machine holds in every reachable state.
THEOREM Invariance == Spec => []IInv
  BY InitIInv, StepIInv, PTL DEF Spec

-----------------------------------------------------------------------------
(***************************************************************************)
(* Theorems                                                                *)
(***************************************************************************)

(* The nested handlers keep every part of the driver's state well-typed    *)
(* (cnm.c, g_rDbdcInfo, g_arBssOpControl), for any BSSs.                   *)
THEOREM TypeCorrect == Spec => []TypeOK
<1>1. IInv => TypeOK
  BY DEF IInv, Good, TypeOK
<1> QED
  BY <1>1, Invariance, PTL

(* The request lock, taken and released in the entry and exit functions of *)
(* six states (cnm.c, ReqPrivilegeLock), is held exactly in the five       *)
(* states of a switch, and queues nothing outside them.                    *)
THEOREM LockIsHeldInSwitch == Spec => []LockFollowsState
<1>1. IInv => LockFollowsState
  BY DEF IInv, Good, LockFits, LockFollowsState
<1> QED
  BY <1>1, Invariance, PTL

(* While the hardware is still to change, the lock is held (cnm.c,         *)
(* cnmUpdateDbdcSetting and ReqPrivilegeLock).                             *)
THEOREM SwitchesAreLocked == Spec => []SwitchIsLocked
<1>1. IInv => SwitchIsLocked
  BY DEF IInv, Good, LockFits, CmdsFit, LockStates, SwitchIsLocked
<1> QED
  BY <1>1, Invariance, PTL

(* With no command unanswered, driver and hardware agree on the mode, and  *)
(* it is that of the state (cnm.c, cnmDbdcEventHwSwitchDone).              *)
THEOREM HwIsAgreed == Spec => []HwFollowsState
<1>1. ASSUME IInv, g.cmds = << >>
      PROVE  /\ g.mode = hw
             /\ hw <=> g.state \in {"ENABLE_GUARD", "ENABLE_IDLE"}
  <2>1. <<FALSE>> # << >> /\ g.state # "WAIT_HW_DISABLE"
    BY <1>1 DEF IInv, Good, CmdsFit
  <2> QED
    BY <1>1, <2>1 DEF IInv, Good, ModeFits, ModeStates
<1>2. IInv => HwFollowsState
  BY <1>1 DEF HwFollowsState
<1> QED
  BY <1>2, Invariance, PTL

(* A channel request stands exactly once in the firmware or in the queue   *)
(* until it is withdrawn (cnm.c, rPendingMsgList).                         *)
THEOREM NoRequestIsLost == Spec => []RequestsAreKept
<1>1. ASSUME IInv
      PROVE  RequestsAreKept
  <2>1. Line \in Seq(Bss) /\ Once(Line, asked)
    BY <1>1, LineTyped DEF IInv
  <2>2. DOMAIN Line = 1 .. Len(Line)
    BY <2>1
  <2>3. ASSUME NEW b \in Bss
        PROVE  IF asked[b] THEN \E i \in Places(b) : Places(b) = {i}
                           ELSE Places(b) = {}
    <3>1. Places(b) = {i \in DOMAIN Line : Line[i] = b}
      BY DEF Places, Line
    <3>2. asked[b] <=> \E i \in DOMAIN Line : Line[i] = b
      BY <2>1 DEF Once, InSeq
    <3>3. \A i, j \in DOMAIN Line : Line[i] = Line[j] => i = j
      BY <2>1, <2>2 DEF Once
    <3> QED
      BY <3>1, <3>2, <3>3
  <2> QED
    BY <2>3 DEF RequestsAreKept
<1> QED
  BY <1>1, Invariance, PTL

-----------------------------------------------------------------------------
(***************************************************************************)
(* The channel manager implements the abstract queue                       *)
(***************************************************************************)

LEMMA GateIsQueueStep ==
  ASSUME IInv, IInv', Gate(g, g')
  PROVE  [Queue!Next]_Queue!vars
<1>1. Line' = Line
  BY GateKeepsLine DEF IInv
<1>2. /\ g.fw \in Seq(Bss) /\ g.pend \in Seq(Bss) /\ Line \in Seq(Bss)
  BY LineTyped DEF IInv
<1>3. ~g.lock => g.fw = Line
  BY <1>2, ConcatEmptySeq DEF IInv, Line
<1>4. ~g'.lock => g'.fw = Line
  <2>1. g'.fw \in Seq(Bss)
    BY DEF IInv, Good, Gs
  <2> QED
    BY <1>1, <2>1, ConcatEmptySeq DEF IInv, Line
<1>5. g'.fw = g.fw \/ g'.fw = Line
  BY DEF Gate, Line
<1>6. g.lock \in BOOLEAN /\ g'.lock \in BOOLEAN
  BY DEF IInv, Good, Gs
<1>7. CASE g.lock /\ g'.lock
  <2>1. Queue!Pass \/ UNCHANGED Queue!vars
    BY <1>1, <1>5, <1>7 DEF Queue!Pass, Queue!vars, Line
  <2> QED
    BY <2>1 DEF Queue!Next
<1>8. CASE g.lock /\ ~g'.lock
  <2>1. Queue!Open
    BY <1>1, <1>4, <1>6, <1>8 DEF Queue!Open, Line
  <2> QED
    BY <2>1 DEF Queue!Next
<1>9. CASE ~g.lock /\ g'.lock
  <2>1. Queue!Close
    BY <1>1, <1>3, <1>5, <1>6, <1>9 DEF Queue!Close, Line
  <2> QED
    BY <2>1 DEF Queue!Next
<1>10. CASE ~g.lock /\ ~g'.lock
  <2>1. UNCHANGED Queue!vars
    BY <1>1, <1>3, <1>4, <1>6, <1>10 DEF Queue!vars, Line
  <2> QED
    BY <2>1
<1> QED
  BY <1>7, <1>8, <1>9, <1>10

LEMMA RequestIsAsk ==
  ASSUME IInv, IInv', NEW b \in Bss, RequestChannel(b)
  PROVE  Queue!Ask(b)
<1>1. /\ g'.lock = g.lock /\ Line' = Append(Line, b)
      /\ g'.lock => g'.fw = g.fw
      /\ ~g'.lock => g'.pend = << >>
  BY RequestJoinsLine
<1>2. ~InSeq(Line, b)
  BY DEF IInv, Once, RequestChannel
<1>3. ~g'.lock => g'.fw = Line'
  <2>1. g'.fw \in Seq(Bss)
    BY DEF IInv, Good, Gs
  <2> QED
    BY <1>1, <2>1, ConcatEmptySeq DEF Line
<1> QED
  BY <1>1, <1>2, <1>3 DEF Queue!Ask, Queue!Waiting, InSeq, Line

LEMMA ReleaseIsWithdraw ==
  ASSUME IInv, NEW b \in Bss, ReleaseChannel(b)
  PROVE  Queue!Withdraw(b)
<1>1. g'.lock = g.lock
  BY ReleaseLeavesLine
<1>2. PICK i \in 1 .. Len(Line) :
        /\ Line[i] = b /\ Line' = Cut(Line, i)
        /\ Len(g'.fw) = IF i <= Len(g.fw) THEN Len(g.fw) - 1 ELSE Len(g.fw)
  BY ReleaseLeavesLine
<1>3. Line \in Seq(Bss)
  BY LineTyped DEF IInv
<1>4. i \in DOMAIN Line
  BY <1>3
<1> QED
  BY <1>1, <1>2, <1>4 DEF Queue!Withdraw, Cut, Line

(* Locking, unlocking, requests and withdrawals implement the abstract     *)
(* channel queue: the firmware gets the requests in the order they were    *)
(* made, and all of them when the lock is released.                        *)
THEOREM QueueIsImplemented == Spec => ImplementsChannelQueue
<1>1. Init => Queue!Init
  <2> SUFFICES ASSUME Init
               PROVE  Queue!Init
    OBVIOUS
  <2>1. g.fw = << >> /\ g.pend = << >> /\ g.lock = FALSE
    BY DEF Init
  <2>2. << >> \o << >> = << >> /\ Len(<< >>) = 0
    OBVIOUS
  <2> QED
    BY <2>1, <2>2 DEF Queue!Init
<1>2. IInv /\ IInv' /\ [Next]_vars => [Queue!Next]_Queue!vars
  <2> SUFFICES ASSUME IInv, IInv', [Next]_vars
               PROVE  [Queue!Next]_Queue!vars
    OBVIOUS
  <2>1. CASE Handler \/ HwDone
    BY <2>1, InnerStep, GateIsQueueStep
  <2>2. ASSUME NEW b \in Bss, RequestChannel(b)
        PROVE  [Queue!Next]_Queue!vars
    BY <2>2, RequestIsAsk DEF Queue!Next
  <2>3. ASSUME NEW b \in Bss, ReleaseChannel(b)
        PROVE  [Queue!Next]_Queue!vars
    BY <2>3, ReleaseIsWithdraw DEF Queue!Next
  <2>4. CASE UNCHANGED vars
    BY <2>4 DEF vars, Queue!vars
  <2> QED
    BY <2>1, <2>2, <2>3, <2>4, NextCases
<1> QED
  BY <1>1, <1>2, Invariance, PTL DEF Spec, Queue!Spec, ImplementsChannelQueue
=============================================================================
