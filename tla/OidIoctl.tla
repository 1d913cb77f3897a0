------------------------------ MODULE OidIoctl ------------------------------
(***************************************************************************)
(* Requests ("OIDs") that other threads hand to main_thread: kalIoctl and  *)
(* kalOidComplete with the OID step of main_thread (os/linux/gl_kal.c),    *)
(* the OID timeout (common/wlan_lib.c) and the end of the driver           *)
(* (os/linux/gl_init.c).                                                   *)
(*                                                                         *)
(* The request is written into the single OidEntry, under ioctl_sem, and   *)
(* announced with GLUE_FLAG_OID_BIT.  The issuer then polls that bit, not  *)
(* the completion: main_thread clears the bit BEFORE it runs the handler.  *)
(* A handler either answers or leaves a command with the firmware and      *)
(* returns PENDING; the answer comes later, through kalOidComplete.        *)
(*                                                                         *)
(* Abstractions.  Every request is issued once.  The status a handler of   *)
(* request r ends with is r itself, so that a status tells whose it is.    *)
(* Chip reset, which ends main_thread as HALT does, is left out.           *)
(***************************************************************************)
EXTENDS Naturals, FiniteSets

CONSTANTS
  Requests,    \* the calls of kalIoctl
  Direct,      \* those made by main_thread itself
  Kind,        \* per request, what its handler does: see Kinds
  MaxPolls     \* rounds of the busy-wait (3000, one per millisecond)

\* The handler gives an answer, or sends a command and returns PENDING.
Kinds == {"answers", "firmware"}

ASSUME ConstantsAssumption ==
  /\ Direct \subseteq Requests
  /\ Kind \in [Requests -> Kinds]
  /\ MaxPolls \in Nat
  /\ Requests \cap {"PENDING", "FAILURE", "NOT_READY", "none"} = {}

VARIABLES
  pc,          \* per request: where its kalIoctl is
  result,      \* per request: what kalIoctl returned, or "none"
  polls,       \* rounds of the busy-wait that are left to the owner
  ioctl_sem,   \* the owner of the semaphore, or "none"
  OidEntry,    \* the request in OidEntry and its rStatus
  fgOid,       \* GLUE_FLAG_OID_BIT
  rPendComp,   \* completion_done(rPendComp): nobody ever consumes it
  main,        \* main_thread's OID step: "idle", "dispatch", "handler", "exited"
  prIoReq,     \* the request whose handler main_thread runs, or "none"
  pendingCmds, \* OID commands the firmware has not answered
  oidTimer,    \* rOidTimeoutTimer is started
  g_u4HaltFlag, fgHalt, \* the two flags wlanRemove sets, in this order
  main_thread, \* prGlueInfo->main_thread is not NULL
  stopped,     \* wlanOffStopWlanThreads has returned
  runs         \* history: how often each handler was started

ioctlVars == <<pc, result, polls, ioctl_sem>>
mainVars  == <<main, prIoReq, runs>>
stopVars  == <<g_u4HaltFlag, fgHalt, main_thread, stopped>>
fwVars    == <<pendingCmds, oidTimer>>
vars == <<ioctlVars, OidEntry, fgOid, rPendComp, mainVars, fwVars, stopVars>>

Init ==
  /\ pc = [r \in Requests |-> "new"]
  /\ result = [r \in Requests |-> "none"]
  /\ polls = 0
  /\ ioctl_sem = "none"
  /\ OidEntry = [req |-> "none", rStatus |-> "none"]
  /\ fgOid = FALSE /\ rPendComp = FALSE
  /\ main = "idle" /\ prIoReq = "none"
  /\ pendingCmds = {} /\ oidTimer = FALSE
  /\ g_u4HaltFlag = FALSE /\ fgHalt = FALSE
  /\ main_thread = TRUE /\ stopped = FALSE
  /\ runs = [r \in Requests |-> 0]

-----------------------------------------------------------------------------
(* kalIoctl, run by the thread that issues request r.                      *)

Returns(r, status) ==
  /\ pc' = [pc EXCEPT ![r] = "done"]
  /\ result' = [result EXCEPT ![r] = status]

Goto(r, label) == pc' = [pc EXCEPT ![r] = label] /\ UNCHANGED result

IoctlEnters(r) ==
  /\ pc[r] = "new" /\ r \notin Direct
  /\ IF g_u4HaltFlag THEN Returns(r, "NOT_READY") ELSE Goto(r, "down")
  /\ UNCHANGED <<polls, ioctl_sem, OidEntry, fgOid, rPendComp, mainVars,
                 fwVars, stopVars>>

\* A signal interrupts down_interruptible.
IoctlInterrupted(r) ==
  /\ pc[r] = "down"
  /\ Returns(r, "NOT_READY")
  /\ UNCHANGED <<polls, ioctl_sem, OidEntry, fgOid, rPendComp, mainVars,
                 fwVars, stopVars>>

\* (Mutant of IoctlDown: the semaphore is not waited for.)
IoctlDownAlways(r) ==
  /\ pc[r] = "down"
  /\ ioctl_sem' = r
  /\ Goto(r, "fill")
  /\ UNCHANGED <<polls, OidEntry, fgOid, rPendComp, mainVars, fwVars, stopVars>>

IoctlDown(r) ==
  /\ pc[r] = "down" /\ ioctl_sem = "none"
  /\ ioctl_sem' = r
  /\ Goto(r, "fill")
  /\ UNCHANGED <<polls, OidEntry, fgOid, rPendComp, mainVars, fwVars, stopVars>>

IoctlFills(r) ==
  /\ pc[r] = "fill"
  /\ OidEntry' = [req |-> r, rStatus |-> "PENDING"]
  /\ Goto(r, "signal")
  /\ UNCHANGED <<polls, ioctl_sem, fgOid, rPendComp, mainVars, fwVars, stopVars>>

IoctlSignals(r) ==
  /\ pc[r] = "signal"
  /\ fgOid' = TRUE
  /\ polls' = MaxPolls
  /\ Goto(r, IF main_thread THEN "poll" ELSE "judge")
  /\ UNCHANGED <<ioctl_sem, OidEntry, rPendComp, mainVars, fwVars, stopVars>>

\* (Mutants of IoctlPolls: the round counter runs below zero; it does not run.)
IoctlPollsUnchecked(r) ==
  /\ pc[r] = "poll"
  /\ IF fgOid
     THEN polls' = polls - 1 /\ UNCHANGED <<pc, result>>
     ELSE Goto(r, "judge") /\ UNCHANGED polls
  /\ UNCHANGED <<ioctl_sem, OidEntry, fgOid, rPendComp, mainVars, fwVars,
                 stopVars>>

IoctlPollsForever(r) ==
  /\ pc[r] = "poll" /\ ~fgOid
  /\ Goto(r, "judge")
  /\ UNCHANGED <<polls, ioctl_sem, OidEntry, fgOid, rPendComp, mainVars, fwVars,
                 stopVars>>

IoctlPolls(r) ==
  /\ pc[r] = "poll"
  /\ IF polls > 0 /\ fgOid
     THEN polls' = polls - 1 /\ UNCHANGED <<pc, result>>
     ELSE Goto(r, "judge") /\ UNCHANGED polls
  /\ UNCHANGED <<ioctl_sem, OidEntry, fgOid, rPendComp, mainVars, fwVars,
                 stopVars>>

\* The bit is tested again, and cleared or rStatus read in a later step.
IoctlJudges(r) ==
  /\ pc[r] = "judge"
  /\ Goto(r, IF fgOid THEN "giveup" ELSE "read")
  /\ UNCHANGED <<polls, ioctl_sem, OidEntry, fgOid, rPendComp, mainVars, fwVars,
                 stopVars>>

IoctlGivesUp(r) ==
  /\ pc[r] = "giveup"
  /\ fgOid' = FALSE
  /\ Returns(r, "NOT_READY")
  /\ ioctl_sem' = "none"
  /\ UNCHANGED <<polls, OidEntry, rPendComp, mainVars, fwVars, stopVars>>

IoctlReadsStatus(r) ==
  /\ pc[r] = "read"
  /\ Returns(r, OidEntry.rStatus)
  /\ ioctl_sem' = "none"
  /\ UNCHANGED <<polls, OidEntry, fgOid, rPendComp, mainVars, fwVars, stopVars>>

-----------------------------------------------------------------------------
(* main_thread.                                                            *)

\* kalOidComplete: clears the OID timer; wakes nobody when the entry is PENDING
\* (no thread waits for rPendComp), raises the OID bit again when it is not.
kalOidComplete ==
  /\ oidTimer' = FALSE
  /\ IF OidEntry.rStatus = "PENDING"
     THEN rPendComp' = TRUE /\ UNCHANGED fgOid
     ELSE fgOid' = TRUE /\ UNCHANGED rPendComp

\* Under HALT the request fails; otherwise the handler is looked up in OidEntry
\* in a later step.
MainTakesOid ==
  /\ main = "idle" /\ fgOid
  /\ fgOid' = FALSE
  /\ IF fgHalt
     THEN /\ OidEntry' = [OidEntry EXCEPT !.rStatus = "FAILURE"]
          /\ rPendComp' = TRUE
          /\ UNCHANGED main
     ELSE main' = "dispatch" /\ UNCHANGED <<OidEntry, rPendComp>>
  /\ UNCHANGED <<ioctlVars, prIoReq, runs, fwVars, stopVars>>

MainCallsHandler ==
  /\ main = "dispatch" /\ OidEntry.req \in Requests
  /\ main' = "handler"
  /\ prIoReq' = OidEntry.req
  /\ runs' = [runs EXCEPT ![OidEntry.req] = @ + 1]
  /\ UNCHANGED <<ioctlVars, OidEntry, fgOid, rPendComp, fwVars, stopVars>>

\* (Mutant of HandlerReturns: the bit is cleared after the handler has run.)
HandlerReturnsClearsBit ==
  /\ main = "handler"
  /\ main' = "idle" /\ prIoReq' = "none"
  /\ fgOid' = FALSE
  /\ OidEntry' = [OidEntry EXCEPT !.rStatus = prIoReq]
  /\ rPendComp' = TRUE
  /\ UNCHANGED <<ioctlVars, runs, fwVars, stopVars>>

\* The status goes into OidEntry, whichever request is there by now.
HandlerReturns ==
  /\ main = "handler"
  /\ main' = "idle" /\ prIoReq' = "none"
  /\ IF Kind[prIoReq] = "firmware"
     THEN /\ OidEntry' = [OidEntry EXCEPT !.rStatus = "PENDING"]
          /\ pendingCmds' = pendingCmds \cup {prIoReq}
          /\ oidTimer' \in {TRUE, oidTimer}  \* apfnOidWOTimeoutCheck
          /\ UNCHANGED rPendComp
     ELSE /\ OidEntry' = [OidEntry EXCEPT !.rStatus = prIoReq]
          /\ rPendComp' = TRUE
          /\ UNCHANGED fwVars
  /\ UNCHANGED <<ioctlVars, fgOid, runs, stopVars>>

\* A kalIoctl made by main_thread itself bypasses OidEntry, but its command is
\* an OID command like any other.
DirectIoctl(r) ==
  /\ pc[r] = "new" /\ r \in Direct
  /\ main = "idle"
  /\ IF g_u4HaltFlag
     THEN Returns(r, "NOT_READY") /\ UNCHANGED <<runs, pendingCmds>>
     ELSE /\ runs' = [runs EXCEPT ![r] = @ + 1]
          /\ Returns(r, IF Kind[r] = "firmware" THEN "PENDING" ELSE r)
          /\ pendingCmds' =
               pendingCmds \cup (IF Kind[r] = "firmware" THEN {r} ELSE {})
  /\ UNCHANGED <<polls, ioctl_sem, OidEntry, fgOid, rPendComp, main, prIoReq,
                 oidTimer, stopVars>>

\* The response of the firmware, or the completion of a command without one.
FirmwareAnswers(r) ==
  /\ main = "idle" /\ r \in pendingCmds /\ ~fgHalt
  /\ pendingCmds' = pendingCmds \ {r}
  /\ kalOidComplete
  /\ UNCHANGED <<ioctlVars, OidEntry, mainVars, stopVars>>

\* wlanReleasePendingOid from rOidTimeoutTimer: all OID commands are completed.
OidTimesOut ==
  /\ main = "idle" /\ oidTimer /\ ~fgHalt
  /\ pendingCmds' = {}
  /\ IF pendingCmds = {}
     THEN oidTimer' = FALSE /\ UNCHANGED <<fgOid, rPendComp>>
     ELSE kalOidComplete
  /\ UNCHANGED <<ioctlVars, OidEntry, mainVars, stopVars>>

\* At its end main_thread completes the OID commands, unless it cannot take
\* MUTEX_TX_CMD_CLEAR at once.
MainExits ==
  /\ main = "idle" /\ fgHalt
  /\ main' = "exited"
  /\ \/ /\ pendingCmds # {}
        /\ pendingCmds' = {}
        /\ kalOidComplete
     \/ UNCHANGED <<fwVars, fgOid, rPendComp>>
  /\ UNCHANGED <<ioctlVars, OidEntry, prIoReq, runs, stopVars>>

-----------------------------------------------------------------------------
(* wlanRemove and wlanOffStopWlanThreads.                                  *)

SetHaltFlag ==
  /\ ~g_u4HaltFlag
  /\ g_u4HaltFlag' = TRUE
  /\ UNCHANGED <<ioctlVars, OidEntry, fgOid, rPendComp, mainVars, fwVars,
                 fgHalt, main_thread, stopped>>

SetHaltBit ==
  /\ g_u4HaltFlag /\ ~fgHalt
  /\ fgHalt' = TRUE
  /\ UNCHANGED <<ioctlVars, OidEntry, fgOid, rPendComp, mainVars, fwVars,
                 g_u4HaltFlag, main_thread, stopped>>

StopSnapshotsThreads ==
  /\ fgHalt /\ main_thread
  /\ main_thread' = FALSE
  /\ UNCHANGED <<ioctlVars, OidEntry, fgOid, rPendComp, mainVars, fwVars,
                 g_u4HaltFlag, fgHalt, stopped>>

\* After main_thread has been joined: the request that is still announced fails,
\* but only if rPendComp was never completed before.
StopFailsOngoingIoctl ==
  /\ ~main_thread /\ main = "exited" /\ ~stopped
  /\ stopped' = TRUE
  /\ fgOid' = FALSE
  /\ IF fgOid /\ ~rPendComp
     THEN /\ OidEntry' = [OidEntry EXCEPT !.rStatus = "FAILURE"]
          /\ rPendComp' = TRUE
     ELSE UNCHANGED <<OidEntry, rPendComp>>
  /\ UNCHANGED <<ioctlVars, mainVars, fwVars, g_u4HaltFlag, fgHalt, main_thread>>

-----------------------------------------------------------------------------
kalIoctl(r) ==
  \/ IoctlEnters(r) \/ IoctlDown(r) \/ IoctlFills(r) \/ IoctlSignals(r)
  \/ IoctlPolls(r) \/ IoctlJudges(r) \/ IoctlGivesUp(r) \/ IoctlReadsStatus(r)

MainThread ==
  \/ MainTakesOid \/ MainCallsHandler \/ HandlerReturns \/ MainExits

Next ==
  \/ \E r \in Requests : \/ kalIoctl(r) \/ IoctlInterrupted(r)
                         \/ DirectIoctl(r) \/ FirmwareAnswers(r)
  \/ MainThread
  \/ OidTimesOut
  \/ SetHaltFlag \/ SetHaltBit \/ StopSnapshotsThreads \/ StopFailsOngoingIoctl

Spec == Init /\ [][Next]_vars

\* Only the issuing threads are scheduled: nothing is asked of main_thread, which
\* may be blocked or gone, nor of the firmware.
FairSpec == Spec /\ \A r \in Requests \ Direct : WF_vars(kalIoctl(r))
-----------------------------------------------------------------------------
(* Properties.                                                             *)

Labels == {"new", "down", "fill", "signal", "poll", "judge", "giveup", "read",
           "done"}
Statuses == Requests \cup {"PENDING", "FAILURE", "NOT_READY", "none"}

\* Every variable keeps its type.
TypeOK ==
  /\ pc \in [Requests -> Labels]
  /\ result \in [Requests -> Statuses]
  /\ polls \in 0 .. MaxPolls
  /\ ioctl_sem \in Requests \cup {"none"}
  /\ OidEntry \in [req : Requests \cup {"none"}, rStatus : Statuses]
  /\ main \in {"idle", "dispatch", "handler", "exited"}
  /\ prIoReq \in Requests \cup {"none"}
  /\ pendingCmds \subseteq Requests
  /\ fgOid \in BOOLEAN /\ rPendComp \in BOOLEAN /\ oidTimer \in BOOLEAN
  /\ g_u4HaltFlag \in BOOLEAN /\ fgHalt \in BOOLEAN
  /\ main_thread \in BOOLEAN /\ stopped \in BOOLEAN
  /\ runs \in [Requests -> Nat]

Holding == {"fill", "signal", "poll", "judge", "giveup", "read"}
Submitted == Holding \ {"fill"}

\* From the moment its request is in OidEntry until kalIoctl returns, no other
\* issuer replaces it, however many poll, give up or are interrupted.
EntryIsOwners == \A r \in Requests : pc[r] \in Submitted => OidEntry.req = r

\* The handler of a request is run once: when a completion finds that the entry is
\* PENDING no more, kalOidComplete raises the OID bit over it, "to finish OID".
HandlerRunsOnce == \A r \in Requests : runs[r] <= 1

\* An announced request does not get lost in the one bit it shares with the
\* completions: when its issuer finds the bit clear, main_thread is about to run
\* the handler, has run it, or has failed the request.
RequestNotLost ==
  \A r \in Requests :
    /\ pc[r] \in {"poll", "judge", "giveup", "read"}
    /\ ~fgOid /\ main # "dispatch" /\ ~stopped
    => runs[r] >= 1 \/ OidEntry.rStatus = "FAILURE"

\* Every kalIoctl returns, with main_thread blocked or gone, the firmware silent,
\* and whoever else queues on the semaphore.
EveryIoctlReturns ==
  \A r \in Requests \ Direct : pc[r] # "new" ~> pc[r] = "done"
=============================================================================
