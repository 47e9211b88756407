------------------------------- MODULE AppProofs ------------------------------
(***************************************************************************)
(* What the application's main loop promises, for any buttons, any number  *)
(* of them down at once, and whatever goes on in the plugin.               *)
(***************************************************************************)
EXTENDS App, KwifimonProofs

USE DEF appVars, allVars, AGoto

\* A button that waits for its turn, or was served and not seen up, was down at
\* the last poll.
PadKnown ==
    in \subseteq pad_last /\ served \subseteq pad_last /\ OneActionPerPress

\* A step of main and one of the threads in the plugin, as the buttons see them.
LEMMA PadMain ==
    ASSUME PadKnown, MainStep PROVE PadKnown'
<1> USE DEF PadKnown, OneActionPerPress
<1>1. ASSUME NEW k, Turn(k), UNCHANGED pad_last PROVE PadKnown'
  BY <1>1 DEF Turn
<1>2. ASSUME in' \in {in, {}}, UNCHANGED <<pad_last, served>> PROVE PadKnown'
  BY <1>2
<1>3. CASE ServeCircle \/ ServeSquare \/ \E k \in {Triangle, Left, Right} : ServeCall(k)
  BY <1>1, <1>3 DEF ServeCircle, ServeSquare, ServeCall
<1>4. CASE Search \/ LoadFails \/ LoadKernel \/ Started \/ LoadUser
  BY <1>2, <1>4 DEF Search, LoadFails, LoadKernel, Started, LoadUser
<1>5. CASE \/ Returns \/ LoopEnds \/ UnloadUser \/ UnloadOther \/ UnloadKernel
           \/ Unloaded \/ UnloadFails
  BY <1>2, <1>5
     DEF Returns, LoopEnds, UnloadUser, UnloadOther, UnloadKernel, Unloaded,
         UnloadFails
<1> QED
  BY <1>3, <1>4, <1>5 DEF MainStep

LEMMA PadStep == PadKnown /\ [AppNext]_allVars => PadKnown'
<1> SUFFICES ASSUME PadKnown, [AppNext]_allVars PROVE PadKnown'
  OBVIOUS
<1> USE DEF PadKnown, OneActionPerPress
<1>1. CASE MainStep
  BY <1>1, PadMain
<1>2. CASE Inner
  BY <1>2 DEF Inner
<1>3. ASSUME NEW pad \in Pads, Poll(pad) \/ Prompt(pad) PROVE PadKnown'
  <2>1. in' = pad \ pad_last /\ pad_last' = pad /\ served' = served \cap pad
    BY <1>3 DEF Poll, Prompt, Sample
  <2> QED
    BY <2>1
<1>4. CASE Restart
  BY <1>4 DEF Restart
<1>5. CASE UNCHANGED allVars
  BY <1>5
<1> QED
  BY <1>1, <1>2, <1>3, <1>4, <1>5 DEF AppNext

\* A button does one thing each time it goes down (ui_get_input), for any set of
\* buttons and any time they are held through calls and the unloading.
THEOREM PressCorrect == AppSpec => []OneActionPerPress
<1>1. AppInit => PadKnown
  BY DEF AppInit, PadKnown, OneActionPerPress
<1>2. PadKnown => OneActionPerPress
  BY DEF PadKnown
<1> QED
  BY <1>1, <1>2, PadStep, PTL DEF AppSpec

-------------------------------------------------------------------------------
\* From the loading to the unloading kmod is the id of the module this run has
\* loaded; before it there is none, and after it the module is gone, unless the
\* kernel refused.
Keeps == {"starting", "load_user", "poll", "serve", "called", "unload_user",
          "unload_kernel", "unloading"}
ModuleKnown ==
    /\ ours => apc \in Keeps \cup {"prompt", "exit", "crashed"}
    /\ ours /\ apc \in Keeps => kmod = "kwifimon"
    /\ ours /\ ~refused /\ apc \in {"prompt", "exit"} => ~present

LEMMA ModuleMain ==
    ASSUME ModuleKnown, MainStep PROVE ModuleKnown'
<1> USE DEF ModuleKnown, Keeps
<1>1. CASE Search \/ LoadFails \/ LoadKernel \/ Started \/ LoadUser
  <2>1. CASE Search
    <3>1. apc = "search" /\ ours' = ours
      BY <2>1 DEF Search
    <3>2. ~ours
      BY <3>1
    <3> QED
      BY <3>1, <3>2
  <2>2. CASE LoadFails
    <3>1. apc = "load_kernel" /\ ours' = ours
      BY <2>2 DEF LoadFails
    <3>2. ~ours
      BY <3>1
    <3> QED
      BY <3>1, <3>2
  <2>3. CASE LoadKernel
    BY <2>3 DEF LoadKernel
  <2>4. CASE Started
    BY <2>4 DEF Started
  <2>5. CASE LoadUser
    <3>1. /\ apc = "load_user" /\ apc' \in {"poll", "crashed"}
          /\ UNCHANGED <<ours, kmod, present>>
      BY <2>5 DEF LoadUser
    <3> QED
      BY <3>1
  <2> QED
    BY <1>1, <2>1, <2>2, <2>3, <2>4, <2>5
<1>2. CASE ServeCircle \/ ServeSquare \/ \E k \in {Triangle, Left, Right} : ServeCall(k)
  BY <1>2 DEF ServeCircle, ServeSquare, ServeCall
<1>3. CASE Returns \/ LoopEnds
  BY <1>3 DEF Returns, LoopEnds
<1>4. CASE UnloadUser \/ UnloadOther \/ UnloadKernel \/ Unloaded \/ UnloadFails
  <2>1. CASE UnloadUser
    <3>1. /\ apc = "unload_user" /\ UNCHANGED <<ours, kmod, present>>
          /\ apc' = IF kmod = "error" THEN "prompt" ELSE "unload_kernel"
      BY <2>1 DEF UnloadUser
    <3> QED
      BY <3>1
  <2>2. CASE UnloadOther
    <3>1. apc = "unload_kernel" /\ kmod = "other" /\ ours' = ours
      BY <2>2 DEF UnloadOther
    <3>2. ~ours
      BY <3>1
    <3> QED
      BY <3>1, <3>2
  <2>3. CASE UnloadKernel
    BY <2>3 DEF UnloadKernel
  <2>4. CASE Unloaded
    <3>1. apc' = "prompt" /\ present' = FALSE
      BY <2>4 DEF Unloaded
    <3> QED
      BY <3>1
  <2>5. CASE UnloadFails
    <3>1. apc' = "prompt" /\ refused' = ours /\ ours' = ours
      BY <2>5 DEF UnloadFails
    <3> QED
      BY <3>1
  <2> QED
    BY <1>4, <2>1, <2>2, <2>3, <2>4, <2>5
<1> QED
  BY <1>1, <1>2, <1>3, <1>4 DEF MainStep

LEMMA ModuleStep == ModuleKnown /\ [AppNext]_allVars => ModuleKnown'
<1> SUFFICES ASSUME ModuleKnown, [AppNext]_allVars PROVE ModuleKnown'
  OBVIOUS
<1> USE DEF ModuleKnown, Keeps
<1>1. CASE MainStep
  BY <1>1, ModuleMain
<1>2. CASE Inner
  BY <1>2 DEF Inner
<1>3. ASSUME NEW pad \in Pads, Poll(pad) \/ Prompt(pad) PROVE ModuleKnown'
  BY <1>3 DEF Poll, Prompt
<1>4. CASE Restart
  BY <1>4 DEF Restart
<1>5. CASE UNCHANGED allVars
  BY <1>5
<1> QED
  BY <1>1, <1>2, <1>3, <1>4, <1>5 DEF AppNext

\* An application that loaded the module has unloaded it when it asks for the
\* last O, whichever of its other calls to the kernel failed: only the failing of
\* taiStopUnloadKernelModule itself leaves it there.
THEOREM UnloadedCorrect == AppSpec => []OwnModuleGone
<1>1. AppInit => ModuleKnown
  BY DEF AppInit, ModuleKnown, Keeps
<1>2. ModuleKnown => OwnModuleGone
  BY DEF ModuleKnown, OwnModuleGone
<1> QED
  BY <1>1, <1>2, ModuleStep, PTL DEF AppSpec

-------------------------------------------------------------------------------
(***************************************************************************)
(* The plugin under the application.                                       *)
(***************************************************************************)
\* What main knows of the plugin: it is in a syscall while it waits for one, and
\* the module it finds missing, or has just loaded, has nothing open.
Mains ==
    /\ apc = "called" <=> pc[Me] # "idle"
    /\ apc = "load_kernel" => ~present
    /\ ~present => lpc \in {"create", "unloaded"}
    /\ lpc = "create" => openFiles = {}

\* What main has displayed is what the plugin has reported and then reset; from
\* the reset to the return the reading is on its way.
Accounted ==
    /\ shown \in Counts
    /\ pc[Me] = "idle" <=> op[Me] = "none"
    /\ op[Me] \in {"none", "mod_stats_reset", "cap_start", "cap_stop"}
    /\ pc[Me] \in {"copy", "reset"} => op[Me] = "mod_stats_reset"
    /\ pc[Me] \notin {"copy", "reset", "unlock"} => DOMAIN snap[Me] = {}
    /\ reported =
         IF pc[Me] = "unlock" /\ DOMAIN snap[Me] = Kinds
         THEN [k \in Kinds |-> Add(shown[k], snap[Me][k])] ELSE shown

AppInv == IInv /\ StopsClean /\ Mains /\ Accounted

USE DEF Me, vars, lockVars, fileVars, sockVars, stateVars, statVars, callVars,
        rxVars, modVars, RxKeeps

\* What main asks for is one of the three syscalls it knows.
LEMMA CallForCalls ==
    ASSUME NEW k \in {Triangle, Left, Right}
    PROVE  /\ CallFor(k) \in Calls
           /\ CallFor(k) \in {"mod_stats_reset", "cap_start", "cap_stop"}
BY AppAssumption DEF CallFor, Triangle, Left, Right

\* Main's own steps that leave the plugin alone.
Outside ==
    \/ Search \/ LoadFails \/ Started \/ LoadUser \/ ServeCircle \/ ServeSquare
    \/ LoopEnds \/ UnloadUser \/ UnloadOther \/ UnloadFails \/ Restart
    \/ \E pad \in Pads : Poll(pad) \/ Prompt(pad)

LEMMA OutsideKeeps ==
    ASSUME Outside, Mains
    PROVE  UNCHANGED <<vars, shown>> /\ Mains'
<1> USE DEF Mains
<1>1. CASE Search \/ LoadFails \/ Started \/ LoadUser
  BY <1>1 DEF Search, LoadFails, Started, LoadUser
<1>2. CASE ServeCircle \/ ServeSquare \/ LoopEnds
  BY <1>2 DEF ServeCircle, ServeSquare, LoopEnds
<1>3. CASE UnloadUser \/ UnloadOther \/ UnloadFails
  BY <1>3 DEF UnloadUser, UnloadOther, UnloadFails
<1>4. CASE Restart
  BY <1>4 DEF Restart
<1>5. ASSUME NEW pad \in Pads, Poll(pad) \/ Prompt(pad)
      PROVE  UNCHANGED <<vars, shown>> /\ Mains'
  BY <1>5 DEF Poll, Prompt
<1> QED
  BY <1>1, <1>2, <1>3, <1>4, <1>5 DEF Outside

\* Every step but the loading of the module is one of the plugin, or none.
LEMMA AppSteps ==
    ASSUME [AppNext]_allVars
    PROVE  \/ LoadKernel \/ Outside \/ Returns \/ UnloadKernel \/ Unloaded \/ Inner
           \/ \E k \in {Triangle, Left, Right} : ServeCall(k)
           \/ UNCHANGED allVars
BY DEF AppNext, MainStep, Outside

LEMMA PluginSteps ==
    ASSUME [AppNext]_allVars, ~LoadKernel, Mains PROVE [Next]_vars
<1>1. Unloader \in Callers
  BY ConstantsAssumption
<1>2. CASE Outside
  BY <1>2, OutsideKeeps
<1>3. CASE Returns
  BY <1>1, <1>3 DEF Returns, Next, Serve, CallerStep
<1>4. CASE UnloadKernel \/ Unloaded
  BY <1>4 DEF UnloadKernel, Unloaded, Next
<1>5. CASE Inner
  BY <1>1, <1>5 DEF Inner, Next, Serve
<1>6. ASSUME NEW k \in {Triangle, Left, Right}, ServeCall(k) PROVE [Next]_vars
  BY <1>1, <1>6, CallForCalls DEF ServeCall, Next, Serve
<1> QED
  BY <1>2, <1>3, <1>4, <1>5, <1>6, AppSteps

\* A module that is loaded anew starts as the first one did, with the receive
\* thread that was in the old code lost.
LEMMA LoadInv == ASSUME AppInv, LoadKernel PROVE AppInv'
<1>1. /\ lpc \in {"create", "unloaded"} /\ openFiles = {} /\ pc[Me] = "idle"
      /\ TypeOK /\ CopiesComplete /\ Accounted
  BY DEF AppInv, IInv, LoadKernel, Mains, StopsClean, Ended
<1>2. /\ mutex' = "absent" /\ lpc' = "create" /\ hooks' = {} /\ holder' = {}
      /\ kwifimon_state' = {} /\ pcap_fd' = NoFd /\ knet_fd' = NoFd
      /\ kwifimon_stats' = Zero /\ seen' = Zero /\ reported' = Zero /\ shown' = Zero
      /\ rxpc' \in {"idle", "lost"} /\ apc' = "starting" /\ present' = TRUE
      /\ UNCHANGED <<openFiles, openSocks, word, snap, pc, op, frame, count>>
  BY DEF LoadKernel, STATE_IDLE
<1>3. Zero \in Counts
  BY WordArithmetic DEF Zero, Counts
<1>4. TypeOK'
  BY <1>1, <1>2, <1>3 DEF TypeOK, RxPcs, LifePcs
<1>5. \A c \in Callers : pc'[c] = "idle"
  BY <1>1, <1>2, AppAssumption
<1>6. MutexOwned'
  <2>1. \A t \in Threads : ~Inside(t)'
    BY <1>2, <1>5 DEF Threads, Inside
  <2> QED
    BY <1>2, <2>1 DEF MutexOwned
<1>7. /\ CopiesComplete' /\ RegistersFresh' /\ Lifecycle' /\ Unworked'
      /\ ErrorKept'
  BY <1>1, <1>2, <1>5
     DEF CopiesComplete, RegistersFresh, Lifecycle, Unworked, Untouched, ErrorKept
<1>8. StatsConservation'
  BY <1>2, WordArithmetic, WordSums, ConstantsAssumption
     DEF StatsConservation, InFlight, Zero, Add
<1>9. HandlesInv' /\ StopsClean'
  BY <1>1, <1>2, <1>5
     DEF HandlesInv, HandlesLive, StopsClean, Stopping, Ended
<1>10. Mains' /\ Accounted'
  BY <1>1, <1>2, <1>3 DEF Mains, Accounted
<1> QED
  BY <1>4, <1>6, <1>7, <1>8, <1>9, <1>10 DEF AppInv, IInv

\* A call's steps up to its return, as main's account of the counters sees them.
LEMMA AccountedCall ==
    ASSUME AppInv, CallerStep(Me), pc'[Me] # "idle", UNCHANGED shown
    PROVE  Accounted'
<1> USE DEF Accounted, Goto
<1>1. Me \in Callers /\ TypeOK /\ CopiesComplete /\ Accounted
  BY ConstantsAssumption DEF AppInv, IInv
<1>2. CASE CopyStat(Me) /\ UNCHANGED op
  <2>1. PICK k \in Kinds \ DOMAIN snap[Me] :
          LET copied == DOMAIN snap[Me] \cup {k}
          IN  /\ snap' = [snap EXCEPT ![Me] =
                   [j \in copied |-> IF j = k THEN kwifimon_stats[k]
                                              ELSE snap[Me][j]]]
              /\ Goto(Me, "copy",
                     IF copied # Kinds THEN "copy"
                     ELSE IF op[Me] = "mod_stats_reset" THEN "reset"
                     ELSE "unlock")
    BY <1>2 DEF CopyStat
  <2>2. pc[Me] = "copy" /\ op[Me] = "mod_stats_reset"
    BY <1>1, <2>1
  <2>3. pc'[Me] \in {"copy", "reset"} /\ UNCHANGED <<op, reported, shown>>
    BY <1>1, <1>2, <2>1, <2>2 DEF TypeOK, CopyStat
  <2> QED
    BY <1>1, <2>2, <2>3
<1>3. CASE ResetStats(Me) /\ UNCHANGED op
  <2>1. pc[Me] = "reset" /\ pc'[Me] = "unlock" /\ DOMAIN snap[Me] = Kinds
    BY <1>1, <1>3 DEF ResetStats, TypeOK, CopiesComplete
  <2>2. reported = shown
    BY <1>1, <2>1
  <2>3. reported' = [k \in Kinds |-> Add(shown'[k], snap'[Me][k])]
    BY <1>3, <2>2 DEF ResetStats
  <2> QED
    BY <1>1, <1>3, <2>1, <2>3 DEF ResetStats
<1>4. ASSUME pc[Me] \notin {"idle", "copy", "reset", "unlock"},
             pc'[Me] \notin {"idle", "copy", "reset"},
             UNCHANGED <<op, snap, reported>>
      PROVE  Accounted'
  <2>1. DOMAIN snap[Me] = {} /\ "pkt" \in Kinds
    BY <1>1, <1>4 DEF Kinds
  <2> QED
    BY <1>1, <1>4, <2>1
<1>5. CASE LockFails(Me) \/ Unlock(Me)
  BY <1>1, <1>5 DEF LockFails, Unlock, TypeOK
<1>6. CASE PcapOpen(Me) /\ UNCHANGED op
  BY <1>1, <1>4, <1>6 DEF PcapOpen, PcapRelease, PcapForget, TypeOK
<1>7. CASE PcapClose(Me) /\ UNCHANGED op
  BY <1>1, <1>4, <1>7, AfterClosePc DEF PcapClose, PcapRelease, PcapForget, TypeOK
<1>8. CASE (KnetStart(Me) \/ KnetStop(Me)) /\ UNCHANGED op
  BY <1>1, <1>4, <1>8 DEF KnetStart, KnetStop, TypeOK
<1>9. CASE UpdateState(Me) /\ UNCHANGED op
  BY <1>1, <1>4, <1>9 DEF UpdateState, TypeOK
<1> QED
  BY <1>2, <1>3, <1>5, <1>6, <1>7, <1>8, <1>9 DEF CallerStep

LEMMA AccountedStep ==
    ASSUME AppInv, [AppNext]_allVars, ~LoadKernel PROVE Accounted'
<1> USE DEF Accounted, Goto
<1>1. Me \in Callers /\ TypeOK /\ CopiesComplete /\ Accounted /\ Mains
  BY ConstantsAssumption DEF AppInv, IInv
<1>11. Callers = {Me} /\ (lpc = "unloaded" => pc[Me] = "idle")
  BY AppAssumption DEF AppInv, StopsClean
<1>2. ASSUME UNCHANGED <<pc, op, snap, reported, shown>> PROVE Accounted'
  BY <1>1, <1>2
<1>3. CASE Outside
  BY <1>1, <1>2, <1>3, OutsideKeeps
<1>4. CASE UnloadKernel \/ Unloaded
  BY <1>2, <1>4 DEF UnloadKernel, StopBegins, Unloaded, Unload
<1>5. ASSUME NEW k \in {Triangle, Left, Right}, ServeCall(k) PROVE Accounted'
  <2>1. /\ pc[Me] = "idle" /\ pc'[Me] = "lock" /\ op'[Me] = CallFor(k)
        /\ UNCHANGED <<snap, reported, shown>>
    BY <1>1, <1>5 DEF ServeCall, Call, TypeOK
  <2>2. DOMAIN snap[Me] = {} /\ reported = shown
    BY <1>1, <2>1
  <2> QED
    BY <1>1, <2>1, <2>2, CallForCalls
<1>6. CASE Returns
  <2>1. CASE LockFails(Me)
    <3>1. /\ pc[Me] = "lock" /\ pc'[Me] = "idle" /\ op'[Me] = "none"
          /\ UNCHANGED <<snap, reported>>
      BY <1>1, <2>1 DEF LockFails, TypeOK
    <3>2. shown' = shown /\ DOMAIN snap[Me] = {}
      BY <1>1, <1>6, <3>1 DEF Returns
    <3> QED
      BY <1>1, <3>1, <3>2
  <2>2. CASE Unlock(Me)
    <3>1. /\ pc[Me] = "unlock" /\ pc'[Me] = "idle" /\ op'[Me] = "none"
          /\ snap'[Me] = Nothing /\ UNCHANGED reported
      BY <1>1, <2>2 DEF Unlock, TypeOK
    <3>2. shown' = reported
      BY <1>1, <1>6, <3>1 DEF Returns
    <3>3. reported \in Counts /\ DOMAIN Nothing = {}
      BY <1>1 DEF TypeOK, Nothing
    <3> QED
      BY <3>1, <3>2, <3>3
  <2> QED
    BY <1>6, <2>1, <2>2 DEF Returns
<1>7. CASE Inner
  <2>1. CASE Lock(Me)
    <3>1. /\ pc[Me] = "lock" /\ pc'[Me] = FirstStep(op[Me])
          /\ UNCHANGED <<op, snap, reported, shown>>
      BY <1>1, <1>7, <2>1 DEF Lock, Inner, TypeOK
    <3>2. DOMAIN snap[Me] = {} /\ op[Me] \in {"mod_stats_reset", "cap_start", "cap_stop"}
      BY <1>1, <3>1
    <3>3. pc'[Me] \in {"open", "close", "copy"}
             /\ (pc'[Me] = "copy" => op[Me] = "mod_stats_reset")
      BY <3>1, <3>2 DEF FirstStep
    <3> QED
      BY <1>1, <3>1, <3>2, <3>3
  <2>2. CASE CallerStep(Me) /\ pc'[Me] # "idle"
    BY <1>7, <2>2, AccountedCall DEF Inner
  <2>3. CASE \/ RxStep
             \/ (RxLock \/ \E f \in Frames : RxEnter(f)) /\ UNCHANGED RxKeeps
    BY <1>2, <1>7, <2>3
       DEF Inner, RxStep, RxLockFails, RxCount, RxUnlock, RxRoute, RxLock, RxEnter
  <2>4. CASE ModuleStart \/ ModuleStop \/ Lost
    BY <1>2, <1>7, <1>11, <2>4 DEF Inner, ModuleStart, ModuleStop, Lost
  <2> QED
    BY <1>7, <2>1, <2>2, <2>3, <2>4 DEF Inner
<1> QED
  BY <1>2, <1>3, <1>4, <1>5, <1>6, <1>7, AppSteps

\* Main is in a call until the call returns, and while there is no module the
\* plugin does not run.
LEMMA MainsStep ==
    ASSUME AppInv, [AppNext]_allVars, ~LoadKernel PROVE Mains'
<1> USE DEF Mains, Goto
<1>1. /\ Me \in Callers /\ TypeOK /\ Mains /\ Callers = {Me}
      /\ lpc = "unloaded" => pc[Me] = "idle"
  BY ConstantsAssumption, AppAssumption DEF AppInv, IInv, StopsClean
<1>2. ASSUME UNCHANGED <<pc, lpc, openFiles, apc, present>> PROVE Mains'
  BY <1>1, <1>2
<1>3. CASE Outside
  BY <1>1, <1>3, OutsideKeeps
<1>4. CASE UnloadKernel \/ Unloaded
  BY <1>1, <1>4 DEF UnloadKernel, StopBegins, Unloaded, Unload, LGoto
<1>5. ASSUME NEW k \in {Triangle, Left, Right}, ServeCall(k) PROVE Mains'
  BY <1>1, <1>5 DEF ServeCall, Call, MayCall, TypeOK
<1>6. CASE Returns
  BY <1>1, <1>6 DEF Returns, LockFails, Unlock, TypeOK
<1>7. CASE Inner
  <2>1. UNCHANGED <<apc, present>>
    BY <1>7 DEF Inner
  <2>2. CASE Lock(Me)
    <3>1. pc[Me] = "lock" /\ pc'[Me] # "idle" /\ UNCHANGED <<lpc, openFiles>>
      BY <1>1, <2>2, FirstStepPc DEF Lock, TypeOK
    <3> QED
      BY <1>1, <2>1, <3>1
  <2>3. CASE CallerStep(Me) /\ pc'[Me] # "idle"
    <3>1. lpc' = lpc
      BY <2>3 DEF CallerStep
    <3>2. pc[Me] # "idle"
      BY <2>3
         DEF CallerStep, LockFails, Unlock, PcapOpen, PcapClose, PcapRelease,
             PcapForget, KnetStart, KnetStop, UpdateState, CopyStat, ResetStats
    <3>3. lpc # "create"
      BY <1>1, <3>2 DEF AppInv, IInv, ErrorKept
    <3> QED
      BY <1>1, <2>1, <2>3, <3>1, <3>2, <3>3
  <2>4. CASE \/ RxStep
             \/ (RxLock \/ \E f \in Frames : RxEnter(f)) /\ UNCHANGED RxKeeps
    BY <1>2, <2>1, <2>4 DEF RxStep
  <2>5. CASE present /\ ModuleStart
    BY <1>1, <2>1, <2>5 DEF ModuleStart, PlaceHook, LGoto
  <2>6. CASE ModuleStop
    <3>1. lpc \in Stopping /\ lpc' \in Stopping \cup {"stopped"} /\ UNCHANGED pc
      BY <2>6 DEF ModuleStop, StopFile, StopNet, ReleaseHook, LGoto, Stopping
    <3> QED
      BY <1>1, <2>1, <3>1 DEF Stopping
  <2>7. CASE Lost
    BY <1>1, <1>2, <2>1, <2>7 DEF Lost
  <2> QED
    BY <1>7, <2>2, <2>3, <2>4, <2>5, <2>6, <2>7 DEF Inner
<1> QED
  BY <1>2, <1>3, <1>4, <1>5, <1>6, <1>7, AppSteps

LEMMA AppStepInv == AppInv /\ [AppNext]_allVars => AppInv'
<1> SUFFICES ASSUME AppInv, [AppNext]_allVars PROVE AppInv'
  OBVIOUS
<1>1. CASE ~LoadKernel
  <2>1. [Next]_vars /\ Mains' /\ Accounted'
    BY <1>1, PluginSteps, MainsStep, AccountedStep DEF AppInv
  <2> QED
    BY <2>1, StepIInv, StopsCleanStep, AppAssumption DEF AppInv
<1> QED
  BY <1>1, LoadInv

LEMMA AppInitInv == AppInit => AppInv
<1> SUFFICES ASSUME AppInit PROVE AppInv
  OBVIOUS
<1>1. IInv /\ Zero \in Counts /\ Me \in Callers
  BY InitIInv, WordArithmetic, ConstantsAssumption DEF AppInit, Zero, Counts
<1>2. StopsClean /\ Mains
  BY <1>1 DEF AppInit, Init, StopsClean, Stopping, Ended, Mains
<1>3. Accounted
  BY <1>1 DEF AppInit, Init, Accounted, Nothing
<1> QED
  BY <1>1, <1>2, <1>3 DEF AppInv

LEMMA AlwaysAppInv == AppSpec => []AppInv
BY AppInitInv, AppStepInv, PTL DEF AppSpec

\* Between calls the frames that entered the hook are those displayed and those
\* in the counters, over all readings and all runs of the application on the
\* same module, for any width of the counters (ui.c's display of what
\* kwifimon_mod_stats copied out and cleared).
THEOREM DisplayCorrect == AppSpec => []DisplayAddsUp
<1>1. ASSUME AppInv PROVE DisplayAddsUp
  <2>1. apc # "called" => reported = shown
    BY <1>1 DEF AppInv, Mains, Accounted
  <2>2. StatsConservation
    BY <1>1 DEF AppInv, IInv
  <2> QED
    BY <2>1, <2>2 DEF StatsConservation, DisplayAddsUp
<1> QED
  BY <1>1, AlwaysAppInv, PTL

\* Every time the application has stopped the module no file is left open, the
\* module being loaded anew any number of times with a receive thread lost in
\* the old code.
THEOREM AppUnloadCorrect == AppSpec => []UnloadLeavesNoFile
<1>1. AppInv => UnloadLeavesNoFile
  BY DEF AppInv, StopsClean, UnloadLeavesNoFile, Stopping, Ended
<1> QED
  BY <1>1, AlwaysAppInv, PTL

\* Nor is a hook ever in place over a deleted mutex, or work done where the mutex
\* could not be created, over all those loadings.
THEOREM AppHooksCorrect == AppSpec => []NoWorkUnlocked
<1>1. AppInv => NoWorkUnlocked
  BY DEF AppInv, IInv, TypeOK, LifePcs, Ended, Stopping, Lifecycle, Unworked,
         NoWorkUnlocked
<1> QED
  BY <1>1, AlwaysAppInv, PTL
===============================================================================
