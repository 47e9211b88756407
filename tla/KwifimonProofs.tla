---------------------------- MODULE KwifimonProofs ----------------------------
(***************************************************************************)
(* The safety properties of Kwifimon, for any number of callers, frames    *)
(* and descriptors and any width of the counters, and that Kwifimon at     *)
(* work implements WifimonService.                                         *)
(***************************************************************************)
EXTENDS Kwifimon, TLAPS

-------------------------------------------------------------------------------
(***************************************************************************)
(* The operators the model is built from.                                  *)
(***************************************************************************)
\* A frame bumps one of the five counters of wifimon_stats_t.
LEMMA CounterOfKind == ASSUME NEW f PROVE CounterOf(f) \in Kinds
BY DEF CounterOf, Kinds

\* uint32_t sums and increments stay in their word, and 0 is in it.
LEMMA WordArithmetic ==
    /\ 0 \in Words
    /\ \A a, b \in Words : Add(a, b) \in Words /\ Inc(a) \in Words
BY ConstantsAssumption DEF Words, Add, Inc

\* Adding nothing, adding one frame, counting it and resetting commute.
LEMMA WordSums ==
    ASSUME NEW s \in Words, NEW r \in Words
    PROVE  /\ Add(Add(s, r), 0) = Add(s, r)
           /\ Add(Add(s, r), 1) = Inc(Add(s, r))
           /\ Add(Add(Inc(s), r), 0) = Add(Add(s, r), 1)
           /\ Add(0, Add(r, s)) = Add(s, r)
BY ConstantsAssumption DEF Words, Add, Inc

\* The first step of a syscall is inside its critical section.
LEMMA FirstStepPc ==
    ASSUME NEW o
    PROVE  FirstStep(o) \in {"open", "close", "sock", "shut", "copy"}
BY DEF FirstStep

LEMMA AfterClosePc == ASSUME NEW o PROVE AfterClose(o) \in {"flags", "unlock"}
BY DEF AfterClose

\* The bits a syscall stores.
LEMMA NewStateBits ==
    ASSUME NEW o, NEW w \in SUBSET Bits
    PROVE  NewState(o, w) \in SUBSET Bits /\ (31 \in w => 31 \in NewState(o, w))
BY DEF NewState, Bits, STATE_REC_FILE, STATE_REC_NET

-------------------------------------------------------------------------------
(***************************************************************************)
(* Types.                                                                  *)
(***************************************************************************)
USE DEF vars, lockVars, fileVars, sockVars, stateVars, statVars, callVars,
        rxVars, modVars, RxKeeps

\* A caller's copy of the counters: empty until it has the mutex, complete when
\* it resets them.
CopiesComplete ==
    \A c \in Callers :
        /\ pc[c] \in {"idle", "lock"} => DOMAIN snap[c] = {}
        /\ pc[c] = "reset" => DOMAIN snap[c] = Kinds

\* A partial copy has counters in it.
LEMMA ViewFunction ==
    ASSUME NEW v \in Views
    PROVE  /\ DOMAIN v \subseteq Kinds
           /\ v = [k \in DOMAIN v |-> v[k]]
           /\ \A k \in DOMAIN v : v[k] \in Words
BY DEF Views

\* The initial state is well typed.
LEMMA TypeInit == Init => TypeOK
<1>1. Nothing \in Views
  <2>1. Nothing \in [{} -> Words]
    BY DEF Nothing
  <2> QED
    BY <2>1 DEF Views
<1> QED
  BY <1>1, WordArithmetic
     DEF Init, TypeOK, Zero, Counts, NoFd, States, CallPcs, RxPcs, LifePcs,
         STATE_IDLE

\* A step of a syscall keeps the types.
LEMMA TypeCaller ==
    ASSUME TypeOK, CopiesComplete, NEW c \in Callers, CallerStep(c)
    PROVE  TypeOK'
<1> USE DEF CallerStep, TypeOK, Goto
<1>1. CASE LockFails(c)
  BY <1>1 DEF LockFails, CallPcs
<1>2. CASE Unlock(c)
  <2>1. Nothing \in Views
    <3>1. Nothing \in [{} -> Words]
      BY DEF Nothing
    <3> QED
      BY <3>1 DEF Views
  <2> QED
    BY <1>2, <2>1 DEF Unlock, CallPcs, States
<1>3. CASE PcapOpen(c) /\ UNCHANGED op
  BY <1>3 DEF PcapOpen, PcapRelease, PcapForget, CallPcs
<1>4. CASE PcapClose(c) /\ UNCHANGED op
  BY <1>4, AfterClosePc DEF PcapClose, PcapRelease, PcapForget, CallPcs
<1>5. CASE KnetStart(c) /\ UNCHANGED op
  BY <1>5 DEF KnetStart, CallPcs
<1>6. CASE KnetStop(c) /\ UNCHANGED op
  BY <1>6 DEF KnetStop, CallPcs
<1>7. CASE UpdateState(c) /\ UNCHANGED op
  BY <1>7, NewStateBits DEF UpdateState, CallPcs, States
<1>8. CASE CopyStat(c) /\ UNCHANGED op
  <2>1. PICK k \in Kinds \ DOMAIN snap[c] :
          /\ snap' = [snap EXCEPT ![c] =
                       [j \in DOMAIN snap[c] \cup {k} |->
                          IF j = k THEN kwifimon_stats[k] ELSE snap[c][j]]]
          /\ \E to \in {"copy", "reset", "unlock"} : Goto(c, "copy", to)
    BY <1>8 DEF CopyStat
  <2> DEFINE K == DOMAIN snap[c] \cup {k}
             v == [j \in K |-> IF j = k THEN kwifimon_stats[k] ELSE snap[c][j]]
  <2>2. K \in SUBSET Kinds
    BY ViewFunction
  <2>3. v \in [K -> Words]
    BY ViewFunction DEF Counts
  <2>4. v \in Views
    BY <2>2, <2>3 DEF Views
  <2>5. snap' \in [Callers -> Views]
    BY <2>1, <2>4
  <2>6. pc' \in [Callers -> CallPcs]
    BY <2>1 DEF CallPcs
  <2> QED
    BY <1>8, <2>5, <2>6 DEF CopyStat
<1>9. CASE ResetStats(c) /\ UNCHANGED op
  <2>1. \A k \in Kinds : snap[c][k] \in Words
    BY <1>9, ViewFunction DEF ResetStats, CopiesComplete
  <2>2. reported' \in Counts /\ kwifimon_stats' \in Counts
    BY <1>9, <2>1, WordArithmetic DEF ResetStats, Counts, Zero
  <2> QED
    BY <1>9, <2>2 DEF ResetStats, CallPcs
<1> QED
  BY <1>1, <1>2, <1>3, <1>4, <1>5, <1>6, <1>7, <1>8, <1>9

\* A call, or taking the mutex.
LEMMA TypeEntry ==
    ASSUME TypeOK, NEW c \in Callers,
           Lock(c) \/ \E o \in Calls : Call(c, o)
    PROVE  TypeOK'
<1>1. CASE Lock(c)
  BY <1>1, FirstStepPc DEF Lock, Goto, TypeOK, CallPcs, Threads
<1>2. ASSUME NEW o \in Calls, Call(c, o) PROVE TypeOK'
  BY <1>2 DEF Call, Goto, TypeOK, CallPcs
<1> QED
  BY <1>1, <1>2

\* A step of the receive thread.
LEMMA TypeRx ==
    ASSUME TypeOK,
           RxStep \/ ((RxLock \/ \E f \in Frames : RxEnter(f)) /\ UNCHANGED RxKeeps)
    PROVE  TypeOK'
<1> USE DEF TypeOK, RxGoto
<1>1. ASSUME NEW f \in Frames, RxEnter(f), UNCHANGED RxKeeps PROVE TypeOK'
  <2>1. seen' \in Counts
    BY <1>1, CounterOfKind, WordArithmetic DEF RxEnter, Counts
  <2> QED
    BY <1>1, <2>1 DEF RxEnter, RxPcs
<1>2. CASE RxLock /\ UNCHANGED RxKeeps
  BY <1>2 DEF RxLock, RxPcs, Threads
<1>3. CASE RxLockFails /\ UNCHANGED RxKeeps
  BY <1>3 DEF RxLockFails, RxPcs
<1>4. CASE RxCount /\ UNCHANGED RxKeeps
  <2>1. count' \in Words /\ kwifimon_stats' \in Counts
    BY <1>4, CounterOfKind, WordArithmetic DEF RxCount, Counts
  <2> QED
    BY <1>4, <2>1 DEF RxCount, RxPcs
<1>5. CASE RxUnlock /\ UNCHANGED RxKeeps
  BY <1>5 DEF RxUnlock, RxPcs
<1>6. CASE RxRoute /\ UNCHANGED RxKeeps
  BY <1>6 DEF RxRoute, RxPcs
<1> QED
  BY <1>1, <1>2, <1>3, <1>4, <1>5, <1>6 DEF RxStep

\* A step of module_start, of module_stop or of the unloading.
LEMMA TypeModule ==
    ASSUME TypeOK, ModuleStart \/ StopBegins \/ ModuleStop \/ Unload \/ Lost
    PROVE  TypeOK'
<1> USE DEF TypeOK, LGoto, LifePcs, Stopping, Ended
<1>1. CASE ModuleStart
  BY <1>1 DEF ModuleStart, PlaceHook, STATE_ERROR, Bits
<1>2. CASE StopBegins
  BY <1>2 DEF StopBegins
<1>3. CASE ModuleStop
  BY <1>3 DEF ModuleStop, StopFile, StopNet, ReleaseHook, STATE_IDLE, Bits
<1>4. CASE Unload
  BY <1>4 DEF Unload
<1>5. CASE Lost
  BY <1>5 DEF Lost, CallPcs, RxPcs
<1> QED
  BY <1>1, <1>2, <1>3, <1>4, <1>5

\* No step spoils a copy: it grows only in the critical section, reaches the
\* reset only when it is complete, and is dropped with the unlock.
LEMMA CopiesStep ==
    ASSUME TypeOK, CopiesComplete, [Next]_vars PROVE CopiesComplete'
<1> USE DEF CopiesComplete, TypeOK, Goto
<1>1. ASSUME NEW c \in Callers, CallerStep(c) PROVE CopiesComplete'
  <2>1. CASE CopyStat(c) /\ UNCHANGED op
    BY <1>1, <2>1 DEF CopyStat
  <2>2. CASE Unlock(c)
    BY <1>1, <2>2 DEF Unlock, Nothing
  <2>3. CASE LockFails(c)
    BY <1>1, <2>3 DEF LockFails
  <2>4. CASE /\ UNCHANGED <<op, snap>>
             /\ \E to \in CallPcs \ {"idle", "lock", "reset"} :
                   pc' = [pc EXCEPT ![c] = to]
    BY <2>4
  <2> QED
    BY <1>1, <2>1, <2>2, <2>3, <2>4, AfterClosePc
       DEF CallerStep, PcapOpen, PcapClose, PcapRelease, PcapForget, KnetStart,
           KnetStop, UpdateState, ResetStats, CallPcs
<1>2. ASSUME NEW c \in Callers, Lock(c) PROVE CopiesComplete'
  BY <1>2, FirstStepPc DEF Lock
<1>3. ASSUME NEW c \in Callers, NEW o \in Calls, Call(c, o)
      PROVE  CopiesComplete'
  BY <1>3 DEF Call
<1>4. CASE UNCHANGED <<pc, snap>>
  BY <1>4
<1>5. CASE Lost
  BY <1>5 DEF Lost
<1> QED
  BY <1>1, <1>2, <1>3, <1>4, <1>5
     DEF Next, Serve, ModuleStart, StopBegins, ModuleStop, Unload, RxStep,
         RxLockFails, RxCount, RxUnlock, RxRoute, RxLock, RxEnter

\* No step spoils a type.
LEMMA TypeStep ==
    ASSUME TypeOK, CopiesComplete, [Next]_vars PROVE TypeOK'
<1>1. ASSUME UNCHANGED vars PROVE TypeOK'
  BY <1>1 DEF TypeOK
<1>2. ASSUME NEW c \in Callers,
             CallerStep(c) \/ Lock(c) \/ \E o \in Calls : Call(c, o)
      PROVE  TypeOK'
  BY <1>2, TypeCaller, TypeEntry
<1>3. ASSUME RxStep \/ ((RxLock \/ \E f \in Frames : RxEnter(f))
                          /\ UNCHANGED RxKeeps)
      PROVE  TypeOK'
  BY <1>3, TypeRx
<1>4. ASSUME ModuleStart \/ StopBegins \/ ModuleStop \/ Unload \/ Lost
      PROVE  TypeOK'
  BY <1>4, TypeModule
<1> QED
  BY <1>1, <1>2, <1>3, <1>4 DEF Next, Serve

-------------------------------------------------------------------------------
(***************************************************************************)
(* Mutual exclusion.                                                       *)
(***************************************************************************)
\* The steps of a syscall other than the failed lock and the unlock begin and
\* end between lock and unlock.
LEMMA CallerWork ==
    ASSUME NEW c \in Callers, CallerStep(c), TypeOK
    PROVE  \/ LockFails(c) \/ Unlock(c)
           \/ /\ pc[c] \notin {"idle", "lock", "lost"}
              /\ \E to \in CallPcs \ {"idle", "lock", "lost"} :
                    pc' = [pc EXCEPT ![c] = to]
              /\ UNCHANGED holder
BY AfterClosePc
   DEF CallerStep, PcapOpen, PcapClose, PcapRelease, PcapForget, KnetStart,
       KnetStop, UpdateState, CopyStat, ResetStats, CallPcs, Goto, TypeOK

\* No step takes the mutex from its owner or leaves it behind.
LEMMA MutexStep ==
    ASSUME TypeOK, MutexOwned, [Next]_vars PROVE MutexOwned'
<1> USE ConstantsAssumption DEF MutexOwned, Inside, Threads
<1>1. ASSUME NEW c \in Callers, CallerStep(c) PROVE MutexOwned'
  <2> UNCHANGED rxpc
    BY <1>1 DEF CallerStep
  <2>1. CASE LockFails(c)
    BY <2>1 DEF LockFails, Goto, TypeOK
  <2>2. CASE Unlock(c)
    BY <2>2 DEF Unlock, Goto, TypeOK
  <2>3. CASE /\ pc[c] \notin {"idle", "lock", "lost"}
             /\ \E to \in CallPcs \ {"idle", "lock", "lost"} :
                   pc' = [pc EXCEPT ![c] = to]
             /\ UNCHANGED holder
    BY <2>3 DEF TypeOK
  <2> QED
    BY <1>1, <2>1, <2>2, <2>3, CallerWork
<1>2. ASSUME NEW c \in Callers, Lock(c) PROVE MutexOwned'
  BY <1>2, FirstStepPc DEF Lock, Goto, TypeOK
<1>3. ASSUME NEW c \in Callers, NEW o \in Calls, Call(c, o) PROVE MutexOwned'
  BY <1>3 DEF Call, Goto, TypeOK
<1>4. ASSUME NEW f \in Frames, RxEnter(f), UNCHANGED RxKeeps PROVE MutexOwned'
  BY <1>4 DEF RxEnter, RxGoto
<1>5. ASSUME RxLock, UNCHANGED RxKeeps PROVE MutexOwned'
  BY <1>5 DEF RxLock, RxGoto
<1>6. ASSUME RxStep PROVE MutexOwned'
  BY <1>6 DEF RxStep, RxGoto, RxLockFails, RxCount, RxUnlock, RxRoute
<1>7. ASSUME UNCHANGED <<holder, pc, rxpc>> PROVE MutexOwned'
  BY <1>7
<1>8. CASE Lost
  <2>1. ASSUME NEW c \in Callers, pc' = [pc EXCEPT ![c] = "lost"],
               holder' = holder \ {c}, UNCHANGED rxpc
        PROVE  MutexOwned'
    BY <2>1 DEF TypeOK
  <2>2. CASE rxpc' = "lost" /\ holder' = holder \ {Rx} /\ UNCHANGED pc
    BY <2>2
  <2> QED
    BY <1>8, <2>1, <2>2 DEF Lost
<1> QED
  BY <1>1, <1>2, <1>3, <1>4, <1>5, <1>6, <1>7, <1>8
     DEF Next, Serve, ModuleStart, StopBegins, ModuleStop, Unload

-------------------------------------------------------------------------------
(***************************************************************************)
(* The counters.                                                           *)
(***************************************************************************)
\* What the threads in the critical section remember of the counters is what
\* the counters are; only counted frames get there.
RegistersFresh ==
    /\ rxpc = "store" => count = kwifimon_stats[CounterOf(frame)]
    /\ rxpc \in {"lock", "load", "store"} => Counted(frame)
    /\ \A c \in Callers : pc[c] \in {"copy", "reset"} =>
          \A k \in DOMAIN snap[c] : snap[c][k] = kwifimon_stats[k]

\* Nobody changes the counters while another thread is in the critical section.
LEMMA FreshStep ==
    ASSUME TypeOK, CopiesComplete, MutexOwned, RegistersFresh, [Next]_vars
    PROVE  RegistersFresh'
<1> USE DEF RegistersFresh, Goto, RxGoto
<1>1. ASSUME NEW c \in Callers, CallerStep(c) PROVE RegistersFresh'
  <2> UNCHANGED <<rxpc, frame, count>>
    BY <1>1 DEF CallerStep
  <2>1. CASE CopyStat(c) /\ UNCHANGED op
    <3>1. PICK k \in Kinds \ DOMAIN snap[c] :
            /\ snap' = [snap EXCEPT ![c] =
                         [j \in DOMAIN snap[c] \cup {k} |->
                            IF j = k THEN kwifimon_stats[k] ELSE snap[c][j]]]
            /\ pc[c] = "copy"
            /\ \E to \in {"copy", "reset", "unlock"} : Goto(c, "copy", to)
      BY <2>1 DEF CopyStat
    <3>2. UNCHANGED kwifimon_stats
      BY <2>1 DEF CopyStat
    <3> QED
      BY <3>1, <3>2 DEF TypeOK
  <2>2. CASE ResetStats(c) /\ UNCHANGED op
    <3>1. rxpc # "store"
      BY <2>2, ConstantsAssumption DEF ResetStats, MutexOwned, Inside, Threads
    <3>2. \A d \in Callers \ {c} : pc[d] \notin {"copy", "reset"}
      BY <2>2, ConstantsAssumption DEF ResetStats, MutexOwned, Inside, Threads
    <3> QED
      BY <2>2, <3>1, <3>2 DEF ResetStats, TypeOK
  <2>3. CASE Unlock(c)
    BY <2>3 DEF Unlock, TypeOK
  <2>4. CASE /\ UNCHANGED <<kwifimon_stats, snap>>
             /\ \E to \in CallPcs \ {"copy", "reset"} :
                   pc' = [pc EXCEPT ![c] = to]
    BY <2>4 DEF TypeOK
  <2> QED
    BY <1>1, <2>1, <2>2, <2>3, <2>4, AfterClosePc
       DEF CallerStep, LockFails, PcapOpen, PcapClose, PcapRelease, PcapForget,
           KnetStart, KnetStop, UpdateState, CallPcs
<1>2. ASSUME NEW c \in Callers, Lock(c) PROVE RegistersFresh'
  BY <1>2 DEF Lock, TypeOK, CopiesComplete
<1>3. ASSUME NEW c \in Callers, NEW o \in Calls, Call(c, o)
      PROVE  RegistersFresh'
  BY <1>3 DEF Call, TypeOK
<1>4. ASSUME NEW f \in Frames, RxEnter(f), UNCHANGED RxKeeps
      PROVE  RegistersFresh'
  BY <1>4 DEF RxEnter
<1>5. ASSUME RxLock, UNCHANGED RxKeeps PROVE RegistersFresh'
  BY <1>5 DEF RxLock
<1>6. ASSUME RxStep PROVE RegistersFresh'
  <2>1. CASE RxCount /\ UNCHANGED RxKeeps
    <3>1. \A d \in Callers : pc[d] \notin {"copy", "reset"}
      BY <2>1, ConstantsAssumption DEF RxCount, MutexOwned, Inside, Threads
    <3> QED
      BY <2>1, <3>1 DEF RxCount
  <2> QED
    BY <1>6, <2>1 DEF RxStep, RxLockFails, RxUnlock, RxRoute
<1>7. ASSUME UNCHANGED <<pc, snap, kwifimon_stats, rxpc, frame, count>>
      PROVE  RegistersFresh'
  BY <1>7
<1>8. CASE Lost
  BY <1>8 DEF Lost, TypeOK
<1> QED
  BY <1>1, <1>2, <1>3, <1>4, <1>5, <1>6, <1>7, <1>8
     DEF Next, Serve, ModuleStart, StopBegins, ModuleStop, Unload

\* Where module_start and module_stop are, the mutex and the hooks are.
Lifecycle ==
    /\ lpc = "create" => mutex = "absent"
    /\ lpc \notin {"create", "stopped", "unloaded"} => mutex \in {"live", "failed"}
    /\ lpc \in {"stopped", "unloaded"} => mutex \in {"deleted", "failed"}
    /\ lpc \in {"create", "info", "s_mutex", "stopped", "unloaded"} => hooks = {}
    /\ lpc = "s_hook_rx" => hooks \subseteq {1}

LEMMA LifecycleStep ==
    ASSUME TypeOK, Lifecycle, [Next]_vars PROVE Lifecycle'
<1> USE DEF Lifecycle, LGoto, TypeOK
<1>1. ASSUME ModuleStart PROVE Lifecycle'
  BY <1>1 DEF ModuleStart, PlaceHook
<1>2. ASSUME StopBegins PROVE Lifecycle'
  BY <1>2 DEF StopBegins
<1>3. ASSUME ModuleStop PROVE Lifecycle'
  BY <1>3 DEF ModuleStop, StopFile, StopNet, ReleaseHook
<1>4. ASSUME UNCHANGED <<mutex, hooks>>, lpc' = lpc \/ Unload PROVE Lifecycle'
  BY <1>4 DEF Unload
<1>5. ASSUME NEW c \in Callers, CallerStep(c) PROVE UNCHANGED <<mutex, hooks, lpc>>
  BY <1>5
     DEF CallerStep, LockFails, Unlock, PcapOpen, PcapClose, KnetStart, KnetStop,
         UpdateState, CopyStat, ResetStats
<1> QED
  BY <1>1, <1>2, <1>3, <1>4, <1>5
     DEF Next, Serve, Lock, Call, RxStep, RxLockFails, RxCount, RxUnlock, RxRoute,
         RxLock, RxEnter, Unload, Lost

\* Without a mutex nobody is past a lock, and nothing is done.
Unworked == mutex \in {"absent", "failed"} => holder = {} /\ Untouched

LEMMA UnworkedStep ==
    ASSUME TypeOK, MutexOwned, Lifecycle, Unworked, [Next]_vars PROVE Unworked'
<1> USE DEF Unworked, Untouched, TypeOK
<1>1. ASSUME NEW c \in Callers, CallerStep(c), mutex \in {"absent", "failed"}
      PROVE  UNCHANGED <<holder, kwifimon_stats, pcap_fd, knet_fd, kwifimon_state>>
  <2>1. ~Inside(c)
    BY <1>1 DEF MutexOwned, Threads
  <2>2. pc[c] \in {"idle", "lock", "lost"}
    BY <2>1, ConstantsAssumption DEF Inside
  <2> QED
    BY <1>1, <2>2, CallerWork DEF LockFails, Unlock, Goto
<1>2. ASSUME NEW c \in Callers, CallerStep(c) PROVE UNCHANGED mutex
  BY <1>2
     DEF CallerStep, LockFails, Unlock, PcapOpen, PcapClose, KnetStart, KnetStop,
         UpdateState, CopyStat, ResetStats
<1>3. CASE ModuleStart
  BY <1>3 DEF ModuleStart, PlaceHook, LGoto, Lifecycle
<1>4. CASE ModuleStop
  BY <1>4, ConstantsAssumption
     DEF ModuleStop, StopFile, StopNet, ReleaseHook, LGoto, Lifecycle, STATE_IDLE,
         NoFd
<1>5. CASE RxStep
  <2>1. mutex \in {"absent", "failed"} => rxpc \notin {"load", "store", "unlock"}
    BY DEF MutexOwned, Inside, Threads
  <2> QED
    BY <1>5, <2>1 DEF RxStep, RxLockFails, RxCount, RxUnlock, RxRoute, RxGoto
<1>6. CASE Lost
  BY <1>6 DEF Lost
<1>7. ASSUME UNCHANGED <<mutex, holder, kwifimon_stats, pcap_fd, knet_fd,
                         kwifimon_state>>
      PROVE  Unworked'
  BY <1>7
<1>8. ASSUME NEW c \in Callers, Lock(c) PROVE Unworked'
  BY <1>8 DEF Lock
<1>9. ASSUME RxLock PROVE Unworked'
  BY <1>9 DEF RxLock
<1> QED
  BY <1>1, <1>2, <1>3, <1>4, <1>5, <1>6, <1>7, <1>8, <1>9
     DEF Next, Serve, Call, StopBegins, Unload, RxEnter

\* The sum of a counter, of what was reported of it and of the frame in flight
\* moves only when a frame enters, and by one.
LEMMA ConservationStep ==
    ASSUME TypeOK, CopiesComplete, MutexOwned, RegistersFresh, Lifecycle,
           StatsConservation, [Next]_vars
    PROVE  StatsConservation'
<1> USE DEF StatsConservation, InFlight, TypeOK
<1>1. ASSUME NEW c \in Callers, CallerStep(c) PROVE StatsConservation'
  <2> UNCHANGED <<rxpc, frame, seen>>
    BY <1>1 DEF CallerStep
  <2>1. CASE ResetStats(c)
    <3>1. \A k \in Kinds : snap[c][k] = kwifimon_stats[k]
      BY <2>1 DEF ResetStats, Goto, CopiesComplete, RegistersFresh
    <3>2. \A k \in Kinds :
            Add(kwifimon_stats[k], reported[k])
              = Add(kwifimon_stats'[k], reported'[k])
      BY <2>1, <3>1, WordSums DEF ResetStats, Zero, Counts
    <3> QED
      BY <2>1, <3>2 DEF ResetStats
  <2>2. ASSUME UNCHANGED <<mutex, kwifimon_stats, reported>>
        PROVE  StatsConservation'
    BY <2>2
  <2> QED
    BY <1>1, <2>1, <2>2
       DEF CallerStep, LockFails, Unlock, PcapOpen, PcapClose, KnetStart,
           KnetStop, UpdateState, CopyStat
<1>2. ASSUME NEW f \in Frames, RxEnter(f), UNCHANGED RxKeeps
      PROVE  StatsConservation'
  <2>1. \A k \in Kinds :
          seen'[k] = IF Counted(f) /\ CounterOf(f) = k THEN Inc(seen[k])
                                                       ELSE seen[k]
    BY <1>2, CounterOfKind DEF RxEnter, Counts
  <2>2. \A k \in Kinds :
          LET sum == Add(kwifimon_stats[k], reported[k])
          IN  Add(sum, 0) = sum /\ Add(sum, 1) = Inc(sum)
    BY WordSums DEF Counts
  <2> QED
    BY <1>2, <2>1, <2>2 DEF RxEnter, RxGoto
<1>3. ASSUME RxStep PROVE StatsConservation'
  <2>1. CASE RxCount /\ UNCHANGED RxKeeps
    <3>1. CASE rxpc = "load"
      BY <2>1, <3>1 DEF RxCount, RxGoto
    <3>2. CASE rxpc = "store"
      <4> DEFINE n == CounterOf(frame)
      <4>1. kwifimon_stats' = [kwifimon_stats EXCEPT ![n] = Inc(kwifimon_stats[n])]
        BY <2>1, <3>2 DEF RxCount, RxGoto, RegistersFresh
      <4>2. rxpc' = "unlock" /\ UNCHANGED <<mutex, reported, seen>>
        BY <2>1, <3>2 DEF RxCount, RxGoto
      <4>3. \A k \in Kinds :
              /\ Add(Add(Inc(kwifimon_stats[k]), reported[k]), 0)
                   = Add(Add(kwifimon_stats[k], reported[k]), 1)
        BY WordSums DEF Counts
      <4>4. Counted(frame)
        BY <3>2 DEF RegistersFresh
      <4> QED
        BY <3>2, <4>1, <4>2, <4>3, <4>4 DEF Counts
    <3> QED
      BY <2>1, <3>1, <3>2 DEF RxCount, RxGoto
  <2>2. CASE RxLockFails
    BY <2>2 DEF RxLockFails
  <2> QED
    BY <1>3, <2>1, <2>2 DEF RxStep, RxUnlock, RxRoute, RxGoto
<1>4. ASSUME RxLock, UNCHANGED RxKeeps PROVE StatsConservation'
  BY <1>4 DEF RxLock, RxGoto
<1>5. ASSUME ModuleStart \/ StopBegins \/ ModuleStop \/ Unload \/ Lost
      PROVE  StatsConservation'
  BY <1>5
     DEF ModuleStart, StopBegins, ModuleStop, Unload, Lost, PlaceHook, Lifecycle,
         LGoto
<1>6. ASSUME UNCHANGED <<mutex, kwifimon_stats, reported, seen, rxpc, frame>>
      PROVE  StatsConservation'
  BY <1>6
<1> QED
  BY <1>1, <1>2, <1>3, <1>4, <1>5, <1>6 DEF Next, Serve, Lock, Call

-------------------------------------------------------------------------------
(***************************************************************************)
(* The descriptors.                                                        *)
(***************************************************************************)
\* While the module runs, the kernel's tables and the plugin's variables agree
\* up to the step a closing thread is in.
HandlesInv ==
    lpc \notin Ended =>
        /\ \A c \in Callers :
             /\ pc[c] \in {"reclosed", "closed"} => openFiles = {}
             /\ pc[c] = "create" => pcap_fd = NoFd
        /\ HandlesLive

\* Only the thread that has the mutex moves the descriptors.
LEMMA HandlesStep ==
    ASSUME TypeOK, MutexOwned, HandlesInv, [Next]_vars PROVE HandlesInv'
<1> USE DEF HandlesInv, HandlesLive, TypeOK, Goto
<1>1. ASSUME NEW c \in Callers, CallerStep(c) PROVE HandlesInv'
  <2> UNCHANGED lpc
    BY <1>1 DEF CallerStep
  <2>1. pc[c] \notin {"idle", "lock", "lost"}
          => \A d \in Callers \ {c} : pc[d] \in {"idle", "lock", "lost"}
    BY ConstantsAssumption DEF MutexOwned, Inside, Threads
  <2>2. CASE PcapOpen(c)
    <3> UNCHANGED <<knet_fd, openSocks>>
      BY <2>2 DEF PcapOpen
    <3>1. CASE PcapRelease(c, "open", pcap_fd > 0, "reclosed", "create")
      BY <2>1, <3>1, ConstantsAssumption DEF PcapRelease, NoFd
    <3>2. CASE PcapForget(c, "reclosed", "create")
      BY <2>1, <3>2 DEF PcapForget
    <3>3. ASSUME NEW fd \in Fds \ openFiles, Goto(c, "create", "header"),
                 pcap_fd' = fd, openFiles' = openFiles \cup {fd}
          PROVE  HandlesInv'
      <4>1. lpc \notin Ended => openFiles' = {fd} \ {NoFd}
        BY <2>1, <3>3, ConstantsAssumption DEF NoFd
      <4> QED
        BY <2>1, <3>3, <4>1
    <3>4. CASE PcapForget(c, "create", "unlock")
      BY <2>1, <3>4 DEF PcapForget
    <3>5. CASE /\ \E to \in {"flags", "close"} : Goto(c, "header", to)
               /\ UNCHANGED fileVars
      BY <2>1, <3>5
    <3> QED
      BY <2>2, <3>1, <3>2, <3>3, <3>4, <3>5 DEF PcapOpen
  <2>3. CASE PcapClose(c)
    BY <2>1, <2>3, AfterClosePc, ConstantsAssumption
       DEF PcapClose, PcapRelease, PcapForget, NoFd
  <2>4. CASE KnetStart(c)
    BY <2>1, <2>4 DEF KnetStart
  <2>5. CASE KnetStop(c)
    BY <2>1, <2>5 DEF KnetStop
  <2>6. ASSUME UNCHANGED <<pcap_fd, openFiles, knet_fd, openSocks>>,
               pc[c] \notin {"create", "reclosed", "closed", "shutdone"},
               \E to \in CallPcs \ {"create", "reclosed", "closed", "shutdone"} :
                  pc' = [pc EXCEPT ![c] = to]
        PROVE  HandlesInv'
    BY <2>6
  <2> QED
    BY <1>1, <2>2, <2>3, <2>4, <2>5, <2>6
       DEF CallerStep, LockFails, Unlock, UpdateState, CopyStat, ResetStats, CallPcs
<1>2. ASSUME NEW c \in Callers, Lock(c) PROVE HandlesInv'
  BY <1>2, FirstStepPc DEF Lock
<1>3. ASSUME NEW c \in Callers, NEW o \in Calls, Call(c, o) PROVE HandlesInv'
  BY <1>3 DEF Call
<1>4. ASSUME ModuleStart PROVE HandlesInv'
  BY <1>4 DEF ModuleStart, PlaceHook, LGoto, Stopping, Ended
<1>5. ASSUME StopBegins \/ ModuleStop \/ Unload \/ Lost PROVE HandlesInv'
  BY <1>5
     DEF StopBegins, ModuleStop, StopFile, StopNet, ReleaseHook, Unload, Lost, LGoto,
         Stopping, Ended
<1>6. ASSUME UNCHANGED <<fileVars, sockVars, pc, lpc>> PROVE HandlesInv'
  BY <1>6
<1> QED
  BY <1>1, <1>2, <1>3, <1>4, <1>5, <1>6 DEF Next, Serve, RxStep

-------------------------------------------------------------------------------
(***************************************************************************)
(* The state word.                                                         *)
(***************************************************************************)
\* Nobody calls before the module is loaded, and the word a thread is about to
\* store has the error bit if kwifimon_state has it.
ErrorKept ==
    \A c \in Callers :
        /\ lpc \in {"create", "info", "hook_rx", "hook_ioctl"} => pc[c] = "idle"
        /\ pc[c] = "setflags" /\ 31 \in kwifimon_state => 31 \in word[c]

LEMMA ErrorKeptStep ==
    ASSUME TypeOK, MutexOwned, ErrorKept, [Next]_vars PROVE ErrorKept'
<1> USE DEF ErrorKept, TypeOK, Goto
<1>1. ASSUME NEW c \in Callers, CallerStep(c) PROVE ErrorKept'
  <2> UNCHANGED lpc
    BY <1>1 DEF CallerStep
  <2>1. pc[c] \notin {"idle", "lock", "lost"}
          => \A d \in Callers \ {c} : pc[d] \in {"idle", "lock", "lost"}
    BY ConstantsAssumption DEF MutexOwned, Inside, Threads
  <2>2. CASE UpdateState(c)
    BY <2>1, <2>2 DEF UpdateState, States
  <2>3. CASE Unlock(c)
    BY <2>3 DEF Unlock, States
  <2>4. ASSUME UNCHANGED <<kwifimon_state, word>>, pc[c] # "idle",
               \E to \in CallPcs \ {"setflags"} : pc' = [pc EXCEPT ![c] = to]
        PROVE  ErrorKept'
    BY <2>4
  <2> QED
    BY <1>1, <2>2, <2>3, <2>4, AfterClosePc
       DEF CallerStep, LockFails, PcapOpen, PcapClose, PcapRelease, PcapForget,
           KnetStart, KnetStop, CopyStat, ResetStats, CallPcs
<1>2. ASSUME NEW c \in Callers, Lock(c) PROVE ErrorKept'
  BY <1>2, FirstStepPc DEF Lock
<1>3. ASSUME NEW c \in Callers, NEW o \in Calls, Call(c, o) PROVE ErrorKept'
  BY <1>3 DEF Call, MayCall, Stopping
<1>4. ASSUME ModuleStart PROVE ErrorKept'
  BY <1>4 DEF ModuleStart, PlaceHook, LGoto
<1>5. ASSUME StopBegins \/ ModuleStop \/ Unload \/ Lost PROVE ErrorKept'
  BY <1>5
     DEF StopBegins, ModuleStop, StopFile, StopNet, ReleaseHook, Unload, Lost, LGoto,
         STATE_IDLE
<1>6. ASSUME UNCHANGED <<pc, lpc, kwifimon_state, word>> PROVE ErrorKept'
  BY <1>6
<1> QED
  BY <1>1, <1>2, <1>3, <1>4, <1>5, <1>6 DEF Next, Serve, RxStep

\* A step that is not the one of module_stop does not clear the error bit.
LEMMA ErrorStep ==
    ASSUME TypeOK, ErrorKept, [Next]_vars, 31 \in kwifimon_state, lpc # "s_state"
    PROVE  31 \in kwifimon_state'
<1> USE DEF ErrorKept, TypeOK
<1>1. ASSUME NEW c \in Callers, CallerStep(c) PROVE 31 \in kwifimon_state'
  <2>1. CASE UpdateState(c)
    BY <2>1, NewStateBits DEF UpdateState, Goto, States
  <2> QED
    BY <1>1, <2>1
       DEF CallerStep, LockFails, Unlock, PcapOpen, PcapClose, KnetStart,
           KnetStop, CopyStat, ResetStats
<1>2. ASSUME ModuleStart PROVE 31 \in kwifimon_state'
  BY <1>2 DEF ModuleStart, STATE_ERROR
<1>3. ASSUME ModuleStop PROVE 31 \in kwifimon_state'
  BY <1>3 DEF ModuleStop, LGoto
<1> QED
  BY <1>1, <1>2, <1>3 DEF Next, Serve, Lock, Call, RxStep, StopBegins, Unload, Lost

-------------------------------------------------------------------------------
(***************************************************************************)
(* The inductive invariant, and what follows.                              *)
(***************************************************************************)
IInv ==
    /\ TypeOK
    /\ CopiesComplete
    /\ MutexOwned
    /\ RegistersFresh
    /\ Lifecycle
    /\ Unworked
    /\ StatsConservation
    /\ HandlesInv
    /\ ErrorKept

LEMMA InitIInv == Init => IInv
<1> SUFFICES ASSUME Init PROVE IInv
  OBVIOUS
<1>1. TypeOK /\ CopiesComplete
  BY TypeInit DEF Init, CopiesComplete, Nothing
<1>2. MutexOwned
  <2>1. \A t \in Threads : ~Inside(t)
    BY DEF Init, Inside, Threads
  <2> QED
    BY <2>1 DEF Init, MutexOwned
<1>3. RegistersFresh /\ Lifecycle /\ Unworked /\ ErrorKept
  BY DEF Init, RegistersFresh, Lifecycle, Unworked, Untouched, ErrorKept, STATE_IDLE
<1>4. StatsConservation
  BY WordArithmetic, WordSums, ConstantsAssumption
     DEF Init, StatsConservation, InFlight, Zero, Add
<1>5. HandlesInv
  BY DEF Init, HandlesInv, HandlesLive
<1> QED
  BY <1>1, <1>2, <1>3, <1>4, <1>5 DEF IInv

LEMMA StepIInv == IInv /\ [Next]_vars => IInv'
BY TypeStep, CopiesStep, MutexStep, FreshStep, LifecycleStep, UnworkedStep,
   ConservationStep, HandlesStep, ErrorKeptStep
   DEF IInv

LEMMA AlwaysIInv == Spec => []IInv
BY InitIInv, StepIInv, PTL DEF Spec

\* In every reachable state every variable has its type: the counters stay in
\* their words, the state word has only the bits of its enum, and the descriptors
\* are the kernel's.
THEOREM TypeCorrect == Spec => []TypeOK
<1>1. IInv => TypeOK
  BY DEF IInv
<1> QED
  BY <1>1, AlwaysIInv, PTL

\* kwifimon_mutex is owned by the thread between its lock and its unlock and by
\* no other, in every reachable state: no syscall and no frame leaves it locked,
\* with module_stop at work or not.
THEOREM MutexCorrect == Spec => []MutexOwned
<1>1. IInv => MutexOwned
  BY DEF IInv
<1> QED
  BY <1>1, AlwaysIInv, PTL

\* kwifimon_mod_stats neither loses nor repeats a frame, for any number of
\* threads that read and reset the counters and any width of them.
THEOREM StatsCorrect == Spec => []StatsConservation
<1>1. IInv => StatsConservation
  BY DEF IInv
<1> QED
  BY <1>1, AlwaysIInv, PTL

\* Whatever fails in pcap_open or knet_start, while the module runs its
\* descriptors are live and it has no file but the one in pcap_fd.
THEOREM HandlesCorrect == Spec => []HandlesLive
<1>1. IInv => HandlesLive
  BY DEF IInv, HandlesInv, HandlesLive
<1> QED
  BY <1>1, AlwaysIInv, PTL

\* A hook is never in place over a deleted mutex, and over one that could not be
\* created, which module_start does not notice, the plugin has done nothing.
THEOREM HooksCorrect == Spec => []NoWorkUnlocked
<1>1. IInv => NoWorkUnlocked
  BY DEF IInv, TypeOK, LifePcs, Ended, Stopping, Lifecycle, Unworked, NoWorkUnlocked
<1> QED
  BY <1>1, AlwaysIInv, PTL

\* Only module_stop clears the top bit of STATE_ERROR.
THEOREM ErrorCorrect == Spec => ErrorSticky
<1>1. IInv /\ [Next]_vars
        => [31 \in kwifimon_state /\ lpc # "s_state" => 31 \in kwifimon_state']_vars
  BY ErrorStep DEF IInv
<1> QED
  BY <1>1, AlwaysIInv, PTL DEF Spec, ErrorSticky

-------------------------------------------------------------------------------
(***************************************************************************)
(* The end of the module, with one caller.                                 *)
(***************************************************************************)
\* The caller is out of the plugin before module_stop begins, so the file that
\* module_stop closes is the last: what is called afterwards finds no mutex.
StopsClean ==
    /\ lpc \in Stopping \cup {"unloaded"} => pc[Unloader] = "idle"
    /\ lpc = "stopped" => pc[Unloader] \in {"idle", "lock"}
    /\ lpc = "s_close" => openFiles = {pcap_fd} \ {NoFd}
    /\ lpc \in Ended \ {"s_close"} => openFiles = {}

LEMMA StopsCleanStep ==
    ASSUME Callers = {Unloader}, IInv, StopsClean, [Next]_vars PROVE StopsClean'
<1> USE DEF StopsClean
<1>0. /\ TypeOK /\ HandlesLive /\ pcap_fd \in Fds \cup {NoFd}
      /\ \A fd \in Fds : fd >= 0 /\ fd # NoFd
      /\ lpc \in {"stopped", "unloaded"} => mutex # "live"
  BY ConstantsAssumption
     DEF IInv, HandlesInv, TypeOK, NoFd, HandlesLive, Lifecycle
<1>1. ASSUME NEW c \in Callers, CallerStep(c) PROVE StopsClean'
  <2>1. c = Unloader /\ UNCHANGED lpc /\ lpc # "unloaded"
    BY <1>1 DEF CallerStep
  <2>2. CASE LockFails(c)
    BY <1>0, <2>1, <2>2 DEF LockFails, Goto, TypeOK, Stopping, Ended
  <2>3. CASE ~LockFails(c)
    <3>1. pc[c] \notin {"idle", "lock"}
      BY <1>0, <1>1, <2>3, CallerWork DEF Unlock, Goto
    <3> QED
      BY <2>1, <3>1 DEF Stopping, Ended
  <2> QED
    BY <2>2, <2>3
<1>2. ASSUME NEW c \in Callers, NEW o \in Calls, Call(c, o) PROVE StopsClean'
  <2>1. lpc \notin Stopping \cup {"unloaded"} /\ UNCHANGED <<lpc, fileVars>>
    BY <1>2 DEF Call, MayCall, Stopping
  <2>2. pc'[Unloader] = "lock"
    BY <1>0, <1>2 DEF Call, Goto, TypeOK
  <2> QED
    BY <2>1, <2>2 DEF Stopping, Ended
<1>3. ASSUME NEW c \in Callers, Lock(c) PROVE StopsClean'
  <2>1. lpc \notin Ended /\ lpc' = lpc
    BY <1>0, <1>3 DEF Lock, Goto, Ended
  <2> QED
    BY <2>1 DEF Stopping, Ended
<1>4. CASE ModuleStart
  BY <1>4 DEF ModuleStart, PlaceHook, LGoto, Stopping, Ended
<1>5. CASE StopBegins
  <2>1. lpc = "loaded" /\ lpc' = "s_close" /\ pc[Unloader] = "idle"
        /\ UNCHANGED <<pc, pcap_fd, openFiles>>
    BY <1>5 DEF StopBegins, LGoto
  <2>2. openFiles = {pcap_fd} \ {NoFd}
    BY <1>0, <2>1 DEF HandlesLive, Stopping, Ended
  <2> QED
    BY <2>1, <2>2 DEF Stopping, Ended
<1>6. CASE ModuleStop
  <2>1. CASE lpc = "s_close"
    <3>1. /\ openFiles' = IF pcap_fd >= 0 THEN openFiles \ {pcap_fd} ELSE openFiles
          /\ UNCHANGED pc
      BY <1>6, <2>1 DEF ModuleStop, StopFile, StopNet, ReleaseHook, LGoto
    <3>2. openFiles = {pcap_fd} \ {NoFd}
      BY <2>1
    <3>3. openFiles' = {}
      BY <1>0, <3>1, <3>2
    <3>4. lpc' \in {"s_closed", "s_shut"}
      BY <1>6, <2>1 DEF ModuleStop, StopFile, StopNet, ReleaseHook, LGoto
    <3> QED
      BY <2>1, <3>1, <3>3, <3>4 DEF Stopping, Ended
  <2>2. CASE lpc # "s_close"
    <3>1. lpc \in Stopping \ {"s_close"} /\ UNCHANGED pc
      BY <1>6, <2>2 DEF ModuleStop, StopFile, StopNet, ReleaseHook, LGoto, Stopping
    <3>2. lpc' \in (Stopping \ {"s_close"}) \cup {"stopped"}
      BY <1>6, <2>2 DEF ModuleStop, StopFile, StopNet, ReleaseHook, LGoto, Stopping
    <3>3. openFiles' \subseteq openFiles
      BY <1>6, <2>2 DEF ModuleStop, StopFile, StopNet, ReleaseHook, LGoto
    <3>4. openFiles' = {} /\ pc'[Unloader] = "idle"
      BY <3>1, <3>3 DEF Ended
    <3> QED
      BY <3>2, <3>4
  <2> QED
    BY <2>1, <2>2
<1>7. CASE Unload
  BY <1>7 DEF Unload, LGoto, Stopping, Ended
<1>8. CASE Lost
  BY <1>8 DEF Lost
<1>9. ASSUME UNCHANGED <<fileVars, pc, lpc>> PROVE StopsClean'
  BY <1>9
<1> QED
  BY <1>1, <1>2, <1>3, <1>4, <1>5, <1>6, <1>7, <1>8, <1>9 DEF Next, Serve, RxStep

\* The thread that made all the calls stops the module, and no file is left open,
\* whichever of its calls failed.
THEOREM UnloadCorrect == Callers = {Unloader} => (Spec => []UnloadLeavesNoFile)
<1> SUFFICES ASSUME Callers = {Unloader} PROVE Spec => []UnloadLeavesNoFile
  OBVIOUS
<1>1. Init => IInv /\ StopsClean
  BY InitIInv DEF Init, StopsClean, Stopping, Ended
<1>2. IInv /\ StopsClean /\ [Next]_vars => IInv' /\ StopsClean'
  BY StepIInv, StopsCleanStep
<1>3. StopsClean => UnloadLeavesNoFile
  BY DEF StopsClean, UnloadLeavesNoFile, Stopping, Ended
<1> QED
  BY <1>1, <1>2, <1>3, PTL DEF Spec

-------------------------------------------------------------------------------
(***************************************************************************)
(* Kwifimon at work implements WifimonService.                             *)
(***************************************************************************)
\* The service's counters and views, as Service maps them.
cntBar  == IF Resetting THEN Zero ELSE kwifimon_stats
viewBar == [c \in Callers |-> IF DOMAIN snap[c] = Kinds THEN snap[c] ELSE Nothing]

\* While nobody unloads the module a thread stores what it loaded, and until
\* module_start has found the driver nothing happens at all.
ServeInv ==
    /\ lpc \notin Ended
    /\ \A c \in Callers : pc[c] = "setflags" => word[c] = kwifimon_state
    /\ lpc \in {"create", "info"} =>
         /\ kwifimon_state = {} /\ kwifimon_stats = Zero /\ rxpc = "idle"
         /\ hooks = {}

LEMMA ServeInvStep ==
    ASSUME TypeOK, MutexOwned, ErrorKept, ServeInv, [Serve]_vars
    PROVE  ServeInv'
<1> USE DEF ServeInv, TypeOK, Goto
<1>1. ASSUME NEW c \in Callers, CallerStep(c) PROVE ServeInv'
  <2> UNCHANGED <<lpc, hooks, rxpc>>
    BY <1>1 DEF CallerStep
  <2>1. pc[c] \notin {"idle", "lock", "lost"}
          => \A d \in Callers \ {c} : pc[d] \in {"idle", "lock", "lost"}
    BY ConstantsAssumption DEF MutexOwned, Inside, Threads
  <2>2. pc[c] # "idle" => lpc = "loaded"
    BY DEF ErrorKept, LifePcs
  <2>3. pc[c] # "idle"
    BY <1>1
       DEF CallerStep, LockFails, Unlock, PcapOpen, PcapClose, PcapRelease,
           PcapForget, KnetStart, KnetStop, UpdateState, CopyStat, ResetStats
  <2>4. CASE UpdateState(c)
    BY <2>1, <2>2, <2>3, <2>4 DEF UpdateState, States
  <2>5. CASE Unlock(c)
    BY <2>2, <2>3, <2>5 DEF Unlock, States
  <2>6. ASSUME UNCHANGED <<kwifimon_state, word>>,
               \E to \in CallPcs \ {"setflags"} : pc' = [pc EXCEPT ![c] = to]
        PROVE  ServeInv'
    BY <2>2, <2>3, <2>6
  <2> QED
    BY <1>1, <2>4, <2>5, <2>6, AfterClosePc
       DEF CallerStep, LockFails, PcapOpen, PcapClose, PcapRelease, PcapForget,
           KnetStart, KnetStop, CopyStat, ResetStats, CallPcs
<1>2. ASSUME NEW c \in Callers, Lock(c) PROVE ServeInv'
  BY <1>2, FirstStepPc DEF Lock
<1>3. ASSUME NEW c \in Callers, NEW o \in Calls, Call(c, o) PROVE ServeInv'
  BY <1>3 DEF Call
<1>4. ASSUME ModuleStart PROVE ServeInv'
  BY <1>4 DEF ModuleStart, PlaceHook, LGoto, Stopping, Ended, ErrorKept
<1>5. ASSUME RxStep PROVE ServeInv'
  BY <1>5 DEF RxStep, RxLockFails, RxCount, RxUnlock, RxRoute, RxGoto
<1>6. ASSUME RxLock \/ \E f \in Frames : RxEnter(f), UNCHANGED RxKeeps
      PROVE  ServeInv'
  BY <1>6 DEF RxLock, RxEnter, RxGoto
<1>7. ASSUME UNCHANGED vars PROVE ServeInv'
  BY <1>7
<1> QED
  BY <1>1, <1>2, <1>3, <1>4, <1>5, <1>6, <1>7 DEF Serve

-------------------------------------------------------------------------------
(***************************************************************************)
(* Every step is one of the service, or nothing it can see.                *)
(***************************************************************************)
\* The service's own names for the counters, and its variables under Service.
LEMMA ServiceNames ==
    /\ Service!Kinds = Kinds /\ Service!Zero = Zero /\ Service!Nothing = Nothing
    /\ UNCHANGED Service!vars <=> UNCHANGED <<cntBar, kwifimon_state, viewBar>>
BY DEF Service!Kinds, Service!Zero, Service!Nothing, Service!vars, Kinds, Zero,
       Nothing, cntBar, viewBar

\* An empty copy is not a complete one.
LEMMA NothingPartial == DOMAIN Nothing # Kinds
BY DEF Nothing, Kinds

\* The thread that counts a frame counts it for the service.
LEMMA CountStep ==
    ASSUME TypeOK, MutexOwned, RegistersFresh, RxCount, UNCHANGED RxKeeps
    PROVE  \/ UNCHANGED Service!vars
           \/ \E k \in Service!Kinds : Service!Count(k)
<1> USE ServiceNames DEF RxCount, RxGoto
<1>1. ~Resetting /\ ~Resetting'
  BY ConstantsAssumption DEF Resetting, MutexOwned, Inside, Threads
<1>2. CASE rxpc = "load"
  BY <1>1, <1>2 DEF cntBar, viewBar
<1>3. CASE rxpc = "store"
  <2> DEFINE k == CounterOf(frame)
  <2>1. k \in Kinds
    BY CounterOfKind
  <2>2. kwifimon_stats' = [kwifimon_stats EXCEPT ![k] = Inc(kwifimon_stats[k])]
    BY <1>3 DEF RegistersFresh
  <2>3. Service!Count(k)
    BY <1>1, <1>3, <2>1, <2>2
       DEF Service!Count, Inc, TypeOK, Counts
  <2> QED
    BY <2>1, <2>3
<1> QED
  BY <1>2, <1>3

\* The last word of a copy is the service's answer.
LEMMA AnswerStep ==
    ASSUME TypeOK, MutexOwned, RegistersFresh, NEW c \in Callers, CopyStat(c)
    PROVE  \/ UNCHANGED Service!vars
           \/ \E reset \in BOOLEAN : Service!Answer(c, reset)
<1> USE ServiceNames
<1>1. PICK k \in Kinds \ DOMAIN snap[c] :
        /\ snap' = [snap EXCEPT ![c] =
                     [j \in DOMAIN snap[c] \cup {k} |->
                        IF j = k THEN kwifimon_stats[k] ELSE snap[c][j]]]
        /\ Goto(c, "copy",
                IF DOMAIN snap[c] \cup {k} # Kinds THEN "copy"
                ELSE IF op[c] = "mod_stats_reset" THEN "reset" ELSE "unlock")
  BY DEF CopyStat
<1>2. UNCHANGED <<kwifimon_state, kwifimon_stats>>
  BY DEF CopyStat
<1>3. \A d \in Callers \ {c} : pc[d] # "reset" /\ pc'[d] # "reset"
  BY <1>1, ConstantsAssumption DEF MutexOwned, Inside, Threads, Goto, TypeOK
<1>4. ~Resetting
  BY <1>1, <1>3 DEF Resetting, Goto
<1>5. DOMAIN snap[c] # Kinds
  BY <1>1
<1>6. CASE DOMAIN snap[c] \cup {k} # Kinds
  <2>1. pc'[c] = "copy" /\ DOMAIN snap'[c] # Kinds
    BY <1>1, <1>6 DEF Goto, TypeOK
  <2>2. ~Resetting'
    BY <1>3, <2>1 DEF Resetting
  <2>3. viewBar' = viewBar
    BY <1>1, <1>5, <2>1 DEF viewBar, TypeOK
  <2> QED
    BY <1>2, <1>4, <2>2, <2>3 DEF cntBar
<1>7. CASE DOMAIN snap[c] \cup {k} = Kinds
  <2>1. snap'[c] = kwifimon_stats
    BY <1>1, <1>7 DEF RegistersFresh, Goto, TypeOK, Counts
  <2>2. DOMAIN snap'[c] = Kinds
    BY <1>1, <1>7 DEF TypeOK
  <2>3. viewBar' = [viewBar EXCEPT ![c] = kwifimon_stats]
    BY <1>1, <2>1, <2>2 DEF viewBar, TypeOK
  <2>4. viewBar[c] = Nothing
    BY <1>5 DEF viewBar
  <2>5. Resetting' <=> op[c] = "mod_stats_reset"
    BY <1>1, <1>3, <1>7 DEF Resetting, Goto, TypeOK
  <2>6. cntBar = kwifimon_stats
    BY <1>4 DEF cntBar
  <2>7. cntBar' = IF op[c] = "mod_stats_reset" THEN Zero ELSE cntBar
    BY <1>2, <2>5, <2>6 DEF cntBar
  <2>8. CASE op[c] = "mod_stats_reset"
    <3>1. Service!Answer(c, TRUE)
      BY <1>2, <2>3, <2>4, <2>6, <2>7, <2>8 DEF Service!Answer, cntBar, viewBar
    <3> QED
      BY <3>1
  <2>9. CASE op[c] # "mod_stats_reset"
    <3>1. Service!Answer(c, FALSE)
      BY <1>2, <2>3, <2>4, <2>6, <2>7, <2>9 DEF Service!Answer, cntBar, viewBar
    <3> QED
      BY <3>1
  <2> QED
    BY <2>8, <2>9
<1> QED
  BY <1>6, <1>7

\* The unlock ends an answer, if there was one.
LEMMA ReturnStep ==
    ASSUME TypeOK, NEW c \in Callers, Unlock(c)
    PROVE  Service!Return(c)
<1>1. snap' = [snap EXCEPT ![c] = Nothing]
  BY DEF Unlock
<1>2. viewBar' = [viewBar EXCEPT ![c] = Nothing]
  BY <1>1, NothingPartial DEF viewBar, TypeOK
<1>3. Resetting' <=> Resetting
  BY DEF Unlock, Goto, Resetting, TypeOK
<1>4. UNCHANGED <<cntBar, kwifimon_state>>
  BY <1>3 DEF cntBar, Unlock
<1> QED
  BY <1>2, <1>4, ServiceNames DEF Service!Return, cntBar, viewBar

\* The memset: the service has cleared its counters already.
LEMMA ResetStep ==
    ASSUME TypeOK, MutexOwned, NEW c \in Callers, ResetStats(c)
    PROVE  UNCHANGED Service!vars
<1>1. cntBar = Zero /\ cntBar' = Zero
  BY DEF ResetStats, Goto, cntBar, Resetting
<1> QED
  BY <1>1, ServiceNames DEF ResetStats, viewBar

\* What a thread stores into kwifimon_state differs from it by flags raised or
\* lowered.
LEMMA FlagsStep ==
    ASSUME TypeOK, ServeInv, NEW c \in Callers, UpdateState(c)
    PROVE  UNCHANGED Service!vars \/ Service!SetFlags
<1>1. Resetting' <=> Resetting
  BY DEF UpdateState, Goto, Resetting, TypeOK
<1>2. UNCHANGED <<cntBar, viewBar>>
  BY <1>1 DEF cntBar, viewBar, UpdateState
<1>3. CASE pc[c] = "flags"
  BY <1>2, <1>3, ServiceNames DEF UpdateState, Goto
<1>4. CASE pc[c] = "setflags"
  <2>1. kwifimon_state' = NewState(op[c], kwifimon_state)
    BY <1>4 DEF UpdateState, Goto, ServeInv
  <2>2. \/ kwifimon_state' = kwifimon_state
        \/ \E b \in {{1}, {0, 1}} :
              kwifimon_state' \in {kwifimon_state \cup b, kwifimon_state \ b}
    BY <2>1 DEF NewState, STATE_REC_FILE, STATE_REC_NET
  <2> QED
    BY <1>2, <2>2, ServiceNames
       DEF Service!SetFlags, Service!Recording, cntBar, viewBar
<1> QED
  BY <1>3, <1>4 DEF UpdateState, Goto

\* module_start without a driver is the service's fault.
LEMMA StartStep ==
    ASSUME TypeOK, ErrorKept, ServeInv, ModuleStart
    PROVE  UNCHANGED Service!vars \/ Service!Fault
<1>1. Resetting' <=> Resetting
  BY DEF ModuleStart, Resetting
<1>2. UNCHANGED <<cntBar, viewBar>>
  BY <1>1 DEF cntBar, viewBar, ModuleStart
<1>3. CASE kwifimon_state' = kwifimon_state
  BY <1>2, <1>3, ServiceNames
<1>4. CASE lpc = "info" /\ kwifimon_state' = STATE_ERROR
  <2>1. cntBar = Zero
    BY <1>4 DEF ServeInv, cntBar
  <2> QED
    BY <1>2, <1>4, <2>1, ServiceNames
       DEF Service!Fault, ServeInv, STATE_ERROR, cntBar, viewBar
<1> QED
  BY <1>3, <1>4 DEF ModuleStart, LGoto

\* Steps that touch neither the counters, the copies nor the state word, and do
\* not enter or leave the reset, are invisible.
LEMMA InvisibleStep ==
    ASSUME UNCHANGED <<kwifimon_state, kwifimon_stats, snap>>,
           Resetting' <=> Resetting
    PROVE  UNCHANGED Service!vars
BY ServiceNames DEF cntBar, viewBar

\* A step of a syscall.
LEMMA CallerServes ==
    ASSUME TypeOK, CopiesComplete, MutexOwned, RegistersFresh, ServeInv,
           NEW c \in Callers, CallerStep(c)
    PROVE  [Service!Next]_Service!vars
<1>1. CASE Unlock(c)
  BY <1>1, ReturnStep DEF Service!Next
<1>2. CASE CopyStat(c)
  BY <1>2, AnswerStep DEF Service!Next
<1>3. CASE ResetStats(c)
  BY <1>3, ResetStep
<1>4. CASE UpdateState(c)
  BY <1>4, FlagsStep DEF Service!Next
<1>5. CASE LockFails(c) \/ PcapOpen(c) \/ PcapClose(c) \/ KnetStart(c) \/ KnetStop(c)
  <2>1. UNCHANGED <<kwifimon_state, kwifimon_stats, snap>>
    BY <1>5 DEF LockFails, PcapOpen, PcapClose, KnetStart, KnetStop
  <2>2. pc[c] # "reset" /\ \E to \in CallPcs \ {"reset"} : pc' = [pc EXCEPT ![c] = to]
    BY <1>5, AfterClosePc
       DEF LockFails, PcapOpen, PcapClose, PcapRelease, PcapForget, KnetStart,
           KnetStop, Goto, CallPcs
  <2>3. Resetting' <=> Resetting
    BY <2>2 DEF Resetting, TypeOK
  <2> QED
    BY <2>1, <2>3, InvisibleStep
<1> QED
  BY <1>1, <1>2, <1>3, <1>4, <1>5 DEF CallerStep

\* Every step of the plugin at work.
LEMMA ServeServes ==
    ASSUME IInv, ServeInv, [Serve]_vars PROVE [Service!Next]_Service!vars
<1> USE DEF IInv
<1>1. ASSUME NEW c \in Callers, CallerStep(c) PROVE [Service!Next]_Service!vars
  BY <1>1, CallerServes
<1>2. ASSUME NEW c \in Callers, Lock(c) PROVE UNCHANGED Service!vars
  <2>1. Resetting' <=> Resetting
    BY <1>2, FirstStepPc DEF Lock, Goto, Resetting, TypeOK
  <2> QED
    BY <1>2, <2>1, InvisibleStep DEF Lock
<1>3. ASSUME NEW c \in Callers, NEW o \in Calls, Call(c, o)
      PROVE  UNCHANGED Service!vars
  <2>1. Resetting' <=> Resetting
    BY <1>3 DEF Call, Goto, Resetting, TypeOK
  <2> QED
    BY <1>3, <2>1, InvisibleStep DEF Call
<1>4. ASSUME ModuleStart PROVE [Service!Next]_Service!vars
  BY <1>4, StartStep DEF Service!Next
<1>5. ASSUME RxCount, UNCHANGED RxKeeps PROVE [Service!Next]_Service!vars
  BY <1>5, CountStep DEF Service!Next
<1>6. ASSUME UNCHANGED <<kwifimon_state, kwifimon_stats, snap, pc>>
      PROVE  UNCHANGED Service!vars
  BY <1>6, InvisibleStep DEF Resetting
<1>7. CASE Serve
  BY <1>1, <1>2, <1>3, <1>4, <1>5, <1>6, <1>7
     DEF Serve, RxStep, RxLockFails, RxUnlock, RxRoute, RxLock, RxEnter
<1>8. CASE UNCHANGED vars
  BY <1>6, <1>8
<1> QED
  BY <1>7, <1>8

\* The plugin at work implements the service: for any number of threads, any
\* frames and any width of the counters, each reading is the counters at one
\* instant, resetting is part of that instant, and flags are raised and lowered
\* without undoing one another.
THEOREM ServiceCorrect == ServeSpec => ImplementsService
<1>1. Init => IInv /\ ServeInv
  BY InitIInv DEF Init, ServeInv, Stopping, Ended, STATE_IDLE
<1>2. [Serve]_vars => [Next]_vars
  BY DEF Next
<1>3. IInv /\ ServeInv /\ [Serve]_vars => (IInv /\ ServeInv)'
  <2> SUFFICES ASSUME IInv, ServeInv, [Serve]_vars PROVE IInv' /\ ServeInv'
    OBVIOUS
  <2>1. IInv'
    BY <1>2, StepIInv
  <2>2. ServeInv'
    BY ServeInvStep DEF IInv
  <2> QED
    BY <2>1, <2>2
<1>4. Init => Service!Init
  BY ServiceNames, NothingPartial
     DEF Init, Service!Init, Resetting, STATE_IDLE
<1>5. IInv /\ ServeInv /\ [Serve]_vars => [Service!Next]_Service!vars
  BY ServeServes
<1> QED
  BY <1>1, <1>3, <1>4, <1>5, PTL DEF ServeSpec, ImplementsService, Service!Spec
===============================================================================
