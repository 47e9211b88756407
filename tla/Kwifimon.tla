------------------------------- MODULE Kwifimon -------------------------------
(***************************************************************************)
(* The kernel plugin (src/src/kplugin): the syscalls it exports, the hook  *)
(* it places in the WLAN driver's receive path, and its start and stop.    *)
(* Everything the plugin shares between threads is here: the mutex, the    *)
(* state word, the five counters, the capture file and the socket.         *)
(*                                                                         *)
(* A thread moves by steps of the size the scheduler can interrupt: a      *)
(* kernel call, one load or one store of a shared word.                    *)
(***************************************************************************)
EXTENDS Integers

CONSTANTS
    Callers,     \* threads that issue the exported syscalls
    Calls,       \* the syscalls they issue
    Unloader,    \* the one of them that stops the module (the app's main thread)
    Rx,          \* the WLAN driver's thread, which runs the receive hook
    Frames,      \* the frames the hardware may deliver
    Fds,         \* descriptors the kernel hands out, for files and for sockets
    CounterMod   \* counters are uint32_t: they wrap at CounterMod (2^32)

PktTypes == {0, 1, 3, 10}          \* data, command response, event, A-MSDU

Ops == {"cap_start", "cap_stop", "net_start", "net_stop",
        "mod_stats", "mod_stats_reset"}

\* Kernel UIDs are positive; pcap_open relies on it (pcap_fd > 0), pcap_close
\* and the error tests do not (pcap_fd >= 0, pcap_fd < 0).
ASSUME ConstantsAssumption ==
    /\ Unloader \in Callers /\ Calls \subseteq Ops
    /\ Rx \notin Callers
    /\ Frames # {}
    /\ Frames \subseteq [pkt_type : PktTypes, head : Nat, rx_pkt_type : Nat]
    /\ Fds \subseteq Nat \ {0}
    /\ CounterMod \in Nat \ {0}

VARIABLES
    mutex,            \* kwifimon_mutex: "absent", "live", "failed" or "deleted"
    holder,           \* the threads that own it
    kwifimon_state,   \* the set of its bits that are 1
    kwifimon_stats,   \* the five counters
    pcap_fd,          \* the capture file, -1 when there is none
    openFiles,        \* the kernel's table of open files
    knet_fd,          \* the capture socket, -1 when there is none
    openSocks,        \* the kernel's table of open sockets
    hooks,            \* the i for which hooks_uid[i] is an installed hook
    lpc,              \* where module_start, module_stop or the unloading is
    pc, op,           \* where each caller is, and in which syscall
    word,             \* each caller's register copy of kwifimon_state
    snap,             \* the part of wifimon_stats_t copied out to each caller
    rxpc, frame,      \* where the receive thread is, and the frame it holds
    count,            \* its register copy of a counter
    seen,             \* history: frames of each kind that entered the hook
    reported          \* history: sum of what was reported and then reset

lockVars  == <<mutex, holder>>
fileVars  == <<pcap_fd, openFiles>>
sockVars  == <<knet_fd, openSocks>>
stateVars == <<kwifimon_state, word>>
statVars  == <<kwifimon_stats, snap, reported>>
callVars  == <<pc, op>>
rxVars    == <<rxpc, frame, count, seen>>
modVars   == <<hooks, lpc>>
vars == <<lockVars, fileVars, sockVars, stateVars, statVars, callVars, rxVars,
          modVars>>

Threads == Callers \cup {Rx}
NoFd    == -1
Kinds   == {"pkt", "mgmt", "amsdu", "bar", "evt"}
Zero    == [k \in Kinds |-> 0]
Nothing == [k \in {} |-> 0]

\* enum kwifimon_state_t as sets of bits; |= is \cup and &= ~ is \.
Bits           == {0, 1, 31}
STATE_IDLE     == {}
STATE_REC_FILE == {1}
STATE_REC_NET  == {0, 1}
STATE_ERROR    == {0, 31}

\* uint32_t arithmetic on counters.
Add(a, b) == IF a + b < CounterMod THEN a + b ELSE a + b - CounterMod
Inc_NoWrap(a) == a + 1             \* slip: the width of the word
Inc(a)    == IF a + 1 < CounterMod THEN a + 1 ELSE 0

PKT_TYPE_MGMT  == 229
PKT_TYPE_AMSDU == 230
PKT_TYPE_BAR   == 231

\* Event 0x123, as the hook looks for it: in the first half-word of the frame.
IsEvt123(f) == f.pkt_type = 3 /\ f.head % 4096 = 291
IsData(f)   == f.pkt_type \in {0, 10}
Counted(f)  == IsEvt123(f) \/ IsData(f)

\* The counter a frame bumps.
CounterOf(f) ==
    CASE IsEvt123(f)                    -> "evt"
      [] f.rx_pkt_type = PKT_TYPE_MGMT  -> "mgmt"
      [] f.rx_pkt_type = PKT_TYPE_AMSDU -> "amsdu"
      [] f.rx_pkt_type = PKT_TYPE_BAR   -> "bar"
      [] OTHER                          -> "pkt"

\* The frames the hook keeps from the driver.
Consumed(f) == IsEvt123(f) \/ (IsData(f) /\ f.rx_pkt_type = PKT_TYPE_MGMT)

Stopping == {"s_close", "s_closed", "s_shut", "s_shutdone", "s_state",
             "s_hook_ioctl", "s_hook_rx", "s_mutex"}

Ended    == Stopping \cup {"stopped", "unloaded"}

Init ==
    /\ mutex = "absent" /\ holder = {}
    /\ kwifimon_state = STATE_IDLE
    /\ kwifimon_stats = Zero /\ seen = Zero /\ reported = Zero
    /\ pcap_fd = NoFd /\ openFiles = {}
    /\ knet_fd = NoFd /\ openSocks = {}
    /\ hooks = {} /\ lpc = "create"
    /\ pc = [c \in Callers |-> "idle"]
    /\ op = [c \in Callers |-> "none"]
    /\ word = [c \in Callers |-> {}]
    /\ snap = [c \in Callers |-> Nothing]
    /\ rxpc = "idle" /\ frame \in Frames /\ count = 0

-------------------------------------------------------------------------------
(***************************************************************************)
(* The syscalls.  Entry, lock, unlock and exit are the same in all of      *)
(* them; FirstStep is what follows the lock.                               *)
(***************************************************************************)
Goto(c, from, to) == pc[c] = from /\ pc' = [pc EXCEPT ![c] = to]

FirstStep(o) ==
    CASE o = "cap_start" -> "open"
      [] o = "cap_stop"  -> "close"
      [] o = "net_start" -> "sock"
      [] o = "net_stop"  -> "shut"
      [] OTHER           -> "copy"

\* The unloader calls nothing while it is in module_stop.  A module that is
\* stopped and not unloaded still exports its syscalls.
MayCall(c) ==
    lpc \in {"loaded", "stopped"} \/ (c # Unloader /\ lpc \in Stopping)

Call(c, o) ==
    /\ MayCall(c)
    /\ Goto(c, "idle", "lock")
    /\ op' = [op EXCEPT ![c] = o]
    /\ UNCHANGED <<lockVars, fileVars, sockVars, stateVars, statVars, rxVars,
                   modVars>>

Lock(c) ==
    /\ mutex = "live" /\ holder = {}
    /\ Goto(c, "lock", FirstStep(op[c]))
    /\ holder' = {c}
    /\ UNCHANGED <<mutex, fileVars, sockVars, stateVars, statVars, op, rxVars,
                   modVars>>

\* ksceKernelLockMutex fails on a mutex that could not be created and on one
\* that is deleted, also for those who already wait on it.  The call returns, as
\* long as there is code to return through.
LockFails(c) ==
    /\ mutex \in {"failed", "deleted"}
    /\ Goto(c, "lock", "idle")
    /\ op' = [op EXCEPT ![c] = "none"]
    /\ UNCHANGED <<lockVars, fileVars, sockVars, stateVars, statVars>>

\* With the unlock the call returns, and its registers and buffers are dead.
Unlock(c) ==
    /\ Goto(c, "unlock", "idle")
    /\ holder' = holder \ {c}
    /\ op' = [op EXCEPT ![c] = "none"]
    /\ word' = [word EXCEPT ![c] = {}]
    /\ snap' = [snap EXCEPT ![c] = Nothing]
    /\ UNCHANGED <<mutex, fileVars, sockVars, kwifimon_state, kwifimon_stats,
                   reported>>

\* pcap_close after the test that there is a file: it is released, then
\* forgotten.
PcapRelease(c, from, isOpen, done, skip) ==
    /\ Goto(c, from, IF isOpen THEN done ELSE skip)
    /\ openFiles' = IF isOpen THEN openFiles \ {pcap_fd} ELSE openFiles
    /\ UNCHANGED pcap_fd

\* Slip: the closed descriptor is not forgotten.
PcapForget_Stale(c, from, to) == Goto(c, from, to) /\ UNCHANGED fileVars

PcapForget(c, from, to) ==
    /\ Goto(c, from, to)
    /\ pcap_fd' = NoFd
    /\ UNCHANGED openFiles

\* kwifimon_cap_stop clears its flag after pcap_close; a pcap_open that could
\* not write the header returns -1, and kwifimon_cap_start leaves the flags.
AfterClose_EarlyReturn(o) ==       \* slip: a failed open returns without unlock
    IF o = "cap_stop" THEN "flags" ELSE "idle"
AfterClose(o) == IF o = "cap_stop" THEN "flags" ELSE "unlock"

PcapClose(c) ==
    /\ \/ PcapRelease(c, "close", pcap_fd >= 0, "closed", AfterClose(op[c]))
       \/ PcapForget(c, "closed", AfterClose(op[c]))
    /\ UNCHANGED <<lockVars, sockVars, stateVars, statVars>>

\* pcap_open: a capture that is running is closed first.
PcapOpen(c) ==
    /\ \/ PcapRelease(c, "open", pcap_fd > 0, "reclosed", "create")
       \/ PcapForget(c, "reclosed", "create")
       \/ \E fd \in Fds \ openFiles :
            /\ Goto(c, "create", "header")
            /\ pcap_fd' = fd
            /\ openFiles' = openFiles \cup {fd}
       \/ PcapForget(c, "create", "unlock")          \* ksceIoOpen failed
       \/ /\ \E to \in {"flags", "close"} : Goto(c, "header", to)
          /\ UNCHANGED fileVars
    /\ UNCHANGED <<lockVars, sockVars, stateVars, statVars>>

\* knet_start does not look at the socket it may already have.
KnetStart(c) ==
    /\ \/ \E fd \in Fds \ openSocks :
            /\ Goto(c, "sock", "flags")
            /\ knet_fd' = fd
            /\ openSocks' = openSocks \cup {fd}
       \/ /\ Goto(c, "sock", "unlock")               \* ksceNetSocket failed
          /\ knet_fd' = NoFd
          /\ UNCHANGED openSocks
    /\ UNCHANGED <<lockVars, fileVars, stateVars, statVars>>

KnetStop(c) ==
    /\ \/ /\ Goto(c, "shut", "shutdone")
          /\ openSocks' = openSocks \ {knet_fd}
          /\ UNCHANGED knet_fd
       \/ /\ Goto(c, "shutdone", "flags")
          /\ knet_fd' = NoFd
          /\ UNCHANGED openSocks
    /\ UNCHANGED <<lockVars, fileVars, stateVars, statVars>>

\* Slips: = STATE_IDLE for &= ~STATE_REC_FILE, = for |=.
NewState_Idle(o, w) ==
    CASE o = "cap_start" -> w \cup STATE_REC_FILE
      [] o = "net_start" -> w \cup STATE_REC_NET
      [] OTHER           -> STATE_IDLE
NewState_Assign(o, w) ==
    CASE o = "cap_start" -> STATE_REC_FILE
      [] o = "net_start" -> STATE_REC_NET
      [] o = "cap_stop"  -> w \ STATE_REC_FILE
      [] OTHER           -> w \ STATE_REC_NET

NewState(o, w) ==
    CASE o = "cap_start" -> w \cup STATE_REC_FILE
      [] o = "cap_stop"  -> w \ STATE_REC_FILE
      [] o = "net_start" -> w \cup STATE_REC_NET
      [] o = "net_stop"  -> w \ STATE_REC_NET
      [] OTHER           -> w

\* kwifimon_state |= ... and &= ~...: a load, then a store.
UpdateState(c) ==
    /\ \/ /\ Goto(c, "flags", "setflags")
          /\ word' = [word EXCEPT ![c] = kwifimon_state]
          /\ UNCHANGED kwifimon_state
       \/ /\ Goto(c, "setflags", "unlock")
          /\ kwifimon_state' = NewState(op[c], word[c])
          /\ UNCHANGED word
    /\ UNCHANGED <<lockVars, fileVars, sockVars, statVars>>

\* The copy to user space, one counter at a time ...
CopyStat(c) ==
    /\ \E k \in Kinds \ DOMAIN snap[c] :
         LET copied == DOMAIN snap[c] \cup {k}
         IN  /\ snap' = [snap EXCEPT ![c] =
                   [j \in copied |-> IF j = k THEN kwifimon_stats[k]
                                              ELSE snap[c][j]]]
             /\ Goto(c, "copy",
                     IF copied # Kinds THEN "copy"
                     ELSE IF op[c] = "mod_stats_reset" THEN "reset"
                     ELSE "unlock")
    /\ UNCHANGED <<lockVars, fileVars, sockVars, stateVars, kwifimon_stats,
                   reported>>

\* Slip: the memset has the size of a pointer.
ResetStats_OneWord(c) ==
    /\ Goto(c, "reset", "unlock")
    /\ kwifimon_stats' = [kwifimon_stats EXCEPT !["pkt"] = 0]
    /\ reported' = [k \in Kinds |-> Add(reported[k], snap[c][k])]
    /\ UNCHANGED <<lockVars, fileVars, sockVars, stateVars, snap>>

\* ... and the memset.
ResetStats(c) ==
    /\ Goto(c, "reset", "unlock")
    /\ kwifimon_stats' = Zero
    /\ reported' = [k \in Kinds |-> Add(reported[k], snap[c][k])]
    /\ UNCHANGED <<lockVars, fileVars, sockVars, stateVars, snap>>

CallerStep(c) ==
    /\ lpc # "unloaded"
    /\ \/ LockFails(c) \/ Unlock(c)
       \/ /\ \/ PcapOpen(c) \/ PcapClose(c) \/ KnetStart(c) \/ KnetStop(c)
             \/ UpdateState(c) \/ CopyStat(c) \/ ResetStats(c)
          /\ UNCHANGED op
    /\ UNCHANGED <<rxVars, modVars>>

-------------------------------------------------------------------------------
(***************************************************************************)
(* kwifimon_process_respose, run by the driver's thread on every frame     *)
(* while the hook is installed.                                            *)
(***************************************************************************)
RxGoto(from, to) == rxpc = from /\ rxpc' = to

RxEnter(f) ==
    /\ 1 \in hooks
    /\ RxGoto("idle", IF Counted(f) THEN "lock" ELSE "route")
    /\ frame' = f
    /\ seen' = IF Counted(f) THEN [seen EXCEPT ![CounterOf(f)] = Inc(@)]
                             ELSE seen
    /\ UNCHANGED <<lockVars, statVars, count>>

RxLock ==
    /\ mutex = "live" /\ holder = {}
    /\ RxGoto("lock", "load")
    /\ holder' = {Rx}
    /\ UNCHANGED <<mutex, statVars, frame, count, seen>>

\* The frame is then routed without having been counted.
RxLockFails ==
    /\ mutex \in {"failed", "deleted"}
    /\ RxGoto("lock", "route")
    /\ UNCHANGED <<lockVars, statVars, frame, count, seen>>

RxCount ==
    /\ \/ /\ RxGoto("load", "store")
          /\ count' = kwifimon_stats[CounterOf(frame)]
          /\ UNCHANGED kwifimon_stats
       \/ /\ RxGoto("store", "unlock")
          /\ kwifimon_stats' =
               [kwifimon_stats EXCEPT ![CounterOf(frame)] = Inc(count)]
          /\ count' = 0
    /\ UNCHANGED <<lockVars, snap, reported, frame, seen>>

\* Slip: return 0 before the unlock.
RxUnlock_EarlyReturn ==
    RxGoto("unlock", "route") /\ UNCHANGED <<lockVars, statVars, frame, count, seen>>

RxUnlock ==
    /\ RxGoto("unlock", "route")
    /\ holder' = holder \ {Rx}
    /\ UNCHANGED <<mutex, statVars, frame, count, seen>>

\* return 0 for a consumed frame, TAI_CONTINUE into the driver for the others.
\* TAI_CONTINUE follows ref_hooks[1], and what it finds there once the hook has
\* been released is undefined.
RxRoute ==
    /\ \/ RxGoto("route", "idle")
       \/ /\ 1 \notin hooks /\ ~Consumed(frame)
          /\ RxGoto("route", "lost")
    /\ UNCHANGED <<lockVars, statVars, frame, count, seen>>

RxKeeps == <<fileVars, sockVars, stateVars, callVars, modVars>>
RxStep  ==
    /\ lpc # "unloaded"
    /\ RxLockFails \/ RxCount \/ RxUnlock \/ RxRoute
    /\ UNCHANGED RxKeeps

-------------------------------------------------------------------------------
(***************************************************************************)
(* module_start and module_stop.                                           *)
(***************************************************************************)
LGoto(from, to) == lpc = from /\ lpc' = to

\* taiHookFunctionOffsetForKernel may fail; its result is not looked at.
PlaceHook(i, from, to) == LGoto(from, to) /\ hooks' \in {hooks, hooks \cup {i}}

\* The result of ksceKernelCreateMutex is not looked at; without SceWlanBt the
\* module starts all the same, with no hook.
ModuleStart ==
    /\ \/ /\ LGoto("create", "info")
          /\ mutex' \in {"live", "failed"}
          /\ UNCHANGED <<kwifimon_state, hooks>>
       \/ LGoto("info", "hook_rx") /\ UNCHANGED <<mutex, kwifimon_state, hooks>>
       \/ /\ LGoto("info", "loaded")
          /\ kwifimon_state' = STATE_ERROR
          /\ UNCHANGED <<mutex, hooks>>
       \/ /\ \/ PlaceHook(1, "hook_rx", "hook_ioctl")
             \/ PlaceHook(2, "hook_ioctl", "loaded")
          /\ UNCHANGED <<mutex, kwifimon_state>>
    /\ UNCHANGED <<holder, fileVars, sockVars, word, statVars, callVars, rxVars>>

\* The app unloads the module from the thread that makes its calls.
StopBegins ==
    /\ pc[Unloader] = "idle"
    /\ LGoto("loaded", "s_close")
    /\ UNCHANGED <<lockVars, fileVars, sockVars, stateVars, statVars, callVars,
                   rxVars, hooks>>

\* pcap_close and knet_stop, here without the mutex.
StopFile_ForgetFirst ==            \* slip: pcap_fd = -1, then close(pcap_fd)
    \/ /\ LGoto("s_close", IF pcap_fd >= 0 THEN "s_closed" ELSE "s_shut")
       /\ pcap_fd' = NoFd
       /\ UNCHANGED openFiles
    \/ /\ LGoto("s_closed", "s_shut")
       /\ openFiles' = openFiles \ {pcap_fd}
       /\ UNCHANGED pcap_fd

StopFile ==
    \/ /\ LGoto("s_close", IF pcap_fd >= 0 THEN "s_closed" ELSE "s_shut")
       /\ openFiles' = IF pcap_fd >= 0 THEN openFiles \ {pcap_fd} ELSE openFiles
       /\ UNCHANGED pcap_fd
    \/ /\ LGoto("s_closed", "s_shut")
       /\ pcap_fd' = NoFd
       /\ UNCHANGED openFiles

StopNet ==
    \/ /\ LGoto("s_shut", "s_shutdone")
       /\ openSocks' = openSocks \ {knet_fd}
       /\ UNCHANGED knet_fd
    \/ /\ LGoto("s_shutdone", "s_state")
       /\ knet_fd' = NoFd
       /\ UNCHANGED openSocks

\* taiHookReleaseForKernel, from the highest index down.
ReleaseHook_OffByOne(i, from, to) ==   \* slip: while (--i > 1)
    LGoto(from, to) /\ hooks' = IF i > 1 THEN hooks \ {i} ELSE hooks
ReleaseHook(i, from, to) == LGoto(from, to) /\ hooks' = hooks \ {i}

ModuleStop ==
    /\ \/ StopFile /\ UNCHANGED <<mutex, sockVars, kwifimon_state, hooks>>
       \/ StopNet /\ UNCHANGED <<mutex, fileVars, kwifimon_state, hooks>>
       \/ /\ LGoto("s_state", "s_hook_ioctl")
          /\ kwifimon_state' = STATE_IDLE
          /\ UNCHANGED <<mutex, fileVars, sockVars, hooks>>
       \/ /\ \/ ReleaseHook(2, "s_hook_ioctl", "s_hook_rx")
             \/ ReleaseHook(1, "s_hook_rx", "s_mutex")
          /\ UNCHANGED <<mutex, fileVars, sockVars, kwifimon_state>>
       \/ /\ LGoto("s_mutex", "stopped")
          /\ mutex' = IF mutex = "live" THEN "deleted" ELSE mutex
          /\ UNCHANGED <<fileVars, sockVars, kwifimon_state, hooks>>
    /\ UNCHANGED <<holder, word, statVars, callVars, rxVars>>

\* The thread that stopped the module has the kernel unmap it ...
Unload ==
    /\ pc[Unloader] = "idle"
    /\ LGoto("stopped", "unloaded")
    /\ UNCHANGED <<lockVars, fileVars, sockVars, stateVars, statVars, callVars,
                   rxVars, hooks>>

\* ... and module_stop has waited for nobody: a thread that is still in a
\* syscall or in the hook, or waits there for a mutex that was deleted, runs on
\* in memory that is gone.  What it does there is undefined.
Lost ==
    /\ lpc = "unloaded"
    /\ \/ \E c \in Callers :
            /\ pc[c] \notin {"idle", "lost"}
            /\ pc' = [pc EXCEPT ![c] = "lost"]
            /\ holder' = holder \ {c}
            /\ UNCHANGED rxpc
       \/ /\ rxpc \notin {"idle", "lost"} /\ rxpc' = "lost"
          /\ holder' = holder \ {Rx}
          /\ UNCHANGED pc
    /\ UNCHANGED <<mutex, fileVars, sockVars, stateVars, statVars, op, frame,
                   count, seen, modVars>>

-------------------------------------------------------------------------------
\* The plugin at work, from module_start on ...
Serve ==
    \/ ModuleStart
    \/ \E c \in Callers : Lock(c) \/ CallerStep(c)
    \/ \E c \in Callers, o \in Calls : Call(c, o)
    \/ RxStep
    \/ (RxLock \/ \E f \in Frames : RxEnter(f)) /\ UNCHANGED RxKeeps

\* ... and with module_stop.
Next == Serve \/ StopBegins \/ ModuleStop \/ Unload \/ Lost

\* Every thread that is inside the plugin is scheduled.  The mutex is created
\* with attribute 0, whose waiters are served in turn: a thread that waits gets
\* it if it is released again and again.  No caller has to call, no frame has
\* to come, nobody has to stop the module, and the kernel may refuse to unload
\* it.  Threads run on when it is unloaded, too.
Fairness ==
    /\ WF_vars(ModuleStart) /\ WF_vars(ModuleStop) /\ WF_vars(Lost)
    /\ \A c \in Callers : WF_vars(CallerStep(c)) /\ SF_vars(Lock(c))
    /\ WF_vars(RxStep) /\ SF_vars(RxLock /\ UNCHANGED RxKeeps)

ServeSpec == Init /\ [][Serve]_vars /\ Fairness
Spec      == Init /\ [][Next]_vars /\ Fairness

-------------------------------------------------------------------------------
(***************************************************************************)
(* What must hold.                                                         *)
(***************************************************************************)
States == [Callers -> SUBSET Bits]
Words  == 0 .. CounterMod - 1
Counts == [Kinds -> Words]
Views  == UNION {[K -> Words] : K \in SUBSET Kinds}

CallPcs == {"idle", "lock", "open", "reclosed", "create", "header", "close",
            "closed", "sock", "shut", "shutdone", "flags", "setflags", "copy",
            "reset", "unlock", "lost"}
RxPcs   == {"idle", "lock", "load", "store", "unlock", "route", "lost"}
LifePcs == {"create", "info", "hook_rx", "hook_ioctl", "loaded"} \cup Ended

\* Every variable has its type: counters fit their words, a descriptor is one
\* the kernel gave or -1, the state word has only the bits of its enum.
TypeOK ==
    /\ mutex \in {"absent", "live", "failed", "deleted"}
    /\ holder \subseteq Threads
    /\ kwifimon_state \subseteq Bits /\ word \in States
    /\ kwifimon_stats \in Counts /\ seen \in Counts /\ reported \in Counts
    /\ pcap_fd \in Fds \cup {NoFd} /\ openFiles \subseteq Fds
    /\ knet_fd \in Fds \cup {NoFd} /\ openSocks \subseteq Fds
    /\ hooks \subseteq {1, 2} /\ lpc \in LifePcs
    /\ pc \in [Callers -> CallPcs] /\ op \in [Callers -> Calls \cup {"none"}]
    /\ snap \in [Callers -> Views]
    /\ rxpc \in RxPcs /\ frame \in Frames /\ count \in Words

\* The steps between ksceKernelLockMutex and the end of ksceKernelUnlockMutex.
Inside(t) ==
    IF t = Rx THEN rxpc \in {"load", "store", "unlock"}
              ELSE pc[t] \notin {"idle", "lock", "lost"}

\* kwifimon_mutex is owned exactly by the thread that is between its lock and
\* its unlock: no path through a syscall or the hook (failed open, failed
\* header, failed socket, each counter) returns with the mutex still owned, and
\* no two threads are in there together, whatever module_stop is doing.
MutexOwned ==
    /\ holder = {t \in Threads : Inside(t)}
    /\ \A t, u \in holder : t = u

\* A frame that entered the hook and is not yet in its counter.
InFlight(k) ==
    IF rxpc \in {"lock", "load", "store"} /\ Counted(frame) /\ CounterOf(frame) = k
    THEN 1 ELSE 0

\* No frame is lost and none is counted twice, across any number of readings
\* with reset (kwifimon_mod_stats) by any number of threads: all that entered
\* the hook is in the counter, or in what was reported before a reset, or in
\* the hand of the receive thread.  (Without a mutex frames go uncounted.)
StatsConservation ==
    mutex \in {"absent", "live"} =>
        \A k \in Kinds :
            seen[k] = Add(Add(kwifimon_stats[k], reported[k]), InFlight(k))

\* Outside the two words of code between a close and the reset of its variable
\* the plugin's descriptors are live, and a file it opened and lost track of
\* does not exist: pcap_open on a running capture, after a failed open or after
\* a failed header leaks nothing and closes nothing twice.  (For sockets the
\* last does not hold: knet_start forgets the one it has.)
HandlesLive ==
    lpc \notin Ended =>
        /\ (\A c \in Callers : pc[c] \notin {"reclosed", "closed"})
              => openFiles = {pcap_fd} \ {NoFd}
        /\ (\A c \in Callers : pc[c] # "shutdone")
              => {knet_fd} \ {NoFd} \subseteq openSocks

\* Nothing the plugin shares has been touched since it was loaded.
Untouched ==
    /\ kwifimon_stats = Zero
    /\ pcap_fd = NoFd /\ knet_fd = NoFd
    /\ kwifimon_state \subseteq STATE_ERROR

\* module_start does not look at the result of ksceKernelCreateMutex
\* (kwifimon.c:378) and places the hooks all the same.  With a hook in place
\* either the mutex lives - it is never a deleted one that the hook would lock -
\* or it could not be created, and then no syscall and no frame has gone on past
\* its failed lock to the shared state.
NoWorkUnlocked ==
    hooks # {} => mutex = "live" \/ (mutex = "failed" /\ Untouched)

\* Once the thread that made all the calls has stopped the module no file is
\* left open, whatever the calls before it were and whichever of them failed.
UnloadLeavesNoFile == lpc \in {"stopped", "unloaded"} => openFiles = {}

\* "write to file / if (kwifimon_state & STATE_REC_FILE)" (kwifimon.c:278-279):
\* the bit says that packets go to the file, so at rest, with the bit set,
\* there is a file.
RecFileFlagMeansFile ==
    (\A c \in Callers : pc[c] = "idle") /\ lpc = "loaded"
        => (STATE_REC_FILE \subseteq kwifimon_state => pcap_fd # NoFd)

\* The top bit of STATE_ERROR stays until the module stops: recording syscalls
\* on a module without hooks do not make it look healthy.
ErrorSticky ==
    [][31 \in kwifimon_state /\ lpc # "s_state" => 31 \in kwifimon_state']_vars

\* Every syscall returns, with the mutex contended by the other threads and the
\* receive hook, and with module_stop deleting it under those that wait, unless
\* the module is unmapped while it is inside: module_stop drains nobody
\* (kwifimon.c:415-436), and the call is lost.
CallReturns == \A c \in Callers : pc[c] # "idle" ~> pc[c] \in {"idle", "lost"}

\* The driver's receive thread leaves the hook, or is lost because the hook or
\* the module was taken from under it.
RxLeaves == rxpc # "idle" ~> rxpc \in {"idle", "lost"}

-------------------------------------------------------------------------------
\* kwifimon_mod_stats answers when its copy is complete: from there to the end
\* of the memset the counters it is about to clear are cleared already.
Resetting == \E c \in Callers : pc[c] = "reset"

Service ==
    INSTANCE WifimonService WITH
        cnt   <- IF Resetting THEN Zero ELSE kwifimon_stats,
        flags <- kwifimon_state,
        view  <- [c \in Callers |-> IF DOMAIN snap[c] = Kinds THEN snap[c]
                                                            ELSE Nothing]

\* The plugin at work is that service: a reading copied word by word while
\* frames arrive and other threads read and reset is the counters at one
\* instant, and no update of the state word undoes another one.
ImplementsService == Service!Spec
===============================================================================
