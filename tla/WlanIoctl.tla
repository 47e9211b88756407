------------------------------- MODULE WlanIoctl ------------------------------
(***************************************************************************)
(* The ioctl hook (kwifimon_ioctl, src/src/kplugin/kwifimon.c) and the     *)
(* commands it sends.  A thread holds the driver's wlan_lock while it      *)
(* waits for the chip's answer; the answer comes through the receive       *)
(* thread, which runs kwifimon_process_respose on it after the frames that *)
(* came before, and that takes kwifimon_mutex.  What the syscalls do with  *)
(* that mutex is in Kwifimon; here they hold it and let it go.             *)
(***************************************************************************)
EXTENDS Sequences, Naturals

CONSTANTS
    Threads,     \* threads that issue ioctls
    Modes,       \* values of the MAC control word
    FirstMode,   \* the one in force at the start
    NoMode,      \* in a command that does not set it
    Nobody,      \* whom the answer to a command that was given up on is for
    QueueMax     \* received items that can wait for the receive thread

ASSUME WlanAssumption ==
    /\ FirstMode \in Modes /\ NoMode \notin Modes
    /\ Nobody \notin Threads
    /\ QueueMax \in Nat \ {0}

VARIABLES
    wlan_lock,   \* its owner, or Nobody
    pc, req,     \* where each thread is, and its request
    ret,         \* whether the request has gone well so far
    cmds,        \* the threads that have a wlan_cmd_t allocated
    chip,        \* the command the chip works on, or NoCmd
    rxq,         \* what the receive thread will find, oldest first
    rxpc,        \* where the receive thread is
    kmutex,      \* who has kwifimon_mutex: "free", "syscall" or "rx"
    mode,        \* the chip's MAC control word
    current_mac_control,  \* the driver's record of it
    doubt        \* history: the words that may be in force off the record

lockVars == <<wlan_lock, cmds>>
callVars == <<pc, req, ret>>
rxVars   == <<rxq, rxpc, kmutex>>
modeVars == <<mode, current_mac_control>>
vars == <<lockVars, callVars, chip, rxVars, modeVars, doubt>>

\* WLAN_IOCTL_GET_MAC_CONTROL, WLAN_IOCTL_SET_MAC_CONTROL, WLAN_IOCTL_ANYCMD with
\* the same command or another one, WLAN_IOCTL_MEM; and everything else: other
\* requests, and these with a buffer that is too short.
Requests == [what : {"get", "any", "mem", "else"}, mode : {NoMode}]
               \cup [what : {"set", "any"}, mode : Modes]
Else     == [what |-> "else", mode |-> NoMode]
NoCmd    == [owner |-> Nobody, mode |-> NoMode]
Data     == <<Nobody, "data">>
Item     == {Data} \cup (Threads \cup {Nobody}) \X {"ok", "error"}

IsCommand(r) == r.what \in {"set", "any"}

Init ==
    /\ wlan_lock = Nobody /\ cmds = {} /\ chip = NoCmd
    /\ pc = [t \in Threads |-> "idle"]
    /\ req = [t \in Threads |-> Else] /\ ret = [t \in Threads |-> "error"]
    /\ rxq = <<>> /\ rxpc = "idle" /\ kmutex = "free"
    /\ mode = FirstMode /\ current_mac_control = FirstMode
    /\ doubt = {}

-------------------------------------------------------------------------------
Goto(t, from, to) == pc[t] = from /\ pc' = [pc EXCEPT ![t] = to]
Result(t, r)      == ret' = [ret EXCEPT ![t] = r]

\* An ioctl arrives, and the driver's own handler has had it (TAI_CONTINUE): it
\* does not know these requests.
Enter(t, r) ==
    /\ Goto(t, "idle", "lock")
    /\ req' = [req EXCEPT ![t] = r]
    /\ UNCHANGED <<lockVars, ret, chip, rxVars, modeVars, doubt>>

\* wlan_lock, which may fail.
LockWlan(t) ==
    /\ wlan_lock = Nobody
    /\ Goto(t, "lock", IF IsCommand(req[t]) THEN "alloc" ELSE "direct")
    /\ wlan_lock' = t
    /\ UNCHANGED <<cmds, req, ret, chip, rxVars, modeVars, doubt>>

LockWlanFails(t) ==
    /\ Goto(t, "lock", "idle")
    /\ req' = [req EXCEPT ![t] = Else]
    /\ UNCHANGED <<lockVars, ret, chip, modeVars, doubt>>

\* The requests that send nothing.  wlan_mem_read and wlan_mem_write are the
\* driver's, and may fail.
Direct(t) ==
    /\ Goto(t, "direct", "unlock")
    /\ \E r \in {"ok", "error"} :
         /\ req[t].what = "get" => r = "ok"
         /\ req[t].what = "else" => r = ret[t]
         /\ Result(t, r)
    /\ UNCHANGED <<lockVars, req, chip, modeVars, doubt>>

\* kwifimon_mac_control and kwifimon_wlan_anycmd: wlan_cmd_alloc,
\* wlan_cmd_send2, wlan_cmd_wait, wlan_cmd_free.
Alloc(t) ==
    /\ \/ Goto(t, "alloc", "send") /\ cmds' = cmds \cup {t}
       \/ Goto(t, "alloc", "unlock") /\ UNCHANGED cmds
    /\ UNCHANGED <<wlan_lock, req, ret, chip, modeVars, doubt>>

\* With ANYCMD the same command can be sent past the driver's record.
Send(t) ==
    /\ \/ /\ chip = NoCmd
          /\ Goto(t, "send", "wait")
          /\ chip' = [owner |-> t, mode |-> req[t].mode]
          /\ doubt' = IF req[t].what = "any" THEN doubt \cup ({req[t].mode} \cap Modes)
                                           ELSE doubt
       \/ Goto(t, "send", "free") /\ UNCHANGED <<chip, doubt>>
    /\ UNCHANGED <<lockVars, req, ret, modeVars>>

\* wlan_cmd_wait gives up: the chip may be at it still, and its answer may be
\* under way, but nobody waits for it any more.
Orphan(cmd, t) == IF cmd.owner = t THEN [cmd EXCEPT !.owner = Nobody] ELSE cmd

WaitFails(t) ==
    /\ Goto(t, "wait", "free")
    /\ chip' = Orphan(chip, t)
    /\ rxq' = [i \in DOMAIN rxq |->
                 IF rxq[i][1] = t THEN <<Nobody, rxq[i][2]>> ELSE rxq[i]]
    /\ doubt' = doubt \cup ({req[t].mode} \cap Modes)
    /\ UNCHANGED <<lockVars, req, ret, rxpc, kmutex, modeVars>>

\* Slips: freed on success only; recorded whatever the answer was; recorded for
\* every command.
Free_OnSuccess(t) ==
    /\ Goto(t, "free", IF req[t].what = "set" /\ ret[t] = "ok" THEN "record"
                                                              ELSE "unlock")
    /\ cmds' = IF ret[t] = "ok" THEN cmds \ {t} ELSE cmds
    /\ UNCHANGED <<wlan_lock, req, ret, chip, modeVars, doubt>>
Free_AlwaysRecord(t) ==
    /\ Goto(t, "free", IF req[t].what = "set" THEN "record" ELSE "unlock")
    /\ cmds' = cmds \ {t}
    /\ UNCHANGED <<wlan_lock, req, ret, chip, modeVars, doubt>>

Free_RecordsAny(t) ==
    /\ Goto(t, "free", IF ret[t] = "ok" THEN "record" ELSE "unlock")
    /\ cmds' = cmds \ {t}
    /\ UNCHANGED <<wlan_lock, req, ret, chip, modeVars, doubt>>

Free(t) ==
    /\ Goto(t, "free", IF req[t].what = "set" /\ ret[t] = "ok" THEN "record"
                                                              ELSE "unlock")
    /\ cmds' = cmds \ {t}
    /\ UNCHANGED <<wlan_lock, req, ret, chip, modeVars, doubt>>

Record(t) ==
    /\ Goto(t, "record", "unlock")
    /\ current_mac_control' = req[t].mode
    /\ doubt' = {}
    /\ UNCHANGED <<lockVars, req, ret, chip, mode>>

\* With the unlock the call returns, and its request is done with.
Unlock(t) ==
    /\ Goto(t, "unlock", "idle")
    /\ wlan_lock' = Nobody
    /\ req' = [req EXCEPT ![t] = Else] /\ Result(t, "error")
    /\ UNCHANGED <<cmds, chip, modeVars, doubt>>

ThreadStep(t) ==
    \/ /\ \/ LockWlanFails(t) \/ Direct(t) \/ Alloc(t) \/ Send(t) \/ Free(t)
          \/ Record(t) \/ Unlock(t)
       /\ UNCHANGED rxVars
    \/ WaitFails(t)

-------------------------------------------------------------------------------
(***************************************************************************)
(* The chip, the receive thread, and the syscalls' use of kwifimon_mutex.  *)
(***************************************************************************)
DataArrives ==
    /\ Len(rxq) < QueueMax
    /\ rxq' = Append(rxq, Data)
    /\ UNCHANGED <<lockVars, callVars, chip, rxpc, kmutex, modeVars, doubt>>

\* The chip carries a command out, or rejects it, and answers.
ChipAnswers ==
    /\ chip # NoCmd /\ Len(rxq) < QueueMax
    /\ chip' = NoCmd
    /\ \/ /\ mode' = IF chip.mode \in Modes THEN chip.mode ELSE mode
          /\ rxq' = Append(rxq, <<chip.owner, "ok">>)
       \/ /\ UNCHANGED mode
          /\ rxq' = Append(rxq, <<chip.owner, "error">>)
    /\ UNCHANGED <<lockVars, callVars, rxpc, kmutex, current_mac_control, doubt>>

\* kwifimon_process_respose on the oldest item.  A data frame is counted under
\* kwifimon_mutex; a command response goes to the driver, which completes the
\* command if its thread still waits.
RxData ==
    /\ rxpc = "idle" /\ rxq # <<>> /\ Head(rxq) = Data
    /\ rxpc' = "lock" /\ rxq' = Tail(rxq)
    /\ UNCHANGED <<lockVars, callVars, chip, kmutex, modeVars, doubt>>

RxLock ==
    /\ rxpc = "lock" /\ kmutex = "free"
    /\ rxpc' = "count" /\ kmutex' = "rx"
    /\ UNCHANGED <<lockVars, callVars, chip, rxq, modeVars, doubt>>

RxUnlock_Kept ==                      \* slip: return 0 before the unlock
    /\ rxpc = "count" /\ rxpc' = "idle"
    /\ UNCHANGED <<lockVars, callVars, chip, rxq, kmutex, modeVars, doubt>>

RxUnlock ==
    /\ rxpc = "count"
    /\ rxpc' = "idle" /\ kmutex' = "free"
    /\ UNCHANGED <<lockVars, callVars, chip, rxq, modeVars, doubt>>

RxResponse ==
    /\ rxpc = "idle" /\ rxq # <<>> /\ Head(rxq) # Data
    /\ rxq' = Tail(rxq)
    /\ LET t == Head(rxq)[1]
       IN  IF t = Nobody THEN UNCHANGED callVars
           ELSE Goto(t, "wait", "free") /\ Result(t, Head(rxq)[2]) /\ UNCHANGED req
    /\ UNCHANGED <<lockVars, chip, rxpc, kmutex, modeVars, doubt>>

SyscallLocks ==
    /\ kmutex = "free" /\ kmutex' = "syscall"
    /\ UNCHANGED <<lockVars, callVars, chip, rxq, rxpc, modeVars, doubt>>

SyscallUnlocks ==
    /\ kmutex = "syscall" /\ kmutex' = "free"
    /\ UNCHANGED <<lockVars, callVars, chip, rxq, rxpc, modeVars, doubt>>

Next ==
    \/ \E t \in Threads : ThreadStep(t) \/ LockWlan(t)
    \/ \E t \in Threads, r \in Requests : Enter(t, r)
    \/ DataArrives \/ ChipAnswers
    \/ RxData \/ RxLock \/ RxUnlock \/ RxResponse
    \/ SyscallLocks \/ SyscallUnlocks

\* The chip answers, and gets its turn among the data frames; the receive thread
\* runs; a syscall ends (CallReturns of Kwifimon); the mutexes serve their waiters
\* in turn.  wlan_cmd_wait is not relied on to give up: whether it does is the
\* driver's affair.
Progress(t) ==
    LockWlanFails(t) \/ Direct(t) \/ Alloc(t) \/ Send(t) \/ Free(t)
      \/ Record(t) \/ Unlock(t)

Fairness ==
    /\ \A t \in Threads :
         /\ WF_vars(Progress(t) /\ pc[t] # "lock" /\ UNCHANGED rxVars)
         /\ SF_vars(LockWlan(t))
    /\ SF_vars(ChipAnswers)
    /\ WF_vars(RxData \/ RxUnlock \/ RxResponse) /\ SF_vars(RxLock)
    /\ WF_vars(SyscallUnlocks)

Spec == Init /\ [][Next]_vars /\ Fairness
-------------------------------------------------------------------------------
\* Every variable has its type.
TypeOK ==
    /\ wlan_lock \in Threads \cup {Nobody} /\ cmds \subseteq Threads
    /\ pc \in [Threads -> {"idle", "lock", "direct", "alloc", "send", "wait",
                           "free", "record", "unlock"}]
    /\ req \in [Threads -> Requests] /\ ret \in [Threads -> {"ok", "error"}]
    /\ chip \in [owner : Threads \cup {Nobody}, mode : Modes \cup {NoMode}]
    /\ rxq \in Seq(Item)
    /\ rxpc \in {"idle", "lock", "count"} /\ kmutex \in {"free", "syscall", "rx"}
    /\ mode \in Modes /\ current_mac_control \in Modes /\ doubt \subseteq Modes

\* wlan_lock and the command buffers belong to the one thread that is between
\* lock and unlock: no failure of alloc, send, wait or of the chip returns with
\* the lock held or a wlan_cmd_t not freed.
NothingLeaked ==
    /\ \A t \in Threads : pc[t] \notin {"idle", "lock"} <=> wlan_lock = t
    /\ cmds = {t \in Threads : pc[t] \in {"send", "wait", "free"}}

\* WLAN_IOCTL_GET_MAC_CONTROL tells the truth: with wlan_lock free the chip's word
\* is the driver's record of it, or one that since the last successful SET was in
\* a command that was given up on, and may take effect late, or went by ANYCMD.
ModeKnown == wlan_lock = Nobody => mode \in {current_mac_control} \cup doubt

\* Every ioctl returns, although it waits with wlan_lock held for a thread that
\* may wait for kwifimon_mutex, and other ioctls wait for wlan_lock.
IoctlReturns == \A t \in Threads : pc[t] # "idle" ~> pc[t] = "idle"
===============================================================================
