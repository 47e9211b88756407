---------------------------- MODULE WlanIoctlProofs ----------------------------
(***************************************************************************)
(* What the ioctl hook leaves behind, for any number of threads, any modes *)
(* and a receive queue of any length.                                      *)
(***************************************************************************)
EXTENDS WlanIoctl, TLAPS

\* A thread's result is good only once an answer said so.
ResultFresh ==
    \A t \in Threads :
        pc[t] \in {"idle", "lock", "direct", "alloc", "send", "wait"}
            => ret[t] = "error"

\* What is recorded is a mode that was asked for, and was granted.
RecordsSet ==
    \A t \in Threads :
        /\ pc[t] = "record" => req[t].what = "set" /\ ret[t] = "ok"
        /\ req[t].what = "set" => req[t].mode \in Modes
        /\ pc[t] = "direct" => req[t].what \notin {"set", "any"}
        /\ pc[t] \in {"alloc", "send", "wait", "free", "record"}
             => req[t].what \in {"set", "any"}

\* The command of a thread that waits is with the chip, or its one answer is
\* under way and the chip has nothing to do.
OneAnswer ==
    /\ chip.owner \in Threads =>
         /\ pc[chip.owner] = "wait" /\ req[chip.owner].mode = chip.mode
         /\ \A i \in DOMAIN rxq : rxq[i][1] # chip.owner
    /\ \A i \in DOMAIN rxq :
         rxq[i][1] \in Threads => pc[rxq[i][1]] = "wait" /\ chip = NoCmd
    /\ \A i, j \in DOMAIN rxq :
         rxq[i][1] \in Threads /\ rxq[j][1] = rxq[i][1] => i = j

\* A command that went well is in force as long as its thread has the lock.
InForce ==
    \A t \in Threads :
        req[t].mode \in Modes =>
            /\ \A i \in DOMAIN rxq : rxq[i] = <<t, "ok">> => mode = req[t].mode
            /\ pc[t] \in {"free", "record"} /\ ret[t] = "ok"
                 => mode = req[t].mode /\ chip = NoCmd

\* A mode the chip may still set without the record following is in doubt.
Doubted ==
    /\ chip.mode \in Modes /\ chip.owner = Nobody => chip.mode \in doubt
    /\ \A t \in Threads :
         req[t].what = "any" /\ req[t].mode \in Modes /\ pc[t] = "wait"
             => req[t].mode \in doubt

\* The record will be made by the thread that has the lock.
WillRecord(t) ==
    /\ req[t].what = "set" /\ mode = req[t].mode
    /\ \/ pc[t] = "wait" /\ \E i \in DOMAIN rxq : rxq[i] = <<t, "ok">>
       \/ pc[t] \in {"free", "record"} /\ ret[t] = "ok"

RecordFollows ==
    \/ mode \in {current_mac_control} \cup doubt
    \/ \E t \in Threads : WillRecord(t)

IInv ==
    /\ TypeOK /\ NothingLeaked /\ ResultFresh /\ RecordsSet
    /\ OneAnswer /\ InForce /\ Doubted /\ RecordFollows

-------------------------------------------------------------------------------
USE DEF vars, lockVars, callVars, rxVars, modeVars

\* At the start there is no request, no command and no doubt.
LEMMA InitIInv == Init => IInv
<1> SUFFICES ASSUME Init PROVE IInv
  OBVIOUS
<1> USE WlanAssumption DEF Init
<1>1. TypeOK
  BY DEF TypeOK, Requests, Else, NoCmd
<1>2. NothingLeaked /\ ResultFresh /\ RecordsSet
  BY DEF NothingLeaked, ResultFresh, RecordsSet, Else
<1>3. OneAnswer /\ InForce /\ Doubted /\ RecordFollows
  BY DEF OneAnswer, InForce, Doubted, RecordFollows, NoCmd, Else
<1> QED
  BY <1>1, <1>2, <1>3 DEF IInv

\* What a request can carry.
LEMMA RequestMode ==
    ASSUME NEW r \in Requests PROVE r.mode \in Modes \cup {NoMode}
BY DEF Requests

\* Only the owner of wlan_lock is in the middle of a request.
LEMMA OneInside ==
    ASSUME NothingLeaked, NEW t \in Threads, NEW u \in Threads,
           pc[t] \notin {"idle", "lock"}, pc[u] \notin {"idle", "lock"}
    PROVE  t = u
BY DEF NothingLeaked

\* The steps that move no command, answer or mode.
LEMMA StepQuiet ==
    ASSUME IInv, NEW t \in Threads, UNCHANGED <<chip, rxVars, modeVars, doubt>>,
           \/ \E r \in Requests : Enter(t, r)
           \/ LockWlan(t) \/ LockWlanFails(t) \/ Direct(t) \/ Alloc(t)
    PROVE  IInv'
<1> USE WlanAssumption DEF IInv, Goto, Result
<1>0. t # Nobody
  OBVIOUS
<1>1. TypeOK'
  BY DEF Enter, LockWlan, LockWlanFails, Direct, Alloc, TypeOK, Else, Requests
<1>2. NothingLeaked'
  BY DEF Enter, LockWlan, LockWlanFails, Direct, Alloc, TypeOK, NothingLeaked
<1>3. ResultFresh'
  BY DEF Enter, LockWlan, LockWlanFails, Direct, Alloc, TypeOK, ResultFresh
<1>4. RecordsSet'
  BY DEF Enter, LockWlan, LockWlanFails, Direct, Alloc, TypeOK, RecordsSet,
         Requests, Else, IsCommand
<1>5. OneAnswer'
  BY DEF Enter, LockWlan, LockWlanFails, Direct, Alloc, TypeOK, OneAnswer
<1>6. InForce' /\ Doubted'
  BY DEF Enter, LockWlan, LockWlanFails, Direct, Alloc, TypeOK, OneAnswer,
         InForce, Doubted
<1>7. RecordFollows'
  BY DEF Enter, LockWlan, LockWlanFails, Direct, Alloc, TypeOK, OneAnswer,
         RecordFollows, WillRecord
<1> QED
  BY <1>1, <1>2, <1>3, <1>4, <1>5, <1>6, <1>7

\* A command goes to the chip.
LEMMA StepSend ==
    ASSUME IInv, NEW t \in Threads, Send(t), UNCHANGED rxVars
    PROVE  IInv'
<1> USE WlanAssumption DEF IInv, Goto, Send
<1>1. TypeOK'
  BY RequestMode DEF TypeOK
<1>2. NothingLeaked' /\ ResultFresh' /\ RecordsSet'
  BY DEF TypeOK, NothingLeaked, ResultFresh, RecordsSet
<1>3. OneAnswer'
  BY OneInside DEF TypeOK, OneAnswer, NoCmd, Item
<1>4. InForce'
  <2>1. \A u \in Threads : pc[u] \in {"free", "record"} => u = t
    BY OneInside
  <2>2. pc'[t] # "record" /\ ret[t] = "error"
    BY DEF TypeOK, ResultFresh
  <2>3. \A u \in Threads : u # t => pc'[u] = pc[u]
    BY DEF TypeOK
  <2> QED
    BY <2>1, <2>2, <2>3 DEF InForce
<1>6. Doubted'
  BY DEF TypeOK, Doubted
<1>5. RecordFollows'
  BY OneInside DEF TypeOK, RecordFollows, WillRecord
<1> QED
  BY <1>1, <1>2, <1>3, <1>4, <1>5, <1>6

\* A command is given up on: its mode, if it has one, is in doubt from now on.
LEMMA StepWaitFails ==
    ASSUME IInv, NEW t \in Threads, WaitFails(t)
    PROVE  IInv'
<1> USE WlanAssumption DEF IInv, Goto, WaitFails, Orphan
<1>1. TypeOK'
  <2>1. \A i \in DOMAIN rxq : rxq[i] \in Item
    BY DEF TypeOK
  <2>2. \A i \in DOMAIN rxq :
          (IF rxq[i][1] = t THEN <<Nobody, rxq[i][2]>> ELSE rxq[i]) \in Item
    BY <2>1 DEF Item, Data
  <2>3. rxq' \in Seq(Item)
    BY <2>2 DEF TypeOK
  <2>4. chip' \in [owner : Threads \cup {Nobody}, mode : Modes \cup {NoMode}]
    BY DEF TypeOK
  <2> QED
    BY <2>3, <2>4 DEF TypeOK
<1>2. NothingLeaked' /\ ResultFresh' /\ RecordsSet'
  BY DEF TypeOK, NothingLeaked, ResultFresh, RecordsSet
<1>3. /\ DOMAIN rxq' = DOMAIN rxq
      /\ \A i \in DOMAIN rxq :
           IF rxq[i][1] = t THEN rxq'[i][1] = Nobody ELSE rxq'[i] = rxq[i]
  BY DEF TypeOK
<1>4. OneAnswer'
  BY <1>3, OneInside DEF TypeOK, OneAnswer, NoCmd
<1>5. InForce' /\ Doubted'
  BY <1>3, OneInside DEF TypeOK, InForce, Doubted, OneAnswer, NoCmd, ResultFresh
<1>6. RecordFollows'
  BY <1>3, OneInside DEF TypeOK, RecordFollows, WillRecord, RecordsSet
<1> QED
  BY <1>1, <1>2, <1>4, <1>5, <1>6

\* The end of a request; when its mode is recorded the doubts are over.
LEMMA StepEnd ==
    ASSUME IInv, NEW t \in Threads, Free(t) \/ Record(t) \/ Unlock(t),
           UNCHANGED rxVars
    PROVE  IInv'
<1> USE WlanAssumption DEF IInv, Goto, Result
<1>1. TypeOK'
  BY DEF TypeOK, RecordsSet, Free, Record, Unlock, Requests, Else
<1>2. NothingLeaked'
  BY DEF TypeOK, NothingLeaked, Free, Record, Unlock
<1>3. ResultFresh' /\ RecordsSet'
  BY DEF TypeOK, ResultFresh, RecordsSet, Free, Record, Unlock, Else
<1>4. OneAnswer'
  BY DEF TypeOK, OneAnswer, Free, Record, Unlock
<1>5. InForce'
  BY DEF TypeOK, InForce, OneAnswer, Free, Record, Unlock, Else
<1>6. Doubted'
  BY OneInside DEF TypeOK, Doubted, InForce, RecordsSet, NoCmd, Free, Record,
                   Unlock, Else
<1>7. RecordFollows'
  BY OneInside DEF TypeOK, RecordFollows, WillRecord, InForce, RecordsSet, Free,
                   Record, Unlock, OneAnswer
<1> QED
  BY <1>1, <1>2, <1>3, <1>4, <1>5, <1>6, <1>7

\* A data frame is nobody's answer.
LEMMA StepArrive ==
    ASSUME IInv, DataArrives
    PROVE  IInv'
<1> USE WlanAssumption DEF IInv, DataArrives
<1>1. /\ Data \in Item /\ Data[1] = Nobody
      /\ rxq' \in Seq(Item) /\ DOMAIN rxq' = 1 .. Len(rxq) + 1
      /\ DOMAIN rxq = 1 .. Len(rxq)
      /\ rxq'[Len(rxq) + 1] = Data /\ \A i \in DOMAIN rxq : rxq'[i] = rxq[i]
  BY DEF TypeOK, Item, Data
<1>2. \A t \in Threads, i \in DOMAIN rxq' : rxq'[i][1] = t => i \in DOMAIN rxq
  BY <1>1
<1>3. TypeOK' /\ NothingLeaked' /\ ResultFresh' /\ RecordsSet'
  BY <1>1 DEF TypeOK, NothingLeaked, ResultFresh, RecordsSet
<1>4. OneAnswer'
  BY <1>1, <1>2 DEF TypeOK, OneAnswer
<1>5. InForce'
  <2>1. \A t \in Threads, i \in DOMAIN rxq' :
          rxq'[i] = <<t, "ok">> => i \in DOMAIN rxq /\ rxq[i] = <<t, "ok">>
    BY <1>1, <1>2
  <2> QED
    BY <2>1 DEF InForce
<1>7. Doubted'
  BY DEF Doubted
<1>6. RecordFollows'
  BY <1>1 DEF TypeOK, RecordFollows, WillRecord
<1> QED
  BY <1>3, <1>4, <1>5, <1>6, <1>7

\* The chip carries out the command it has.
LEMMA StepAnswer ==
    ASSUME IInv, ChipAnswers
    PROVE  IInv'
<1> USE WlanAssumption DEF IInv
<1> DEFINE n == Len(rxq) + 1
<1>1. PICK r \in {"ok", "error"} :
        /\ rxq' = Append(rxq, <<chip.owner, r>>)
        /\ mode' = IF r = "ok" /\ chip.mode \in Modes THEN chip.mode ELSE mode
  BY DEF ChipAnswers
<1>2. /\ <<chip.owner, r>> \in Item
      /\ rxq' \in Seq(Item) /\ DOMAIN rxq' = 1 .. n /\ DOMAIN rxq = 1 .. Len(rxq)
      /\ rxq'[n] = <<chip.owner, r>> /\ \A i \in DOMAIN rxq : rxq'[i] = rxq[i]
      /\ Len(rxq) \in Nat
  BY <1>1 DEF TypeOK, Item
<1>3. /\ chip # NoCmd /\ chip' = NoCmd
      /\ UNCHANGED <<lockVars, callVars, rxpc, kmutex, current_mac_control, doubt>>
  BY DEF ChipAnswers
<1>4. TypeOK'
  BY <1>1, <1>2, <1>3 DEF TypeOK, NoCmd
<1>5. NothingLeaked' /\ ResultFresh' /\ RecordsSet'
  BY <1>3 DEF NothingLeaked, ResultFresh, RecordsSet
<1>6. \A i \in DOMAIN rxq : rxq[i][1] \notin Threads
  BY <1>3 DEF OneAnswer
<1>7. OneAnswer'
  <2>1. \A i \in DOMAIN rxq' :
          rxq'[i][1] \in Threads => i = n /\ rxq'[i][1] = chip.owner
    BY <1>2, <1>6
  <2>2. chip'.owner \notin Threads
    BY <1>3 DEF NoCmd
  <2>3. chip.owner \in Threads => pc'[chip.owner] = "wait"
    BY <1>3 DEF OneAnswer
  <2> QED
    BY <2>1, <2>2, <2>3, <1>3 DEF OneAnswer
<1>8. InForce'
  BY <1>1, <1>2, <1>3, <1>6 DEF TypeOK, InForce, OneAnswer
<1>9. Doubted'
  BY <1>3 DEF TypeOK, Doubted, NoCmd
<1>10. RecordFollows'
  <2>1. CASE mode' = mode
    <3>1. ASSUME NEW t \in Threads, WillRecord(t) PROVE WillRecord(t)'
      <4>1. pc[t] # "wait"
        BY <3>1, <1>6 DEF WillRecord
      <4> QED
        BY <3>1, <4>1, <2>1, <1>3 DEF WillRecord
    <3> QED
      BY <3>1, <2>1, <1>3 DEF RecordFollows
  <2>2. CASE r = "ok" /\ chip.mode \in Modes /\ mode' = chip.mode
    <3>1. CASE chip.owner = Nobody
      BY <3>1, <2>2, <1>3 DEF RecordFollows, Doubted
    <3>2. ASSUME NEW t \in Threads, chip.owner = t PROVE RecordFollows'
      <4>1. pc[t] = "wait" /\ req[t].mode = chip.mode
        BY <3>2 DEF OneAnswer
      <4>2. CASE req[t].what = "any"
        BY <3>2, <4>1, <4>2, <2>2, <1>3 DEF RecordFollows, Doubted
      <4>3. CASE req[t].what = "set"
        <5>1. n \in DOMAIN rxq' /\ rxq'[n] = <<t, "ok">>
          BY <1>2, <2>2, <3>2
        <5>2. WillRecord(t)'
          BY <5>1, <4>1, <4>3, <2>2, <1>3 DEF WillRecord
        <5> QED
          BY <5>2, <3>2 DEF RecordFollows
      <4> QED
        BY <3>2, <4>1, <4>2, <4>3 DEF RecordsSet
    <3> QED
      BY <3>1, <3>2 DEF TypeOK
  <2> QED
    BY <1>1, <2>1, <2>2
<1> QED
  BY <1>4, <1>5, <1>7, <1>8, <1>9, <1>10

\* A thread that will record goes on to, if its request and answer stay.
LEMMA RecordKept ==
    ASSUME NEW t \in Threads, WillRecord(t), UNCHANGED <<callVars, mode>>,
           \A i \in DOMAIN rxq : rxq[i] = <<t, "ok">> =>
              \E j \in DOMAIN rxq' : rxq'[j] = rxq[i]
    PROVE  WillRecord(t)'
BY DEF WillRecord

\* The receive thread takes a data frame, an answer nobody waits for, or one that
\* ends a wait.
LEMMA StepRx ==
    ASSUME IInv, RxData \/ RxResponse
    PROVE  IInv'
<1> USE WlanAssumption DEF IInv, Goto, Result
<1>1. /\ rxq \in Seq(Item) /\ rxq # <<>> /\ rxq' = Tail(rxq)
      /\ UNCHANGED <<lockVars, chip, kmutex, modeVars, doubt>>
  BY DEF RxData, RxResponse, TypeOK
<1>2. /\ rxq' \in Seq(Item) /\ Len(rxq) \in Nat \ {0}
      /\ DOMAIN rxq = 1 .. Len(rxq) /\ DOMAIN rxq' = 1 .. Len(rxq) - 1
      /\ \A i \in DOMAIN rxq' : i + 1 \in DOMAIN rxq /\ rxq'[i] = rxq[i + 1]
      /\ Head(rxq) = rxq[1] /\ 1 \in DOMAIN rxq /\ rxq[1] \in Item
  BY <1>1
<1>3. CASE UNCHANGED callVars
  <2>1. rxq[1][1] \notin Threads
    BY <1>2, <1>3 DEF RxData, RxResponse, Data, TypeOK, Item, OneAnswer
  <2>2. TypeOK' /\ NothingLeaked' /\ ResultFresh' /\ RecordsSet'
    BY <1>1, <1>2, <1>3
       DEF RxData, RxResponse, TypeOK, NothingLeaked, ResultFresh, RecordsSet
  <2>3. OneAnswer'
    BY <1>1, <1>2, <1>3 DEF TypeOK, OneAnswer
  <2>4. InForce' /\ Doubted'
    BY <1>1, <1>2, <1>3 DEF TypeOK, InForce, Doubted
  <2>5. RecordFollows'
    <3>1. \A i \in DOMAIN rxq, t \in Threads :
            rxq[i] = <<t, "ok">>
              => i # 1 /\ i - 1 \in DOMAIN rxq' /\ rxq'[i - 1] = rxq[i]
      BY <2>1, <1>2
    <3> QED
      BY <3>1, <1>1, <1>3, RecordKept DEF RecordFollows
  <2> QED
    BY <2>2, <2>3, <2>4, <2>5
<1>4. CASE /\ RxResponse /\ rxq[1][1] # Nobody
  <2>1. PICK t \in Threads :
          /\ rxq[1] = <<t, rxq[1][2]>> /\ rxq[1][1] = t
          /\ rxq[1][2] \in {"ok", "error"}
    BY <1>2, <1>4 DEF Item, Data, RxResponse
  <2>2. /\ pc[t] = "wait" /\ pc' = [pc EXCEPT ![t] = "free"]
        /\ ret' = [ret EXCEPT ![t] = rxq[1][2]] /\ UNCHANGED <<req, rxpc>>
    BY <2>1, <1>2, <1>4 DEF RxResponse
  <2>3. \A i \in DOMAIN rxq' : rxq'[i][1] # t
    BY <2>1, <1>2 DEF OneAnswer
  <2>4. chip = NoCmd
    BY <2>1, <1>2 DEF OneAnswer
  <2>5. TypeOK'
    BY <2>1, <2>2, <1>1, <1>2 DEF TypeOK
  <2>6. NothingLeaked' /\ ResultFresh' /\ RecordsSet'
    BY <2>1, <2>2, <1>1 DEF TypeOK, NothingLeaked, ResultFresh, RecordsSet
  <2>7. OneAnswer'
    BY <2>1, <2>2, <2>3, <2>4, <1>1, <1>2 DEF TypeOK, OneAnswer, NoCmd
  <2>8. InForce'
    <3>1. ASSUME NEW u \in Threads, req[u].mode \in Modes, NEW i \in DOMAIN rxq',
                 rxq'[i] = <<u, "ok">>
          PROVE  mode = req[u].mode
      BY <3>1, <1>2 DEF InForce
    <3>2. ASSUME NEW u \in Threads, req[u].mode \in Modes,
                 pc'[u] \in {"free", "record"}, ret'[u] = "ok"
          PROVE  mode = req[u].mode /\ chip = NoCmd
      <4>1. CASE u = t
        <5>1. rxq[1] = <<u, "ok">>
          BY <4>1, <3>2, <2>1, <2>2 DEF TypeOK
        <5> QED
          BY <5>1, <3>2, <2>4, <1>2 DEF InForce
      <4>2. CASE u # t
        BY <4>2, <3>2, <2>2 DEF TypeOK, InForce
      <4> QED
        BY <4>1, <4>2
    <3> QED
      BY <3>1, <3>2, <2>2, <1>1 DEF InForce
  <2>9. Doubted'
    BY <2>1, <2>2, <1>1 DEF TypeOK, Doubted
  <2>10. RecordFollows'
    <3>1. ASSUME NEW u \in Threads, WillRecord(u) PROVE WillRecord(t)'
      <4>1. u = t
        BY <3>1, <2>1, <2>2, OneInside DEF WillRecord
      <4>2. PICK i \in DOMAIN rxq : rxq[i] = <<t, "ok">>
        BY <3>1, <4>1, <2>2 DEF WillRecord
      <4>3. i = 1
        BY <4>2, <2>1, <1>2 DEF OneAnswer
      <4>4. rxq[1][2] = "ok"
        BY <4>2, <4>3
      <4> QED
        BY <3>1, <4>1, <4>4, <2>1, <2>2, <1>1 DEF WillRecord, TypeOK
    <3> QED
      BY <3>1, <2>1, <1>1 DEF RecordFollows
  <2> QED
    BY <2>5, <2>6, <2>7, <2>8, <2>9, <2>10
<1> QED
  BY <1>2, <1>3, <1>4 DEF RxData, RxResponse

\* kwifimon_mutex changes hands.
LEMMA StepMutex ==
    ASSUME IInv, \/ RxLock \/ RxUnlock \/ SyscallLocks \/ SyscallUnlocks
                 \/ UNCHANGED vars
    PROVE  IInv'
BY DEF IInv, TypeOK, NothingLeaked, ResultFresh, RecordsSet, OneAnswer, InForce,
       Doubted, RecordFollows, WillRecord, RxLock, RxUnlock, SyscallLocks,
       SyscallUnlocks

\* Every step keeps the invariant.
LEMMA StepIInv == IInv /\ [Next]_vars => IInv'
<1> SUFFICES ASSUME IInv, [Next]_vars PROVE IInv'
  OBVIOUS
<1>1. ASSUME NEW t \in Threads, ThreadStep(t) \/ LockWlan(t) PROVE IInv'
  BY <1>1, StepQuiet, StepSend, StepWaitFails, StepEnd
     DEF ThreadStep, LockWlan, LockWlanFails, Direct, Alloc
<1>2. ASSUME NEW t \in Threads, NEW r \in Requests, Enter(t, r) PROVE IInv'
  BY <1>2, StepQuiet DEF Enter
<1> QED
  BY <1>1, <1>2, StepArrive, StepAnswer, StepRx, StepMutex DEF Next

\* So it holds always.
LEMMA AlwaysIInv == Spec => []IInv
BY InitIInv, StepIInv, PTL DEF Spec

\* The lock, the queue, the requests and the modes have their types.
THEOREM TypeCorrect == Spec => []TypeOK
<1>1. IInv => TypeOK
  BY DEF IInv
<1> QED
  BY <1>1, AlwaysIInv, PTL

\* wlan_lock and the command buffers are given back on every path, whichever of
\* alloc, send and wait fails and whatever the chip answers.
THEOREM LeakCorrect == Spec => []NothingLeaked
<1>1. IInv => NothingLeaked
  BY DEF IInv
<1> QED
  BY <1>1, AlwaysIInv, PTL

\* WLAN_IOCTL_GET_MAC_CONTROL tells the chip's MAC control word, or the word is
\* one of a command the driver gave up on or that went past its record.
THEOREM ModeCorrect == Spec => []ModeKnown
<1>1. IInv => ModeKnown
  BY WlanAssumption
     DEF IInv, ModeKnown, RecordFollows, WillRecord, NothingLeaked
<1> QED
  BY <1>1, AlwaysIInv, PTL
===============================================================================
