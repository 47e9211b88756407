---------------------------- MODULE RxReorderProofs ---------------------------
(***************************************************************************)
(* Safety of the reorder table, for every window, every space of sequence  *)
(* numbers and any number of frames and of contexts that meet.             *)
(***************************************************************************)
EXTENDS RxReorder, TLAPS

USE DEF vars, tblVars, timeVars, sideVars, agentVars, airVars, histVars

-------------------------------------------------------------------------------
(***************************************************************************)
(* Lemmas about the operators.                                             *)
(***************************************************************************)

\* Sequence numbers are reduced to their space.
LEMMA Reduced == \A x \in Int : x % SeqMod \in 0 .. SeqMod - 1
BY ReorderAssumption

\* Only frames come, and none that has come before.
LEMMA SendableFrame ==
    ASSUME NEW n \in Sendable, base \in Nat
    PROVE  n \in Frames /\ n \in Nat /\ base <= n /\ n \notin came
<1>1. n \in Sent /\ n \in base .. base + WinSize - 1 /\ n \notin came
  BY DEF Sendable
<1>2. n \in Frames
  BY <1>1, ReorderAssumption DEF Sent, Frames
<1> QED
  BY <1>1, <1>2, ReorderAssumption DEF Frames

\* A rotation brings every packet to one slot, and none from elsewhere.
LEMMA RotatedType ==
    ASSUME NEW d \in 0 .. WinSize, rx_reorder_ptr \in [Slots -> Frames \cup {Empty}]
    PROVE  Rotated(d) \in [Slots -> Frames \cup {Empty}]
BY ReorderAssumption DEF Rotated, Slots

LEMMA RotatedKeeps ==
    ASSUME NEW d \in 0 .. WinSize, rx_reorder_ptr \in [Slots -> Frames \cup {Empty}],
           \A j, k \in Slots : j # k /\ rx_reorder_ptr[j] = rx_reorder_ptr[k]
                                    => rx_reorder_ptr[j] = Empty
    PROVE  /\ \A j, k \in Slots : j # k /\ Rotated(d)[j] = Rotated(d)[k]
                                       => Rotated(d)[j] = Empty
           /\ \A k \in Slots : \/ Rotated(d)[k] = Empty
                               \/ \E j \in Slots : Rotated(d)[k] = rx_reorder_ptr[j]
<1> DEFINE Origin(k) == IF k < WinSize - d THEN k + d ELSE k
<1>1. \A k \in Slots : Origin(k) \in Slots
  BY ReorderAssumption DEF Slots
<1>2. \A k \in Slots : Rotated(d)[k] = Empty \/ Rotated(d)[k] = rx_reorder_ptr[Origin(k)]
  BY ReorderAssumption DEF Rotated, Slots
<1>3. \A j, k \in Slots : j # k /\ Origin(j) = Origin(k)
                              => Rotated(d)[j] = Empty \/ Rotated(d)[k] = Empty
  BY ReorderAssumption DEF Rotated, Slots
<1> QED
  BY <1>1, <1>2, <1>3

-------------------------------------------------------------------------------
(***************************************************************************)
(* Types.                                                                  *)
(***************************************************************************)

\* A context that has a packet in its hand has taken it from a slot.
Holding ==
    \A a \in Agents : pc[a] \in {"give", "pass"} => hand[a] \in Frames /\ loc[a].i < WinSize

USE DEF TypeOK, Agents, Goto, Keep, Holding


\* Local variables as the actions set them.
KindsOf == {"none", "data", "bar", "sync", "addba", "delba", "flush"}
LEMMA LocalIdle == Idle \in Locals
BY ReorderAssumption DEF Idle, Locals, Empty

LEMMA LocalIncoming ==
    ASSUME NEW l \in Locals, NEW n \in Frames \cup {Empty}, NEW k \in KindsOf,
           NEW s \in 0 .. SeqMod - 1
    PROVE  /\ [l EXCEPT !.n = n, !.kind = k, !.seq = s] \in Locals
           /\ [l EXCEPT !.kind = k, !.seq = s] \in Locals
BY DEF Locals, KindsOf

LEMMA LocalWindow ==
    ASSUME NEW l \in Locals, NEW w \in 0 .. SeqMod
    PROVE  /\ [l EXCEPT !.start = w] \in Locals
           /\ \A s \in 0 .. SeqMod - 1, p \in 0 .. SeqMod :
                 [l EXCEPT !.seq = s, !.prev = p, !.start = w] \in Locals
BY DEF Locals

LEMMA LocalKind ==
    ASSUME NEW l \in Locals, NEW k \in KindsOf, NEW w \in 0 .. SeqMod
    PROVE  /\ [l EXCEPT !.kind = k] \in Locals
           /\ [l EXCEPT !.kind = k, !.start = w] \in Locals
           /\ [l EXCEPT !.kind = k, !.prev = w] \in Locals
BY DEF Locals, KindsOf

LEMMA LocalLoop ==
    ASSUME NEW l \in Locals, NEW i \in 0 .. WinSize
    PROVE  /\ [l EXCEPT !.i = i] \in Locals
           /\ [l EXCEPT !.kind = "flush", !.i = i] \in Locals
           /\ \A d \in 0 .. WinSize : [l EXCEPT !.i = i, !.send = d] \in Locals
BY DEF Locals

\* Their components.
LEMMA LocalHas ==
    ASSUME NEW l \in Locals
    PROVE  /\ l.n \in Frames \cup {Empty} /\ l.kind \in KindsOf
           /\ l.seq \in 0 .. SeqMod - 1 /\ l.start \in 0 .. SeqMod /\ l.prev \in 0 .. SeqMod
           /\ l.i \in 0 .. WinSize /\ l.send \in 0 .. WinSize
BY DEF Locals, KindsOf
\* The order starts afresh or is kept.
LEMMA MeetsType ==
    ASSUME TypeOK, NEW a \in Agents, Meets(a)
    PROVE  out' \in Int /\ ordered' \in BOOLEAN /\ early' \in BOOLEAN /\ overlap' \in BOOLEAN
<1>1. overlap' \in BOOLEAN
  BY DEF Meets
<1>2. CASE overlap'
  <2>1. NewOrder
    BY <1>2 DEF Meets
  <2>2. out' \in Int
    BY <2>1, ReorderAssumption DEF NewOrder
  <2> QED
    BY <1>1, <2>1, <2>2 DEF NewOrder
<1>3. CASE ~overlap'
  <2>1. UNCHANGED <<out, ordered, early>>
    BY <1>3 DEF Meets
  <2> QED
    BY <1>1, <2>1
<1> QED
  BY <1>2, <1>3

\* The initial state is well typed.
LEMMA TypeInit == Init => TypeOK /\ Holding
<1> SUFFICES ASSUME Init PROVE TypeOK /\ Holding
  OBVIOUS
<1>1. rx_seq \in -1 .. SeqMod - 1 /\ start_win \in 0 .. SeqMod /\ init_win \in 0 .. SeqMod - 1
  BY ReorderAssumption DEF Init, None
<1>2. base \in Nat /\ hi \in Int /\ out \in Int
  BY ReorderAssumption DEF Init
<1>3. loc \in [Agents -> Locals] /\ pc \in [Agents -> Pcs]
  BY LocalIdle DEF Init, Pcs
<1>4. hand \in [Agents -> Frames \cup {Empty}] /\ rx_reorder_ptr \in [Slots -> Frames \cup {Empty}]
  BY DEF Init
<1>5. Holding
  BY DEF Init
<1> QED
  BY <1>1, <1>2, <1>3, <1>4, <1>5 DEF Init

\* A packet that comes.
LEMMA ComesType ==
    ASSUME TypeOK, NEW n \in Frames, Comes(n)
    PROVE  hi' \in Int /\ came' \subseteq Frames
BY ReorderAssumption DEF Comes, Larger, Frames

\* A packet, a request or an event comes in.
LEMMA TypeArrivals ==
    ASSUME TypeOK, Holding,
           \/ SenderMoves \/ RxBar
           \/ \E n \in Sent : Direct(n) \/ RxData(n) \/ RxAmsdu(n) \/ RxbaSync(n)
    PROVE  TypeOK' /\ Holding'
<1>1. CASE SenderMoves
  BY <1>1 DEF SenderMoves, Passed
<1>2. CASE RxBar
  <2>1. base % SeqMod \in 0 .. SeqMod - 1
    BY Reduced
  <2>2. loc' \in [Agents -> Locals]
    BY <1>2, <2>1, LocalIdle, LocalIncoming DEF RxBar, KindsOf
  <2>3. /\ out' \in Int /\ ordered' \in BOOLEAN
        /\ early' \in BOOLEAN /\ overlap' \in BOOLEAN
    BY <1>2, MeetsType DEF RxBar
  <2> QED
    BY <1>2, <2>2, <2>3 DEF RxBar, Pcs
<1>3. ASSUME NEW n \in Sent, Direct(n) \/ RxData(n) \/ RxAmsdu(n) \/ RxbaSync(n)
      PROVE  TypeOK' /\ Holding'
  <2>1. n \in Sendable
    BY <1>3 DEF Direct, RxData, RxAmsdu, RxbaSync
  <2>2. n \in Frames /\ n \in Nat
    BY <2>1, SendableFrame
  <2>3. n % SeqMod \in 0 .. SeqMod - 1
    BY <2>2, Reduced
  <2>4. CASE Direct(n)
    BY <2>4, <2>2, <2>3 DEF Direct, Comes, Larger
  <2>5. CASE RxData(n)
    <3>1. loc' \in [Agents -> Locals]
      BY <2>5, <2>2, <2>3, LocalIdle, LocalIncoming DEF RxData, KindsOf
    <3>2. /\ out' \in Int /\ ordered' \in BOOLEAN
          /\ early' \in BOOLEAN /\ overlap' \in BOOLEAN
      BY <2>5, MeetsType DEF RxData
    <3>3. hi' \in Int /\ came' \subseteq Frames
      BY <2>5, <2>2, ComesType DEF RxData
    <3>4. pc' \in [Agents -> Pcs] /\ Holding'
      BY <2>5 DEF RxData, Pcs
    <3>5. rx_seq' \in -1 .. SeqMod - 1
      <4>1. rx_seq' \in 0 .. SeqMod - 1
        BY <2>5, <2>3 DEF RxData
      <4> QED
        BY <4>1, ReorderAssumption
    <3> QED
      BY <2>5, <3>1, <3>2, <3>3, <3>4, <3>5 DEF RxData
  <2>6. CASE RxAmsdu(n)
    BY <2>6, <2>2, <2>3 DEF RxAmsdu, Comes, Larger
  <2>7. CASE RxbaSync(n)
    <3>1. loc' \in [Agents -> Locals]
      BY <2>7, <2>2, <2>3, LocalIdle, LocalIncoming DEF RxbaSync, KindsOf
    <3>2. /\ out' \in Int /\ ordered' \in BOOLEAN
          /\ early' \in BOOLEAN /\ overlap' \in BOOLEAN
      BY <2>7, MeetsType DEF RxbaSync
    <3>3. hi' \in Int /\ came' \subseteq Frames
      BY <2>7, <2>2, ComesType DEF RxbaSync
    <3>4. pc' \in [Agents -> Pcs] /\ Holding'
      BY <2>7 DEF RxbaSync, Pcs
    <3> QED
      BY <2>7, <2>2, <2>3, <3>1, <3>2, <3>3, <3>4 DEF RxbaSync, Crosses
  <2> QED
    BY <1>3, <2>4, <2>5, <2>6, <2>7
<1> QED
  BY <1>1, <1>2, <1>3
\* A step of mwifiex_11n_rx_reorder_pkt.
LEMMA TypeReorder ==
    ASSUME TypeOK, Holding, NEW a \in Agents,
           Classify(a) \/ Test(a) \/ Store(a) \/ Drop(a) \/ Done(a)
    PROVE  TypeOK' /\ Holding'
<1> DEFINE l == loc[a]
<1>0. l \in Locals
  OBVIOUS
<1>1. CASE Classify(a)
  <2> DEFINE seqs == 0 .. SeqMod - 1
  <2>1. start_win' \in 0 .. SeqMod
    BY <1>0, <1>1, LocalHas, ReorderAssumption DEF Classify
  <2>2. EndWin(l.seq) \in seqs
    <3>1. l.seq + WinSize - 1 \in Int
      BY <1>0, LocalHas, ReorderAssumption
    <3> QED
      BY <3>1, Reduced DEF EndWin
  <2>3. PICK s \in {l.seq, EndWin(l.seq)}, w \in {(l.seq - WinSize + 1) % SeqMod,
                     (EndWin(l.seq) - WinSize + 1) % SeqMod, l.seq, start_win} :
            Keep(a, [l EXCEPT !.seq = s, !.prev = start_win, !.start = w])
    BY <1>1 DEF Classify
  <2>4. s \in seqs
    BY <1>0, <2>2, <2>3, LocalHas
  <2>5. \A x \in seqs : (x - WinSize + 1) % SeqMod \in seqs
    <3>1. \A x \in seqs : x - WinSize + 1 \in Int
      BY ReorderAssumption
    <3> QED
      BY <3>1, Reduced
  <2>6. w \in 0 .. SeqMod
    BY <1>0, <2>2, <2>3, <2>5, LocalHas, ReorderAssumption
  <2>7. loc' \in [Agents -> Locals]
    <3>1. [l EXCEPT !.seq = s, !.prev = start_win, !.start = w] \in Locals
      BY <1>0, <2>4, <2>6, LocalWindow
    <3> QED
      BY <2>3, <3>1
  <2>8. /\ pc' = [pc EXCEPT ![a] = pc'[a]]
        /\ pc'[a] \in {"drop", "until", "scan", "test"}
    BY <1>1 DEF Classify
  <2>9. pc' \in [Agents -> Pcs] /\ Holding'
    BY <1>1, <2>3, <2>8 DEF Classify, Pcs
  <2>10. flags' \subseteq {"no_drop", "shift"} /\ out' \in Int
    BY <1>1, ReorderAssumption DEF Classify
  <2> QED
    BY <1>1, <2>1, <2>7, <2>9, <2>10 DEF Classify
<1>2. CASE Test(a)
  BY <1>2 DEF Test, Pcs
<1>3. ASSUME Store(a) \/ Drop(a)
      PROVE  loc' \in [Agents -> Locals] /\ pc' \in [Agents -> Pcs] /\ Holding'
  <2>1. [Idle EXCEPT !.kind = l.kind, !.prev = l.prev] \in Locals
    BY <1>0, LocalIdle, LocalHas, LocalKind
  <2>2. loc' \in [Agents -> Locals]
    BY <1>3, <2>1 DEF Store, Drop
  <2>3. pc' \in [Agents -> Pcs] /\ Holding'
    BY <1>3 DEF Store, Drop, Pcs
  <2> QED
    BY <2>2, <2>3
<1>4. CASE Store(a)
  <2>1. rx_reorder_ptr' \in [Slots -> Frames \cup {Empty}]
    BY <1>0, <1>4, LocalHas DEF Store
  <2> QED
    BY <1>3, <1>4, <2>1 DEF Store
<1>5. CASE Drop(a)
  <2>1. gone' \subseteq Frames
    BY <1>0, <1>5, LocalHas DEF Drop
  <2> QED
    BY <1>3, <1>5, <2>1 DEF Drop
<1>6. CASE Done(a)
  <2>1. loc' \in [Agents -> Locals] /\ pc' \in [Agents -> Pcs] /\ Holding'
    BY <1>6, LocalIdle DEF Done, Pcs
  <2>2. armed' \in BOOLEAN /\ timer_is_set' \in BOOLEAN
    BY <1>6 DEF Done
  <2> QED
    BY <1>6, <2>1, <2>2 DEF Done
<1> QED
  BY <1>1, <1>2, <1>4, <1>5, <1>6
\* A step of a loop over the slots, or the rotation behind it.
LEMMA TypeDispatch ==
    ASSUME TypeOK, Holding, NEW a \in Agents,
           \/ UntilBegin(a) \/ UntilTake(a) \/ UntilRotate(a)
           \/ ScanTake(a) \/ ScanRotate(a) \/ Give(a)
    PROVE  TypeOK' /\ Holding'
<1> DEFINE l == loc[a]
<1>0. /\ l \in Locals /\ l.i \in 0 .. WinSize /\ l.send \in 0 .. WinSize
      /\ l.start \in 0 .. SeqMod /\ 0 \in 0 .. WinSize
  BY LocalHas, ReorderAssumption
<1>1. CASE UntilBegin(a)
  <2> DEFINE d == IF l.start > start_win THEN Smaller(l.start - start_win, WinSize)
                                         ELSE WinSize
  <2>0. d \in 0 .. WinSize
    BY <1>0, ReorderAssumption DEF Smaller
  <2> HIDE DEF d
  <2>1. Keep(a, [l EXCEPT !.i = 0, !.send = d])
    BY <1>1 DEF UntilBegin, d
  <2>2. [l EXCEPT !.i = 0, !.send = d] \in Locals
    BY <1>0, <2>0, LocalLoop
  <2>3. loc' \in [Agents -> Locals]
    BY <2>1, <2>2
  <2>4. pc' \in [Agents -> Pcs] /\ Holding'
    BY <1>1, <2>1 DEF UntilBegin, Pcs
  <2> QED
    BY <1>1, <2>3, <2>4 DEF UntilBegin
<1>2. ASSUME NEW to \in {"give", "pass"}, TakeSlot(a, to), l.i \in Slots,
             rx_reorder_ptr[l.i] # Empty
      PROVE  /\ rx_reorder_ptr' \in [Slots -> Frames \cup {Empty}]
             /\ hand' \in [Agents -> Frames \cup {Empty}]
             /\ pc' \in [Agents -> Pcs] /\ Holding'
  <2>1. hand' \in [Agents -> Frames \cup {Empty}] /\ pc' \in [Agents -> Pcs]
    BY <1>2 DEF TakeSlot, Pcs
  <2>2. rx_reorder_ptr' \in [Slots -> Frames \cup {Empty}]
    BY <1>2 DEF TakeSlot
  <2>3. l.i < WinSize
    BY <1>2, ReorderAssumption DEF Slots
  <2>4. Holding'
    BY <1>2, <2>3 DEF TakeSlot
  <2> QED
    BY <2>1, <2>2, <2>4
<1>3. l.i < l.send => l.i \in Slots /\ l.i + 1 \in 0 .. WinSize
  BY <1>0, ReorderAssumption DEF Slots
<1>4. CASE UntilTake(a)
  <2>1. early' \in BOOLEAN
    BY <1>4 DEF UntilTake
  <2>2. CASE rx_reorder_ptr[l.i] # Empty
    BY <1>2, <1>3, <1>4, <2>1, <2>2 DEF UntilTake, TakeSlot
  <2>3. CASE rx_reorder_ptr[l.i] = Empty
    <3>1. [l EXCEPT !.i = l.i + 1] \in Locals
      BY <1>0, <1>3, <1>4, LocalLoop DEF UntilTake
    <3>2. loc' \in [Agents -> Locals] /\ Holding'
      BY <1>4, <2>3, <3>1 DEF UntilTake
    <3> QED
      BY <1>4, <2>1, <2>3, <3>2 DEF UntilTake
  <2> QED
    BY <2>2, <2>3
<1>5. CASE ScanTake(a)
  <2>1. l.i < WinSize => l.i \in Slots
    BY <1>0, ReorderAssumption DEF Slots
  <2>2. CASE l.i < WinSize /\ rx_reorder_ptr[l.i] # Empty
    BY <1>2, <1>5, <2>1, <2>2 DEF ScanTake, TakeSlot
  <2>3. CASE ~(l.i < WinSize /\ rx_reorder_ptr[l.i] # Empty)
    BY <1>5, <2>3 DEF ScanTake, Pcs
  <2> QED
    BY <2>2, <2>3
<1>6. CASE Give(a)
  <2>1. hand[a] \in Frames /\ l.i < WinSize
    BY <1>6 DEF Give
  <2>2. l.i + 1 \in 0 .. WinSize
    BY <1>0, <2>1, ReorderAssumption
  <2>3. [l EXCEPT !.i = l.i + 1] \in Locals
    BY <1>0, <2>2, LocalLoop
  <2>4. loc' \in [Agents -> Locals] /\ pc' \in [Agents -> Pcs] /\ Holding'
    BY <1>6, <2>3 DEF Give, Pcs
  <2>5. gone' \subseteq Frames /\ out' \in Int /\ ordered' \in BOOLEAN
    BY <1>6, <2>1, ReorderAssumption DEF Give, Deliver, Frames
  <2> QED
    BY <1>6, <2>4, <2>5 DEF Give
<1>7. CASE UntilRotate(a)
  <2>1. AfterUntil(a) \in {"test", "scan", "stop", "idle"}
    BY DEF AfterUntil
  <2>2. [l EXCEPT !.i = 0, !.send = 0] \in Locals
    BY <1>0, LocalLoop
  <2>3. loc' \in [Agents -> Locals]
    BY <1>7, <2>2, LocalIdle DEF UntilRotate
  <2>4. pc' \in [Agents -> Pcs] /\ Holding'
    BY <1>7, <2>1 DEF UntilRotate, Pcs
  <2>5. rx_reorder_ptr' \in [Slots -> Frames \cup {Empty}]
    BY <1>0, <1>7, RotatedType DEF UntilRotate
  <2>6. start_win' \in 0 .. SeqMod /\ out' \in Int
    BY <1>0, <1>7, ReorderAssumption DEF UntilRotate
  <2> QED
    BY <1>7, <2>3, <2>4, <2>5, <2>6 DEF UntilRotate
<1>8. CASE ScanRotate(a)
  <2>1. [l EXCEPT !.i = 0] \in Locals
    BY <1>0, LocalLoop
  <2>2. loc' \in [Agents -> Locals] /\ pc' \in [Agents -> Pcs] /\ Holding'
    BY <1>8, <2>1 DEF ScanRotate, Pcs
  <2>3. rx_reorder_ptr' \in [Slots -> Frames \cup {Empty}]
    BY <1>0, <1>8, RotatedType DEF ScanRotate
  <2>4. start_win' \in 0 .. SeqMod
    <3>1. start_win + l.i \in Int
      BY <1>0
    <3>2. start_win' \in 0 .. SeqMod - 1
      BY <1>8, <3>1, Reduced DEF ScanRotate
    <3> QED
      BY <3>2, ReorderAssumption
  <2> QED
    BY <1>8, <2>2, <2>3, <2>4 DEF ScanRotate
<1> QED
  BY <1>1, <1>4, <1>5, <1>6, <1>7, <1>8
\* The timer's handler up to the dispatch.
LEMMA TypeTimer ==
    ASSUME TypeOK, Holding, TimerExpires \/ FlushFind \/ FlushFrom
    PROVE  TypeOK' /\ Holding'
<1>1. CASE TimerExpires
  <2>1. /\ out' \in Int /\ ordered' \in BOOLEAN
        /\ early' \in BOOLEAN /\ overlap' \in BOOLEAN
    BY <1>1, MeetsType DEF TimerExpires
  <2> QED
    BY <1>1, <2>1 DEF TimerExpires, Pcs
<1>2. CASE FlushFind
  <2>1. \A last \in Slots : [Idle EXCEPT !.kind = "flush", !.i = last] \in Locals
    <3>1. Slots \subseteq 0 .. WinSize
      BY ReorderAssumption DEF Slots
    <3> QED
      BY <3>1, LocalIdle, LocalLoop
  <2>2. /\ \/ UNCHANGED loc
           \/ \E last \in Slots :
                 loc' = [loc EXCEPT !["timer"] = [Idle EXCEPT !.kind = "flush", !.i = last]]
        /\ \E to \in {"idle", "flush"} : pc' = [pc EXCEPT !["timer"] = to]
        /\ hand' = hand
    BY <1>2 DEF FlushFind
  <2>3. loc' \in [Agents -> Locals]
    <3>1. CASE UNCHANGED loc
      BY <3>1
    <3>2. ASSUME NEW last \in Slots,
                 loc' = [loc EXCEPT !["timer"] = [Idle EXCEPT !.kind = "flush", !.i = last]]
          PROVE  loc' \in [Agents -> Locals]
      <4>1. [Idle EXCEPT !.kind = "flush", !.i = last] \in Locals
        BY <2>1
      <4> QED
        BY <3>2, <4>1
    <3> QED
      BY <2>2, <3>1, <3>2
  <2>4. pc' \in [Agents -> Pcs]
    BY <2>2 DEF Pcs
  <2>5. Holding'
    <3>1. \A a \in Agents : pc'[a] \in {"give", "pass"} => a # "timer"
      BY <2>2
    <3>2. \A a \in Agents : a # "timer" => loc'[a] = loc[a] /\ pc'[a] = pc[a]
      BY <2>2
    <3> QED
      BY <2>2, <3>1, <3>2
  <2> QED
    BY <1>2, <2>3, <2>4, <2>5 DEF FlushFind
<1>3. CASE FlushFrom
  <2> DEFINE w == (start_win + loc["timer"].i + 1) % SeqMod
  <2>1. loc["timer"] \in Locals /\ start_win + loc["timer"].i + 1 \in Int
    BY LocalHas
  <2>2. w \in 0 .. SeqMod
    <3>1. w \in 0 .. SeqMod - 1
      BY <2>1, Reduced
    <3> QED
      BY <3>1, ReorderAssumption
  <2>3. [loc["timer"] EXCEPT !.start = w] \in Locals
    BY <2>1, <2>2, LocalWindow
  <2>4. loc' \in [Agents -> Locals] /\ pc' \in [Agents -> Pcs] /\ Holding'
    BY <1>3, <2>3 DEF FlushFrom, Pcs
  <2> QED
    BY <1>3, <2>4 DEF FlushFrom
<1> QED
  BY <1>1, <1>2, <1>3

\* Agreements made, and the host's sleep.
LEMMA TypeMain ==
    ASSUME TypeOK, Holding, Create \/ AddbaAgain \/ HsActivated \/ Asleep
    PROVE  TypeOK' /\ Holding'
<1> DEFINE seqs == 0 .. SeqMod - 1
<1>0. base % SeqMod \in seqs /\ seqs \subseteq 0 .. SeqMod
  <2>1. base % SeqMod \in seqs
    BY Reduced
  <2> QED
    BY <2>1, ReorderAssumption
<1>1. CASE Create
  <2>1. start_win' \in 0 .. SeqMod /\ flags' \subseteq {"no_drop", "shift"}
    BY <1>0, <1>1, ReorderAssumption DEF Create, None
  <2> QED
    BY <1>0, <1>1, <2>1 DEF Create
<1>2. CASE AddbaAgain
  <2>1. [Idle EXCEPT !.kind = "addba", !.start = base % SeqMod] \in Locals
    <3>1. base % SeqMod \in 0 .. SeqMod /\ "addba" \in KindsOf
      BY <1>0 DEF KindsOf
    <3> QED
      BY <3>1, LocalIdle, LocalKind
  <2>2. loc' \in [Agents -> Locals] /\ pc' \in [Agents -> Pcs] /\ Holding'
    BY <1>2, <2>1 DEF AddbaAgain, Pcs
  <2>3. /\ out' \in Int /\ ordered' \in BOOLEAN
        /\ early' \in BOOLEAN /\ overlap' \in BOOLEAN
    BY <1>2, MeetsType DEF AddbaAgain
  <2> QED
    BY <1>2, <2>2, <2>3 DEF AddbaAgain, Crosses
<1>3. CASE HsActivated
  <2>1. /\ out' \in Int /\ ordered' \in BOOLEAN
        /\ early' \in BOOLEAN /\ overlap' \in BOOLEAN
    BY <1>3, MeetsType DEF HsActivated
  <2> QED
    BY <1>3, <2>1 DEF HsActivated
<1>4. CASE Asleep
  <2>1. base' \in Nat /\ hi' \in Int /\ came' \subseteq Frames /\ gone' \subseteq Frames
    BY <1>4, ReorderAssumption DEF Asleep, Passed, Larger
  <2>2. /\ out' \in Int /\ ordered' \in BOOLEAN
        /\ early' \in BOOLEAN /\ overlap' \in BOOLEAN
    <3>1. overlap' \in BOOLEAN
      BY <1>4 DEF Asleep
    <3>2. NewOrder \/ UNCHANGED <<out, ordered, early>>
      BY <1>4 DEF Asleep
    <3>3. out' \in Int
      BY <3>2, ReorderAssumption DEF NewOrder
    <3>4. ordered' \in BOOLEAN /\ early' \in BOOLEAN
      BY <3>2 DEF NewOrder
    <3> QED
      BY <3>1, <3>3, <3>4
  <2> QED
    BY <1>4, <2>1, <2>2 DEF Asleep
<1> QED
  BY <1>1, <1>2, <1>3, <1>4

\* A step of a deletion.
LEMMA TypeDeletion ==
    ASSUME TypeOK, Holding, NEW d \in Deleters, Delba(d) \/ Deletion(d)
    PROVE  TypeOK' /\ Holding'
<1> DEFINE seqs == 0 .. SeqMod - 1
<1>0. seqs \subseteq 0 .. SeqMod /\ 0 \in seqs /\ d \in Agents
  BY ReorderAssumption DEF Deleters
<1>1. CASE Delba(d)
  <2>1. [Idle EXCEPT !.kind = "delba"] \in Locals
    <3>1. "delba" \in KindsOf /\ 0 \in 0 .. SeqMod
      BY <1>0 DEF KindsOf
    <3> QED
      BY <3>1, LocalIdle, LocalKind
  <2>2. loc' \in [Agents -> Locals] /\ pc' \in [Agents -> Pcs] /\ Holding'
    BY <1>0, <1>1, <2>1 DEF Delba, Pcs
  <2> QED
    BY <1>1, <2>2 DEF Delba, Crosses
<1>2. CASE FlushWorker(d)
  <2> DEFINE w == (start_win + WinSize) % SeqMod
  <2>1. w \in seqs
    <3>1. start_win + WinSize \in Int
      BY ReorderAssumption
    <3> QED
      BY <3>1, Reduced
  <2>2. [loc[d] EXCEPT !.start = w] \in Locals
    BY <1>0, <2>1, LocalWindow
  <2>3. loc' \in [Agents -> Locals] /\ pc' \in [Agents -> Pcs] /\ Holding'
    BY <1>0, <1>2, <2>2 DEF FlushWorker, Pcs
  <2>4. /\ out' \in Int /\ ordered' \in BOOLEAN
        /\ early' \in BOOLEAN /\ overlap' \in BOOLEAN
    BY <1>0, <1>2, MeetsType DEF FlushWorker
  <2> QED
    BY <1>2, <2>3, <2>4 DEF FlushWorker
<1>3. CASE StopTimer(d)
  BY <1>0, <1>3 DEF StopTimer, Pcs
<1>4. CASE Free(d)
  <2>1. /\ loc' \in [Agents -> Locals] /\ pc' \in [Agents -> Pcs]
        /\ hand' \in [Agents -> Frames \cup {Empty}] /\ Holding' /\ overlap' \in BOOLEAN
    <3>1. CASE pc' = [a \in Agents |-> "lost"]
      BY <1>0, <1>4, <3>1, LocalIdle DEF Free, Pcs
    <3>2. CASE \E to \in {"idle", "reset"} : pc' = [pc EXCEPT ![d] = to]
               /\ Keep(d, Idle) /\ UNCHANGED <<hand, overlap>>
      BY <1>0, <3>2, LocalIdle DEF Pcs
    <3> QED
      BY <1>4, <3>1, <3>2, LocalIdle DEF Free, Pcs
  <2>2. start_win' \in 0 .. SeqMod /\ init_win' \in seqs /\ out' \in Int
    BY <1>0, <1>4, ReorderAssumption DEF Free, NewOrder
  <2>3. rx_reorder_ptr' \in [Slots -> Frames \cup {Empty}]
    BY <1>4 DEF Free
  <2> QED
    BY <1>4, <2>1, <2>2, <2>3 DEF Free, NewOrder
<1>5. CASE ResetSeq(d)
  <2>1. rx_seq' \in -1 .. SeqMod - 1
    BY <1>5, ReorderAssumption DEF ResetSeq, None
  <2> QED
    BY <1>0, <1>5, <2>1 DEF ResetSeq, Pcs
<1> QED
  BY <1>1, <1>2, <1>3, <1>4, <1>5 DEF Deletion

\* Every step keeps the types.
LEMMA TypeNext == TypeOK /\ Holding /\ [Next]_vars => TypeOK' /\ Holding'
<1> SUFFICES ASSUME TypeOK, Holding, [Next]_vars PROVE TypeOK' /\ Holding'
  OBVIOUS
<1>1. CASE UNCHANGED vars
  BY <1>1
<1>2. CASE Next
  BY <1>2, TypeArrivals, TypeReorder, TypeDispatch, TypeTimer, TypeMain, TypeDeletion
     DEF Next, Arrivals, Handlers, Step
<1> QED
  BY <1>1, <1>2

\* Every variable of the table has its type, start_win up to MAX_TID_VALUE itself.
THEOREM TypeCorrect == Spec => []TypeOK
<1>1. Init => TypeOK /\ Holding
  BY TypeInit
<1>2. TypeOK /\ Holding /\ [Next]_vars => TypeOK' /\ Holding'
  BY TypeNext
<1> QED
  BY <1>1, <1>2, PTL DEF Spec
-------------------------------------------------------------------------------
(***************************************************************************)
(* No packet is in two places.                                             *)
(***************************************************************************)

\* What is anywhere has come.
Seen == {n \in Frames : n < base \/ n \in came}
Known ==
    /\ \A k \in Slots : rx_reorder_ptr[k] \in Seen \cup {Empty}
    /\ \A a \in Agents : hand[a] \in Seen \cup {Empty} /\ loc[a].n \in Seen \cup {Empty}
    /\ gone \subseteq Seen

\* No packet comes, or goes from one place to another: some may be let go of.
Stays ==
    /\ \A a \in Agents : hand'[a] \in {hand[a], Empty} /\ loc'[a].n \in {loc[a].n, Empty}
    /\ \A k \in Slots : rx_reorder_ptr'[k] \in {rx_reorder_ptr[k], Empty}
    /\ gone' \subseteq gone
    /\ Seen \subseteq Seen'


\* A state in which no packet is in two places.
Apart == NotTwice /\ Known

HIDE DEF vars, tblVars, timeVars, sideVars, agentVars, airVars, histVars, TypeOK, Agents,
         Goto, Keep, Holding

LEMMA NoFrameIsEmpty == Empty \notin Seen /\ Empty \notin Seen'
<1>1. Empty \notin Frames
  BY ReorderAssumption DEF Empty, Frames
<1> QED
  BY <1>1 DEF Seen

LEMMA StaysKeeps ==
    ASSUME Apart, Stays
    PROVE  Apart'
<1>0. /\ \A a \in Agents : (hand'[a] = hand[a] \/ hand'[a] = Empty)
                              /\ (loc'[a].n = loc[a].n \/ loc'[a].n = Empty)
      /\ \A k \in Slots : rx_reorder_ptr'[k] = rx_reorder_ptr[k] \/ rx_reorder_ptr'[k] = Empty
      /\ \A n \in gone' : n \in gone /\ n # Empty
  BY NoFrameIsEmpty DEF Stays, Apart, Known
<1>1. NotTwice'
  <2>1. ASSUME NEW j \in Slots, NEW k \in Slots, j # k,
               rx_reorder_ptr'[j] = rx_reorder_ptr'[k]
        PROVE  rx_reorder_ptr'[j] = Empty
    <3>1. j # k /\ rx_reorder_ptr[j] = rx_reorder_ptr[k] => rx_reorder_ptr[j] = Empty
      BY DEF Apart, NotTwice
    <3> QED
      BY <1>0, <2>1, <3>1
  <2>2. ASSUME NEW a \in Agents, NEW b \in Agents
        PROVE  /\ a # b => hand'[a] = Empty \/ hand'[a] # hand'[b]
               /\ a # b => loc'[a].n = Empty \/ loc'[a].n # loc'[b].n
               /\ hand'[a] = Empty \/ hand'[a] # loc'[b].n
    <3>1. /\ a # b => hand[a] = Empty \/ hand[a] # hand[b]
          /\ a # b => loc[a].n = Empty \/ loc[a].n # loc[b].n
          /\ hand[a] = Empty \/ hand[a] # loc[b].n
      BY DEF Apart, NotTwice
    <3> QED
      BY <1>0, <3>1
  <2>3. ASSUME NEW a \in Agents, NEW k \in Slots
        PROVE  rx_reorder_ptr'[k] # Empty => rx_reorder_ptr'[k] \notin {hand'[a], loc'[a].n}
    <3>1. rx_reorder_ptr[k] # Empty => rx_reorder_ptr[k] # hand[a] /\ rx_reorder_ptr[k] # loc[a].n
      BY DEF Apart, NotTwice
    <3> QED
      BY <1>0, <3>1
  <2>4. ASSUME NEW n \in gone', NEW a \in Agents, NEW k \in Slots
        PROVE  n \notin {hand'[a], loc'[a].n, rx_reorder_ptr'[k]}
    <3>1. n \in gone /\ n # Empty
      BY <1>0
    <3>2. n # hand[a] /\ n # loc[a].n /\ n # rx_reorder_ptr[k]
      BY <3>1 DEF Apart, NotTwice
    <3> QED
      BY <1>0, <3>1, <3>2
  <2> QED
    BY <2>1, <2>2, <2>3, <2>4 DEF NotTwice
<1>2. Known'
  BY <1>0 DEF Apart, Known, Stays
<1> QED
  BY <1>1, <1>2 DEF Apart

\* A packet that is nowhere and that nobody has any more is dispatched or freed.
LEMMA GoneKeeps ==
    ASSUME Apart, NEW n \in Seen',
           /\ \A a \in Agents : /\ hand'[a] \in {hand[a], Empty} /\ hand'[a] # n
                                /\ loc'[a].n \in {loc[a].n, Empty} /\ loc'[a].n # n
           /\ \A k \in Slots : rx_reorder_ptr'[k] = rx_reorder_ptr[k]
                               /\ rx_reorder_ptr'[k] # n
           /\ gone' \subseteq gone \cup {n} /\ Seen \subseteq Seen'
    PROVE  Apart'
<1>0. /\ \A a \in Agents : (hand'[a] = hand[a] \/ hand'[a] = Empty)
                              /\ (loc'[a].n = loc[a].n \/ loc'[a].n = Empty)
      /\ \A m \in gone' : (m \in gone \/ m = n)
      /\ \A m \in gone : m # Empty
      /\ n # Empty
  BY NoFrameIsEmpty DEF Apart, Known
<1>1. NotTwice'
  <2>1. ASSUME NEW j \in Slots, NEW k \in Slots, j # k,
               rx_reorder_ptr'[j] = rx_reorder_ptr'[k]
        PROVE  rx_reorder_ptr'[j] = Empty
    BY <2>1 DEF Apart, NotTwice
  <2>2. ASSUME NEW a \in Agents, NEW b \in Agents
        PROVE  /\ a # b => hand'[a] = Empty \/ hand'[a] # hand'[b]
               /\ a # b => loc'[a].n = Empty \/ loc'[a].n # loc'[b].n
               /\ hand'[a] = Empty \/ hand'[a] # loc'[b].n
    <3>1. /\ a # b => hand[a] = Empty \/ hand[a] # hand[b]
          /\ a # b => loc[a].n = Empty \/ loc[a].n # loc[b].n
          /\ hand[a] = Empty \/ hand[a] # loc[b].n
      BY DEF Apart, NotTwice
    <3> QED
      BY <1>0, <3>1
  <2>3. ASSUME NEW a \in Agents, NEW k \in Slots
        PROVE  rx_reorder_ptr'[k] # Empty => rx_reorder_ptr'[k] \notin {hand'[a], loc'[a].n}
    <3>1. rx_reorder_ptr[k] # Empty => rx_reorder_ptr[k] # hand[a] /\ rx_reorder_ptr[k] # loc[a].n
      BY DEF Apart, NotTwice
    <3> QED
      BY <1>0, <3>1
  <2>4. ASSUME NEW m \in gone', NEW a \in Agents, NEW k \in Slots
        PROVE  m \notin {hand'[a], loc'[a].n, rx_reorder_ptr'[k]}
    <3>1. CASE m = n
      BY <3>1
    <3>2. CASE m \in gone
      <4>1. m # hand[a] /\ m # loc[a].n /\ m # rx_reorder_ptr[k]
        BY <3>2 DEF Apart, NotTwice
      <4> QED
        BY <1>0, <3>2, <4>1
    <3> QED
      BY <1>0, <3>1, <3>2
  <2> QED
    BY <2>1, <2>2, <2>3, <2>4 DEF NotTwice
<1>2. Known'
  BY <1>0 DEF Apart, Known
<1> QED
  BY <1>1, <1>2 DEF Apart

\* A packet that has not been seen comes into the hands of a context.
LEMMA ComesKeeps ==
    ASSUME Apart, NEW c \in Agents, NEW n \in Seen', n \notin Seen, loc'[c].n = n,
           /\ \A a \in Agents \ {c} : loc'[a].n = loc[a].n
           /\ \A a \in Agents : hand'[a] = hand[a]
           /\ \A k \in Slots : rx_reorder_ptr'[k] = rx_reorder_ptr[k]
           /\ gone' = gone /\ Seen \subseteq Seen'
    PROVE  Apart'
<1>0. /\ \A a \in Agents : loc'[a].n = loc[a].n \/ (a = c /\ loc'[a].n = n)
      /\ \A a \in Agents : hand[a] # n /\ loc[a].n # n
      /\ \A k \in Slots : rx_reorder_ptr[k] # n
      /\ n \notin gone /\ n # Empty
  BY NoFrameIsEmpty DEF Apart, Known
<1>1. NotTwice'
  <2>1. ASSUME NEW j \in Slots, NEW k \in Slots, j # k,
               rx_reorder_ptr'[j] = rx_reorder_ptr'[k]
        PROVE  rx_reorder_ptr'[j] = Empty
    BY <2>1 DEF Apart, NotTwice
  <2>2. ASSUME NEW a \in Agents, NEW b \in Agents
        PROVE  /\ a # b => hand'[a] = Empty \/ hand'[a] # hand'[b]
               /\ a # b => loc'[a].n = Empty \/ loc'[a].n # loc'[b].n
               /\ hand'[a] = Empty \/ hand'[a] # loc'[b].n
    <3>1. /\ a # b => hand[a] = Empty \/ hand[a] # hand[b]
          /\ a # b => loc[a].n = Empty \/ loc[a].n # loc[b].n
          /\ hand[a] = Empty \/ hand[a] # loc[b].n
      BY DEF Apart, NotTwice
    <3> QED
      BY <1>0, <3>1
  <2>3. ASSUME NEW a \in Agents, NEW k \in Slots
        PROVE  rx_reorder_ptr'[k] # Empty => rx_reorder_ptr'[k] \notin {hand'[a], loc'[a].n}
    <3>1. rx_reorder_ptr[k] # Empty => rx_reorder_ptr[k] # hand[a] /\ rx_reorder_ptr[k] # loc[a].n
      BY DEF Apart, NotTwice
    <3> QED
      BY <1>0, <3>1
  <2>4. ASSUME NEW m \in gone', NEW a \in Agents, NEW k \in Slots
        PROVE  m \notin {hand'[a], loc'[a].n, rx_reorder_ptr'[k]}
    <3>1. m # hand[a] /\ m # loc[a].n /\ m # rx_reorder_ptr[k] /\ m # n
      BY <1>0 DEF Apart, NotTwice
    <3> QED
      BY <1>0, <3>1
  <2> QED
    BY <2>1, <2>2, <2>3, <2>4 DEF NotTwice
<1>2. Known'
  BY <1>0 DEF Apart, Known
<1> QED
  BY <1>1, <1>2 DEF Apart

\* A packet goes from a context's local variable to a slot.
LEMMA StoredKeeps ==
    ASSUME Apart, NEW c \in Agents, NEW s \in Slots, loc'[c].n = Empty,
           rx_reorder_ptr'[s] = loc[c].n,
           /\ \A a \in Agents \ {c} : loc'[a].n = loc[a].n
           /\ \A a \in Agents : hand'[a] = hand[a]
           /\ \A k \in Slots \ {s} : rx_reorder_ptr'[k] = rx_reorder_ptr[k]
           /\ gone' = gone /\ Seen' = Seen
    PROVE  Apart'
<1>0. /\ \A a \in Agents : (a # c /\ loc'[a].n = loc[a].n) \/ loc'[a].n = Empty
      /\ \A k \in Slots : rx_reorder_ptr'[k] = rx_reorder_ptr[k]
                          \/ (k = s /\ rx_reorder_ptr'[k] = loc[c].n)
      /\ Empty \notin gone
  BY NoFrameIsEmpty DEF Apart, Known
<1>1. NotTwice'
  <2>1. ASSUME NEW j \in Slots, NEW k \in Slots, j # k,
               rx_reorder_ptr'[j] = rx_reorder_ptr'[k]
        PROVE  rx_reorder_ptr'[j] = Empty
    <3>1. /\ rx_reorder_ptr[j] = rx_reorder_ptr[k] => rx_reorder_ptr[j] = Empty
          /\ rx_reorder_ptr[j] # Empty => rx_reorder_ptr[j] # loc[c].n
          /\ rx_reorder_ptr[k] # Empty => rx_reorder_ptr[k] # loc[c].n
      BY <2>1 DEF Apart, NotTwice
    <3> QED
      BY <1>0, <2>1, <3>1
  <2>2. ASSUME NEW a \in Agents, NEW b \in Agents
        PROVE  /\ a # b => hand'[a] = Empty \/ hand'[a] # hand'[b]
               /\ a # b => loc'[a].n = Empty \/ loc'[a].n # loc'[b].n
               /\ hand'[a] = Empty \/ hand'[a] # loc'[b].n
    <3>1. /\ a # b => hand[a] = Empty \/ hand[a] # hand[b]
          /\ a # b => loc[a].n = Empty \/ loc[a].n # loc[b].n
          /\ hand[a] = Empty \/ hand[a] # loc[b].n
      BY DEF Apart, NotTwice
    <3> QED
      BY <1>0, <3>1
  <2>3. ASSUME NEW a \in Agents, NEW k \in Slots
        PROVE  rx_reorder_ptr'[k] # Empty => rx_reorder_ptr'[k] \notin {hand'[a], loc'[a].n}
    <3>1. /\ rx_reorder_ptr[k] # Empty => rx_reorder_ptr[k] # hand[a] /\ rx_reorder_ptr[k] # loc[a].n
          /\ loc[c].n # Empty => hand[a] # loc[c].n
          /\ a # c /\ loc[c].n # Empty => loc[a].n # loc[c].n
      BY DEF Apart, NotTwice
    <3> QED
      BY <1>0, <3>1
  <2>4. ASSUME NEW m \in gone', NEW a \in Agents, NEW k \in Slots
        PROVE  m \notin {hand'[a], loc'[a].n, rx_reorder_ptr'[k]}
    <3>1. m # hand[a] /\ m # loc[a].n /\ m # rx_reorder_ptr[k] /\ m # loc[c].n
      BY DEF Apart, NotTwice
    <3> QED
      BY <1>0, <3>1
  <2> QED
    BY <2>1, <2>2, <2>3, <2>4 DEF NotTwice
<1>2. Known'
  BY <1>0 DEF Apart, Known
<1> QED
  BY <1>1, <1>2 DEF Apart

\* A packet goes from a slot to the hand of a context that has none.
LEMMA TakenKeeps ==
    ASSUME Apart, NEW c \in Agents, NEW s \in Slots,
           hand'[c] = rx_reorder_ptr[s], rx_reorder_ptr'[s] = Empty,
           /\ \A a \in Agents \ {c} : hand'[a] = hand[a]
           /\ \A a \in Agents : loc'[a].n = loc[a].n
           /\ \A k \in Slots \ {s} : rx_reorder_ptr'[k] = rx_reorder_ptr[k]
           /\ gone' = gone /\ Seen' = Seen
    PROVE  Apart'
<1>0. /\ \A a \in Agents : hand'[a] = hand[a] \/ (a = c /\ hand'[a] = rx_reorder_ptr[s])
      /\ \A k \in Slots : (k # s /\ rx_reorder_ptr'[k] = rx_reorder_ptr[k])
                          \/ rx_reorder_ptr'[k] = Empty
      /\ Empty \notin gone
  BY NoFrameIsEmpty DEF Apart, Known
<1>1. NotTwice'
  <2>1. ASSUME NEW j \in Slots, NEW k \in Slots, j # k,
               rx_reorder_ptr'[j] = rx_reorder_ptr'[k]
        PROVE  rx_reorder_ptr'[j] = Empty
    <3>1. rx_reorder_ptr[j] = rx_reorder_ptr[k] => rx_reorder_ptr[j] = Empty
      BY <2>1 DEF Apart, NotTwice
    <3> QED
      BY <1>0, <2>1, <3>1
  <2>2. ASSUME NEW a \in Agents, NEW b \in Agents
        PROVE  /\ a # b => hand'[a] = Empty \/ hand'[a] # hand'[b]
               /\ a # b => loc'[a].n = Empty \/ loc'[a].n # loc'[b].n
               /\ hand'[a] = Empty \/ hand'[a] # loc'[b].n
    <3>1. /\ a # b => hand[a] = Empty \/ hand[a] # hand[b]
          /\ a # b => loc[a].n = Empty \/ loc[a].n # loc[b].n
          /\ hand[a] = Empty \/ hand[a] # loc[b].n
          /\ rx_reorder_ptr[s] # Empty => /\ rx_reorder_ptr[s] # hand[a]
                                          /\ rx_reorder_ptr[s] # hand[b]
                                          /\ rx_reorder_ptr[s] # loc[b].n
      BY DEF Apart, NotTwice
    <3> QED
      BY <1>0, <3>1
  <2>3. ASSUME NEW a \in Agents, NEW k \in Slots
        PROVE  rx_reorder_ptr'[k] # Empty => rx_reorder_ptr'[k] \notin {hand'[a], loc'[a].n}
    <3>1. /\ rx_reorder_ptr[k] # Empty => rx_reorder_ptr[k] # hand[a] /\ rx_reorder_ptr[k] # loc[a].n
          /\ k # s /\ rx_reorder_ptr[k] # Empty => rx_reorder_ptr[k] # rx_reorder_ptr[s]
      BY DEF Apart, NotTwice
    <3> QED
      BY <1>0, <3>1
  <2>4. ASSUME NEW m \in gone', NEW a \in Agents, NEW k \in Slots
        PROVE  m \notin {hand'[a], loc'[a].n, rx_reorder_ptr'[k]}
    <3>1. m # hand[a] /\ m # loc[a].n /\ m # rx_reorder_ptr[k] /\ m # rx_reorder_ptr[s]
      BY DEF Apart, NotTwice
    <3> QED
      BY <1>0, <3>1
  <2> QED
    BY <2>1, <2>2, <2>3, <2>4 DEF NotTwice
<1>2. Known'
  BY <1>0 DEF Apart, Known
<1> QED
  BY <1>1, <1>2 DEF Apart

\* Packets change their slots.
LEMMA MovedKeeps ==
    ASSUME Apart,
           \A j, k \in Slots : j # k /\ rx_reorder_ptr'[j] = rx_reorder_ptr'[k]
                                  => rx_reorder_ptr'[j] = Empty,
           \A k \in Slots : \/ rx_reorder_ptr'[k] = Empty
                            \/ \E j \in Slots : rx_reorder_ptr'[k] = rx_reorder_ptr[j],
           \A a \in Agents : /\ hand'[a] = hand[a]
                             /\ loc'[a].n = loc[a].n \/ loc'[a].n = Empty,
           gone' = gone /\ Seen' = Seen
    PROVE  Apart'
<1>0. Empty \notin gone
  BY NoFrameIsEmpty DEF Apart, Known
<1>1. NotTwice'
  <2>2. ASSUME NEW a \in Agents, NEW b \in Agents
        PROVE  /\ a # b => hand'[a] = Empty \/ hand'[a] # hand'[b]
               /\ a # b => loc'[a].n = Empty \/ loc'[a].n # loc'[b].n
               /\ hand'[a] = Empty \/ hand'[a] # loc'[b].n
    <3>1. /\ a # b => hand[a] = Empty \/ hand[a] # hand[b]
          /\ a # b => loc[a].n = Empty \/ loc[a].n # loc[b].n
          /\ hand[a] = Empty \/ hand[a] # loc[b].n
      BY DEF Apart, NotTwice
    <3> QED
      BY <3>1
  <2>3. ASSUME NEW a \in Agents, NEW k \in Slots, rx_reorder_ptr'[k] # Empty
        PROVE  rx_reorder_ptr'[k] \notin {hand'[a], loc'[a].n}
    <3>1. PICK j \in Slots : rx_reorder_ptr'[k] = rx_reorder_ptr[j]
      BY <2>3
    <3>2. rx_reorder_ptr[j] # Empty => rx_reorder_ptr[j] # hand[a] /\ rx_reorder_ptr[j] # loc[a].n
      BY DEF Apart, NotTwice
    <3> QED
      BY <2>3, <3>1, <3>2
  <2>4. ASSUME NEW m \in gone', NEW a \in Agents, NEW k \in Slots
        PROVE  m \notin {hand'[a], loc'[a].n, rx_reorder_ptr'[k]}
    <3>1. \A j \in Slots : m # hand[a] /\ m # loc[a].n /\ m # rx_reorder_ptr[j]
      BY DEF Apart, NotTwice
    <3> QED
      BY <1>0, <3>1
  <2> QED
    BY <2>2, <2>3, <2>4 DEF NotTwice
<1>2. Known'
  BY <1>0 DEF Apart, Known
<1> QED
  BY <1>1, <1>2 DEF Apart

\* The other local variables change without the packet.
LEMMA LocalKeeps ==
    ASSUME loc \in [Agents -> Locals], NEW c \in Agents, NEW l, Keep(c, l),
           l.n \in {loc[c].n, Empty}
    PROVE  \A a \in Agents : loc'[a].n \in {loc[a].n, Empty}
BY DEF Keep

LEMMA LocalSame ==
    ASSUME NEW l \in Locals, NEW i, NEW d, NEW s, NEW p, NEW w
    PROVE  /\ [l EXCEPT !.i = i].n = l.n /\ [l EXCEPT !.i = i, !.send = d].n = l.n
           /\ [l EXCEPT !.start = w].n = l.n
           /\ [l EXCEPT !.seq = s, !.prev = p, !.start = w].n = l.n
BY DEF Locals

LEMMA IdleHasNone ==
    \A k, p, i : /\ Idle.n = Empty /\ [Idle EXCEPT !.kind = k, !.prev = p].n = Empty
                 /\ [Idle EXCEPT !.kind = k, !.i = i].n = Empty
                 /\ [Idle EXCEPT !.kind = k, !.start = p].n = Empty
                 /\ [Idle EXCEPT !.kind = k, !.seq = p].n = Empty
                 /\ [Idle EXCEPT !.kind = k].n = Empty
BY DEF Idle

\* What is where it was, and what has been seen, has been.
LEMMA SeenStays == ASSUME UNCHANGED <<base, came>> PROVE Seen' = Seen
BY DEF Seen

\* A step of mwifiex_11n_rx_reorder_pkt.
LEMMA ApartReorder ==
    ASSUME TypeOK, Apart, NEW a \in Agents,
           Classify(a) \/ Test(a) \/ Store(a) \/ Drop(a) \/ Done(a)
    PROVE  Apart'
<1> DEFINE l == loc[a]
<1>0. /\ l \in Locals /\ loc \in [Agents -> Locals] /\ pc \in [Agents -> Pcs]
      /\ rx_reorder_ptr \in [Slots -> Frames \cup {Empty}]
  BY DEF TypeOK
<1>00. Seen' = Seen
  BY SeenStays DEF Classify, Test, Store, Drop, Done, airVars
<1>1. ASSUME \A b \in Agents : loc'[b].n \in {loc[b].n, Empty},
             UNCHANGED <<hand, rx_reorder_ptr, gone>>
      PROVE  Apart'
  BY <1>00, <1>1, StaysKeeps DEF Stays
<1>2. CASE Classify(a)
  <2>1. PICK s, w : Keep(a, [l EXCEPT !.seq = s, !.prev = start_win, !.start = w])
    BY <1>2 DEF Classify
  <2>2. \A b \in Agents : loc'[b].n \in {loc[b].n, Empty}
    <3>1. [l EXCEPT !.seq = s, !.prev = start_win, !.start = w].n = l.n
      BY <1>0, LocalSame
    <3> QED
      BY <1>0, <2>1, <3>1, LocalKeeps
  <2> QED
    BY <1>1, <1>2, <2>2 DEF Classify
<1>3. CASE Test(a)
  BY <1>1, <1>3 DEF Test, tblVars, histVars
<1>4. CASE Store(a)
  <2>1. Keep(a, [Idle EXCEPT !.kind = l.kind, !.prev = l.prev])
    BY <1>4 DEF Store
  <2>2. loc'[a].n = Empty /\ \A b \in Agents \ {a} : loc'[b].n = loc[b].n
    BY <1>0, <2>1, IdleHasNone DEF Keep
  <2>3. CASE UNCHANGED rx_reorder_ptr
    BY <1>1, <1>4, <2>2, <2>3 DEF Store, histVars
  <2>4. CASE rx_reorder_ptr' = [rx_reorder_ptr EXCEPT ![SlotOf(l)] = l.n]
    <3>1. CASE SlotOf(l) \in Slots
      <4>1. /\ rx_reorder_ptr'[SlotOf(l)] = l.n
            /\ \A k \in Slots \ {SlotOf(l)} : rx_reorder_ptr'[k] = rx_reorder_ptr[k]
        BY <1>0, <2>4, <3>1
      <4>2. gone' = gone /\ \A b \in Agents : hand'[b] = hand[b]
        BY <1>4 DEF Store, histVars
      <4> QED
        BY <1>00, <2>2, <3>1, <4>1, <4>2, StoredKeeps
    <3>2. CASE SlotOf(l) \notin Slots
      <4>1. UNCHANGED rx_reorder_ptr
        BY <1>0, <2>4, <3>2
      <4> QED
        BY <2>3, <4>1
    <3> QED
      BY <3>1, <3>2
  <2> QED
    BY <1>4, <2>3, <2>4 DEF Store
<1>5. CASE Drop(a)
  <2>1. Keep(a, [Idle EXCEPT !.kind = l.kind, !.prev = l.prev])
    BY <1>5 DEF Drop
  <2>2. loc'[a].n = Empty /\ \A b \in Agents \ {a} : loc'[b].n = loc[b].n
    BY <1>0, <2>1, IdleHasNone DEF Keep
  <2>3. UNCHANGED <<hand, rx_reorder_ptr>> /\ gone' = gone \cup ({l.n} \ {Empty})
    BY <1>5 DEF Drop, tblVars
  <2>4. CASE l.n = Empty
    BY <1>1, <2>2, <2>3, <2>4
  <2>5. CASE l.n # Empty
    <3>1. l.n \in Seen'
      BY <1>00, <2>5 DEF Apart, Known
    <3>2. \A b \in Agents : hand[b] # l.n /\ (b # a => loc[b].n # l.n)
      BY <2>5 DEF Apart, NotTwice
    <3>3. \A k \in Slots : rx_reorder_ptr[k] # l.n
      BY <2>5 DEF Apart, NotTwice
    <3>4. \A b \in Agents : loc'[b].n \in {loc[b].n, Empty} /\ loc'[b].n # l.n
      BY <2>2, <2>5, <3>2
    <3> QED
      BY <1>00, <2>3, <3>1, <3>2, <3>3, <3>4, GoneKeeps
  <2> QED
    BY <2>4, <2>5
<1>6. CASE Done(a)
  <2>1. Keep(a, Idle)
    BY <1>6 DEF Done
  <2>2. \A b \in Agents : loc'[b].n \in {loc[b].n, Empty}
    BY <1>0, <2>1, LocalKeeps, IdleHasNone
  <2> QED
    BY <1>1, <1>6, <2>2 DEF Done, tblVars, histVars
<1> QED
  BY <1>2, <1>3, <1>4, <1>5, <1>6

\* A step of a loop over the slots, or the rotation behind it.
LEMMA ApartDispatch ==
    ASSUME TypeOK, Holding, Apart, NEW a \in Agents,
           \/ UntilBegin(a) \/ UntilTake(a) \/ UntilRotate(a)
           \/ ScanTake(a) \/ ScanRotate(a) \/ Give(a)
    PROVE  Apart'
<1> DEFINE l == loc[a]
<1>0. /\ l \in Locals /\ loc \in [Agents -> Locals] /\ hand \in [Agents -> Frames \cup {Empty}]
      /\ rx_reorder_ptr \in [Slots -> Frames \cup {Empty}]
      /\ l.i \in 0 .. WinSize /\ l.send \in 0 .. WinSize
  BY LocalHas DEF TypeOK
<1>00. Seen' = Seen
  BY SeenStays DEF UntilBegin, UntilTake, UntilRotate, ScanTake, ScanRotate, Give, airVars
<1>1. ASSUME \A b \in Agents : loc'[b].n \in {loc[b].n, Empty},
             UNCHANGED <<hand, rx_reorder_ptr, gone>>
      PROVE  Apart'
  BY <1>00, <1>1, StaysKeeps DEF Stays
<1>2. ASSUME NEW to, TakeSlot(a, to), l.i \in Slots, gone' = gone
      PROVE  Apart'
  <2>1. /\ hand'[a] = rx_reorder_ptr[l.i] /\ rx_reorder_ptr'[l.i] = Empty
        /\ \A b \in Agents \ {a} : hand'[b] = hand[b]
        /\ \A b \in Agents : loc'[b].n = loc[b].n
        /\ \A k \in Slots \ {l.i} : rx_reorder_ptr'[k] = rx_reorder_ptr[k]
    BY <1>0, <1>2 DEF TakeSlot
  <2> QED
    BY <1>00, <1>2, <2>1, TakenKeeps
<1>3. ASSUME NEW d \in 0 .. WinSize, rx_reorder_ptr' = Rotated(d),
             UNCHANGED <<hand, gone>>, \A b \in Agents : loc'[b].n \in {loc[b].n, Empty}
      PROVE  Apart'
  <2>1. \A j, k \in Slots : j # k /\ rx_reorder_ptr[j] = rx_reorder_ptr[k]
                               => rx_reorder_ptr[j] = Empty
    BY DEF Apart, NotTwice
  <2>2. /\ \A j, k \in Slots : j # k /\ Rotated(d)[j] = Rotated(d)[k] => Rotated(d)[j] = Empty
        /\ \A k \in Slots : \/ Rotated(d)[k] = Empty
                            \/ \E j \in Slots : Rotated(d)[k] = rx_reorder_ptr[j]
    BY <1>0, <2>1, RotatedKeeps
  <2> QED
    BY <1>00, <1>3, <2>2, MovedKeeps
<1>4. CASE UntilBegin(a)
  <2>1. PICK d : Keep(a, [l EXCEPT !.i = 0, !.send = d])
    BY <1>4 DEF UntilBegin
  <2>2. \A b \in Agents : loc'[b].n \in {loc[b].n, Empty}
    <3>1. [l EXCEPT !.i = 0, !.send = d].n = l.n
      BY <1>0, LocalSame
    <3> QED
      BY <1>0, <2>1, <3>1, LocalKeeps
  <2> QED
    BY <1>1, <1>4, <2>2 DEF UntilBegin, tblVars, histVars
<1>5. CASE UntilTake(a)
  <2>1. l.i \in Slots
    <3>1. l.i < l.send
      BY <1>5 DEF UntilTake
    <3> QED
      BY <1>0, <3>1, ReorderAssumption DEF Slots
  <2>2. CASE rx_reorder_ptr[l.i] # Empty
    BY <1>2, <1>5, <2>1, <2>2 DEF UntilTake
  <2>3. CASE rx_reorder_ptr[l.i] = Empty
    <3>1. Keep(a, [l EXCEPT !.i = l.i + 1]) /\ UNCHANGED <<hand, rx_reorder_ptr, gone>>
      BY <1>5, <2>3 DEF UntilTake
    <3>2. \A b \in Agents : loc'[b].n \in {loc[b].n, Empty}
      BY <1>0, <3>1, LocalKeeps, LocalSame
    <3> QED
      BY <1>1, <3>1, <3>2
  <2> QED
    BY <2>2, <2>3
<1>6. CASE ScanTake(a)
  <2>1. CASE l.i < WinSize /\ rx_reorder_ptr[l.i] # Empty
    <3>1. l.i \in Slots
      BY <1>0, <2>1, ReorderAssumption DEF Slots
    <3> QED
      BY <1>2, <1>6, <2>1, <3>1 DEF ScanTake, histVars
  <2>2. CASE ~(l.i < WinSize /\ rx_reorder_ptr[l.i] # Empty)
    BY <1>1, <1>6, <2>2 DEF ScanTake, histVars
  <2> QED
    BY <2>1, <2>2
<1>7. CASE UntilRotate(a)
  <2>1. \/ Keep(a, Idle) \/ Keep(a, [l EXCEPT !.i = 0, !.send = 0])
    BY <1>7 DEF UntilRotate
  <2>2. \A b \in Agents : loc'[b].n \in {loc[b].n, Empty}
    <3>1. [l EXCEPT !.i = 0, !.send = 0].n = l.n /\ Idle.n = Empty
      BY <1>0, LocalSame, IdleHasNone
    <3> QED
      BY <1>0, <2>1, <3>1, LocalKeeps
  <2> QED
    BY <1>0, <1>3, <1>7, <2>2 DEF UntilRotate
<1>8. CASE ScanRotate(a)
  <2>1. Keep(a, [l EXCEPT !.i = 0])
    BY <1>8 DEF ScanRotate
  <2>2. \A b \in Agents : loc'[b].n \in {loc[b].n, Empty}
    BY <1>0, <2>1, LocalKeeps, LocalSame
  <2> QED
    BY <1>0, <1>3, <1>8, <2>2 DEF ScanRotate, histVars
<1>9. CASE Give(a)
  <2> DEFINE n == hand[a]
  <2>1. n # Empty /\ n \in Seen'
    <3>1. n \in Frames
      BY <1>9 DEF Give, Goto, Holding
    <3>2. n # Empty
      BY <3>1, ReorderAssumption DEF Frames, Empty
    <3> QED
      BY <1>00, <3>2 DEF Apart, Known
  <2>2. /\ hand' = [hand EXCEPT ![a] = Empty] /\ gone' = gone \cup {n}
        /\ Keep(a, [l EXCEPT !.i = l.i + 1]) /\ UNCHANGED rx_reorder_ptr
    BY <1>9 DEF Give, Deliver, tblVars
  <2>3. \A b \in Agents : loc'[b].n \in {loc[b].n, Empty}
    BY <1>0, <2>2, LocalKeeps, LocalSame
  <2>4. /\ \A b \in Agents : hand'[b] \in {hand[b], Empty} /\ hand'[b] # n
        /\ \A b \in Agents : loc'[b].n # n
        /\ \A k \in Slots : rx_reorder_ptr'[k] = rx_reorder_ptr[k] /\ rx_reorder_ptr'[k] # n
    <3>1. \A b \in Agents : loc[b].n # n /\ (b # a => hand[b] # n)
      BY <2>1 DEF Apart, NotTwice
    <3>2. \A k \in Slots : rx_reorder_ptr[k] # n
      BY <2>1 DEF Apart, NotTwice
    <3> QED
      BY <1>0, <2>1, <2>2, <2>3, <3>1, <3>2
  <2> QED
    BY <1>00, <2>1, <2>2, <2>3, <2>4, GoneKeeps
<1> QED
  BY <1>4, <1>5, <1>6, <1>7, <1>8, <1>9

\* The timer's handler up to the dispatch.
LEMMA ApartTimer ==
    ASSUME TypeOK, Apart, TimerExpires \/ FlushFind \/ FlushFrom
    PROVE  Apart'
<1>0. loc \in [Agents -> Locals] /\ "timer" \in Agents
  BY DEF TypeOK, Agents
<1>00. Seen' = Seen
  BY SeenStays DEF TimerExpires, FlushFind, FlushFrom, airVars
<1>1. UNCHANGED <<hand, rx_reorder_ptr, gone>>
  BY DEF TimerExpires, FlushFind, FlushFrom, tblVars, histVars
<1>2. \A b \in Agents : loc'[b].n \in {loc[b].n, Empty}
  <2>1. \/ UNCHANGED loc
        \/ \E i : Keep("timer", [Idle EXCEPT !.kind = "flush", !.i = i])
        \/ \E w : Keep("timer", [loc["timer"] EXCEPT !.start = w])
    BY DEF TimerExpires, FlushFind, FlushFrom
  <2>2. CASE UNCHANGED loc
    BY <2>2
  <2>3. ASSUME NEW i, Keep("timer", [Idle EXCEPT !.kind = "flush", !.i = i])
        PROVE  \A b \in Agents : loc'[b].n \in {loc[b].n, Empty}
    <3>1. [Idle EXCEPT !.kind = "flush", !.i = i].n = Empty
      BY IdleHasNone
    <3> QED
      BY <1>0, <2>3, <3>1, LocalKeeps
  <2>4. ASSUME NEW w, Keep("timer", [loc["timer"] EXCEPT !.start = w])
        PROVE  \A b \in Agents : loc'[b].n \in {loc[b].n, Empty}
    <3>1. [loc["timer"] EXCEPT !.start = w].n = loc["timer"].n
      BY <1>0, LocalSame
    <3> QED
      BY <1>0, <2>4, <3>1, LocalKeeps
  <2> QED
    BY <2>1, <2>2, <2>3, <2>4
<1> QED
  BY <1>00, <1>1, <1>2, StaysKeeps DEF Stays

\* Agreements made, and the host's sleep: none but the sender moves the window on.
LEMMA SeenPassed ==
    ASSUME base \in Nat, NEW n \in Nat, base <= n, base' = n,
           came' = came \ (FirstFrame .. n - 1)
    PROVE  Seen \subseteq Seen'
BY ReorderAssumption DEF Seen, Frames

LEMMA ApartMain ==
    ASSUME TypeOK, Apart, Create \/ AddbaAgain \/ HsActivated \/ Asleep
    PROVE  Apart'
<1>0. loc \in [Agents -> Locals] /\ "main" \in Agents /\ base \in Nat
  BY DEF TypeOK, Agents
<1>1. Seen \subseteq Seen'
  <2>1. CASE Asleep
    BY <1>0, <2>1, SeenPassed, ReorderAssumption DEF Asleep, Passed
  <2>2. CASE Create \/ AddbaAgain \/ HsActivated
    BY <2>2, SeenStays DEF Create, AddbaAgain, HsActivated, airVars
  <2> QED
    BY <2>1, <2>2
<1>2. UNCHANGED <<hand, rx_reorder_ptr>> /\ gone' \subseteq gone
  BY DEF Create, AddbaAgain, HsActivated, Asleep, Passed, tblVars, agentVars, histVars
<1>3. \A b \in Agents : loc'[b].n \in {loc[b].n, Empty}
  <2>1. \/ UNCHANGED loc
        \/ Keep("main", [Idle EXCEPT !.kind = "addba", !.start = base % SeqMod])
    BY DEF Create, AddbaAgain, HsActivated, Asleep, agentVars
  <2>2. [Idle EXCEPT !.kind = "addba", !.start = base % SeqMod].n = Empty
    BY IdleHasNone
  <2> QED
    BY <1>0, <2>1, <2>2, LocalKeeps
<1> QED
  BY <1>1, <1>2, <1>3, StaysKeeps DEF Stays

\* A step of a deletion: it lets go of packets, if anything.
LEMMA ApartDeletion ==
    ASSUME TypeOK, Apart, NEW d \in Deleters, Delba(d) \/ Deletion(d)
    PROVE  Apart'
<1>0. loc \in [Agents -> Locals] /\ d \in Agents
  BY DEF TypeOK, Agents, Deleters
<1>1. Seen \subseteq Seen' /\ gone' = gone
  BY SeenStays DEF Delba, Deletion, FlushWorker, StopTimer, Free, ResetSeq, airVars, histVars
<1>2. \A k \in Slots : rx_reorder_ptr'[k] \in {rx_reorder_ptr[k], Empty}
  BY DEF Delba, Deletion, FlushWorker, StopTimer, Free, ResetSeq, tblVars
<1>3. \A b \in Agents : hand'[b] \in {hand[b], Empty}
  BY DEF Delba, Deletion, FlushWorker, StopTimer, Free, ResetSeq
<1>4. \A b \in Agents : loc'[b].n \in {loc[b].n, Empty}
  <2>1. \/ UNCHANGED loc
        \/ loc' = [b \in Agents |-> Idle]
        \/ Keep(d, Idle)
        \/ Keep(d, [Idle EXCEPT !.kind = "delba"])
        \/ \E w : Keep(d, [loc[d] EXCEPT !.start = w])
    BY DEF Delba, Deletion, FlushWorker, StopTimer, Free, ResetSeq
  <2>2. Idle.n = Empty /\ [Idle EXCEPT !.kind = "delba"].n = Empty
    BY IdleHasNone
  <2>3. ASSUME NEW w, Keep(d, [loc[d] EXCEPT !.start = w])
        PROVE  \A b \in Agents : loc'[b].n \in {loc[b].n, Empty}
    <3>1. [loc[d] EXCEPT !.start = w].n = loc[d].n
      BY <1>0, LocalSame
    <3> QED
      BY <1>0, <2>3, <3>1, LocalKeeps
  <2>4. ASSUME NEW l, l.n = Empty, Keep(d, l)
        PROVE  \A b \in Agents : loc'[b].n \in {loc[b].n, Empty}
    BY <1>0, <2>4, LocalKeeps
  <2>5. CASE UNCHANGED loc \/ loc' = [b \in Agents |-> Idle]
    BY <2>2, <2>5
  <2> QED
    BY <2>1, <2>2, <2>3, <2>4, <2>5
<1> QED
  BY <1>1, <1>2, <1>3, <1>4, StaysKeeps DEF Stays

\* A packet, a request or an event comes in.
LEMMA ApartArrivals ==
    ASSUME TypeOK, Apart,
           \/ SenderMoves \/ RxBar
           \/ \E n \in Sent : Direct(n) \/ RxData(n) \/ RxAmsdu(n) \/ RxbaSync(n)
    PROVE  Apart'
<1>0. /\ loc \in [Agents -> Locals] /\ {"rx", "main"} \subseteq Agents /\ base \in Nat
      /\ gone \subseteq Frames
  BY DEF TypeOK, Agents
<1>1. CASE SenderMoves
  <2>1. Seen \subseteq Seen'
    BY <1>0, <1>1, SeenPassed DEF SenderMoves, Passed
  <2>2. UNCHANGED <<hand, loc, rx_reorder_ptr>> /\ gone' \subseteq gone
    BY <1>1 DEF SenderMoves, Passed, agentVars, tblVars
  <2> QED
    BY <2>1, <2>2, StaysKeeps DEF Stays
<1>2. CASE RxBar
  <2>1. \E s : Keep("rx", [Idle EXCEPT !.kind = "bar", !.seq = s])
    BY <1>2 DEF RxBar
  <2>2. \A s : [Idle EXCEPT !.kind = "bar", !.seq = s].n = Empty
    BY IdleHasNone
  <2>3. \A b \in Agents : loc'[b].n \in {loc[b].n, Empty}
    BY <1>0, <2>1, <2>2, LocalKeeps
  <2>4. Seen' = Seen /\ UNCHANGED <<hand, rx_reorder_ptr, gone>>
    BY <1>2, SeenStays DEF RxBar, tblVars
  <2> QED
    BY <2>3, <2>4, StaysKeeps DEF Stays
<1>3. ASSUME NEW n \in Sent, Direct(n) \/ RxData(n) \/ RxAmsdu(n) \/ RxbaSync(n)
      PROVE  Apart'
  <2>1. n \in Sendable /\ Comes(n) /\ base' = base /\ UNCHANGED <<hand, rx_reorder_ptr>>
    BY <1>3 DEF Direct, RxData, RxAmsdu, RxbaSync, agentVars, tblVars
  <2>2. n \in Frames /\ n \notin Seen
    BY <1>0, <2>1, SendableFrame DEF Seen
  <2>3. n \in Seen' /\ Seen \subseteq Seen'
    BY <2>1, <2>2 DEF Comes, Seen
  <2>4. n # Empty
    BY <2>3, NoFrameIsEmpty
  <2>5. /\ \A b \in Agents : hand[b] # n /\ loc[b].n # n
        /\ \A k \in Slots : rx_reorder_ptr[k] # n
    BY <2>2, <2>4 DEF Apart, Known
  <2>6. CASE RxData(n)
    <3>1. Keep("rx", [Idle EXCEPT !.n = n, !.kind = "data", !.seq = n % SeqMod]) /\ gone' = gone
      BY <2>6 DEF RxData
    <3>2. loc'["rx"].n = n /\ \A b \in Agents \ {"rx"} : loc'[b].n = loc[b].n
      BY <1>0, <3>1 DEF Keep, Idle
    <3> QED
      BY <1>0, <2>1, <2>2, <2>3, <3>1, <3>2, ComesKeeps
  <2>7. CASE Direct(n) \/ RxAmsdu(n) \/ RxbaSync(n)
    <3>1. gone' = gone \cup {n}
      BY <2>7 DEF Direct, RxAmsdu, RxbaSync
    <3>2. \/ UNCHANGED loc
          \/ \E s : Keep("main", [Idle EXCEPT !.kind = "sync", !.seq = s])
      BY <2>7 DEF Direct, RxAmsdu, RxbaSync, agentVars
    <3>3. \A s : [Idle EXCEPT !.kind = "sync", !.seq = s].n = Empty
      BY IdleHasNone
    <3>4. \A b \in Agents : loc'[b].n \in {loc[b].n, Empty}
      BY <1>0, <3>2, <3>3, LocalKeeps
    <3>5. \A b \in Agents : loc'[b].n # n
      BY <2>4, <2>5, <3>4
    <3> QED
      BY <2>1, <2>3, <2>5, <3>1, <3>4, <3>5, GoneKeeps
  <2> QED
    BY <1>3, <2>6, <2>7
<1> QED
  BY <1>1, <1>2, <1>3

\* Every step keeps the packets apart.
LEMMA ApartNext == TypeOK /\ Holding /\ Apart /\ [Next]_vars => Apart'
<1> SUFFICES ASSUME TypeOK, Holding, Apart, [Next]_vars PROVE Apart'
  OBVIOUS
<1>1. CASE UNCHANGED vars
  BY <1>1 DEF vars, tblVars, agentVars, airVars, histVars, Apart, NotTwice, Known, Seen
<1>2. CASE Next
  BY <1>2, ApartArrivals, ApartReorder, ApartDispatch, ApartTimer, ApartMain, ApartDeletion
     DEF Next, Arrivals, Handlers, Step
<1> QED
  BY <1>1, <1>2

\* No packet is in two places, whatever contexts meet in the table: none is
\* dispatched twice, or freed when it was dispatched or still is in a slot.
THEOREM PacketsApart == Spec => []NotTwice
<1>1. Init => TypeOK /\ Holding /\ Apart
  <2>1. Init => Apart
    BY DEF Init, Apart, NotTwice, Known, Idle
  <2> QED
    BY <2>1, TypeInit
<1>2. TypeOK /\ Holding /\ Apart /\ [Next]_vars => TypeOK' /\ Holding' /\ Apart'
  BY TypeNext, ApartNext
<1>3. TypeOK /\ Holding /\ Apart => NotTwice
  BY DEF Apart
<1> QED
  BY <1>1, <1>2, <1>3, PTL DEF Spec

-------------------------------------------------------------------------------
(***************************************************************************)
(* Nobody is in a table that is freed.                                     *)
(***************************************************************************)

\* From the moment the worker has been waited for to the end it is kept off, and
\* from the moment the timer is stopped nothing starts it again, unless a handler
\* of the main thread and a deletion have met.
Deleting ==
    /\ \A d \in Deleters :
          /\ pc[d] \in {"wait", "stop", "free"} => loc[d].kind = "delba"
          /\ loc[d].kind = "delba" =>
                rx_locked /\ Inside(d) /\ (pc[d] # "wait" => pc["rx"] = "idle")
          /\ ~crossed /\ pc[d] = "free" => pc["timer"] = "idle" /\ ~armed
    /\ ~crossed => ~(Inside("main") /\ Inside("user"))

LEMMA KindKept ==
    ASSUME NEW l \in Locals, NEW i, NEW d, NEW s, NEW p, NEW w, NEW k
    PROVE  /\ [l EXCEPT !.i = i].kind = l.kind /\ [l EXCEPT !.i = i, !.send = d].kind = l.kind
           /\ [l EXCEPT !.start = w].kind = l.kind
           /\ [l EXCEPT !.seq = s, !.prev = p, !.start = w].kind = l.kind
           /\ [Idle EXCEPT !.kind = k, !.prev = p].kind = k /\ Idle.kind = "none"
BY DEF Locals, Idle

\* What a step of a loop or of the classification may do to the invariant.
Within(a) ==
    /\ pc[a] \notin {"idle", "wait", "stop", "free", "reset", "lost"}
    /\ \A b \in Agents \ {a} : pc'[b] = pc[b] /\ loc'[b] = loc[b]
    /\ loc'[a].kind \in {loc[a].kind, "none"}
    /\ pc'[a] \notin {"wait", "free", "reset", "lost"}
    /\ pc'[a] = "stop" => loc'[a].kind = "delba"
    /\ pc'[a] = "idle" => loc'[a].kind = "none"
    /\ UNCHANGED <<rx_locked, crossed>>

LEMMA StepWithin ==
    ASSUME TypeOK, NEW a \in Agents, Step(a)
    PROVE  Within(a)
<1> DEFINE l == loc[a]
<1>0. l \in Locals /\ loc \in [Agents -> Locals] /\ pc \in [Agents -> Pcs]
  BY DEF TypeOK
<1>1. UNCHANGED <<rx_locked, crossed>>
  BY DEF Step, Classify, Test, Store, Drop, Done, UntilBegin, UntilTake, UntilRotate,
         ScanTake, ScanRotate, Give, sideVars
<1>2. ASSUME NEW v, Keep(a, v), v.kind \in {l.kind, "none"}
      PROVE  /\ \A b \in Agents \ {a} : loc'[b] = loc[b]
             /\ loc'[a].kind \in {l.kind, "none"} /\ loc'[a] = v
  BY <1>0, <1>2 DEF Keep
<1>3. ASSUME NEW from, NEW to, pc[a] = from, pc' = [pc EXCEPT ![a] = to],
             from \notin {"idle", "wait", "stop", "free", "reset", "lost"}
      PROVE  /\ \A b \in Agents \ {a} : pc'[b] = pc[b]
             /\ pc'[a] = to /\ pc[a] \notin {"idle", "wait", "stop", "free", "reset", "lost"}
  BY <1>0, <1>3
<1>4. CASE Classify(a)
  <2>1. PICK s, w : Keep(a, [l EXCEPT !.seq = s, !.prev = start_win, !.start = w])
    BY <1>4 DEF Classify
  <2>2. [l EXCEPT !.seq = s, !.prev = start_win, !.start = w].kind = l.kind
    BY <1>0, KindKept
  <2>3. PICK to \in {"drop", "until", "scan", "test"} : pc' = [pc EXCEPT ![a] = to]
    BY <1>4 DEF Classify
  <2>4. pc[a] = "classify"
    BY <1>4 DEF Classify
  <2> QED
    BY <1>1, <1>2, <1>3, <2>1, <2>2, <2>3, <2>4 DEF Within
<1>5. CASE Test(a)
  BY <1>0, <1>1, <1>5 DEF Test, Goto, Within
<1>6. CASE Store(a) \/ Drop(a)
  <2>1. Keep(a, [Idle EXCEPT !.kind = l.kind, !.prev = l.prev])
    BY <1>6 DEF Store, Drop
  <2>2. [Idle EXCEPT !.kind = l.kind, !.prev = l.prev].kind = l.kind
    BY <1>0, KindKept
  <2>3. \/ pc[a] = "store" /\ pc' = [pc EXCEPT ![a] = "scan"]
        \/ pc[a] = "drop" /\ pc' = [pc EXCEPT ![a] = "done"]
    BY <1>6 DEF Store, Drop, Goto
  <2> QED
    BY <1>1, <1>2, <1>3, <2>1, <2>2, <2>3 DEF Within
<1>7. CASE Done(a)
  <2>1. Keep(a, Idle) /\ Idle.kind = "none" /\ pc[a] = "done" /\ pc' = [pc EXCEPT ![a] = "idle"]
    BY <1>0, <1>7, KindKept DEF Done, Goto
  <2> QED
    BY <1>1, <1>2, <1>3, <2>1 DEF Within
<1>8. CASE UntilBegin(a)
  <2>1. PICK d : Keep(a, [l EXCEPT !.i = 0, !.send = d])
    BY <1>8 DEF UntilBegin
  <2>2. [l EXCEPT !.i = 0, !.send = d].kind = l.kind
    BY <1>0, KindKept
  <2>3. pc[a] = "until" /\ pc' = [pc EXCEPT ![a] = "take"]
    BY <1>8 DEF UntilBegin, Goto
  <2>4. /\ \A b \in Agents \ {a} : loc'[b] = loc[b]
        /\ loc'[a].kind \in {l.kind, "none"}
    BY <1>2, <2>1, <2>2
  <2>5. /\ \A b \in Agents \ {a} : pc'[b] = pc[b]
        /\ pc'[a] = "take" /\ pc[a] = "until"
    BY <1>3, <2>1, <2>3
  <2> QED
    BY <1>1, <2>4, <2>5 DEF Within
<1>9. CASE UntilTake(a) \/ ScanTake(a)
  <2>1. \/ UNCHANGED loc
        \/ Keep(a, [l EXCEPT !.i = l.i + 1])
    BY <1>9 DEF UntilTake, ScanTake, TakeSlot
  <2>2. [l EXCEPT !.i = l.i + 1].kind = l.kind
    BY <1>0, KindKept
  <2>3. /\ \A b \in Agents \ {a} : loc'[b] = loc[b]
        /\ loc'[a].kind \in {l.kind, "none"}
    BY <1>2, <2>1, <2>2
  <2>4. /\ pc[a] \in {"take", "scan"}
        /\ \/ UNCHANGED pc
           \/ \E to \in {"give", "pass", "rotate"} : pc' = [pc EXCEPT ![a] = to]
    BY <1>9 DEF UntilTake, ScanTake, TakeSlot
  <2> QED
    BY <1>1, <1>3, <2>3, <2>4 DEF Within
<1>10. CASE UntilRotate(a)
  <2>1. /\ pc[a] = "take" /\ pc' = [pc EXCEPT ![a] = AfterUntil(a)]
        /\ AfterUntil(a) \in {"test", "scan", "stop", "idle"}
        /\ AfterUntil(a) = "stop" => l.kind = "delba"
        /\ \/ AfterUntil(a) = "idle" /\ Keep(a, Idle)
           \/ AfterUntil(a) # "idle" /\ Keep(a, [l EXCEPT !.i = 0, !.send = 0])
    BY <1>10 DEF UntilRotate, AfterUntil
  <2>2. [l EXCEPT !.i = 0, !.send = 0].kind = l.kind /\ Idle.kind = "none"
    BY <1>0, KindKept
  <2>3. /\ \A b \in Agents \ {a} : loc'[b] = loc[b]
        /\ loc'[a].kind \in {l.kind, "none"}
        /\ AfterUntil(a) = "stop" => loc'[a].kind = "delba"
        /\ AfterUntil(a) = "idle" => loc'[a].kind = "none"
    <3>1. CASE AfterUntil(a) = "idle" /\ Keep(a, Idle)
      BY <1>2, <2>2, <3>1
    <3>2. CASE AfterUntil(a) # "idle" /\ Keep(a, [l EXCEPT !.i = 0, !.send = 0])
      BY <1>2, <2>1, <2>2, <3>2
    <3> QED
      BY <2>1, <3>1, <3>2
  <2>4. /\ \A b \in Agents \ {a} : pc'[b] = pc[b]
        /\ pc'[a] = AfterUntil(a)
    BY <1>3, <2>1
  <2> QED
    BY <1>1, <2>1, <2>3, <2>4 DEF Within
<1>11. CASE ScanRotate(a)
  <2>1. Keep(a, [l EXCEPT !.i = 0]) /\ pc[a] = "rotate" /\ pc' = [pc EXCEPT ![a] = "done"]
    BY <1>11 DEF ScanRotate, Goto
  <2>2. [l EXCEPT !.i = 0].kind = l.kind
    BY <1>0, KindKept
  <2>4. /\ \A b \in Agents \ {a} : loc'[b] = loc[b]
        /\ loc'[a].kind \in {l.kind, "none"}
    BY <1>2, <2>1, <2>2
  <2>5. /\ \A b \in Agents \ {a} : pc'[b] = pc[b]
        /\ pc'[a] = "done" /\ pc[a] = "rotate"
    BY <1>3, <2>1
  <2> QED
    BY <1>1, <2>4, <2>5 DEF Within
<1>12. CASE Give(a)
  <2>1. /\ Keep(a, [l EXCEPT !.i = l.i + 1])
        /\ \/ pc[a] = "give" /\ pc' = [pc EXCEPT ![a] = "take"]
           \/ pc[a] = "pass" /\ pc' = [pc EXCEPT ![a] = "scan"]
    BY <1>12 DEF Give, Goto
  <2>2. [l EXCEPT !.i = l.i + 1].kind = l.kind
    BY <1>0, KindKept
  <2>3. /\ \A b \in Agents \ {a} : loc'[b] = loc[b]
        /\ loc'[a].kind \in {l.kind, "none"}
    BY <1>2, <2>1, <2>2
  <2>4. /\ \A b \in Agents \ {a} : pc'[b] = pc[b]
        /\ pc[a] \in {"give", "pass"} /\ pc'[a] \in {"take", "scan"}
    BY <1>3, <2>1
  <2> QED
    BY <1>1, <2>3, <2>4 DEF Within
<1> QED
  BY <1>4, <1>5, <1>6, <1>7, <1>8, <1>9, <1>10, <1>11, <1>12 DEF Step

LEMMA DeletingStep ==
    ASSUME TypeOK, Deleting, NEW a \in Agents, Step(a)
    PROVE  Deleting'
<1>1. Within(a)
  BY StepWithin
<1>2. armed' = armed \/ Done(a)
  BY DEF Step, Classify, Test, Store, Drop, UntilBegin, UntilTake, UntilRotate,
         ScanTake, ScanRotate, Give, timeVars
<1>3. \A b \in Agents : Inside(b)' => Inside(b)
  BY <1>1 DEF Within, Inside
<1>4. \A d \in Deleters : ~crossed => pc[d] # "free"
  <2> SUFFICES ASSUME NEW d \in Deleters, ~crossed, pc[d] = "free" PROVE FALSE
    OBVIOUS
  <2>1. pc["rx"] = "idle" /\ pc["timer"] = "idle" /\ Inside(d)
    BY DEF Deleting
  <2>2. Inside(a) /\ a # d
    BY <1>1 DEF Within, Inside
  <2> QED
    BY <1>1, <2>1, <2>2 DEF Within, Deleting, Agents, Deleters
<1>5. ASSUME NEW d \in Deleters
      PROVE  /\ pc'[d] \in {"wait", "stop", "free"} => loc'[d].kind = "delba"
             /\ loc'[d].kind = "delba" =>
                   rx_locked' /\ Inside(d)' /\ (pc'[d] # "wait" => pc'["rx"] = "idle")
  <2>1. CASE a = d
    <3>1. d # "rx" /\ "rx" \in Agents
      BY DEF Deleters, Agents
    <3> QED
      BY <1>1, <2>1, <3>1 DEF Within, Deleting, Inside
  <2>2. CASE a # d
    <3>1. d \in Agents
      BY DEF Deleters, Agents
    <3>2. pc'[d] = pc[d] /\ loc'[d] = loc[d]
      BY <1>1, <2>2, <3>1 DEF Within
    <3>3. loc[d].kind = "delba" /\ pc[d] # "wait" => pc'["rx"] = "idle"
      BY <1>1 DEF Within, Deleting, Agents
    <3> QED
      BY <1>1, <3>2, <3>3 DEF Within, Deleting, Inside
  <2> QED
    BY <2>1, <2>2
<1>6. \A d \in Deleters : crossed' \/ pc'[d] # "free"
  <2> SUFFICES ASSUME NEW d \in Deleters, ~crossed', pc'[d] = "free" PROVE FALSE
    OBVIOUS
  <2>1. d \in Agents /\ (a = d \/ a # d)
    BY DEF Deleters, Agents
  <2> QED
    BY <1>1, <1>4, <2>1 DEF Within
<1>7. ~crossed' => ~(Inside("main") /\ Inside("user"))'
  BY <1>1, <1>3 DEF Within, Deleting, Agents
<1> QED
  BY <1>5, <1>6, <1>7 DEF Deleting

\* The steps of the timer's handler, and those that do not belong to a deletion.
LEMMA DeletingOthers ==
    ASSUME TypeOK, Deleting,
           \/ Create \/ AddbaAgain \/ HsActivated \/ Asleep
           \/ TimerExpires \/ FlushFind \/ FlushFrom
    PROVE  Deleting'
<1>0. /\ loc \in [Agents -> Locals] /\ pc \in [Agents -> Pcs]
      /\ {"main", "timer", "rx", "user"} \subseteq Agents /\ Deleters = {"main", "user"}
  BY DEF TypeOK, Agents, Deleters
<1>1. CASE Create \/ HsActivated \/ Asleep
  <2>1. UNCHANGED <<pc, loc, rx_locked, crossed, armed>>
    BY <1>1 DEF Create, HsActivated, Asleep, timeVars, agentVars
  <2> QED
    BY <2>1 DEF Deleting, Inside
<1>2. CASE AddbaAgain
  <2>1. /\ loc'["main"].kind = "addba" /\ pc'["main"] = "until" /\ armed' = armed
        /\ loc'["user"] = loc["user"] /\ pc'["user"] = pc["user"]
        /\ pc'["rx"] = pc["rx"] /\ pc'["timer"] = pc["timer"] /\ rx_locked' = rx_locked
        /\ crossed' = (crossed \/ Inside("user"))
    BY <1>0, <1>2 DEF AddbaAgain, Keep, Goto, Idle, Crosses, timeVars
  <2> QED
    BY <1>0, <2>1 DEF Deleting, Inside
<1>3. CASE TimerExpires \/ FlushFind \/ FlushFrom
  <2>1. \A d \in Deleters : pc[d] = "free" => crossed
    BY <1>3 DEF TimerExpires, FlushFind, FlushFrom, Goto, Deleting
  <2>2. /\ pc'["rx"] = pc["rx"] /\ UNCHANGED <<rx_locked, crossed>>
        /\ \A d \in Deleters : pc'[d] = pc[d] /\ loc'[d] = loc[d]
    BY <1>0, <1>3 DEF TimerExpires, FlushFind, FlushFrom, Goto, Keep, sideVars
  <2> QED
    BY <1>0, <2>1, <2>2 DEF Deleting, Inside
<1> QED
  BY <1>1, <1>2, <1>3

\* A step of a deletion.
LEMMA DeletingDeletion ==
    ASSUME TypeOK, Deleting, NEW d \in Deleters, Delba(d) \/ Deletion(d)
    PROVE  Deleting'
<1>0. /\ loc \in [Agents -> Locals] /\ pc \in [Agents -> Pcs] /\ d \in Agents
      /\ {"main", "timer", "rx", "user"} \subseteq Agents /\ Deleters = {"main", "user"}
      /\ loc[d] \in Locals
  BY DEF TypeOK, Agents, Deleters
<1>1. CASE Delba(d)
  <2>1. /\ loc'[d].kind = "delba" /\ pc'[d] = "wait" /\ rx_locked'
        /\ \A b \in Agents \ {d} : pc'[b] = pc[b] /\ loc'[b] = loc[b]
        /\ armed' = armed /\ crossed' = (crossed \/ \E b \in Deleters \ {d} : Inside(b))
    BY <1>0, <1>1 DEF Delba, Keep, Goto, Idle, Crosses, timeVars
  <2> QED
    BY <1>0, <2>1 DEF Deleting, Inside
<1>2. CASE FlushWorker(d)
  <2>1. PICK w : Keep(d, [loc[d] EXCEPT !.start = w])
    BY <1>2 DEF FlushWorker
  <2>2. loc'[d].kind = loc[d].kind /\ \A b \in Agents \ {d} : loc'[b] = loc[b]
    BY <1>0, <2>1, KindKept DEF Keep
  <2>3. /\ pc["rx"] = "idle" /\ pc'[d] = "until" /\ pc[d] = "wait"
        /\ \A b \in Agents \ {d} : pc'[b] = pc[b]
        /\ UNCHANGED <<rx_locked, crossed, armed>>
    BY <1>0, <1>2 DEF FlushWorker, Goto, sideVars, timeVars
  <2> QED
    BY <1>0, <2>2, <2>3 DEF Deleting, Inside
<1>3. CASE StopTimer(d)
  <2>1. /\ pc'[d] = "free" /\ pc[d] = "stop" /\ pc["timer"] = "idle"
        /\ \A b \in Agents \ {d} : pc'[b] = pc[b]
        /\ armed' = FALSE /\ UNCHANGED <<loc, rx_locked, crossed>>
    BY <1>0, <1>3 DEF StopTimer, Goto, sideVars
  <2> QED
    BY <1>0, <2>1 DEF Deleting, Inside
<1>4. CASE Free(d)
  <2>1. CASE armed \/ \E b \in Agents \ {d} : Inside(b)
    <3>1. /\ \A b \in Agents : pc'[b] = "lost" /\ loc'[b].kind = "none"
          /\ crossed' = crossed
      BY <1>4, <2>1 DEF Free, Idle
    <3> QED
      BY <1>0, <3>1 DEF Deleting, Inside
  <2>2. CASE ~(armed \/ \E b \in Agents \ {d} : Inside(b))
    <3>1. /\ loc'[d].kind = "none" /\ pc'[d] \in {"idle", "reset"}
          /\ \A b \in Agents \ {d} : pc'[b] = pc[b] /\ loc'[b] = loc[b]
          /\ UNCHANGED <<crossed, armed>>
      BY <1>0, <1>4, <2>2 DEF Free, Keep, Idle, timeVars
    <3>2. \A b \in Deleters \ {d} : ~Inside(b) /\ loc[b].kind # "delba"
      BY <1>0, <2>2 DEF Deleting
    <3> QED
      BY <1>0, <3>1, <3>2 DEF Deleting, Inside
  <2> QED
    BY <2>1, <2>2
<1>5. CASE ResetSeq(d)
  <2>1. /\ pc[d] = "reset" /\ pc'[d] = "idle" /\ \A b \in Agents \ {d} : pc'[b] = pc[b]
        /\ UNCHANGED <<loc, rx_locked, crossed, armed>>
    BY <1>0, <1>5 DEF ResetSeq, Goto, sideVars, timeVars
  <2> QED
    BY <1>0, <2>1 DEF Deleting, Inside
<1> QED
  BY <1>1, <1>2, <1>3, <1>4, <1>5 DEF Deletion

LEMMA DeletingArrivals ==
    ASSUME TypeOK, Deleting,
           \/ SenderMoves \/ RxBar
           \/ \E n \in Sent : Direct(n) \/ RxData(n) \/ RxAmsdu(n) \/ RxbaSync(n)
    PROVE  Deleting'
<1>0. /\ loc \in [Agents -> Locals] /\ pc \in [Agents -> Pcs]
      /\ {"main", "timer", "rx", "user"} \subseteq Agents /\ Deleters = {"main", "user"}
  BY DEF TypeOK, Agents, Deleters
<1>1. CASE SenderMoves \/ \E n \in Sent : Direct(n) \/ RxAmsdu(n)
  BY <1>1 DEF SenderMoves, Direct, RxAmsdu, Deleting, Inside, timeVars, sideVars, agentVars
<1>2. CASE RxBar \/ \E n \in Sent : RxData(n)
  <2>1. ~rx_locked /\ UNCHANGED <<rx_locked, crossed, armed>>
    BY <1>2 DEF RxBar, RxData, sideVars, timeVars
  <2>2. \A b \in Agents \ {"rx"} : pc'[b] = pc[b] /\ loc'[b] = loc[b]
    BY <1>0, <1>2 DEF RxBar, RxData, Goto, Keep
  <2> QED
    BY <1>0, <2>1, <2>2 DEF Deleting, Inside
<1>3. ASSUME NEW n \in Sent, RxbaSync(n)
      PROVE  Deleting'
  <2>1. /\ loc'["main"].kind = "sync" /\ pc'["main"] = "classify" /\ armed' = armed
        /\ \A b \in Agents \ {"main"} : pc'[b] = pc[b] /\ loc'[b] = loc[b]
        /\ rx_locked' = rx_locked /\ crossed' = (crossed \/ Inside("user"))
    BY <1>0, <1>3 DEF RxbaSync, Goto, Keep, Idle, Crosses, timeVars
  <2> QED
    BY <1>0, <2>1 DEF Deleting, Inside
<1> QED
  BY <1>1, <1>2, <1>3

LEMMA DeletingNext == TypeOK /\ Deleting /\ [Next]_vars => Deleting'
<1> SUFFICES ASSUME TypeOK, Deleting, [Next]_vars PROVE Deleting'
  OBVIOUS
<1>1. CASE UNCHANGED vars
  BY <1>1 DEF vars, timeVars, sideVars, agentVars, Deleting, Inside
<1>2. CASE Next
  BY <1>2, DeletingArrivals, DeletingOthers, DeletingDeletion, DeletingStep
     DEF Next, Arrivals, Handlers
<1> QED
  BY <1>1, <1>2

\* When a table is freed, from the main thread or from user context, the worker is
\* out of it; and so is everybody else, with its timer not pending, unless a
\* deletion and a handler of the main thread have met.
THEOREM NobodyInFreedTable == Spec => []FreedAlone
<1>1. Init => TypeOK /\ Holding /\ Deleting
  <2>1. Init => Deleting
    BY DEF Init, Deleting, Idle, Agents, Deleters, Inside
  <2> QED
    BY <2>1, TypeInit
<1>2. TypeOK /\ Holding /\ Deleting /\ [Next]_vars => TypeOK' /\ Holding' /\ Deleting'
  BY TypeNext, DeletingNext
<1>3. Deleting => FreedAlone
  <2> SUFFICES ASSUME Deleting, NEW d \in Deleters, pc[d] = "free"
               PROVE  /\ pc["rx"] = "idle"
                      /\ ~crossed => ~armed /\ \A b \in Agents \ {d} : ~Inside(b)
    BY DEF FreedAlone
  <2>1. pc["rx"] = "idle" /\ Inside(d) /\ (~crossed => pc["timer"] = "idle" /\ ~armed)
    BY DEF Deleting
  <2>2. ~crossed => \A b \in Deleters \ {d} : ~Inside(b)
    BY <2>1 DEF Deleting, Deleters
  <2> QED
    BY <2>1, <2>2 DEF Agents, Deleters, Inside
<1> QED
  BY <1>1, <1>2, <1>3, PTL DEF Spec
===============================================================================
