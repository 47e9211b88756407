---------------------------- MODULE RxWindowProofs ----------------------------
(***************************************************************************)
(* What the reorder table promises when its contexts do not meet.          *)
(***************************************************************************)
EXTENDS RxReorderProofs

LEMMA Space == SeqMod \in Nat /\ SeqMod > 0 /\ SeqMod \in Int
BY ReorderAssumption

LEMMA ModSplit ==
    ASSUME NEW M \in Nat, M > 0, NEW x \in Int
    PROVE  x = M * (x \div M) + (x % M) /\ x \div M \in Int /\ x % M \in 0 .. M - 1
OBVIOUS

LEMMA ModUnique ==
    ASSUME NEW M \in Nat, M > 0, NEW x \in Int, NEW q \in Int, NEW r \in 0 .. M - 1, x = M * q + r
    PROVE  x % M = r
OBVIOUS

LEMMA ModAdd ==
    ASSUME NEW M \in Nat, M > 0, NEW x \in Int, NEW y \in Int
    PROVE  ((x % M) + y) % M = (x + y) % M
<1> DEFINE s == x % M
          p == x \div M
          q == (s + y) \div M
          r == (s + y) % M
<1>1. x = M * p + s /\ p \in Int /\ s \in Int
  BY ModSplit
<1> HIDE DEF s, p
<1>2. s + y = M * q + r /\ q \in Int /\ r \in 0 .. M - 1
  BY <1>1, ModSplit
<1> HIDE DEF q, r
<1>3. x + y = M * p + M * q + r
  BY <1>1, <1>2
<1>4. M * p + M * q = M * (p + q) /\ M * (p + q) \in Int
  BY <1>1, <1>2
<1>5. x + y = M * (p + q) + r
  BY <1>1, <1>2, <1>3, <1>4
<1> QED
  <2>1. p + q \in Int /\ x + y \in Int
    BY <1>1, <1>2
  <2>2. (x + y) % M = r
    BY <1>2, <1>5, <2>1, ModUnique
  <2> QED
    BY <2>2 DEF r, s

LEMMA ModNear ==
    ASSUME NEW x \in -SeqMod .. 2 * SeqMod - 1
    PROVE  x % SeqMod = IF x < 0 THEN x + SeqMod ELSE IF x < SeqMod THEN x ELSE x - SeqMod
BY ReorderAssumption

LEMMA ModClose ==
    ASSUME NEW x \in Int, NEW y \in Int, x % SeqMod = y % SeqMod, x - y < SeqMod, y - x < SeqMod
    PROVE  x = y
BY ReorderAssumption

-------------------------------------------------------------------------------
(***************************************************************************)
(* The invariant.                                                          *)
(***************************************************************************)
\* A context that is about to put its packet into a slot.
Storing(a) ==
    \/ pc[a] \in {"test", "store"}
    \/ pc[a] \in {"until", "take", "give"} /\ loc[a].kind \in {"data", "sync"}

Looping(a) == pc[a] \in {"take", "give", "scan", "pass", "rotate"}
AllEmpty   == \A k \in Slots : rx_reorder_ptr[k] = Empty

\* Whatever the others do: a packet is with a context from its arrival to its
\* slot, in its hand from its slot to its dispatch, and the slot is in the table.
CarriedBy(a) ==
    /\ loc[a].n # Empty => /\ loc[a].kind = "data" /\ loc[a].seq = loc[a].n % SeqMod
                           /\ Storing(a) \/ pc[a] \in {"classify", "drop"}
    /\ hand[a] # Empty => pc[a] \in {"give", "pass"}
    /\ Storing(a) => SlotOf(loc[a]) \in Slots
    /\ pc[a] = "classify" => loc[a].i = 0 /\ loc[a].kind \in {"data", "bar", "sync"}
    /\ pc[a] = "flush" => loc[a].kind = "flush"
    /\ loc[a].kind = "delba" => a \in Deleters
Carried == \A a \in Agents : CarriedBy(a)

\* One context at a time works on the table.
Alone == \A a, b \in Agents : Active(a) /\ Active(b) => a = b

\* What a loop has passed is empty, the slot of a packet stays as it was found,
\* and the window is the one the context has looked at.
SweptBy(a) ==
    /\ Looping(a) => \A k \in Slots : k < loc[a].i => rx_reorder_ptr[k] = Empty
    /\ pc[a] \in {"give", "pass"} => rx_reorder_ptr[loc[a].i] = Empty
    /\ pc[a] \in {"take", "give"} =>
          loc[a].send = WinSize \/ loc[a].start = start_win + loc[a].send
    /\ pc[a] = "store" => rx_reorder_ptr[SlotOf(loc[a])] = Empty
    /\ pc[a] \in {"test", "store"} => loc[a].start = start_win
    /\ Storing(a) => "shift" \notin flags
Swept == \A a \in Agents : SweptBy(a)

\* A table is empty before its first packet and when it is deleted.
Ending ==
    /\ \A d \in Deleters :
          /\ loc[d].kind = "delba" /\ pc[d] = "until"
                => loc[d].start = (start_win + WinSize) % SeqMod
          /\ loc[d].kind = "delba" /\ pc[d] \in {"take", "give"} => loc[d].send = WinSize
          /\ pc[d] \in {"stop", "free"} => AllEmpty
    /\ "shift" \in flags => AllEmpty
    /\ ~exists => AllEmpty /\ ~armed /\ \A a \in Agents : ~Inside(a)

\* Every slot holds the packet its place stands for.
Matched ==
    \A k \in Slots : rx_reorder_ptr[k] # Empty =>
        rx_reorder_ptr[k] % SeqMod = (start_win + k) % SeqMod

\* A frame that has come is dispatched or freed, in a context's hands, or in a slot.
Kept(n) == \/ n \in gone
           \/ \E a \in Agents : n \in {hand[a], loc[a].n}
           \/ \E k \in Slots : n = rx_reorder_ptr[k]

Orderly == Alone /\ Swept /\ Ending /\ Matched /\ \A n \in came : Kept(n)
Window  == ~overlap => Orderly

-------------------------------------------------------------------------------
(***************************************************************************)
(* What the steps do to their context: its local variables one by one.     *)
(***************************************************************************)
Only(a) == \A b \in Agents \ {a} : pc'[b] = pc[b] /\ loc'[b] = loc[b] /\ hand'[b] = hand[b]

LEMMA KeepDoes ==
    ASSUME TypeOK, NEW a \in Agents, NEW m, Keep(a, m)
    PROVE  loc'[a] = m /\ \A b \in Agents \ {a} : loc'[b] = loc[b]
BY DEF TypeOK, Keep

LEMMA GotoDoes ==
    ASSUME TypeOK, NEW a \in Agents, NEW from, NEW to, Goto(a, from, to)
    PROVE  pc[a] = from /\ pc'[a] = to /\ \A b \in Agents \ {a} : pc'[b] = pc[b]
BY DEF TypeOK, Goto

\* The decisions of the classification.
Restart(a) == /\ "no_drop" \notin flags /\ "shift" \in flags
              /\ loc[a].seq < start_win /\ init_win <= loc[a].seq
Begin(a)   == IF Restart(a) THEN loc[a].seq ELSE start_win
Asked(a)   == IF loc[a].kind = "bar" THEN EndWin(loc[a].seq) ELSE loc[a].seq
IsOld(a)   == "no_drop" \notin flags /\ ~Restart(a) /\ Old(loc[a].seq, Begin(a))
Moves(a)   == ~IsOld(a) /\ Outside(Asked(a), Begin(a))

LEMMA ClassifyDoes ==
    ASSUME TypeOK, NEW a \in Agents, Classify(a)
    PROVE  /\ pc[a] = "classify" /\ Only(a) /\ hand'[a] = hand[a]
           /\ pc'[a] = IF IsOld(a) THEN "drop" ELSE IF Moves(a) THEN "until"
                       ELSE IF loc[a].kind = "bar" THEN "scan" ELSE "test"
           /\ loc'[a].n = loc[a].n /\ loc'[a].kind = loc[a].kind /\ loc'[a].i = loc[a].i
           /\ loc'[a].seq = Asked(a)
           /\ loc'[a].start = IF Moves(a) THEN (Asked(a) - WinSize + 1) % SeqMod ELSE Begin(a)
           /\ start_win' = Begin(a)
           /\ flags' = flags \ (IF "shift" \in flags THEN {"shift", "no_drop"} ELSE {"no_drop"})
           /\ out' = IF Restart(a) THEN FirstFrame - 1 ELSE out
           /\ spent' = (spent \/ (dozing /\ "no_drop" \in flags))
           /\ UNCHANGED <<exists, init_win, rx_reorder_ptr, timeVars, rx_locked, crossed, dozing,
                          hand, airVars, gone, ordered, early, overlap>>
<1>1. Keep(a, [loc[a] EXCEPT !.seq = Asked(a), !.prev = start_win,
               !.start = IF Moves(a) THEN (Asked(a) - WinSize + 1) % SeqMod ELSE Begin(a)])
  BY DEF Classify, Restart, Begin, Asked, IsOld, Moves
<1>2. loc[a] \in Locals
  BY DEF TypeOK
<1> DEFINE w == IF Moves(a) THEN (Asked(a) - WinSize + 1) % SeqMod ELSE Begin(a)
<1>3. loc'[a] = [loc[a] EXCEPT !.seq = Asked(a), !.prev = start_win, !.start = w]
  BY <1>1, KeepDoes
<1> HIDE DEF w
<1>4. /\ loc'[a].n = loc[a].n /\ loc'[a].kind = loc[a].kind /\ loc'[a].i = loc[a].i
      /\ loc'[a].seq = Asked(a) /\ loc'[a].start = w
  BY <1>2, <1>3 DEF Locals
<1>5. \A b \in Agents \ {a} : loc'[b] = loc[b]
  BY <1>1, KeepDoes
<1>6. /\ start_win' = Begin(a)
      /\ flags' = flags \ (IF "shift" \in flags THEN {"shift", "no_drop"} ELSE {"no_drop"})
      /\ out' = IF Restart(a) THEN FirstFrame - 1 ELSE out
      /\ spent' = (spent \/ (dozing /\ "no_drop" \in flags))
      /\ UNCHANGED <<exists, init_win, rx_reorder_ptr, timeVars, rx_locked, crossed, dozing,
                     hand, airVars, gone, ordered, early, overlap>>
  BY DEF Classify, Restart, Begin
<1>7. /\ pc[a] = "classify"
      /\ pc' = [pc EXCEPT ![a] = IF IsOld(a) THEN "drop" ELSE IF Moves(a) THEN "until"
                       ELSE IF loc[a].kind = "bar" THEN "scan" ELSE "test"]
  BY DEF Classify, Restart, Begin, Asked, IsOld, Moves
<1>8. /\ pc'[a] = IF IsOld(a) THEN "drop" ELSE IF Moves(a) THEN "until"
                       ELSE IF loc[a].kind = "bar" THEN "scan" ELSE "test"
      /\ \A b \in Agents \ {a} : pc'[b] = pc[b]
  BY <1>7 DEF TypeOK
<1> QED
  BY <1>4, <1>5, <1>6, <1>7, <1>8 DEF Only, w

LEMMA TestDoes ==
    ASSUME TypeOK, NEW a \in Agents, Test(a)
    PROVE  /\ pc[a] = "test" /\ Only(a) /\ hand'[a] = hand[a] /\ loc'[a] = loc[a]
           /\ pc'[a] = IF rx_reorder_ptr[SlotOf(loc[a])] = Empty THEN "store" ELSE "drop"
           /\ UNCHANGED <<tblVars, timeVars, sideVars, hand, airVars, histVars, overlap>>
BY DEF TypeOK, Test, Goto, Only

LEMMA StoreDoes ==
    ASSUME TypeOK, NEW a \in Agents, Store(a)
    PROVE  /\ pc[a] = "store" /\ pc'[a] = "scan" /\ Only(a) /\ hand'[a] = hand[a]
           /\ loc'[a].n = Empty /\ loc'[a].kind = loc[a].kind /\ loc'[a].i = 0
           /\ \/ rx_reorder_ptr' = [rx_reorder_ptr EXCEPT ![SlotOf(loc[a])] = loc[a].n]
              \/ /\ \E b \in Agents \ {a} : Rotating(b)
                 /\ UNCHANGED rx_reorder_ptr
           /\ UNCHANGED <<exists, start_win, init_win, flags, timeVars, sideVars, hand,
                          airVars, histVars, overlap>>
<1>1. loc'[a] = [Idle EXCEPT !.kind = loc[a].kind, !.prev = loc[a].prev]
  BY KeepDoes DEF Store
<1>2. loc'[a].n = Empty /\ loc'[a].kind = loc[a].kind /\ loc'[a].i = 0
  BY <1>1 DEF Idle
<1> QED
  BY <1>2, KeepDoes, GotoDoes DEF Store, Only

LEMMA DropDoes ==
    ASSUME TypeOK, NEW a \in Agents, Drop(a)
    PROVE  /\ pc[a] = "drop" /\ pc'[a] = "done" /\ Only(a) /\ hand'[a] = hand[a]
           /\ loc'[a].n = Empty /\ loc'[a].kind = loc[a].kind /\ loc'[a].i = 0
           /\ gone' = gone \cup ({loc[a].n} \ {Empty})
           /\ UNCHANGED <<tblVars, timeVars, sideVars, hand, airVars, out, ordered,
                          early, overlap>>
<1>1. loc'[a] = [Idle EXCEPT !.kind = loc[a].kind, !.prev = loc[a].prev]
  BY KeepDoes DEF Drop
<1>2. loc'[a].n = Empty /\ loc'[a].kind = loc[a].kind /\ loc'[a].i = 0
  BY <1>1 DEF Idle
<1> QED
  BY <1>2, KeepDoes, GotoDoes DEF Drop, Only

LEMMA DoneDoes ==
    ASSUME TypeOK, NEW a \in Agents, Done(a)
    PROVE  /\ pc[a] = "done" /\ pc'[a] = "idle" /\ Only(a) /\ hand'[a] = hand[a]
           /\ loc'[a].n = Empty /\ loc'[a].kind = "none" /\ loc'[a].i = 0
           /\ UNCHANGED <<tblVars, sideVars, hand, airVars, histVars, overlap>>
<1>1. loc'[a] = Idle
  BY KeepDoes DEF Done
<1>2. loc'[a].n = Empty /\ loc'[a].kind = "none" /\ loc'[a].i = 0
  BY <1>1 DEF Idle
<1> QED
  BY <1>2, KeepDoes, GotoDoes DEF Done, Only

LEMMA UntilBeginDoes ==
    ASSUME TypeOK, NEW a \in Agents, UntilBegin(a)
    PROVE  /\ pc[a] = "until" /\ pc'[a] = "take" /\ Only(a) /\ hand'[a] = hand[a]
           /\ loc'[a].n = loc[a].n /\ loc'[a].kind = loc[a].kind /\ loc'[a].seq = loc[a].seq
           /\ loc'[a].start = loc[a].start /\ loc'[a].i = 0
           /\ loc'[a].send = IF loc[a].start > start_win
                             THEN Smaller(loc[a].start - start_win, WinSize) ELSE WinSize
           /\ UNCHANGED <<tblVars, timeVars, sideVars, hand, airVars, histVars, overlap>>
<1> DEFINE d == IF loc[a].start > start_win
                THEN Smaller(loc[a].start - start_win, WinSize) ELSE WinSize
<1>1. loc'[a] = [loc[a] EXCEPT !.i = 0, !.send = d]
  BY KeepDoes DEF UntilBegin
<1>2. loc[a] \in Locals
  BY DEF TypeOK
<1> HIDE DEF d
<1>3. /\ loc'[a].n = loc[a].n /\ loc'[a].kind = loc[a].kind /\ loc'[a].seq = loc[a].seq
      /\ loc'[a].start = loc[a].start /\ loc'[a].i = 0 /\ loc'[a].send = d
  BY <1>1, <1>2 DEF Locals
<1> QED
  BY <1>3, KeepDoes, GotoDoes DEF UntilBegin, Only, d

\* One slot of a loop.
Takes(a, to) ==
    /\ rx_reorder_ptr[loc[a].i] # Empty
    /\ pc'[a] = to /\ loc'[a] = loc[a] /\ hand'[a] = rx_reorder_ptr[loc[a].i]
    /\ rx_reorder_ptr' = [rx_reorder_ptr EXCEPT ![loc[a].i] = Empty]

\* On to the next one.
GoesOn(a) ==
    /\ loc'[a].n = loc[a].n /\ loc'[a].kind = loc[a].kind /\ loc'[a].seq = loc[a].seq
    /\ loc'[a].start = loc[a].start /\ loc'[a].send = loc[a].send
    /\ loc'[a].i = loc[a].i + 1

LEMMA TakeSlotDoes ==
    ASSUME TypeOK, NEW a \in Agents, NEW to, TakeSlot(a, to), rx_reorder_ptr[loc[a].i] # Empty
    PROVE  Takes(a, to) /\ Only(a)
BY DEF TypeOK, TakeSlot, Takes, Only

LEMMA GoesOnDoes ==
    ASSUME TypeOK, NEW a \in Agents, Keep(a, [loc[a] EXCEPT !.i = @ + 1])
    PROVE  GoesOn(a) /\ \A b \in Agents \ {a} : loc'[b] = loc[b]
<1>1. loc'[a] = [loc[a] EXCEPT !.i = @ + 1] /\ \A b \in Agents \ {a} : loc'[b] = loc[b]
  BY KeepDoes
<1>2. loc[a] \in Locals
  BY DEF TypeOK
<1> QED
  BY <1>1, <1>2 DEF Locals, GoesOn

LEMMA UntilTakeDoes ==
    ASSUME TypeOK, NEW a \in Agents, UntilTake(a)
    PROVE  /\ pc[a] = "take" /\ loc[a].i < loc[a].send /\ Only(a)
           /\ \/ /\ Takes(a, "give")
                 /\ early' = (early \/ (~overlap /\ ~Ahead(loc[a])))
              \/ /\ rx_reorder_ptr[loc[a].i] = Empty /\ pc'[a] = "take" /\ GoesOn(a)
                 /\ UNCHANGED <<hand, rx_reorder_ptr, early>>
           /\ UNCHANGED <<exists, start_win, init_win, flags, timeVars, sideVars, airVars,
                          gone, out, ordered, overlap>>
<1>1. CASE rx_reorder_ptr[loc[a].i] # Empty
  BY <1>1, TakeSlotDoes DEF UntilTake
<1>2. CASE rx_reorder_ptr[loc[a].i] = Empty
  BY <1>2, GoesOnDoes DEF UntilTake, Only
<1> QED
  BY <1>1, <1>2

LEMMA ScanTakeDoes ==
    ASSUME TypeOK, NEW a \in Agents, ScanTake(a)
    PROVE  /\ pc[a] = "scan" /\ Only(a)
           /\ \/ loc[a].i < WinSize /\ Takes(a, "pass")
              \/ /\ ~(loc[a].i < WinSize /\ rx_reorder_ptr[loc[a].i] # Empty)
                 /\ pc'[a] = "rotate" /\ UNCHANGED <<loc, hand, rx_reorder_ptr>>
           /\ UNCHANGED <<exists, start_win, init_win, flags, timeVars, sideVars, airVars,
                          histVars, overlap>>
<1>1. CASE loc[a].i < WinSize /\ rx_reorder_ptr[loc[a].i] # Empty
  BY <1>1, TakeSlotDoes DEF ScanTake
<1>2. CASE ~(loc[a].i < WinSize /\ rx_reorder_ptr[loc[a].i] # Empty)
  BY <1>2 DEF ScanTake, Only, TypeOK
<1> QED
  BY <1>1, <1>2

LEMMA GiveDoes ==
    ASSUME TypeOK, NEW a \in Agents, Give(a)
    PROVE  /\ \/ pc[a] = "give" /\ pc'[a] = "take"
              \/ pc[a] = "pass" /\ pc'[a] = "scan"
           /\ Only(a) /\ hand'[a] = Empty /\ GoesOn(a) /\ Deliver(hand[a])
           /\ UNCHANGED <<tblVars, timeVars, sideVars, airVars, early, overlap>>
<1>1. Keep(a, [loc[a] EXCEPT !.i = @ + 1])
  BY DEF Give
<1>2. GoesOn(a) /\ \A b \in Agents \ {a} : loc'[b] = loc[b]
  BY <1>1, GoesOnDoes
<1>3. /\ \/ pc[a] = "give" /\ pc'[a] = "take"
         \/ pc[a] = "pass" /\ pc'[a] = "scan"
      /\ \A b \in Agents \ {a} : pc'[b] = pc[b]
  <2>1. CASE Goto(a, "give", "take")
    BY <2>1, GotoDoes
  <2>2. CASE Goto(a, "pass", "scan")
    BY <2>2, GotoDoes
  <2> QED
    BY <2>1, <2>2 DEF Give
<1>4. hand'[a] = Empty /\ \A b \in Agents \ {a} : hand'[b] = hand[b]
  BY DEF Give, TypeOK
<1> QED
  BY <1>2, <1>3, <1>4 DEF Give, Only

LEMMA UntilRotateDoes ==
    ASSUME TypeOK, NEW a \in Agents, UntilRotate(a)
    PROVE  /\ pc[a] = "take" /\ loc[a].i = loc[a].send /\ Only(a) /\ hand'[a] = hand[a]
           /\ pc'[a] = AfterUntil(a)
           /\ \/ AfterUntil(a) = "idle" /\ loc'[a] = Idle
              \/ /\ AfterUntil(a) # "idle"
                 /\ loc'[a].n = loc[a].n /\ loc'[a].kind = loc[a].kind
                 /\ loc'[a].seq = loc[a].seq /\ loc'[a].start = loc[a].start
                 /\ loc'[a].i = 0
           /\ rx_reorder_ptr' = Rotated(loc[a].send) /\ start_win' = loc[a].start
           /\ out' = IF loc[a].kind = "addba" THEN FirstFrame - 1 ELSE out
           /\ UNCHANGED <<exists, init_win, flags, timeVars, sideVars, hand, airVars, gone,
                          ordered, early, overlap>>
<1>1. /\ \A b \in Agents \ {a} : loc'[b] = loc[b]
      /\ loc'[a] = IF AfterUntil(a) = "idle" THEN Idle
                   ELSE [loc[a] EXCEPT !.i = 0, !.send = 0]
  BY DEF UntilRotate, Keep, TypeOK
<1>2. loc[a] \in Locals
  BY DEF TypeOK
<1>3. \/ AfterUntil(a) = "idle" /\ loc'[a] = Idle
      \/ /\ AfterUntil(a) # "idle"
         /\ loc'[a].n = loc[a].n /\ loc'[a].kind = loc[a].kind
         /\ loc'[a].seq = loc[a].seq /\ loc'[a].start = loc[a].start
         /\ loc'[a].i = 0
  BY <1>1, <1>2 DEF Locals
<1>4. pc'[a] = AfterUntil(a) /\ \A b \in Agents \ {a} : pc'[b] = pc[b]
  BY DEF UntilRotate, TypeOK
<1> QED
  BY <1>1, <1>3, <1>4 DEF UntilRotate, Only

LEMMA ScanRotateDoes ==
    ASSUME TypeOK, NEW a \in Agents, ScanRotate(a)
    PROVE  /\ pc[a] = "rotate" /\ pc'[a] = "done" /\ Only(a) /\ hand'[a] = hand[a]
           /\ loc'[a].n = loc[a].n /\ loc'[a].kind = loc[a].kind /\ loc'[a].i = 0
           /\ rx_reorder_ptr' = Rotated(loc[a].i)
           /\ start_win' = (start_win + loc[a].i) % SeqMod
           /\ UNCHANGED <<exists, init_win, flags, timeVars, sideVars, hand, airVars,
                          histVars, overlap>>
<1>1. loc'[a] = [loc[a] EXCEPT !.i = 0]
  BY KeepDoes DEF ScanRotate
<1>2. loc[a] \in Locals
  BY DEF TypeOK
<1>3. loc'[a].n = loc[a].n /\ loc'[a].kind = loc[a].kind /\ loc'[a].i = 0
  BY <1>1, <1>2 DEF Locals
<1> QED
  BY <1>3, KeepDoes, GotoDoes DEF ScanRotate, Only

\* The timer's handler.
LEMMA TimerExpiresDoes ==
    ASSUME TypeOK, TimerExpires
    PROVE  /\ pc["timer"] = "idle" /\ pc'["timer"] = "find" /\ Only("timer")
           /\ armed /\ ~armed' /\ Meets("timer")
           /\ UNCHANGED <<tblVars, sideVars, loc, hand, airVars, gone>>
BY GotoDoes DEF TimerExpires, Only, Agents

LEMMA FlushFindDoes ==
    ASSUME TypeOK, FlushFind
    PROVE  /\ pc["timer"] = "find" /\ Only("timer")
           /\ \/ /\ AllEmpty /\ pc'["timer"] = "idle" /\ UNCHANGED loc
              \/ /\ pc'["timer"] = "flush"
                 /\ loc'["timer"].n = Empty /\ loc'["timer"].kind = "flush"
                 /\ loc'["timer"].i \in Slots /\ rx_reorder_ptr[loc'["timer"].i] # Empty
           /\ UNCHANGED <<tblVars, timeVars, sideVars, hand, airVars, histVars, overlap>>
<1>1. "timer" \in Agents
  BY DEF Agents
<1>2. CASE {k \in Slots : rx_reorder_ptr[k] # Empty} = {} /\ Goto("timer", "find", "idle") /\ UNCHANGED loc
  BY <1>1, <1>2, GotoDoes DEF FlushFind, Only, AllEmpty
<1>3. ASSUME NEW last \in Slots, rx_reorder_ptr[last] # Empty, Goto("timer", "find", "flush"),
             Keep("timer", [Idle EXCEPT !.kind = "flush", !.i = last])
      PROVE  /\ pc["timer"] = "find" /\ Only("timer") /\ pc'["timer"] = "flush"
             /\ loc'["timer"].n = Empty /\ loc'["timer"].kind = "flush"
             /\ loc'["timer"].i \in Slots /\ rx_reorder_ptr[loc'["timer"].i] # Empty
  <2>1. loc'["timer"] = [Idle EXCEPT !.kind = "flush", !.i = last]
    BY <1>1, <1>3, KeepDoes
  <2>2. loc'["timer"].n = Empty /\ loc'["timer"].kind = "flush" /\ loc'["timer"].i = last
    BY <2>1 DEF Idle
  <2> QED
    <3>1. /\ \A b \in Agents \ {"timer"} : pc'[b] = pc[b] /\ loc'[b] = loc[b]
          /\ pc["timer"] = "find" /\ pc'["timer"] = "flush"
      BY <1>1, <1>3, KeepDoes, GotoDoes
    <3>2. hand' = hand
      BY DEF FlushFind
    <3> QED
      BY <1>3, <2>2, <3>1, <3>2 DEF Only
<1> QED
  BY <1>2, <1>3 DEF FlushFind

LEMMA FlushFromDoes ==
    ASSUME TypeOK, FlushFrom
    PROVE  /\ pc["timer"] = "flush" /\ pc'["timer"] = "until" /\ Only("timer")
           /\ loc'["timer"].n = loc["timer"].n /\ loc'["timer"].kind = loc["timer"].kind
           /\ loc'["timer"].seq = loc["timer"].seq
           /\ loc'["timer"].start = (start_win + loc["timer"].i + 1) % SeqMod
           /\ UNCHANGED <<tblVars, timeVars, sideVars, hand, airVars, histVars, overlap>>
<1> DEFINE w == (start_win + loc["timer"].i + 1) % SeqMod
<1>1. "timer" \in Agents /\ loc["timer"] \in Locals
  BY DEF Agents, TypeOK
<1>2. loc'["timer"] = [loc["timer"] EXCEPT !.start = w]
  BY <1>1, KeepDoes DEF FlushFrom
<1> HIDE DEF w
<1>3. /\ loc'["timer"].n = loc["timer"].n /\ loc'["timer"].kind = loc["timer"].kind
      /\ loc'["timer"].seq = loc["timer"].seq /\ loc'["timer"].start = w
  BY <1>1, <1>2 DEF Locals
<1> QED
  BY <1>1, <1>3, KeepDoes, GotoDoes DEF FlushFrom, Only, w

\* What comes in.
LEMMA RxDataDoes ==
    ASSUME TypeOK, NEW n, RxData(n)
    PROVE  /\ pc["rx"] = "idle" /\ pc'["rx"] = "classify" /\ Only("rx")
           /\ loc'["rx"].n = n /\ loc'["rx"].kind = "data" /\ loc'["rx"].seq = n % SeqMod
           /\ loc'["rx"].i = 0
           /\ exists /\ ~rx_locked /\ n \in Sendable /\ Comes(n) /\ Meets("rx")
           /\ rx_seq' = n % SeqMod
           /\ UNCHANGED <<tblVars, timeVars, sideVars, hand, base, left, gone>>
<1>1. "rx" \in Agents
  BY DEF Agents
<1>2. loc'["rx"] = [Idle EXCEPT !.n = n, !.kind = "data", !.seq = n % SeqMod]
  BY <1>1, KeepDoes DEF RxData
<1>3. /\ loc'["rx"].n = n /\ loc'["rx"].kind = "data" /\ loc'["rx"].seq = n % SeqMod
      /\ loc'["rx"].i = 0
  BY <1>2 DEF Idle
<1> QED
  BY <1>1, <1>3, KeepDoes, GotoDoes DEF RxData, Only

LEMMA RxBarDoes ==
    ASSUME TypeOK, RxBar
    PROVE  /\ pc["rx"] = "idle" /\ pc'["rx"] = "classify" /\ Only("rx")
           /\ loc'["rx"].n = Empty /\ loc'["rx"].kind = "bar" /\ loc'["rx"].seq = base % SeqMod
           /\ loc'["rx"].i = 0
           /\ exists /\ ~rx_locked /\ Meets("rx")
           /\ UNCHANGED <<tblVars, timeVars, sideVars, hand, base, hi, rx_seq, came, gone>>
<1>1. "rx" \in Agents
  BY DEF Agents
<1>2. loc'["rx"] = [Idle EXCEPT !.kind = "bar", !.seq = base % SeqMod]
  BY <1>1, KeepDoes DEF RxBar
<1>3. /\ loc'["rx"].n = Empty /\ loc'["rx"].kind = "bar" /\ loc'["rx"].seq = base % SeqMod
      /\ loc'["rx"].i = 0
  BY <1>2 DEF Idle
<1> QED
  BY <1>1, <1>3, KeepDoes, GotoDoes DEF RxBar, Only

LEMMA RxbaSyncDoes ==
    ASSUME TypeOK, NEW n, RxbaSync(n)
    PROVE  /\ pc["main"] = "idle" /\ pc'["main"] = "classify" /\ Only("main")
           /\ loc'["main"].n = Empty /\ loc'["main"].kind = "sync"
           /\ loc'["main"].seq = n % SeqMod /\ loc'["main"].i = 0
           /\ exists /\ n \in Sendable /\ Comes(n) /\ Meets("main") /\ gone' = gone \cup {n}
           /\ UNCHANGED <<tblVars, timeVars, rx_locked, dozing, spent, hand, base, rx_seq>>
<1>1. "main" \in Agents
  BY DEF Agents
<1>2. loc'["main"] = [Idle EXCEPT !.kind = "sync", !.seq = n % SeqMod]
  BY <1>1, KeepDoes DEF RxbaSync
<1>3. /\ loc'["main"].n = Empty /\ loc'["main"].kind = "sync"
      /\ loc'["main"].seq = n % SeqMod /\ loc'["main"].i = 0
  BY <1>2 DEF Idle
<1> QED
  BY <1>1, <1>3, KeepDoes, GotoDoes DEF RxbaSync, Only

\* The main thread's requests.
LEMMA AddbaAgainDoes ==
    ASSUME TypeOK, AddbaAgain
    PROVE  /\ pc["main"] = "idle" /\ pc'["main"] = "until" /\ Only("main")
           /\ loc'["main"].n = Empty /\ loc'["main"].kind = "addba"
           /\ loc'["main"].start = base % SeqMod
           /\ exists /\ Meets("main")
           /\ UNCHANGED <<tblVars, timeVars, rx_locked, dozing, spent, hand, base, hi, rx_seq,
                          came, gone>>
<1>1. "main" \in Agents
  BY DEF Agents
<1>2. loc'["main"] = [Idle EXCEPT !.kind = "addba", !.start = base % SeqMod]
  BY <1>1, KeepDoes DEF AddbaAgain
<1>3. /\ loc'["main"].n = Empty /\ loc'["main"].kind = "addba"
      /\ loc'["main"].start = base % SeqMod
  BY <1>2 DEF Idle
<1> QED
  BY <1>1, <1>3, KeepDoes, GotoDoes DEF AddbaAgain, Only

LEMMA DelbaDoes ==
    ASSUME TypeOK, NEW d \in Deleters, Delba(d)
    PROVE  /\ pc[d] = "idle" /\ pc'[d] = "wait" /\ Only(d)
           /\ loc'[d].n = Empty /\ loc'[d].kind = "delba"
           /\ exists /\ rx_locked' /\ (left' = left \/ Once)
           /\ UNCHANGED <<tblVars, timeVars, dozing, spent, hand, base, hi, rx_seq, came,
                          histVars, overlap>>
<1>1. d \in Agents
  BY DEF Agents, Deleters
<1>2. loc'[d] = [Idle EXCEPT !.kind = "delba"]
  BY <1>1, KeepDoes DEF Delba
<1>3. loc'[d].n = Empty /\ loc'[d].kind = "delba"
  BY <1>2 DEF Idle
<1>4. left' = left \/ Once
  BY DEF Delba
<1> QED
  BY <1>1, <1>3, <1>4, KeepDoes, GotoDoes DEF Delba, Only

LEMMA FlushWorkerDoes ==
    ASSUME TypeOK, NEW d \in Deleters, FlushWorker(d)
    PROVE  /\ pc[d] = "wait" /\ pc'[d] = "until" /\ Only(d)
           /\ loc'[d].n = loc[d].n /\ loc'[d].kind = loc[d].kind
           /\ loc'[d].seq = loc[d].seq
           /\ loc'[d].start = (start_win + WinSize) % SeqMod
           /\ pc["rx"] = "idle" /\ Meets(d)
           /\ UNCHANGED <<tblVars, timeVars, sideVars, hand, airVars, gone>>
<1> DEFINE w == (start_win + WinSize) % SeqMod
<1>1. d \in Agents /\ loc[d] \in Locals
  BY DEF Agents, Deleters, TypeOK
<1>2. loc'[d] = [loc[d] EXCEPT !.start = w]
  BY <1>1, KeepDoes DEF FlushWorker
<1> HIDE DEF w
<1>3. /\ loc'[d].n = loc[d].n /\ loc'[d].kind = loc[d].kind
      /\ loc'[d].seq = loc[d].seq /\ loc'[d].start = w
  BY <1>1, <1>2 DEF Locals
<1> QED
  BY <1>1, <1>3, KeepDoes, GotoDoes DEF FlushWorker, Only, w

LEMMA StopTimerDoes ==
    ASSUME TypeOK, NEW d \in Deleters, StopTimer(d)
    PROVE  /\ pc[d] = "stop" /\ pc'[d] = "free" /\ Only(d)
           /\ pc["timer"] = "idle" /\ ~armed'
           /\ UNCHANGED <<tblVars, sideVars, loc, hand, airVars, histVars, overlap>>
BY GotoDoes DEF StopTimer, Only, Agents, Deleters

\* The table is freed with nobody else in it, or the play is at its end.
LEMMA FreeDoes ==
    ASSUME TypeOK, NEW d \in Deleters, Free(d), ~overlap'
    PROVE  /\ pc[d] = "free" /\ pc'[d] \in {"idle", "reset"} /\ Only(d)
           /\ loc'[d] = Idle
           /\ ~armed /\ \A b \in Agents \ {d} : ~Inside(b)
           /\ ~exists' /\ start_win' = 0 /\ flags' = {}
           /\ rx_reorder_ptr' = [k \in Slots |-> Empty] /\ NewOrder
           /\ UNCHANGED <<timeVars, crossed, dozing, spent, hand, airVars, gone, overlap>>
<1>1. d \in Agents
  BY DEF Agents, Deleters
<1>2. ~(armed \/ \E b \in Agents \ {d} : Inside(b))
  BY DEF Free
<1>3. /\ Keep(d, Idle) /\ UNCHANGED <<hand, overlap>>
      /\ \E to \in {"idle", "reset"} : pc' = [pc EXCEPT ![d] = to]
  BY <1>2 DEF Free
<1>4. pc'[d] \in {"idle", "reset"} /\ \A b \in Agents \ {d} : pc'[b] = pc[b]
  BY <1>1, <1>3 DEF TypeOK
<1>5. loc'[d] = Idle /\ \A b \in Agents \ {d} : loc'[b] = loc[b]
  BY <1>1, <1>3, KeepDoes
<1> QED
  BY <1>2, <1>3, <1>4, <1>5 DEF Free, Only

LEMMA FreeLost ==
    ASSUME NEW d \in Deleters, Free(d), overlap'
    PROVE  \/ \A a \in Agents : pc'[a] = "lost" /\ loc'[a] = Idle /\ hand'[a] = Empty
           \/ /\ pc' = [pc EXCEPT ![d] = "idle"] \/ pc' = [pc EXCEPT ![d] = "reset"]
              /\ Keep(d, Idle) /\ hand' = hand
BY DEF Free

LEMMA ResetSeqDoes ==
    ASSUME TypeOK, NEW d \in Deleters, ResetSeq(d)
    PROVE  /\ pc[d] = "reset" /\ pc'[d] = "idle" /\ Only(d) /\ rx_seq' = None
           /\ UNCHANGED <<tblVars, timeVars, sideVars, loc, hand, base, hi, left, came,
                          histVars, overlap>>
BY GotoDoes DEF ResetSeq, Only, Agents, Deleters

-------------------------------------------------------------------------------
(***************************************************************************)
(* A packet is carried to a slot of the table.                             *)
(***************************************************************************)

\* Distances and ends of windows, without %.
LEMMA Distance ==
    ASSUME NEW x \in 0 .. SeqMod - 1, NEW y \in 0 .. SeqMod
    PROVE  (x - y) % SeqMod = IF x < y THEN x - y + SeqMod ELSE x - y
<1> DEFINE d == x - y
<1>1. d \in -SeqMod .. 2 * SeqMod - 1 /\ d < SeqMod /\ (d < 0 <=> x < y)
  BY Space
<1> HIDE DEF d
<1>2. d % SeqMod = IF d < 0 THEN d + SeqMod ELSE d
  BY <1>1, ModNear
<1> QED
  BY <1>1, <1>2 DEF d

LEMMA WindowEnd ==
    ASSUME NEW w \in 0 .. SeqMod
    PROVE  EndWin(w) = IF w + WinSize - 1 < SeqMod THEN w + WinSize - 1 ELSE w + WinSize - 1 - SeqMod
<1> DEFINE e == w + WinSize - 1
<1>1. e \in -SeqMod .. 2 * SeqMod - 1 /\ 0 <= e
  BY ReorderAssumption
<1> HIDE DEF e
<1>2. e % SeqMod = IF e < SeqMod THEN e ELSE e - SeqMod
  BY <1>1, ModNear
<1>3. EndWin(w) = e % SeqMod
  BY DEF EndWin, e
<1>4. EndWin(w) = IF e < SeqMod THEN e ELSE e - SeqMod
  BY <1>2, <1>3
<1> QED
  BY <1>4, Space, ReorderAssumption DEF e

LEMMA WindowBefore ==
    ASSUME NEW e \in 0 .. SeqMod - 1
    PROVE  (e - WinSize + 1) % SeqMod = IF e - WinSize + 1 < 0 THEN e - WinSize + 1 + SeqMod
                                        ELSE e - WinSize + 1
<1> DEFINE w == e - WinSize + 1
<1>1. w \in -SeqMod .. 2 * SeqMod - 1 /\ w < SeqMod
  BY ReorderAssumption
<1> HIDE DEF w
<1>2. w % SeqMod = IF w < 0 THEN w + SeqMod ELSE w
  BY <1>1, ModNear
<1> QED
  BY <1>2 DEF w

\* The window a number lies in has a slot for it ...
LEMMA InsideHasSlot ==
    ASSUME NEW seq \in 0 .. SeqMod - 1, NEW start \in 0 .. SeqMod, ~Outside(seq, start)
    PROVE  (seq - start) % SeqMod \in Slots
<1>1. (seq - start) % SeqMod = IF seq < start THEN seq - start + SeqMod ELSE seq - start
  BY Distance
<1>2. EndWin(start) = IF start + WinSize - 1 < SeqMod THEN start + WinSize - 1
                      ELSE start + WinSize - 1 - SeqMod
  BY WindowEnd
<1> DEFINE d == (seq - start) % SeqMod
           e == EndWin(start)
<1>3. d = IF seq < start THEN seq - start + SeqMod ELSE seq - start
  BY <1>1
<1>4. \/ e < start /\ ~(e < seq /\ seq < start)
      \/ start < e /\ ~(e < seq \/ seq < start)
      \/ e = start
  BY <1>2, ReorderAssumption DEF Outside
<1> HIDE DEF d, e
<1>5. d \in Slots
  BY <1>2, <1>3, <1>4, ReorderAssumption DEF Slots, e
<1> QED
  BY <1>5 DEF d

\* ... and the window that is moved to it has its last slot for it.
LEMMA MovedHasSlot ==
    ASSUME NEW seq \in 0 .. SeqMod - 1
    PROVE  (seq - ((seq - WinSize + 1) % SeqMod)) % SeqMod = WinSize - 1
<1> DEFINE w == (seq - WinSize + 1) % SeqMod
<1>1. w = IF seq - WinSize + 1 < 0 THEN seq - WinSize + 1 + SeqMod ELSE seq - WinSize + 1
  BY WindowBefore
<1> HIDE DEF w
<1>2. w \in 0 .. SeqMod
  BY <1>1, ReorderAssumption
<1>3. (seq - w) % SeqMod = IF seq < w THEN seq - w + SeqMod ELSE seq - w
  BY <1>2, Distance
<1> DEFINE d == (seq - w) % SeqMod
<1>4. d = IF seq < w THEN seq - w + SeqMod ELSE seq - w
  BY <1>3
<1> HIDE DEF d
<1>5. d = WinSize - 1
  BY <1>1, <1>4, ReorderAssumption
<1> QED
  BY <1>5 DEF d, w

LEMMA AskedType ==
    ASSUME TypeOK, NEW a \in Agents
    PROVE  Asked(a) \in 0 .. SeqMod - 1 /\ Begin(a) \in 0 .. SeqMod
<1>1. loc[a].seq \in 0 .. SeqMod - 1 /\ start_win \in 0 .. SeqMod
  BY LocalHas DEF TypeOK
<1>2. loc[a].seq + WinSize - 1 \in Int
  BY <1>1, ReorderAssumption
<1>3. EndWin(loc[a].seq) \in 0 .. SeqMod - 1
  BY <1>2, Reduced DEF EndWin
<1> QED
  BY <1>1, <1>3, ReorderAssumption DEF Asked, Begin

\* Nobody else's packet is touched.
LEMMA CarriedStays ==
    ASSUME Carried, NEW a \in Agents, Only(a), CarriedBy(a)'
    PROVE  Carried'
BY DEF Carried, CarriedBy, Only, Storing, SlotOf

LEMMA CarriedReorder ==
    ASSUME TypeOK, Carried, NEW a \in Agents,
           Classify(a) \/ Test(a) \/ Store(a) \/ Drop(a) \/ Done(a)
    PROVE  Carried'
<1>0. CarriedBy(a)
  BY DEF Carried
<1>1. CASE Classify(a)
  <2>1. Asked(a) \in 0 .. SeqMod - 1 /\ Begin(a) \in 0 .. SeqMod
    BY AskedType
  <2>2. (loc'[a].seq - loc'[a].start) % SeqMod \in Slots \/ IsOld(a)
    <3>1. CASE Moves(a)
      <4>1. (loc'[a].seq - loc'[a].start) % SeqMod = WinSize - 1
        BY <1>1, <2>1, <3>1, ClassifyDoes, MovedHasSlot
      <4> QED
        BY <4>1, ReorderAssumption DEF Slots
    <3>2. CASE ~Moves(a) /\ ~IsOld(a)
      BY <1>1, <2>1, <3>2, ClassifyDoes, InsideHasSlot DEF Moves
    <3> QED
      BY <3>1, <3>2 DEF Moves
  <2>3. loc'[a].n # Empty => loc'[a].kind = "data" /\ loc'[a].seq = loc'[a].n % SeqMod
    BY <1>0, <1>1, ClassifyDoes DEF CarriedBy, Asked
  <2>4. CarriedBy(a)'
    BY <1>0, <1>1, <2>2, <2>3, ClassifyDoes DEF CarriedBy, Storing, SlotOf
  <2> QED
    BY <1>1, <2>4, ClassifyDoes, CarriedStays
<1>2. CASE Test(a)
  <2>1. CarriedBy(a)'
    BY <1>0, <1>2, TestDoes DEF CarriedBy, Storing
  <2> QED
    BY <1>2, <2>1, TestDoes, CarriedStays
<1>3. CASE Store(a)
  <2>1. CarriedBy(a)'
    BY <1>0, <1>3, StoreDoes DEF CarriedBy, Storing
  <2> QED
    BY <1>3, <2>1, StoreDoes, CarriedStays
<1>4. CASE Drop(a)
  <2>1. CarriedBy(a)'
    BY <1>0, <1>4, DropDoes DEF CarriedBy, Storing
  <2> QED
    BY <1>4, <2>1, DropDoes, CarriedStays
<1>5. CASE Done(a)
  <2>1. CarriedBy(a)'
    BY <1>0, <1>5, DoneDoes DEF CarriedBy, Storing
  <2> QED
    BY <1>5, <2>1, DoneDoes, CarriedStays
<1> QED
  BY <1>1, <1>2, <1>3, <1>4, <1>5

LEMMA CarriedDispatch ==
    ASSUME TypeOK, Carried, NEW a \in Agents,
           \/ UntilBegin(a) \/ UntilTake(a) \/ UntilRotate(a)
           \/ ScanTake(a) \/ ScanRotate(a) \/ Give(a)
    PROVE  Carried'
<1>0. CarriedBy(a)
  BY DEF Carried
<1>1. CASE UntilBegin(a)
  <2>1. CarriedBy(a)'
    BY <1>0, <1>1, UntilBeginDoes DEF CarriedBy, Storing, SlotOf
  <2> QED
    BY <1>1, <2>1, UntilBeginDoes, CarriedStays
<1>2. CASE UntilTake(a)
  <2>1. CarriedBy(a)'
    BY <1>0, <1>2, UntilTakeDoes DEF CarriedBy, Storing, SlotOf, Takes, GoesOn
  <2> QED
    BY <1>2, <2>1, UntilTakeDoes, CarriedStays
<1>3. CASE UntilRotate(a)
  <2>1. CarriedBy(a)'
    BY <1>0, <1>3, UntilRotateDoes DEF CarriedBy, Storing, SlotOf, AfterUntil, Idle
  <2> QED
    BY <1>3, <2>1, UntilRotateDoes, CarriedStays
<1>4. CASE ScanTake(a)
  <2>1. CarriedBy(a)'
    BY <1>0, <1>4, ScanTakeDoes DEF CarriedBy, Storing, Takes
  <2> QED
    BY <1>4, <2>1, ScanTakeDoes, CarriedStays
<1>5. CASE ScanRotate(a)
  <2>1. CarriedBy(a)'
    BY <1>0, <1>5, ScanRotateDoes DEF CarriedBy, Storing
  <2> QED
    BY <1>5, <2>1, ScanRotateDoes, CarriedStays
<1>6. CASE Give(a)
  <2>1. CarriedBy(a)'
    BY <1>0, <1>6, GiveDoes DEF CarriedBy, Storing, SlotOf, GoesOn
  <2> QED
    BY <1>6, <2>1, GiveDoes, CarriedStays
<1> QED
  BY <1>1, <1>2, <1>3, <1>4, <1>5, <1>6

LEMMA CarriedArrivals ==
    ASSUME TypeOK, Carried,
           \/ SenderMoves \/ RxBar
           \/ \E n \in Sent : Direct(n) \/ RxData(n) \/ RxAmsdu(n) \/ RxbaSync(n)
    PROVE  Carried'
<1>0. {"rx", "main"} \subseteq Agents /\ CarriedBy("rx") /\ CarriedBy("main")
  BY DEF Agents, Carried
<1>1. CASE SenderMoves \/ \E n \in Sent : Direct(n) \/ RxAmsdu(n)
  BY <1>1 DEF SenderMoves, Direct, RxAmsdu, agentVars, Carried, CarriedBy, Storing, SlotOf
<1>2. CASE RxBar
  <2>1. CarriedBy("rx")'
    BY <1>0, <1>2, RxBarDoes DEF CarriedBy, Storing
  <2> QED
    BY <1>0, <1>2, <2>1, RxBarDoes, CarriedStays
<1>3. ASSUME NEW n \in Sent, RxData(n)
      PROVE  Carried'
  <2>1. CarriedBy("rx")'
    BY <1>0, <1>3, RxDataDoes DEF CarriedBy, Storing
  <2> QED
    BY <1>0, <1>3, <2>1, RxDataDoes, CarriedStays
<1>4. ASSUME NEW n \in Sent, RxbaSync(n)
      PROVE  Carried'
  <2>1. CarriedBy("main")'
    BY <1>0, <1>4, RxbaSyncDoes DEF CarriedBy, Storing
  <2> QED
    BY <1>0, <1>4, <2>1, RxbaSyncDoes, CarriedStays
<1> QED
  BY <1>1, <1>2, <1>3, <1>4

LEMMA CarriedOthers ==
    ASSUME TypeOK, Carried,
           \/ Create \/ AddbaAgain \/ HsActivated \/ Asleep
           \/ TimerExpires \/ FlushFind \/ FlushFrom
    PROVE  Carried'
<1>0. {"timer", "main"} \subseteq Agents /\ CarriedBy("timer") /\ CarriedBy("main")
  BY DEF Agents, Carried
<1>1. CASE Create \/ HsActivated \/ Asleep
  BY <1>1 DEF Create, HsActivated, Asleep, agentVars, Carried, CarriedBy, Storing, SlotOf
<1>2. CASE AddbaAgain
  <2>1. CarriedBy("main")'
    BY <1>0, <1>2, AddbaAgainDoes DEF CarriedBy, Storing
  <2> QED
    BY <1>0, <1>2, <2>1, AddbaAgainDoes, CarriedStays
<1>3. CASE TimerExpires
  <2>1. CarriedBy("timer")'
    BY <1>0, <1>3, TimerExpiresDoes DEF CarriedBy, Storing
  <2> QED
    BY <1>0, <1>3, <2>1, TimerExpiresDoes, CarriedStays
<1>4. CASE FlushFind
  <2>1. CarriedBy("timer")'
    BY <1>0, <1>4, FlushFindDoes DEF CarriedBy, Storing
  <2> QED
    BY <1>0, <1>4, <2>1, FlushFindDoes, CarriedStays
<1>5. CASE FlushFrom
  <2>1. CarriedBy("timer")'
    BY <1>0, <1>5, FlushFromDoes DEF CarriedBy, Storing
  <2> QED
    BY <1>0, <1>5, <2>1, FlushFromDoes, CarriedStays
<1> QED
  BY <1>1, <1>2, <1>3, <1>4, <1>5

LEMMA CarriedDeletion ==
    ASSUME TypeOK, Deleting, Carried, NEW d \in Deleters, Delba(d) \/ Deletion(d)
    PROVE  Carried'
<1>0. d \in Agents /\ CarriedBy(d)
  BY DEF Agents, Deleters, Carried
<1>1. CASE Delba(d)
  <2>1. CarriedBy(d)'
    BY <1>0, <1>1, DelbaDoes DEF CarriedBy, Storing
  <2> QED
    BY <1>0, <1>1, <2>1, DelbaDoes, CarriedStays
<1>2. CASE FlushWorker(d)
  <2>1. CarriedBy(d)'
    BY <1>0, <1>2, FlushWorkerDoes DEF CarriedBy, Storing, Deleting
  <2> QED
    BY <1>0, <1>2, <2>1, FlushWorkerDoes, CarriedStays
<1>3. CASE StopTimer(d)
  <2>1. CarriedBy(d)'
    BY <1>0, <1>3, StopTimerDoes DEF CarriedBy, Storing
  <2> QED
    BY <1>0, <1>3, <2>1, StopTimerDoes, CarriedStays
<1>4. CASE Free(d)
  <2>1. CASE \A a \in Agents : pc'[a] = "lost" /\ loc'[a] = Idle /\ hand'[a] = Empty
    BY <2>1 DEF Carried, CarriedBy, Storing, Idle
  <2>2. CASE /\ pc' = [pc EXCEPT ![d] = "idle"] \/ pc' = [pc EXCEPT ![d] = "reset"]
             /\ Keep(d, Idle) /\ hand' = hand
    <3>1. Only(d) /\ loc'[d] = Idle /\ pc'[d] \in {"idle", "reset"} /\ pc[d] = "free"
      BY <1>0, <1>4, <2>2, KeepDoes DEF Only, TypeOK, Free
    <3>2. CarriedBy(d)'
      BY <1>0, <2>2, <3>1 DEF CarriedBy, Storing, Idle
    <3> QED
      BY <1>0, <3>1, <3>2, CarriedStays
  <2>3. CASE ~overlap'
    <3>1. CarriedBy(d)'
      BY <1>0, <1>4, <2>3, FreeDoes DEF CarriedBy, Storing, Idle
    <3> QED
      BY <1>0, <1>4, <2>3, <3>1, FreeDoes, CarriedStays
  <2> QED
    BY <1>4, <2>1, <2>2, <2>3, FreeLost
<1>5. CASE ResetSeq(d)
  <2>1. CarriedBy(d)'
    BY <1>0, <1>5, ResetSeqDoes DEF CarriedBy, Storing
  <2> QED
    BY <1>0, <1>5, <2>1, ResetSeqDoes, CarriedStays
<1> QED
  BY <1>1, <1>2, <1>3, <1>4, <1>5 DEF Deletion

LEMMA CarriedNext == TypeOK /\ Deleting /\ Carried /\ [Next]_vars => Carried'
<1> SUFFICES ASSUME TypeOK, Deleting, Carried, [Next]_vars PROVE Carried'
  OBVIOUS
<1>1. CASE UNCHANGED vars
  BY <1>1 DEF vars, agentVars, Carried, CarriedBy, Storing, SlotOf
<1>2. CASE Next
  BY <1>2, CarriedArrivals, CarriedOthers, CarriedDeletion, CarriedReorder, CarriedDispatch
     DEF Next, Arrivals, Handlers, Step
<1> QED
  BY <1>1, <1>2

-------------------------------------------------------------------------------
(***************************************************************************)
(* The table while its contexts do not meet.                               *)
(***************************************************************************)
Others(a) == \A b \in Agents \ {a} : ~Active(b)

\* Where a context that is not at work may be.
Resting == {"idle", "wait", "reset", "lost"}

LEMMA OthersIdle ==
    ASSUME Alone, NEW a \in Agents, Active(a)
    PROVE  Others(a)
BY DEF Alone, Others

LEMMA MeetsNobody ==
    ASSUME NEW a \in Agents, Meets(a), ~overlap'
    PROVE  ~overlap /\ Others(a) /\ UNCHANGED <<out, ordered, early>>
BY DEF Meets, Others

\* The others have nothing in the table.
LEMMA SweptStays ==
    ASSUME NEW a \in Agents, Others(a), Only(a), SweptBy(a)'
    PROVE  Alone' /\ Swept'
<1>1. \A b \in Agents \ {a} : pc'[b] \in Resting
  BY DEF Others, Only, Active, Resting
<1>2. \A b \in Agents \ {a} : SweptBy(b)'
  BY <1>1 DEF SweptBy, Looping, Storing, Resting
<1>3. \A b \in Agents \ {a} : ~Active(b)'
  BY <1>1 DEF Active, Resting
<1> QED
  BY <1>2, <1>3 DEF Alone, Swept

LEMMA EmptyNoFrame == Empty \notin Frames
BY ReorderAssumption DEF Empty, Frames

\* No frame is lost if the context that is at work loses none.
LEMMA KeptStays ==
    ASSUME TypeOK, NEW a \in Agents, Only(a),
           \A n \in Frames : n \in {hand[a], loc[a].n} => Kept(n)',
           \A n \in Frames : (\E k \in Slots : n = rx_reorder_ptr[k]) => Kept(n)',
           gone \subseteq gone', \A n \in came : Kept(n)
    PROVE  \A n \in came : Kept(n)'
<1> SUFFICES ASSUME NEW n \in came PROVE Kept(n)'
  OBVIOUS
<1>1. n \in Frames /\ n # Empty
  BY EmptyNoFrame DEF TypeOK
<1>2. CASE n \in gone
  BY <1>2 DEF Kept
<1>3. CASE n \in {hand[a], loc[a].n}
  BY <1>1, <1>3
<1>4. ASSUME NEW b \in Agents \ {a}, n \in {hand[b], loc[b].n}
      PROVE  Kept(n)'
  BY <1>4 DEF Only, Kept
<1>5. ASSUME NEW k \in Slots, n = rx_reorder_ptr[k]
      PROVE  Kept(n)'
  BY <1>1, <1>5
<1> QED
  BY <1>2, <1>3, <1>4, <1>5 DEF Kept

\* A rotation by slots that are empty moves the others to the front.
LEMMA RotatedShifts ==
    ASSUME NEW d \in 0 .. WinSize, rx_reorder_ptr \in [Slots -> Frames \cup {Empty}],
           \A k \in Slots : k < d => rx_reorder_ptr[k] = Empty
    PROVE  /\ \A k \in Slots : Rotated(d)[k] # Empty =>
                 k + d \in Slots /\ Rotated(d)[k] = rx_reorder_ptr[k + d] /\ d < WinSize
           /\ \A j \in Slots : rx_reorder_ptr[j] # Empty =>
                 \E k \in Slots : Rotated(d)[k] = rx_reorder_ptr[j]
           /\ AllEmpty => \A k \in Slots : Rotated(d)[k] = Empty
<1>1. \A k \in Slots : Rotated(d)[k] # Empty =>
                 k + d \in Slots /\ Rotated(d)[k] = rx_reorder_ptr[k + d] /\ d < WinSize
  BY ReorderAssumption DEF Rotated, Slots
<1>2. \A j \in Slots : rx_reorder_ptr[j] # Empty =>
                 j - d \in Slots /\ Rotated(d)[j - d] = rx_reorder_ptr[j]
  BY ReorderAssumption DEF Rotated, Slots
<1>3. AllEmpty => \A k \in Slots : Rotated(d)[k] = Empty
  BY <1>1 DEF AllEmpty
<1> QED
  BY <1>1, <1>2, <1>3

\* The slot of a packet stands for its number.
LEMMA SlotStandsFor ==
    ASSUME NEW n \in Frames, NEW w \in 0 .. SeqMod
    PROVE  (w + (((n % SeqMod) - w) % SeqMod)) % SeqMod = n % SeqMod
<1> DEFINE s == n % SeqMod
<1>1. n \in Int /\ w \in Int /\ s \in 0 .. SeqMod - 1 /\ s \in Int
  BY Space, Reduced, ReorderAssumption DEF Frames
<1> HIDE DEF s
<1>2. s - w \in Int
  BY <1>1
<1>3. (((s - w) % SeqMod) + w) % SeqMod = ((s - w) + w) % SeqMod
  BY <1>1, <1>2, Space, ModAdd
<1>4. (s - w) + w = s /\ s % SeqMod = s
  <2>1. s \in -SeqMod .. 2 * SeqMod - 1 /\ s < SeqMod /\ ~(s < 0)
    BY <1>1, Space
  <2> QED
    BY <2>1, <1>1, ModNear
<1> DEFINE d == (s - w) % SeqMod
<1>5. d \in Int
  BY <1>2, Space, Reduced
<1>6. (d + w) % SeqMod = s
  BY <1>3, <1>4
<1> HIDE DEF d
<1>7. (w + d) % SeqMod = s
  <2>1. w + d = d + w
    BY <1>1, <1>5
  <2> QED
    BY <1>6, <2>1
<1> QED
  BY <1>7 DEF d, s

LEMMA OrderlyClassify ==
    ASSUME TypeOK, Carried, Orderly, NEW a \in Agents, Classify(a)
    PROVE  Orderly'
<1>0. Others(a) /\ Only(a) /\ CarriedBy(a) /\ SweptBy(a)
  BY OthersIdle, ClassifyDoes DEF Active, Orderly, Carried, Swept
<1>1. SweptBy(a)'
  BY <1>0, ClassifyDoes, ReorderAssumption DEF SweptBy, CarriedBy, Looping, Storing, Slots
<1>2. Alone' /\ Swept'
  BY <1>0, <1>1, SweptStays
<1>3. exists
  BY ClassifyDoes DEF Orderly, Ending, Inside
<1>4. Matched'
  <2>1. rx_reorder_ptr' = rx_reorder_ptr
    BY ClassifyDoes
  <2>2. AllEmpty \/ start_win' = start_win
    BY ClassifyDoes DEF Orderly, Ending, Begin, Restart
  <2> QED
    BY <2>1, <2>2 DEF Orderly, Matched, AllEmpty
<1>5. Ending'
  <2>1. pc'[a] \notin {"stop", "free", "take", "give"}
    BY ClassifyDoes
  <2>2. loc'[a].kind # "delba"
    BY <1>0, ClassifyDoes DEF CarriedBy
  <2>3. \A b \in Agents \ {a} : pc'[b] \in Resting
    BY <1>0 DEF Others, Only, Active, Resting
  <2>4. "shift" \notin flags' /\ exists'
    BY <1>3, ClassifyDoes
  <2> QED
    BY <2>1, <2>2, <2>3, <2>4 DEF Ending, Resting, Deleters, Agents
<1>6. \A n \in came' : Kept(n)'
  <2>1. /\ \A n \in Frames : n \in {hand[a], loc[a].n} => Kept(n)'
        /\ \A n \in Frames : (\E k \in Slots : n = rx_reorder_ptr[k]) => Kept(n)'
        /\ gone \subseteq gone' /\ came' = came
    BY ClassifyDoes DEF Kept, airVars
  <2> QED
    BY <1>0, <2>1, KeptStays DEF Orderly
<1> QED
  BY <1>2, <1>4, <1>5, <1>6 DEF Orderly

LEMMA OrderlyReorder ==
    ASSUME TypeOK, Carried, Orderly, NEW a \in Agents, Test(a) \/ Store(a) \/ Drop(a) \/ Done(a)
    PROVE  Orderly'
<1> DEFINE slot == SlotOf(loc[a])
<1>0. Only(a) /\ Active(a) /\ CarriedBy(a) /\ SweptBy(a) /\ exists
  <2>1. Only(a) /\ pc[a] \in {"test", "store", "drop", "done"}
    BY TestDoes, StoreDoes, DropDoes, DoneDoes
  <2> QED
    BY <2>1 DEF Active, Inside, Orderly, Carried, Swept, Ending
<1>1. Others(a)
  BY <1>0, OthersIdle DEF Orderly
<1>2. UNCHANGED <<exists, start_win, flags, hand, came>> /\ gone \subseteq gone'
  BY TestDoes, StoreDoes, DropDoes, DoneDoes DEF tblVars, airVars, histVars
<1>3. /\ pc'[a] \in {"store", "drop", "scan", "done", "idle"}
      /\ \A b \in Agents \ {a} : pc'[b] \in Resting
  BY <1>0, <1>1, TestDoes, StoreDoes, DropDoes, DoneDoes DEF Others, Only, Active, Resting
<1>4. \/ rx_reorder_ptr' = rx_reorder_ptr
      \/ /\ rx_reorder_ptr' = [rx_reorder_ptr EXCEPT ![slot] = loc[a].n]
         /\ Store(a) /\ slot \in Slots /\ rx_reorder_ptr[slot] = Empty
         /\ loc[a].start = start_win /\ "shift" \notin flags
  BY <1>0, <1>1, TestDoes, StoreDoes, DropDoes, DoneDoes
     DEF Storing, CarriedBy, SweptBy, Others, Active, Rotating, tblVars
<1>5. SweptBy(a)'
  <2>1. CASE Test(a)
    BY <1>0, <2>1, TestDoes DEF SweptBy, Looping, Storing, tblVars
  <2>2. CASE Store(a)
    BY <2>2, StoreDoes, ReorderAssumption DEF SweptBy, Looping, Storing, Slots
  <2>3. CASE Drop(a) \/ Done(a)
    BY <2>3, DropDoes, DoneDoes DEF SweptBy, Looping, Storing
  <2> QED
    BY <2>1, <2>2, <2>3
<1>6. Alone' /\ Swept'
  BY <1>0, <1>1, <1>5, SweptStays
<1>7. Ending'
  <2>1. AllEmpty => AllEmpty' \/ "shift" \notin flags
    BY <1>4 DEF AllEmpty
  <2> QED
    BY <1>0, <1>2, <1>3, <2>1 DEF Ending, Orderly, Resting, Deleters, Agents
<1>8. Matched'
  <2>1. CASE rx_reorder_ptr' = rx_reorder_ptr
    BY <1>2, <2>1 DEF Matched, Orderly
  <2>2. CASE rx_reorder_ptr' # rx_reorder_ptr
    <3>1. \A k \in Slots : k # slot => rx_reorder_ptr'[k] = rx_reorder_ptr[k]
      BY <1>4, <2>2 DEF TypeOK
    <3>2. rx_reorder_ptr'[slot] = loc[a].n
      BY <1>4, <2>2 DEF TypeOK
    <3>3. loc[a].n # Empty => loc[a].n % SeqMod = (start_win + slot) % SeqMod
      <4> SUFFICES ASSUME loc[a].n # Empty PROVE loc[a].n % SeqMod = (start_win + slot) % SeqMod
        OBVIOUS
      <4>1. loc[a].n \in Frames /\ start_win \in 0 .. SeqMod
        BY LocalHas DEF TypeOK
      <4>2. slot = ((loc[a].n % SeqMod) - start_win) % SeqMod
        BY <1>0, <1>4, <2>2 DEF CarriedBy, SlotOf
      <4> QED
        BY <4>1, <4>2, SlotStandsFor
    <3> QED
      BY <1>2, <3>1, <3>2, <3>3 DEF Matched, Orderly
  <2> QED
    BY <2>1, <2>2
<1>9. \A n \in came' : Kept(n)'
  <2>1. ASSUME NEW n \in Frames, n \in {hand[a], loc[a].n}
        PROVE  Kept(n)'
    <3>0. n # Empty
      BY EmptyNoFrame
    <3>1. CASE n = hand[a]
      BY <1>2, <3>1 DEF Kept
    <3>2. CASE Test(a) /\ n = loc[a].n
      BY <3>2, TestDoes DEF Kept
    <3>3. CASE Store(a) /\ n = loc[a].n
      <4>1. pc[a] = "store" /\ Storing(a)
        BY <3>3, StoreDoes DEF Storing
      <4>2. slot \in Slots /\ ~\E b \in Agents \ {a} : Rotating(b)
        BY <1>0, <1>1, <4>1 DEF CarriedBy, Others, Active, Rotating
      <4>3. rx_reorder_ptr'[slot] = n
        BY <3>3, <4>2, StoreDoes DEF TypeOK
      <4> QED
        BY <4>2, <4>3 DEF Kept
    <3>4. CASE Drop(a) /\ n = loc[a].n
      BY <3>0, <3>4, DropDoes DEF Kept
    <3>5. CASE Done(a) /\ n = loc[a].n
      BY <1>0, <3>0, <3>5, DoneDoes DEF CarriedBy, Storing
    <3> QED
      BY <2>1, <3>1, <3>2, <3>3, <3>4, <3>5
  <2>2. ASSUME NEW n \in Frames, NEW k \in Slots, n = rx_reorder_ptr[k]
        PROVE  Kept(n)'
    <3>1. n # Empty
      BY EmptyNoFrame
    <3>2. rx_reorder_ptr'[k] = n
      BY <1>4, <2>2, <3>1 DEF TypeOK
    <3> QED
      BY <3>2 DEF Kept
  <2> QED
    BY <1>0, <1>2, <2>1, <2>2, KeptStays DEF Orderly
<1> QED
  BY <1>6, <1>7, <1>8, <1>9 DEF Orderly

LEMMA OrderlyUntilBegin ==
    ASSUME TypeOK, Carried, Orderly, NEW a \in Agents, UntilBegin(a)
    PROVE  Orderly'
<1>0. Only(a) /\ Active(a) /\ CarriedBy(a) /\ SweptBy(a) /\ exists /\ Others(a)
  BY UntilBeginDoes, OthersIdle DEF Active, Inside, Orderly, Carried, Swept, Ending
<1>1. UNCHANGED <<exists, start_win, flags, rx_reorder_ptr, hand, came, gone>>
  BY UntilBeginDoes DEF tblVars, airVars, histVars
<1>2. /\ loc[a].start \in 0 .. SeqMod /\ start_win \in 0 .. SeqMod
      /\ loc'[a].start = loc[a].start
      /\ loc'[a].send = IF loc[a].start > start_win
                        THEN Smaller(loc[a].start - start_win, WinSize) ELSE WinSize
  BY UntilBeginDoes, LocalHas DEF TypeOK
<1>3. loc'[a].send = WinSize \/ loc[a].start = start_win + loc'[a].send
  BY <1>2, ReorderAssumption DEF Smaller
<1>4. SweptBy(a)'
  BY <1>0, <1>1, <1>3, UntilBeginDoes, ReorderAssumption DEF SweptBy, Looping, Storing, Slots
<1>5. Alone' /\ Swept'
  BY <1>0, <1>4, SweptStays
<1>6. Ending'
  <2>1. \A b \in Agents \ {a} : pc'[b] \in Resting
    BY <1>0 DEF Others, Only, Active, Resting
  <2>2. a \in Deleters /\ loc[a].kind = "delba" => loc'[a].send = WinSize
    <3> SUFFICES ASSUME a \in Deleters, loc[a].kind = "delba" PROVE loc'[a].send = WinSize
      OBVIOUS
    <3>1. loc[a].start = (start_win + WinSize) % SeqMod
      BY UntilBeginDoes DEF Orderly, Ending
    <3> DEFINE e == start_win + WinSize
    <3>2. e \in -SeqMod .. 2 * SeqMod - 1 /\ ~(e < 0)
      BY <1>2, ReorderAssumption
    <3> HIDE DEF e
    <3>3. e % SeqMod = IF e < SeqMod THEN e ELSE e - SeqMod
      BY <3>2, ModNear
    <3>4. loc[a].start = IF e < SeqMod THEN e ELSE e - SeqMod
      BY <3>1, <3>3 DEF e
    <3> QED
      BY <1>2, <3>4, ReorderAssumption DEF Smaller, e
  <2> QED
    BY <1>0, <1>1, <2>1, <2>2, UntilBeginDoes DEF Ending, AllEmpty, Orderly, Resting, Deleters, Agents
<1>7. Matched'
  BY <1>1 DEF Matched, Orderly
<1>8. \A n \in came' : Kept(n)'
  <2>1. /\ \A n \in Frames : n \in {hand[a], loc[a].n} => Kept(n)'
        /\ \A n \in Frames : (\E k \in Slots : n = rx_reorder_ptr[k]) => Kept(n)'
    BY <1>1, UntilBeginDoes DEF Kept
  <2> QED
    BY <1>0, <1>1, <2>1, KeptStays DEF Orderly
<1> QED
  BY <1>5, <1>6, <1>7, <1>8 DEF Orderly

\* A packet is taken from its slot.
LEMMA OrderlyTakes ==
    ASSUME TypeOK, Carried, Orderly, NEW a \in Agents, Only(a),
           \/ pc[a] = "take" /\ Takes(a, "give") /\ loc[a].i < loc[a].send
           \/ pc[a] = "scan" /\ Takes(a, "pass") /\ loc[a].i < WinSize,
           UNCHANGED <<exists, start_win, flags, came, gone>>
    PROVE  Orderly'
<1> DEFINE i == loc[a].i
<1>0. Active(a) /\ CarriedBy(a) /\ SweptBy(a) /\ exists /\ Others(a)
  BY OthersIdle DEF Active, Inside, Orderly, Carried, Swept, Ending
<1>1. i \in Slots
  <2>1. i \in 0 .. WinSize /\ loc[a].send \in 0 .. WinSize
    BY LocalHas DEF TypeOK
  <2> QED
    BY <2>1, ReorderAssumption DEF Slots
<1>2. /\ rx_reorder_ptr'[i] = Empty
      /\ \A k \in Slots : k # i => rx_reorder_ptr'[k] = rx_reorder_ptr[k]
  BY <1>1 DEF Takes, TypeOK
<1>3. /\ pc'[a] \in {"give", "pass"} /\ loc'[a] = loc[a] /\ hand'[a] = rx_reorder_ptr[i]
      /\ pc'[a] = "give" => pc[a] = "take"
  BY DEF Takes
<1>4. SweptBy(a)'
  BY <1>0, <1>2, <1>3 DEF SweptBy, Looping, Storing
<1>5. Alone' /\ Swept'
  BY <1>0, <1>4, SweptStays
<1>6. Ending'
  <2>1. \A b \in Agents \ {a} : pc'[b] \in Resting
    BY <1>0 DEF Others, Only, Active, Resting
  <2>2. AllEmpty => AllEmpty'
    BY <1>2 DEF AllEmpty
  <2> QED
    BY <1>0, <1>3, <2>1, <2>2 DEF Ending, Orderly, Resting, Deleters, Agents
<1>7. Matched'
  BY <1>1, <1>2 DEF Matched, Orderly
<1>8. \A n \in came' : Kept(n)'
  <2>1. \A n \in Frames : n \in {hand[a], loc[a].n} => Kept(n)'
    BY <1>0, <1>3, EmptyNoFrame DEF Kept, CarriedBy
  <2>2. \A n \in Frames : (\E k \in Slots : n = rx_reorder_ptr[k]) => Kept(n)'
    BY <1>2, <1>3 DEF Kept
  <2> QED
    BY <2>1, <2>2, KeptStays DEF Orderly
<1> QED
  BY <1>5, <1>6, <1>7, <1>8 DEF Orderly

\* A loop goes on to the next slot, with the packet of this one dispatched.
LEMMA OrderlyGoesOn ==
    ASSUME TypeOK, Carried, Orderly, NEW a \in Agents, Only(a), GoesOn(a),
           \/ pc[a] = "take" /\ pc'[a] = "take" /\ rx_reorder_ptr[loc[a].i] = Empty
           \/ pc[a] = "give" /\ pc'[a] = "take"
           \/ pc[a] = "pass" /\ pc'[a] = "scan",
           hand[a] = Empty \/ hand[a] \in gone', gone \subseteq gone',
           UNCHANGED <<exists, start_win, flags, rx_reorder_ptr, came>>
    PROVE  Orderly'
<1>0. Active(a) /\ CarriedBy(a) /\ SweptBy(a) /\ exists /\ Others(a)
  BY OthersIdle DEF Active, Inside, Orderly, Carried, Swept, Ending
<1>1. \A k \in Slots : k < loc[a].i + 1 => rx_reorder_ptr[k] = Empty
  <2>1. \A k \in Slots : k < loc[a].i => rx_reorder_ptr[k] = Empty
    BY <1>0 DEF SweptBy, Looping
  <2>2. rx_reorder_ptr[loc[a].i] = Empty
    BY <1>0 DEF SweptBy
  <2>3. loc[a].i \in Int
    BY LocalHas, ReorderAssumption DEF TypeOK
  <2> QED
    BY <2>1, <2>2, <2>3 DEF Slots
<1>2. SweptBy(a)'
  BY <1>0, <1>1 DEF SweptBy, Looping, Storing, GoesOn
<1>3. Alone' /\ Swept'
  BY <1>0, <1>2, SweptStays
<1>4. Ending'
  <2>1. \A b \in Agents \ {a} : pc'[b] \in Resting
    BY <1>0 DEF Others, Only, Active, Resting
  <2> QED
    BY <1>0, <2>1 DEF Ending, Orderly, Resting, Deleters, Agents, AllEmpty, GoesOn
<1>5. Matched'
  BY DEF Matched, Orderly
<1>6. \A n \in came' : Kept(n)'
  <2>1. \A n \in Frames : n \in {hand[a], loc[a].n} => Kept(n)'
    BY <1>0, EmptyNoFrame DEF Kept, GoesOn
  <2>2. \A n \in Frames : (\E k \in Slots : n = rx_reorder_ptr[k]) => Kept(n)'
    BY DEF Kept
  <2> QED
    BY <2>1, <2>2, KeptStays DEF Orderly
<1> QED
  BY <1>3, <1>4, <1>5, <1>6 DEF Orderly

\* The rotation behind a loop.
LEMMA OrderlyRotates ==
    ASSUME TypeOK, Carried, Orderly, NEW a \in Agents, UntilRotate(a) \/ ScanRotate(a)
    PROVE  Orderly'
<1> DEFINE d == loc[a].i
<1>0. /\ Only(a) /\ Active(a) /\ CarriedBy(a) /\ SweptBy(a) /\ exists /\ Others(a)
      /\ (pc[a] = "take" /\ d = loc[a].send) \/ pc[a] = "rotate"
      /\ d \in 0 .. WinSize /\ start_win \in 0 .. SeqMod
  BY UntilRotateDoes, ScanRotateDoes, OthersIdle, LocalHas
     DEF Active, Inside, Orderly, Carried, Swept, Ending, TypeOK
<1>1. /\ rx_reorder_ptr' = Rotated(d)
      /\ UNCHANGED <<exists, flags, hand, came, gone>>
  BY UntilRotateDoes, ScanRotateDoes DEF airVars, histVars
<1>2. \A k \in Slots : k < d => rx_reorder_ptr[k] = Empty
  BY <1>0 DEF SweptBy, Looping
<1>3. /\ \A k \in Slots : rx_reorder_ptr'[k] # Empty =>
            k + d \in Slots /\ rx_reorder_ptr'[k] = rx_reorder_ptr[k + d] /\ d < WinSize
      /\ \A j \in Slots : rx_reorder_ptr[j] # Empty =>
            \E k \in Slots : rx_reorder_ptr'[k] = rx_reorder_ptr[j]
      /\ AllEmpty => AllEmpty'
  <2> HIDE DEF d
  <2>1. rx_reorder_ptr \in [Slots -> Frames \cup {Empty}]
    BY DEF TypeOK
  <2> QED
    BY <1>0, <1>1, <1>2, <2>1, RotatedShifts DEF AllEmpty
<1>4. SweptBy(a)'
  <2>1. CASE UntilRotate(a)
    <3>1. pc'[a] \in {"test", "scan", "stop", "idle"}
      BY <2>1, UntilRotateDoes DEF AfterUntil
    <3>2. pc'[a] = "scan" => loc'[a].i = 0
      BY <2>1, UntilRotateDoes
    <3>3. pc'[a] = "test" => loc'[a].start = start_win' /\ "shift" \notin flags'
      BY <1>0, <1>1, <2>1, UntilRotateDoes DEF AfterUntil, SweptBy, Storing
    <3> QED
      BY <3>1, <3>2, <3>3, ReorderAssumption DEF SweptBy, Looping, Storing, Slots
  <2>2. CASE ScanRotate(a)
    BY <2>2, ScanRotateDoes DEF SweptBy, Looping, Storing
  <2> QED
    BY <2>1, <2>2
<1>5. Alone' /\ Swept'
  BY <1>0, <1>4, SweptStays
<1>6. Ending'
  <2>1. \A b \in Agents \ {a} : pc'[b] \in Resting
    BY <1>0 DEF Others, Only, Active, Resting
  <2>2. pc'[a] \in {"test", "scan", "stop", "idle", "done"}
        /\ (pc'[a] = "stop" => loc[a].kind = "delba" /\ pc[a] = "take" /\ d = loc[a].send)
    BY UntilRotateDoes, ScanRotateDoes DEF AfterUntil
  <2>3. pc'[a] = "stop" /\ a \in Deleters => AllEmpty'
    <3>1. pc'[a] = "stop" /\ a \in Deleters => d = WinSize
      BY <2>2 DEF Orderly, Ending
    <3> QED
      BY <1>3, <3>1, ReorderAssumption DEF AllEmpty
  <2> QED
    BY <1>0, <1>1, <1>3, <2>1, <2>2, <2>3 DEF Ending, Orderly, Resting, Deleters, Agents
<1>7. Matched'
  <2> SUFFICES ASSUME NEW k \in Slots, rx_reorder_ptr'[k] # Empty
               PROVE  rx_reorder_ptr'[k] % SeqMod = (start_win' + k) % SeqMod
    BY DEF Matched
  <2>1. rx_reorder_ptr'[k] % SeqMod = (start_win + (k + d)) % SeqMod /\ d < WinSize
    BY <1>3 DEF Matched, Orderly
  <2>2. k \in Int /\ start_win \in Int /\ d \in Int
    BY <1>0, Space, ReorderAssumption DEF Slots
  <2>3. start_win + (k + d) = (start_win + d) + k
    BY <2>2
  <2>4. CASE UntilRotate(a)
    <3>1. start_win' = start_win + d
      <4>1. start_win' = loc[a].start /\ pc[a] = "take" /\ loc[a].send = d
        BY <2>4, UntilRotateDoes
      <4>2. d # WinSize
        BY <2>1, <2>2, ReorderAssumption
      <4> QED
        BY <1>0, <4>1, <4>2 DEF SweptBy
    <3> QED
      BY <2>1, <2>3, <3>1
  <2>5. CASE ScanRotate(a)
    <3>1. start_win' = (start_win + d) % SeqMod
      BY <2>5, ScanRotateDoes
    <3>2. (((start_win + d) % SeqMod) + k) % SeqMod = ((start_win + d) + k) % SeqMod
      <4> DEFINE x == start_win + d
      <4>1. x \in Int
        BY <2>2
      <4> HIDE DEF x
      <4>2. ((x % SeqMod) + k) % SeqMod = (x + k) % SeqMod
        BY <2>2, <4>1, Space, ModAdd
      <4> QED
        BY <4>2 DEF x
    <3> QED
      BY <2>1, <2>3, <3>1, <3>2
  <2> QED
    BY <2>4, <2>5
<1>8. \A n \in came' : Kept(n)'
  <2>1. \A n \in Frames : n \in {hand[a], loc[a].n} => Kept(n)'
    <3>1. loc[a].n # Empty => AfterUntil(a) = "test" /\ pc[a] # "rotate"
      BY <1>0 DEF CarriedBy, AfterUntil, Storing
    <3>2. \A n \in Frames : n = loc[a].n => n = loc'[a].n
      BY <3>1, UntilRotateDoes, ScanRotateDoes, EmptyNoFrame
    <3> QED
      BY <1>1, <3>2 DEF Kept
  <2>2. \A n \in Frames : (\E k \in Slots : n = rx_reorder_ptr[k]) => Kept(n)'
    BY <1>3, EmptyNoFrame DEF Kept
  <2> QED
    BY <1>0, <1>1, <2>1, <2>2, KeptStays DEF Orderly
<1> QED
  BY <1>5, <1>6, <1>7, <1>8 DEF Orderly

LEMMA OrderlyStep ==
    ASSUME TypeOK, Carried, Orderly, NEW a \in Agents, Step(a)
    PROVE  Orderly'
<1>1. CASE UntilTake(a)
  <2>1. Only(a) /\ UNCHANGED <<exists, start_win, flags, came, gone>>
    BY <1>1, UntilTakeDoes DEF airVars
  <2>2. CASE Takes(a, "give")
    BY <1>1, <2>1, <2>2, UntilTakeDoes, OrderlyTakes
  <2>3. CASE ~Takes(a, "give")
    <3>1. /\ pc[a] = "take" /\ pc'[a] = "take" /\ rx_reorder_ptr[loc[a].i] = Empty
          /\ GoesOn(a) /\ UNCHANGED <<hand, rx_reorder_ptr>>
      BY <1>1, <2>3, UntilTakeDoes
    <3>2. hand[a] = Empty
      BY <3>1 DEF Carried, CarriedBy
    <3> QED
      BY <2>1, <3>1, <3>2, OrderlyGoesOn
  <2> QED
    BY <2>2, <2>3
<1>2. CASE ScanTake(a)
  <2>1. Only(a) /\ UNCHANGED <<exists, start_win, flags, came, gone>>
    BY <1>2, ScanTakeDoes DEF airVars, histVars
  <2>2. CASE loc[a].i < WinSize /\ Takes(a, "pass")
    BY <1>2, <2>1, <2>2, ScanTakeDoes, OrderlyTakes
  <2>3. CASE pc'[a] = "rotate" /\ UNCHANGED <<loc, hand, rx_reorder_ptr>>
    <3>1. Active(a) /\ exists /\ Others(a) /\ SweptBy(a) /\ pc[a] = "scan"
      BY <1>2, ScanTakeDoes, OthersIdle DEF Active, Inside, Orderly, Ending, Swept
    <3>2. SweptBy(a)'
      BY <2>3, <3>1 DEF SweptBy, Looping, Storing
    <3>3. \A b \in Agents \ {a} : pc'[b] \in Resting
      BY <2>1, <3>1 DEF Others, Only, Active, Resting
    <3>4. Ending'
      BY <2>1, <2>3, <3>1, <3>3 DEF Ending, Orderly, Resting, Deleters, Agents, AllEmpty
    <3>5. Matched' /\ \A n \in came' : Kept(n)'
      BY <2>1, <2>3 DEF Matched, Orderly, Kept
    <3> QED
      BY <2>1, <3>1, <3>2, <3>4, <3>5, SweptStays DEF Orderly
  <2> QED
    BY <1>2, <2>2, <2>3, ScanTakeDoes
<1>3. CASE Give(a)
  <2>1. /\ Only(a) /\ GoesOn(a) /\ UNCHANGED <<exists, start_win, flags, rx_reorder_ptr, came>>
        /\ gone' = gone \cup {hand[a]}
        /\ \/ pc[a] = "give" /\ pc'[a] = "take"
           \/ pc[a] = "pass" /\ pc'[a] = "scan"
    BY <1>3, GiveDoes DEF tblVars, airVars, Deliver
  <2> QED
    BY <2>1, OrderlyGoesOn
<1> QED
  BY <1>1, <1>2, <1>3, OrderlyClassify, OrderlyReorder, OrderlyUntilBegin, OrderlyRotates
     DEF Step

\* A packet, a request or an event begins its work, alone.
LEMMA OrderlyBegins ==
    ASSUME TypeOK, Carried, Orderly, NEW a \in Agents, Only(a), Others(a),
           ~Active(a), pc'[a] \in {"classify", "until", "find"}, exists,
           pc'[a] = "until" => loc'[a].kind \notin {"data", "sync"},
           pc'[a] = "until" /\ loc'[a].kind = "delba" =>
                loc'[a].start = (start_win + WinSize) % SeqMod,
           hand' = hand, \A n \in came' \ came : n \in gone' \cup {loc'[a].n},
           gone \subseteq gone', UNCHANGED <<exists, start_win, flags, rx_reorder_ptr>>
    PROVE  Orderly'
<1>1. SweptBy(a)'
  BY DEF SweptBy, Looping, Storing
<1>2. \A b \in Agents \ {a} : pc'[b] \in Resting
  BY DEF Others, Only, Active, Resting
<1>3. Ending'
  BY <1>2 DEF Ending, Orderly, Resting, Deleters, Agents, AllEmpty
<1>4. Matched'
  BY DEF Matched, Orderly
<1>5. loc[a].n = Empty
  <2>1. pc[a] \in Resting /\ CarriedBy(a)
    BY DEF Active, Carried, Resting
  <2> QED
    BY <2>1 DEF CarriedBy, Storing, Resting
<1>6. \A n \in came : Kept(n)'
  <2>1. \A n \in Frames : n \in {hand[a], loc[a].n} => Kept(n)'
    BY <1>5, EmptyNoFrame DEF Kept
  <2>2. \A n \in Frames : (\E k \in Slots : n = rx_reorder_ptr[k]) => Kept(n)'
    BY DEF Kept
  <2> QED
    BY <2>1, <2>2, KeptStays DEF Orderly
<1>7. \A n \in came' : Kept(n)'
  BY <1>6 DEF Kept
<1> QED
  BY <1>1, <1>3, <1>4, <1>7, SweptStays DEF Orderly

LEMMA WindowArrivals ==
    ASSUME TypeOK, Carried, Window, ~overlap',
           \/ SenderMoves \/ RxBar
           \/ \E n \in Sent : Direct(n) \/ RxData(n) \/ RxAmsdu(n) \/ RxbaSync(n)
    PROVE  Orderly'
<1>0. {"rx", "main"} \subseteq Agents
  BY DEF Agents
<1>1. CASE SenderMoves \/ \E n \in Sent : Direct(n) \/ RxAmsdu(n)
  <2>1. UNCHANGED <<exists, start_win, flags, rx_reorder_ptr, armed, pc, loc, hand, overlap>>
    BY <1>1 DEF SenderMoves, Direct, RxAmsdu, tblVars, timeVars, agentVars
  <2>2. Orderly
    BY <2>1 DEF Window
  <2>3. Alone' /\ Swept' /\ Ending' /\ Matched'
    BY <2>1, <2>2 DEF Orderly, Alone, Active, Swept, SweptBy, Looping, Storing, SlotOf, Ending,
                      Inside, AllEmpty, Matched
  <2>4. \A n \in came' : n \in gone' \/ (n \in came /\ (n \in gone => n \in gone'))
    BY <1>1 DEF SenderMoves, Passed, Direct, RxAmsdu, Comes
  <2>5. \A n \in came' : Kept(n)'
    BY <2>1, <2>2, <2>4 DEF Orderly, Kept
  <2> QED
    BY <2>3, <2>5 DEF Orderly
<1>2. CASE RxBar
  <2>1. Orderly /\ Others("rx") /\ Only("rx")
    BY <1>0, <1>2, RxBarDoes, MeetsNobody DEF Window
  <2> QED
    BY <1>0, <1>2, <2>1, RxBarDoes, OrderlyBegins DEF Active, tblVars
<1>3. ASSUME NEW n \in Sent, RxData(n)
      PROVE  Orderly'
  <2>1. Orderly /\ Others("rx") /\ Only("rx")
    BY <1>0, <1>3, RxDataDoes, MeetsNobody DEF Window
  <2>2. came' = came \cup {n}
    BY <1>3, RxDataDoes DEF Comes
  <2> QED
    BY <1>0, <1>3, <2>1, <2>2, RxDataDoes, OrderlyBegins DEF Active, tblVars
<1>4. ASSUME NEW n \in Sent, RxbaSync(n)
      PROVE  Orderly'
  <2>1. Orderly /\ Others("main") /\ Only("main")
    BY <1>0, <1>4, RxbaSyncDoes, MeetsNobody DEF Window
  <2>2. came' = came \cup {n}
    BY <1>4, RxbaSyncDoes DEF Comes
  <2> QED
    BY <1>0, <1>4, <2>1, <2>2, RxbaSyncDoes, OrderlyBegins DEF Active, tblVars
<1> QED
  BY <1>1, <1>2, <1>3, <1>4

\* A context that waits, stops the timer or has done with the table changes nothing.
LEMMA OrderlyWaits ==
    ASSUME TypeOK, Carried, Orderly, NEW a \in Agents, Only(a), exists \/ ~Inside(a)',
           pc'[a] \in Resting, loc'[a].n = Empty, pc[a] \in Resting, hand' = hand,
           \A n \in came' : n \in came /\ (n \in gone => n \in gone'),
           UNCHANGED <<exists, start_win, flags, rx_reorder_ptr, armed>>
    PROVE  Orderly'
<1>1. Alone'
  BY DEF Orderly, Alone, Active, Only, Resting
<1>2. Swept'
  BY DEF Orderly, Swept, SweptBy, Looping, Storing, SlotOf, Only, Resting
<1>3. Ending' /\ Matched'
  BY DEF Orderly, Ending, AllEmpty, Matched, Only, Resting, Inside, Deleters, Agents
<1>4. loc[a].n = Empty /\ CarriedBy(a)
  BY DEF Carried, CarriedBy, Storing, Resting
<1>5. \A n \in came : (n \in gone => n \in gone') => Kept(n)'
  <2> SUFFICES ASSUME NEW n \in came, n \in gone => n \in gone', Kept(n) PROVE Kept(n)'
    BY DEF Orderly
  <2>1. n # Empty
    BY EmptyNoFrame DEF TypeOK
  <2> QED
    BY <1>4, <2>1 DEF Kept, Only
<1> QED
  BY <1>1, <1>2, <1>3, <1>5 DEF Orderly

LEMMA WindowOthers ==
    ASSUME TypeOK, Carried, Window, ~overlap',
           \/ Create \/ AddbaAgain \/ HsActivated \/ Asleep
           \/ TimerExpires \/ FlushFind \/ FlushFrom
    PROVE  Orderly'
<1>0. {"timer", "main", "rx"} \subseteq Agents
  BY DEF Agents
<1>1. CASE Create
  <2>1. Orderly /\ AllEmpty /\ \A a \in Agents : ~Inside(a)
    BY <1>1 DEF Create, Window, Orderly, Ending
  <2>2. UNCHANGED <<rx_reorder_ptr, pc, loc, hand, gone, came>> /\ exists'
    BY <1>1 DEF Create, agentVars, airVars, histVars
  <2>3. Alone' /\ Swept'
    BY <2>1, <2>2 DEF Alone, Active, Inside, Swept, SweptBy, Looping, Storing
  <2>4. Ending' /\ Matched'
    BY <1>0, <2>1, <2>2 DEF Ending, AllEmpty, Matched, Inside, Deleters, Agents
  <2> QED
    BY <2>1, <2>2, <2>3, <2>4 DEF Orderly, Kept
<1>2. CASE AddbaAgain
  <2>1. Orderly /\ Others("main") /\ Only("main")
    BY <1>0, <1>2, AddbaAgainDoes, MeetsNobody DEF Window
  <2> QED
    BY <1>0, <1>2, <2>1, AddbaAgainDoes, OrderlyBegins DEF Active, tblVars
<1>3. CASE HsActivated \/ Asleep
  <2>1. Orderly /\ exists
    BY <1>3 DEF HsActivated, Meets, Asleep, Window
  <2>2. /\ UNCHANGED <<exists, start_win, rx_reorder_ptr, pc, loc, hand>>
        /\ flags' = {"no_drop"} \/ flags' = flags
    BY <1>3 DEF HsActivated, Asleep, tblVars, agentVars
  <2>3. Alone' /\ Swept'
    BY <2>1, <2>2 DEF Orderly, Alone, Active, Swept, SweptBy, Looping, Storing, SlotOf
  <2>4. Ending' /\ Matched'
    BY <2>1, <2>2 DEF Orderly, Ending, AllEmpty, Matched
  <2>5. \A n \in came' : n \in came /\ (n \in gone => n \in gone')
    BY <1>3 DEF HsActivated, Asleep, Passed
  <2> QED
    BY <2>1, <2>2, <2>3, <2>4, <2>5 DEF Orderly, Kept
<1>4. CASE TimerExpires
  <2>1. Orderly /\ Others("timer") /\ Only("timer")
    BY <1>0, <1>4, TimerExpiresDoes, MeetsNobody DEF Window
  <2>2. exists
    BY <1>4, <2>1, TimerExpiresDoes DEF Orderly, Ending
  <2> QED
    BY <1>0, <1>4, <2>1, <2>2, TimerExpiresDoes, OrderlyBegins DEF Active, tblVars, airVars
<1>5. CASE FlushFind \/ FlushFrom
  <2>1. /\ Orderly /\ Only("timer") /\ pc["timer"] \in {"find", "flush"}
        /\ pc'["timer"] \in {"idle", "flush", "until"}
        /\ pc'["timer"] = "until" => loc'["timer"].kind = "flush"
        /\ UNCHANGED <<exists, start_win, flags, rx_reorder_ptr, hand, came, gone>>
    BY <1>0, <1>5, FlushFindDoes, FlushFromDoes
       DEF Window, Carried, CarriedBy, tblVars, airVars, histVars
  <2>2. Others("timer") /\ exists
    BY <1>0, <2>1, OthersIdle DEF Active, Inside, Orderly, Ending
  <2>3. SweptBy("timer")'
    BY <2>1 DEF SweptBy, Looping, Storing
  <2>4. loc["timer"].n = Empty
    BY <1>0, <2>1 DEF Carried, CarriedBy, Storing
  <2>5. \A d \in Deleters : pc'[d] \in Resting
    BY <2>1, <2>2 DEF Others, Only, Active, Agents, Deleters, Resting
  <2>6. Ending' /\ Matched'
    BY <2>1, <2>2, <2>5 DEF Orderly, Ending, AllEmpty, Matched, Resting
  <2>7. \A n \in came' : Kept(n)'
    <3>1. \A n \in Frames : n \in {hand["timer"], loc["timer"].n} => Kept(n)'
      BY <1>0, <2>1, <2>4, EmptyNoFrame DEF Kept
    <3>2. \A n \in Frames : (\E k \in Slots : n = rx_reorder_ptr[k]) => Kept(n)'
      BY <2>1 DEF Kept
    <3> QED
      BY <1>0, <2>1, <3>1, <3>2, KeptStays DEF Orderly
  <2> QED
    BY <1>0, <2>1, <2>2, <2>3, <2>6, <2>7, SweptStays DEF Orderly
<1> QED
  BY <1>1, <1>2, <1>3, <1>4, <1>5

LEMMA WindowDeletion ==
    ASSUME TypeOK, Deleting, Carried, Window, ~overlap', NEW d \in Deleters,
           Delba(d) \/ Deletion(d)
    PROVE  Orderly'
<1>0. d \in Agents
  BY DEF Agents, Deleters
<1>1. CASE Delba(d)
  <2>1. Orderly /\ Only(d) /\ pc[d] = "idle" /\ pc'[d] = "wait" /\ exists /\ loc'[d].n = Empty
    BY <1>1, DelbaDoes DEF Window
  <2>2. UNCHANGED <<exists, start_win, flags, rx_reorder_ptr, hand, came, gone, armed>>
    BY <1>1, DelbaDoes DEF tblVars, histVars, timeVars
  <2> QED
    BY <1>0, <2>1, <2>2, OrderlyWaits DEF Resting
<1>2. CASE FlushWorker(d)
  <2>1. Orderly /\ Others(d) /\ Only(d)
    BY <1>0, <1>2, FlushWorkerDoes, MeetsNobody DEF Window
  <2>2. loc'[d].kind = "delba" /\ exists
    BY <1>0, <1>2, <2>1, FlushWorkerDoes DEF Deleting, Orderly, Ending, Inside
  <2> QED
    BY <1>0, <1>2, <2>1, <2>2, FlushWorkerDoes, OrderlyBegins DEF Active, tblVars, airVars
<1>3. CASE StopTimer(d)
  <2>1. /\ Orderly /\ Others(d) /\ Only(d) /\ pc[d] = "stop" /\ pc'[d] = "free"
        /\ AllEmpty /\ exists
    BY <1>0, <1>3, StopTimerDoes, OthersIdle DEF Window, Active, Inside, Orderly, Ending
  <2>2. UNCHANGED <<exists, start_win, flags, rx_reorder_ptr, loc, hand, came, gone>>
    BY <1>3, StopTimerDoes DEF tblVars, airVars, histVars
  <2>3. SweptBy(d)'
    BY <2>1 DEF SweptBy, Looping, Storing
  <2>4. Ending' /\ Matched'
    BY <2>1, <2>2 DEF Orderly, Ending, AllEmpty, Matched, Only, Others, Active, Deleters, Agents
  <2> QED
    BY <1>0, <2>1, <2>2, <2>3, <2>4, SweptStays DEF Orderly, Kept
<1>4. CASE Free(d)
  <2>1. /\ Orderly /\ Others(d) /\ Only(d) /\ pc[d] = "free" /\ pc'[d] \in {"idle", "reset"}
        /\ AllEmpty
    BY <1>0, <1>4, FreeDoes, OthersIdle DEF Window, Active, Orderly, Ending
  <2>2. UNCHANGED <<hand, came, gone, armed>> /\ flags' = {} /\ AllEmpty'
    BY <1>4, FreeDoes DEF airVars, timeVars, AllEmpty
  <2>3. SweptBy(d)'
    BY <2>1 DEF SweptBy, Looping, Storing
  <2>4. \A a \in Agents : ~Inside(a)'
    BY <1>0, <1>4, <2>1, FreeDoes DEF Only, Inside
  <2>5. Ending' /\ Matched'
    BY <1>4, <2>1, <2>2, <2>4, FreeDoes DEF Ending, Matched, AllEmpty, Inside, Deleters, Agents
  <2>6. \A n \in came' : Kept(n)'
    <3>1. loc[d].n = Empty
      BY <1>0, <2>1 DEF Carried, CarriedBy, Storing
    <3>2. \A n \in Frames : n \in {hand[d], loc[d].n} => Kept(n)'
      BY <1>0, <2>2, <3>1, EmptyNoFrame DEF Kept
    <3>3. \A n \in Frames : (\E k \in Slots : n = rx_reorder_ptr[k]) => Kept(n)'
      BY <2>1, EmptyNoFrame DEF AllEmpty
    <3> QED
      BY <1>0, <2>1, <2>2, <3>2, <3>3, KeptStays DEF Orderly
  <2> QED
    BY <1>0, <2>1, <2>3, <2>5, <2>6, SweptStays DEF Orderly
<1>5. CASE ResetSeq(d)
  <2>1. Orderly /\ Only(d) /\ pc[d] = "reset" /\ pc'[d] = "idle" /\ loc'[d] = loc[d]
    BY <1>5, ResetSeqDoes DEF Window
  <2>2. loc[d].n = Empty
    BY <1>0, <2>1 DEF Carried, CarriedBy, Storing
  <2>3. UNCHANGED <<exists, start_win, flags, rx_reorder_ptr, hand, came, gone, armed>>
    BY <1>5, ResetSeqDoes DEF tblVars, histVars, timeVars
  <2> QED
    BY <1>0, <2>1, <2>2, <2>3, OrderlyWaits DEF Resting, Inside
<1> QED
  BY <1>1, <1>2, <1>3, <1>4, <1>5 DEF Deletion

LEMMA WindowNext == TypeOK /\ Deleting /\ Carried /\ Window /\ [Next]_vars => Window'
<1> SUFFICES ASSUME TypeOK, Deleting, Carried, Window, [Next]_vars, ~overlap' PROVE Orderly'
  BY DEF Window
<1>1. CASE UNCHANGED vars
  BY <1>1 DEF vars, tblVars, timeVars, agentVars, airVars, histVars, Window, Orderly, Alone,
     Active, Inside, Swept, SweptBy, Looping, Storing, SlotOf, Ending, AllEmpty, Matched, Kept
<1>2. ASSUME NEW a \in Agents, Step(a)
      PROVE  Orderly'
  <2>1. overlap' = overlap
    BY <1>2, ClassifyDoes, TestDoes, StoreDoes, DropDoes, DoneDoes, UntilBeginDoes,
       UntilTakeDoes, UntilRotateDoes, ScanTakeDoes, ScanRotateDoes, GiveDoes DEF Step
  <2> QED
    BY <1>2, <2>1, OrderlyStep DEF Window
<1>3. CASE Next
  BY <1>2, <1>3, WindowArrivals, WindowOthers, WindowDeletion DEF Next, Arrivals, Handlers
<1> QED
  BY <1>1, <1>3

LEMMA WindowInit == Init => Carried /\ Window
<1> SUFFICES ASSUME Init PROVE Carried /\ Window
  OBVIOUS
<1>1. \A a \in Agents : pc[a] = "idle" /\ loc[a] = Idle /\ hand[a] = Empty
  BY DEF Init
<1>2. Carried
  BY <1>1 DEF Carried, CarriedBy, Storing, Idle
<1>3. Alone /\ Swept
  BY <1>1 DEF Alone, Active, Swept, SweptBy, Looping, Storing
<1>4. Ending /\ Matched /\ \A n \in came : Kept(n)
  BY <1>1 DEF Init, Ending, AllEmpty, Matched, Inside, Deleters, Agents
<1> QED
  BY <1>2, <1>3, <1>4 DEF Window, Orderly

LEMMA AlwaysWindow == Spec => [](TypeOK /\ Holding /\ Deleting /\ Carried /\ Window)
<1>1. Init => TypeOK /\ Holding /\ Deleting /\ Carried /\ Window
  <2>1. Init => Deleting
    BY DEF Init, Deleting, Inside, Idle, Deleters, Agents
  <2> QED
    BY <2>1, TypeInit, WindowInit
<1>2. TypeOK /\ Holding /\ Deleting /\ Carried /\ Window /\ [Next]_vars
         => TypeOK' /\ Holding' /\ Deleting' /\ Carried' /\ Window'
  BY TypeNext, DeletingNext, CarriedNext, WindowNext
<1> QED
  BY <1>1, <1>2, PTL DEF Spec

\* Unless contexts meet no packet is forgotten: not by a rotation, and not by the
\* deletion of the table (mwifiex_11n_dispatch_pkt_until_start_win and the callers).
THEOREM NothingForgotten == Spec => []NoneForgotten
<1>1. Window => NoneForgotten
  <2>1. Window /\ ~overlap => \A n \in came : Kept(n)
    BY DEF Window, Orderly
  <2> QED
    BY <2>1 DEF Kept, NoneForgotten
<1> QED
  BY <1>1, AlwaysWindow, PTL

\* Between packets every slot holds the packet its place stands for, however the
\* window moves and the numbers wrap.
THEOREM SlotsStandForFrames == Spec => []SlotsMatch
<1>1. Window => SlotsMatch
  BY DEF Window, Orderly, Matched, SlotsMatch
<1> QED
  BY <1>1, AlwaysWindow, PTL

-------------------------------------------------------------------------------
(***************************************************************************)
(* The order.                                                              *)
(***************************************************************************)
\* The first number the sender and the firmware have not got to.
Reach == Larger(hi + 1, base)

\* The sender's window, the newest frame, and what the last numbers stood for.
Air ==
    /\ FirstFrame <= base /\ base <= Woken + 1 /\ hi <= Woken /\ hi < base + WinSize
    /\ \A n \in came : base <= n /\ n <= hi
    /\ hi >= base => hi \in came
    /\ rx_seq # None => \E n \in FirstFrame .. hi : n % SeqMod = rx_seq
    /\ "no_drop" \in flags /\ ~dozing => base >= Woken

\* A context has frame T in view: the one it has to classify, or the one that the
\* window, which stands at frame A, is about to begin with.
InView(A, T, a) ==
    /\ pc[a] = "classify" =>
         /\ T % SeqMod = loc[a].seq /\ A <= T + WinSize /\ T <= Reach
         /\ "no_drop" \in flags /\ ~dozing =>
               A <= IF loc[a].kind = "bar" THEN T + 1 ELSE T
         /\ loc[a].kind # "bar" => T < Reach
         /\ loc[a].kind = "data" => loc[a].n = T
    /\ pc[a] \in {"until", "take", "give"} =>
         /\ T % SeqMod = loc[a].start % SeqMod
         /\ loc[a].kind # "addba" => A <= T
         /\ IF loc[a].kind = "delba" THEN T = A + WinSize ELSE T <= Reach
         /\ loc[a].kind = "data" => loc[a].n = T + WinSize - 1

\* The packet in its hands lies where the window says, and the one that was
\* dispatched last lies before all it will dispatch.
InPlace(A, T, a) ==
    /\ pc[a] \in {"test", "store"} /\ loc[a].kind = "data" => loc[a].n = A + SlotOf(loc[a])
    /\ pc[a] = "flush" => loc[a].i \in Slots /\ rx_reorder_ptr[loc[a].i] # Empty
    /\ pc[a] \in {"scan", "pass", "rotate"} => A + loc[a].i <= Reach
    /\ pc[a] \in {"give", "pass"} => hand[a] = A + loc[a].i
    /\ ~early /\ Looping(a) => out < A + loc[a].i
    /\ ~early /\ pc[a] \in {"take", "give"} /\ loc[a].kind # "addba" => out < T
    /\ ~early /\ pc[a] = "give" /\ loc[a].kind # "addba" => A + loc[a].i < T

\* Slot 0 stands for frame A.
Anchored(A, T) ==
    /\ A % SeqMod = start_win % SeqMod /\ A <= Reach
    /\ ~early /\ (\A a \in Agents : ~Looping(a)) => out < A
    /\ \A a \in Agents : InView(A, T, a) /\ InPlace(A, T, a)

Numbers == FirstFrame .. Woken + WinSize + 1

\* The table is there, and no deletion has emptied it.
Serving == exists /\ \A d \in Deleters : pc[d] \notin {"stop", "free"}

Ranked ==
    ~overlap /\ ~spent =>
        /\ ~early => ordered
        /\ ~exists => out = FirstFrame - 1
        /\ Serving => \E A, T \in Numbers : Anchored(A, T)

-------------------------------------------------------------------------------
(***************************************************************************)
(* Numbers that stand for the same frame.                                  *)
(***************************************************************************)
LEMMA SameShift ==
    ASSUME NEW x \in Int, NEW y \in Int, x % SeqMod = y % SeqMod, NEW d \in Int
    PROVE  (x + d) % SeqMod = (y + d) % SeqMod
<1>1. ((x % SeqMod) + d) % SeqMod = (x + d) % SeqMod
  BY Space, ModAdd
<1>2. ((y % SeqMod) + d) % SeqMod = (y + d) % SeqMod
  BY Space, ModAdd
<1> QED
  BY <1>1, <1>2

LEMMA SameReduced ==
    ASSUME NEW x \in Int
    PROVE  (x % SeqMod) % SeqMod = x % SeqMod
<1> DEFINE s == x % SeqMod
<1>1. s \in 0 .. SeqMod - 1
  BY Reduced
<1> HIDE DEF s
<1>2. s \in -SeqMod .. 2 * SeqMod - 1 /\ s < SeqMod /\ ~(s < 0)
  BY <1>1, Space
<1>3. s % SeqMod = s
  BY <1>2, ModNear
<1> QED
  BY <1>3 DEF s

\* A frame that is less than a window behind is recognised as old ...
LEMMA BehindIsOld ==
    ASSUME NEW A \in Int, NEW v \in Int, NEW start \in 0 .. SeqMod,
           A % SeqMod = start % SeqMod, A <= v + WinSize, v < A
    PROVE  Old(v % SeqMod, start)
<1>1. PICK j \in 1 .. WinSize : v = A - j
  <2>1. A - v \in 1 .. WinSize /\ v = A - (A - v)
    BY ReorderAssumption
  <2> QED
    BY <2>1
<1>2. /\ j \in Int /\ start \in Int /\ -j \in Int /\ v = A + (-j)
      /\ 1 <= j /\ j < Half /\ start - j = start + (-j)
  BY <1>1, ReorderAssumption
<1>3. v % SeqMod = (start - j) % SeqMod
  BY <1>2, SameShift
<1> DEFINE d == start - j
<1>4. d \in -SeqMod .. 2 * SeqMod - 1 /\ d < SeqMod
  BY <1>2, ReorderAssumption
<1> HIDE DEF d
<1>5. d % SeqMod = IF d < 0 THEN d + SeqMod ELSE d
  BY <1>4, ModNear
<1> DEFINE s == v % SeqMod
<1>6. s = IF start < j THEN start - j + SeqMod ELSE start - j
  BY <1>2, <1>3, <1>5 DEF d
<1> HIDE DEF s
<1> DEFINE h == start + Half
<1>7. h \in -SeqMod .. 2 * SeqMod - 1 /\ ~(h < 0)
  BY ReorderAssumption
<1> HIDE DEF h
<1>8. h % SeqMod = IF h < SeqMod THEN h ELSE h - SeqMod
  BY <1>7, ModNear
<1> DEFINE o == h % SeqMod
<1>9. o = IF h < SeqMod THEN h ELSE h - SeqMod
  BY <1>8
<1> HIDE DEF o
<1>10. IF h > SeqMod - 1 THEN o <= s /\ s < start ELSE s < start \/ h <= s
  BY <1>2, <1>6, <1>9, ReorderAssumption DEF h
<1> QED
  BY <1>10 DEF Old, h, o, s

\* ... and one in the window is not outside of it.
LEMMA AheadIsInside ==
    ASSUME NEW A \in Int, NEW k \in 0 .. WinSize - 1, NEW start \in 0 .. SeqMod,
           A % SeqMod = start % SeqMod
    PROVE  ~Outside((A + k) % SeqMod, start)
<1>0. k \in Int /\ start \in Int
  BY Space
<1>1. (A + k) % SeqMod = (start + k) % SeqMod
  BY <1>0, SameShift
<1> DEFINE d == start + k
<1>2. d \in -SeqMod .. 2 * SeqMod - 1 /\ ~(d < 0)
  BY ReorderAssumption
<1> HIDE DEF d
<1>3. d % SeqMod = IF d < SeqMod THEN d ELSE d - SeqMod
  BY <1>2, ModNear
<1> DEFINE s == (A + k) % SeqMod
<1>4. s = IF d < SeqMod THEN d ELSE d - SeqMod
  BY <1>1, <1>3 DEF d
<1> HIDE DEF s
<1> DEFINE e == EndWin(start)
<1>5. e = IF start + WinSize - 1 < SeqMod THEN start + WinSize - 1
          ELSE start + WinSize - 1 - SeqMod
  BY WindowEnd
<1> HIDE DEF e
<1>6. ~(e < start /\ e < s /\ s < start) /\ ~(start < e /\ (e < s \/ s < start))
  BY <1>0, <1>4, <1>5, ReorderAssumption DEF d
<1> QED
  BY <1>6 DEF Outside, e, s

-------------------------------------------------------------------------------
(***************************************************************************)
(* The air.                                                                *)
(***************************************************************************)
LEMMA SendableIs ==
    ASSUME TypeOK, Air, NEW n \in Sendable
    PROVE  /\ n \in Frames /\ n \in Int /\ base <= n /\ n < base + WinSize /\ n \notin came
           /\ FirstFrame <= n /\ n <= Woken
           /\ "no_drop" \in flags /\ ~dozing => n = Woken
<1>1. n \in Frames /\ n \in Nat /\ base <= n /\ n \notin came
  BY SendableFrame DEF TypeOK
<1>2. n \in Sent /\ n \in base .. base + WinSize - 1
  BY DEF Sendable
<1>3. base \in Int
  BY ReorderAssumption DEF TypeOK
<1>4. n < base + WinSize
  BY <1>2, <1>3, ReorderAssumption
<1>5. FirstFrame <= n /\ n <= Woken
  BY <1>1, ReorderAssumption DEF Frames
<1>6. "no_drop" \in flags /\ ~dozing => n = Woken
  BY <1>1, <1>2, <1>3, ReorderAssumption DEF Air, Sent
<1> QED
  BY <1>1, <1>4, <1>5, <1>6

LEMMA ReachIs ==
    ASSUME TypeOK, Air
    PROVE  /\ Reach \in Int /\ hi + 1 <= Reach /\ base <= Reach
           /\ FirstFrame <= Reach /\ Reach <= Woken + 1 /\ Reach <= base + WinSize
           /\ Reach = hi + 1 \/ Reach = base
           /\ hi \in Int /\ base \in Int
<1>1. hi \in Int /\ base \in Int
  BY ReorderAssumption DEF TypeOK
<1> QED
  BY <1>1, ReorderAssumption DEF Reach, Larger, Air

LEMMA AirComes ==
    ASSUME TypeOK, Air, NEW n \in Sendable, Comes(n), base' = base, UNCHANGED <<flags, dozing>>,
           rx_seq' = n % SeqMod \/ rx_seq' = rx_seq
    PROVE  Air'
<1>1. /\ n \in Int /\ base <= n /\ n < base + WinSize /\ FirstFrame <= n /\ n <= Woken
      /\ hi \in Int /\ base \in Int
  BY SendableIs, ReachIs
<1>2. came' = came \cup {n} /\ hi' = IF hi < n THEN n ELSE hi
  BY DEF Comes, Larger
<1>3. /\ hi' \in Int /\ hi <= hi' /\ n <= hi' /\ hi' <= Woken /\ hi' < base + WinSize
      /\ hi' = n \/ hi' = hi
  BY <1>1, <1>2, ReorderAssumption DEF Air
<1>4. \A m \in came' : base <= m /\ m <= hi'
  <2>1. \A m \in came : m \in Int
    BY ReorderAssumption DEF TypeOK, Frames
  <2> QED
    BY <1>1, <1>2, <1>3, <2>1 DEF Air
<1>5. hi' >= base => hi' \in came'
  BY <1>2, <1>3 DEF Air
<1>6. rx_seq' # None => \E m \in FirstFrame .. hi' : m % SeqMod = rx_seq'
  <2>1. n \in FirstFrame .. hi' /\ FirstFrame .. hi \subseteq FirstFrame .. hi'
    BY <1>1, <1>3, ReorderAssumption
  <2> QED
    BY <2>1 DEF Air
<1> QED
  BY <1>3, <1>4, <1>5, <1>6 DEF Air

LEMMA AirNext == TypeOK /\ Air /\ [Next]_vars => Air'
<1> SUFFICES ASSUME TypeOK, Air, [Next]_vars PROVE Air'
  OBVIOUS
<1>0. /\ hi \in Int /\ base \in Int /\ came \subseteq Frames /\ Woken \in Int /\ FirstFrame \in Int
      /\ \A m \in came : m \in Int
  BY ReorderAssumption DEF TypeOK, Frames
<1>1. ASSUME UNCHANGED <<base, hi, came>>, rx_seq' \in {rx_seq, None},
             "no_drop" \in flags' /\ ~dozing' => "no_drop" \in flags /\ ~dozing
      PROVE  Air'
  BY <1>1 DEF Air
<1>2. CASE UNCHANGED vars
  BY <1>1, <1>2 DEF vars, tblVars, airVars, sideVars
<1>3. ASSUME NEW a \in Agents, Step(a)
      PROVE  Air'
  <2>1. UNCHANGED airVars /\ flags' \subseteq flags /\ dozing' = dozing
    BY <1>3, ClassifyDoes, TestDoes, StoreDoes, DropDoes, DoneDoes, UntilBeginDoes,
       UntilTakeDoes, UntilRotateDoes, ScanTakeDoes, ScanRotateDoes, GiveDoes
       DEF Step, tblVars, sideVars
  <2> QED
    BY <1>1, <2>1 DEF airVars
<1>4. CASE Handlers \/ TimerExpires \/ Create
  <2>1. /\ UNCHANGED <<base, hi, came>> /\ rx_seq' \in {rx_seq, None} /\ dozing' = dozing
        /\ "no_drop" \in flags' => "no_drop" \in flags
    <3>1. CASE FlushFind \/ FlushFrom \/ TimerExpires
      BY <3>1 DEF FlushFind, FlushFrom, TimerExpires, tblVars, airVars, sideVars
    <3>2. CASE Create
      BY <3>2 DEF Create, airVars
    <3>3. ASSUME NEW d \in Deleters, FlushWorker(d) \/ StopTimer(d)
          PROVE  UNCHANGED <<base, hi, came, rx_seq, dozing, flags>>
      BY <3>3 DEF FlushWorker, StopTimer, tblVars, airVars, sideVars
    <3>4. ASSUME NEW d \in Deleters, Free(d)
          PROVE  UNCHANGED <<base, hi, came, rx_seq, dozing>> /\ flags' = {}
      BY <3>4 DEF Free, airVars
    <3>5. ASSUME NEW d \in Deleters, ResetSeq(d)
          PROVE  UNCHANGED <<base, hi, came, dozing, flags>> /\ rx_seq' = None
      BY <3>5 DEF ResetSeq, tblVars, sideVars
    <3> QED
      BY <1>4, <3>1, <3>2, <3>3, <3>4, <3>5 DEF Handlers, Deletion
  <2> QED
    BY <1>1, <2>1
<1>5. CASE RxBar \/ AddbaAgain \/ HsActivated \/ \E d \in Deleters : Delba(d)
  <2>1. /\ UNCHANGED <<base, hi, rx_seq, came>>
        /\ (flags' = flags /\ dozing' = dozing) \/ dozing'
    BY <1>5 DEF RxBar, AddbaAgain, HsActivated, Delba, tblVars, sideVars
  <2> QED
    BY <2>1, <1>1
<1>6. ASSUME NEW n \in Sent, Direct(n) \/ RxData(n) \/ RxAmsdu(n) \/ RxbaSync(n)
      PROVE  Air'
  <2>1. /\ n \in Sendable /\ Comes(n) /\ base' = base /\ UNCHANGED <<flags, dozing>>
        /\ rx_seq' = n % SeqMod \/ rx_seq' = rx_seq
    BY <1>6 DEF Direct, RxData, RxAmsdu, RxbaSync, tblVars, sideVars
  <2> QED
    BY <2>1, AirComes
<1>7. CASE SenderMoves
  <2>0. PICK n \in Int : n = base + 1 /\ Passed(n)
    BY <1>0, <1>7 DEF SenderMoves
  <2>1. /\ base \in Sent /\ base' = base + 1 /\ UNCHANGED <<hi, rx_seq, flags, dozing>>
        /\ \A m \in came' : m \in came /\ ~(FirstFrame <= m /\ m <= base)
        /\ \A m \in came : m > base => m \in came'
    <3>1. came' = came \ (FirstFrame .. n - 1)
      BY <2>0 DEF Passed
    <3> QED
      BY <1>0, <1>7, <2>0, <3>1 DEF SenderMoves, tblVars, sideVars
  <2>2. base <= Woken
    BY <2>1, ReorderAssumption DEF Sent
  <2>3. \A m \in came' : base' <= m /\ m <= hi'
    BY <1>0, <2>1 DEF Air
  <2>4. hi' >= base' => hi' \in came'
    BY <1>0, <2>1 DEF Air
  <2> QED
    <3>1. FirstFrame <= base' /\ base' <= Woken + 1 /\ hi' <= Woken /\ hi' < base' + WinSize
      BY <1>0, <2>1, <2>2, ReorderAssumption DEF Air
    <3>2. "no_drop" \in flags' /\ ~dozing' => base' >= Woken
      BY <1>0, <2>1 DEF Air
    <3>3. rx_seq' # None => \E m \in FirstFrame .. hi' : m % SeqMod = rx_seq'
      BY <2>1 DEF Air
    <3> QED
      BY <2>3, <2>4, <3>1, <3>2, <3>3 DEF Air
<1>8. CASE Asleep
  <2>1. /\ base < Woken /\ base' = Woken /\ came' = came \ (FirstFrame .. Woken - 1)
        /\ hi' = (IF hi < Woken - 1 THEN Woken - 1 ELSE hi) /\ rx_seq' = rx_seq
    BY <1>8 DEF Asleep, Passed, Larger
  <2>2. hi <= hi' /\ hi' <= Woken /\ hi' \in Int /\ (hi' = Woken - 1 \/ hi' = hi)
    BY <1>0, <2>1 DEF Air
  <2>3. \A m \in came' : base' <= m /\ m <= hi'
    BY <1>0, <2>1, <2>2 DEF Air
  <2>4. hi' >= base' => hi' \in came'
    BY <1>0, <2>1, <2>2 DEF Air
  <2>5. rx_seq' # None => \E m \in FirstFrame .. hi' : m % SeqMod = rx_seq'
    <3>1. FirstFrame .. hi \subseteq FirstFrame .. hi'
      BY <1>0, <2>2
    <3> QED
      BY <2>1, <3>1 DEF Air
  <2>6. FirstFrame <= Woken /\ hi' < base' + WinSize
    BY <1>0, <2>1, <2>2, ReorderAssumption
  <2> QED
    BY <1>0, <2>1, <2>2, <2>3, <2>4, <2>5, <2>6 DEF Air
<1> QED
  BY <1>2, <1>3, <1>4, <1>5, <1>6, <1>7, <1>8 DEF Next, Arrivals

-------------------------------------------------------------------------------
(***************************************************************************)
(* The anchor moves with the window.                                       *)
(***************************************************************************)
LEMMA NumberIs ==
    ASSUME NEW A \in Numbers
    PROVE  A \in Int /\ FirstFrame <= A /\ A <= Woken + WinSize + 1
BY ReorderAssumption DEF Numbers

\* A frame is in the slot that its number and the anchor say.
LEMMA FrameInPlace ==
    ASSUME TypeOK, Air, NEW A \in Numbers, A <= Reach, NEW k \in Slots, NEW n \in Frames,
           n % SeqMod = (A + k) % SeqMod
    PROVE  n = A + k
<1>1. /\ n \in Int /\ A + k \in Int /\ n - (A + k) < SeqMod /\ (A + k) - n < SeqMod
  BY NumberIs, ReachIs, ReorderAssumption DEF Slots, Frames
<1> DEFINE x == A + k
<1>2. x \in Int /\ n - x < SeqMod /\ x - n < SeqMod /\ n % SeqMod = x % SeqMod
  BY <1>1
<1> HIDE DEF x
<1>3. n = x
  BY <1>1, <1>2, ModClose
<1> QED
  BY <1>3 DEF x

LEMMA SeenBelow ==
    ASSUME TypeOK, Air, NEW n \in Seen
    PROVE  n < Reach /\ n \in Frames
<1>1. n \in Frames /\ n \in Int /\ (n < base \/ n <= hi)
  BY ReorderAssumption DEF Seen, Air, Frames
<1> QED
  BY <1>1, ReachIs

LEMMA SlotFrame ==
    ASSUME TypeOK, Air, Apart, Matched, NEW A \in Numbers, A <= Reach,
           A % SeqMod = start_win % SeqMod, NEW k \in Slots, rx_reorder_ptr[k] # Empty
    PROVE  rx_reorder_ptr[k] = A + k /\ A + k < Reach
<1>1. rx_reorder_ptr[k] \in Seen
  BY DEF Apart, Known
<1>2. rx_reorder_ptr[k] % SeqMod = (start_win + k) % SeqMod
  BY DEF Matched
<1>3. A \in Int /\ start_win \in Int /\ k \in Int
  BY NumberIs, ReorderAssumption DEF TypeOK, Slots
<1>4. (A + k) % SeqMod = (start_win + k) % SeqMod
  BY <1>3, SameShift
<1> QED
  BY <1>1, <1>2, <1>4, FrameInPlace, SeenBelow

\* The step of a context that is alone with the table.
LEMMA AnchorStays ==
    ASSUME NEW a \in Agents, Others(a), Only(a), NEW A \in Numbers, NEW T \in Numbers,
           A % SeqMod = start_win' % SeqMod, A <= Reach',
           ~early' /\ ~Looping(a)' => out' < A,
           InView(A, T, a)', InPlace(A, T, a)'
    PROVE  \E B, U \in Numbers : Anchored(B, U)'
<1>1. \A b \in Agents \ {a} : pc'[b] \in Resting
  BY DEF Others, Only, Active, Resting
<1>2. \A b \in Agents \ {a} : InView(A, T, b)' /\ InPlace(A, T, b)' /\ ~Looping(b)'
  BY <1>1 DEF InView, InPlace, Looping, Resting
<1>3. Anchored(A, T)'
  BY <1>2 DEF Anchored
<1> QED
  BY <1>3

\* What the frame in view is, by the window and by the decisions taken on it.
LEMMA ClassifyView ==
    ASSUME TypeOK, Air, NEW a \in Agents, pc[a] = "classify",
           NEW A \in Numbers, NEW T \in Numbers,
           A % SeqMod = start_win % SeqMod, A <= Reach, InView(A, T, a), ~Restart(a),
           ~(dozing /\ "no_drop" \in flags)
    PROVE  Moves(a) => A <= IF loc[a].kind = "bar" THEN T ELSE T - WinSize + 1
<1> SUFFICES ASSUME Moves(a) PROVE A <= IF loc[a].kind = "bar" THEN T ELSE T - WinSize + 1
  OBVIOUS
<1>1. /\ T % SeqMod = loc[a].seq /\ A <= T + WinSize
      /\ "no_drop" \in flags => A <= IF loc[a].kind = "bar" THEN T + 1 ELSE T
  BY DEF InView
<1>2. A \in Int /\ T \in Int /\ start_win \in 0 .. SeqMod
  BY NumberIs DEF TypeOK
<1>3. Begin(a) = start_win /\ ~IsOld(a) /\ Outside(Asked(a), start_win)
  BY DEF Moves, Begin
<1>4. "no_drop" \notin flags => A <= T
  <2>1. "no_drop" \notin flags => ~Old(T % SeqMod, start_win)
    BY <1>1, <1>3 DEF IsOld
  <2> QED
    BY <1>1, <1>2, <2>1, BehindIsOld
<1>5. CASE loc[a].kind = "bar"
  <2>1. SUFFICES ASSUME T = A - 1 PROVE FALSE
    BY <1>1, <1>2, <1>4, <1>5
  <2>2. Asked(a) = (A + (WinSize - 2)) % SeqMod
    <3>1. loc[a].seq = T % SeqMod
      BY <1>1
    <3>2. ((T % SeqMod) + (WinSize - 1)) % SeqMod = (T + (WinSize - 1)) % SeqMod
      <4>1. WinSize - 1 \in Int
        BY ReorderAssumption
      <4> QED
        BY <1>2, <4>1, Space, ModAdd
    <3>3. T + (WinSize - 1) = A + (WinSize - 2)
      BY <1>2, <2>1, ReorderAssumption
    <3>4. loc[a].seq + WinSize - 1 = (T % SeqMod) + (WinSize - 1)
      <4>1. loc[a].seq \in Int /\ WinSize \in Int
        BY LocalHas, ReorderAssumption DEF TypeOK
      <4>2. loc[a].seq + WinSize - 1 = loc[a].seq + (WinSize - 1)
        BY <4>1
      <4> QED
        BY <3>1, <4>2
    <3>5. Asked(a) = (loc[a].seq + WinSize - 1) % SeqMod
      BY <1>5 DEF Asked, EndWin
    <3> QED
      BY <3>2, <3>3, <3>4, <3>5
  <2>3. WinSize - 2 \in 0 .. WinSize - 1
    BY ReorderAssumption
  <2>4. ~Outside((A + (WinSize - 2)) % SeqMod, start_win)
    BY <1>2, <2>3, AheadIsInside
  <2> QED
    BY <1>3, <2>2, <2>4
<1>6. CASE loc[a].kind # "bar"
  <2>1. A <= T /\ Asked(a) = T % SeqMod
    BY <1>1, <1>4, <1>6 DEF Asked
  <2>2. SUFFICES ASSUME T - A \in 0 .. WinSize - 1 PROVE FALSE
    BY <1>2, <1>6, <2>1, ReorderAssumption
  <2>3. ~Outside((A + (T - A)) % SeqMod, start_win)
    BY <1>2, <2>2, AheadIsInside
  <2>4. A + (T - A) = T
    BY <1>2
  <2> QED
    BY <1>3, <2>1, <2>3, <2>4
<1> QED
  BY <1>5, <1>6

LEMMA AnchorClassify ==
    ASSUME TypeOK, Carried, Orderly, Air, NEW a \in Agents, Classify(a), ~spent',
           NEW A \in Numbers, NEW T \in Numbers, Anchored(A, T)
    PROVE  \E B, U \in Numbers : Anchored(B, U)'
<1>0. /\ Others(a) /\ Only(a) /\ CarriedBy(a) /\ pc[a] = "classify" /\ loc[a].i = 0
      /\ loc[a].kind \in {"data", "bar", "sync"}
  BY OthersIdle, ClassifyDoes DEF Active, Orderly, Carried, CarriedBy
<1>1. /\ A % SeqMod = start_win % SeqMod /\ A <= Reach /\ InView(A, T, a)
      /\ ~early => out < A
  <2>1. \A b \in Agents : ~Looping(b)
    BY <1>0 DEF Looping, Others, Active
  <2> QED
    BY <2>1 DEF Anchored
<1>2. /\ T % SeqMod = loc[a].seq /\ A <= T + WinSize /\ T <= Reach
      /\ loc[a].kind # "bar" => T < Reach
      /\ loc[a].kind = "data" => loc[a].n = T
  BY <1>0, <1>1 DEF InView
<1>3. /\ A \in Int /\ T \in Int /\ FirstFrame <= A /\ FirstFrame <= T
      /\ start_win \in 0 .. SeqMod /\ loc[a].seq \in 0 .. SeqMod - 1 /\ Reach \in Int
      /\ WinSize \in Int /\ WinSize > 0
  BY NumberIs, ReachIs, LocalHas, ReorderAssumption DEF TypeOK
<1>4. Reach' = Reach /\ early' = early /\ out' = IF Restart(a) THEN FirstFrame - 1 ELSE out
  BY ClassifyDoes DEF Reach, airVars
<1>5. start_win' = Begin(a) /\ loc'[a].seq = Asked(a) /\ loc'[a].i = 0
      /\ loc'[a].n = loc[a].n /\ loc'[a].kind = loc[a].kind
  BY <1>0, ClassifyDoes
<1>6. CASE Restart(a)
  <2>1. Begin(a) = loc[a].seq
    BY <1>6 DEF Begin
  <2>2. ~Outside(Asked(a), loc[a].seq)
    <3> DEFINE e == EndWin(loc[a].seq)
    <3>1. e \in Int /\ loc[a].seq \in Int
      BY <1>3, WindowEnd, Space
    <3>2. Asked(a) = e \/ Asked(a) = loc[a].seq
      BY DEF Asked
    <3> HIDE DEF e
    <3>3. /\ ~(e < loc[a].seq /\ e < Asked(a) /\ Asked(a) < loc[a].seq)
          /\ ~(loc[a].seq < e /\ (e < Asked(a) \/ Asked(a) < loc[a].seq))
      BY <3>1, <3>2
    <3> QED
      BY <3>3 DEF Outside, e
  <2>3. ~IsOld(a) /\ ~Moves(a)
    BY <1>6, <2>1, <2>2 DEF IsOld, Moves
  <2>4. /\ pc'[a] = IF loc[a].kind = "bar" THEN "scan" ELSE "test"
        /\ loc'[a].start = loc[a].seq
    BY <2>1, <2>3, ClassifyDoes
  <2>5. T % SeqMod = start_win' % SeqMod
    <3>1. loc[a].seq % SeqMod = loc[a].seq
      BY <1>2, <1>3, SameReduced
    <3> QED
      BY <1>2, <1>5, <2>1, <3>1
  <2>6. InView(A, T, a)' /\ InView(T, T, a)'
    BY <2>4 DEF InView
  <2>7. out' < T
    BY <1>3, <1>4, <1>6, ReorderAssumption
  <2>8. InPlace(T, T, a)'
    <3>1. loc[a].kind # "bar" => SlotOf(loc'[a]) = 0
      <4> DEFINE d == loc[a].seq - loc[a].seq
      <4>1. d = 0 /\ d \in -SeqMod .. 2 * SeqMod - 1
        BY <1>3, Space
      <4> HIDE DEF d
      <4>2. d % SeqMod = 0
        BY <4>1, Space, ModNear
      <4>3. loc[a].kind # "bar" => SlotOf(loc'[a]) = d % SeqMod
        BY <1>5, <2>4 DEF SlotOf, Asked, d
      <4> QED
        BY <4>2, <4>3
    <3>2. pc'[a] = "test" /\ loc'[a].kind = "data" => loc'[a].n = T + SlotOf(loc'[a])
      BY <1>2, <1>3, <1>5, <3>1
    <3>3. T + loc'[a].i <= Reach' /\ out' < T + loc'[a].i
      BY <1>2, <1>3, <1>4, <1>5, <2>7
    <3> QED
      BY <2>4, <3>2, <3>3 DEF InPlace
  <2> QED
    BY <1>0, <1>2, <1>4, <2>5, <2>6, <2>7, <2>8, AnchorStays
<1>7. CASE ~Restart(a) /\ ~Moves(a)
  <2>1. Begin(a) = start_win /\ out' = out /\ start_win' = start_win
    BY <1>4, <1>5, <1>7 DEF Begin
  <2>2. /\ pc'[a] = IF IsOld(a) THEN "drop" ELSE IF loc[a].kind = "bar" THEN "scan" ELSE "test"
        /\ loc'[a].start = start_win
    BY <1>7, <2>1, ClassifyDoes
  <2>3. InView(A, T, a)'
    BY <2>2 DEF InView
  <2>4. pc'[a] = "test" /\ loc'[a].kind = "data" => loc'[a].n = A + SlotOf(loc'[a])
    <3> SUFFICES ASSUME pc'[a] = "test", loc[a].kind = "data" PROVE loc'[a].n = A + SlotOf(loc'[a])
      BY <1>5
    <3> DEFINE k == SlotOf(loc'[a])
    <3>1. ~Outside(loc[a].seq, start_win)
      BY <1>7, <2>1, <2>2 DEF Moves, Asked
    <3>2. k = (loc[a].seq - start_win) % SeqMod
      BY <1>5, <2>2 DEF SlotOf, Asked
    <3>3. k \in Slots
      BY <1>3, <3>1, <3>2, InsideHasSlot
    <3>4. loc[a].n = T /\ T \in Frames
      <4>1. loc[a].n \in Frames \cup {Empty} /\ T # Empty
        BY <1>3, LocalHas, ReorderAssumption DEF TypeOK, Empty
      <4> QED
        BY <1>2, <4>1
    <3>5. k = ((T % SeqMod) - start_win) % SeqMod
      BY <1>2, <3>2
    <3> HIDE DEF k
    <3>6. (start_win + k) % SeqMod = T % SeqMod
      BY <1>3, <3>4, <3>5, SlotStandsFor
    <3>7. (A + k) % SeqMod = (start_win + k) % SeqMod
      <4>1. k \in Int /\ start_win \in Int
        BY <1>3, <3>3, Space, ReorderAssumption DEF Slots
      <4> QED
        BY <1>1, <1>3, <4>1, SameShift
    <3>8. T = A + k
      BY <1>1, <3>3, <3>4, <3>6, <3>7, FrameInPlace
    <3> QED
      BY <1>5, <3>4, <3>8 DEF k
  <2>5. A + loc'[a].i <= Reach' /\ (~early' => out' < A + loc'[a].i)
    BY <1>1, <1>3, <1>4, <1>5, <2>1
  <2>6. InPlace(A, T, a)'
    BY <2>2, <2>4, <2>5 DEF InPlace
  <2> QED
    BY <1>0, <1>1, <1>4, <2>1, <2>3, <2>6, AnchorStays
<1>8. CASE ~Restart(a) /\ Moves(a)
  <2>1. start_win' = start_win /\ out' = out
    BY <1>4, <1>5, <1>8 DEF Begin
  <2>2. pc'[a] = "until" /\ loc'[a].start = (Asked(a) - WinSize + 1) % SeqMod
    BY <1>8, ClassifyDoes DEF Moves
  <2>3. PICK U \in Int : U = IF loc[a].kind = "bar" THEN T ELSE T - WinSize + 1
    <3>1. T - WinSize + 1 \in Int
      BY <1>3
    <3> QED
      BY <1>3, <3>1
  <2>4. A <= U
    <3>1. ~(dozing /\ "no_drop" \in flags)
      BY ClassifyDoes
    <3> QED
      BY <1>0, <1>1, <1>8, <2>3, <3>1, ClassifyView
  <2>5. U <= Reach
    BY <1>2, <1>3, <2>3
  <2>6. U \in Numbers
    BY <1>3, <2>4, <2>5, ReachIs, ReorderAssumption DEF Numbers
  <2>7. U % SeqMod = loc'[a].start % SeqMod
    <3>1. loc'[a].start % SeqMod = (Asked(a) - WinSize + 1) % SeqMod
      <4>1. Asked(a) - WinSize + 1 \in Int
        BY <1>3, AskedType, Space
      <4> QED
        BY <2>2, <4>1, SameReduced
    <3>2. (Asked(a) - WinSize + 1) % SeqMod = U % SeqMod
      <4>1. CASE loc[a].kind = "bar"
        <5> DEFINE e == loc[a].seq + WinSize - 1
                   b == -(WinSize - 1)
        <5>1. e \in Int /\ b \in Int /\ e + b = loc[a].seq
          BY <1>3, Space
        <5>2. Asked(a) = e % SeqMod /\ Asked(a) \in Int
          BY <4>1, AskedType, Space DEF Asked, EndWin
        <5>3. Asked(a) - WinSize + 1 = Asked(a) + b
          BY <1>3, <5>2
        <5> HIDE DEF e, b
        <5>4. ((e % SeqMod) + b) % SeqMod = (e + b) % SeqMod
          BY <5>1, Space, ModAdd
        <5>5. loc[a].seq % SeqMod = T % SeqMod
          BY <1>2, <1>3, SameReduced
        <5> QED
          BY <2>3, <4>1, <5>1, <5>2, <5>3, <5>4, <5>5
      <4>2. CASE loc[a].kind # "bar"
        <5> DEFINE b == -(WinSize - 1)
        <5>1. b \in Int /\ U = T + b /\ Asked(a) = T % SeqMod
          BY <1>2, <1>3, <2>3, <4>2 DEF Asked
        <5>2. Asked(a) - WinSize + 1 = Asked(a) + b
          BY <1>3, AskedType, Space
        <5> HIDE DEF b
        <5>3. ((T % SeqMod) + b) % SeqMod = (T + b) % SeqMod
          BY <1>3, <5>1, Space, ModAdd
        <5> QED
          BY <5>1, <5>2, <5>3
      <4> QED
        BY <4>1, <4>2
    <3> QED
      BY <3>1, <3>2
  <2>8. InView(A, U, a)'
    <3>1. loc'[a].kind = "data" => loc'[a].n = U + WinSize - 1
      BY <1>2, <1>3, <1>5, <2>3
    <3>2. loc'[a].kind # "delba"
      BY <1>0, <1>5
    <3> QED
      BY <1>4, <2>2, <2>4, <2>5, <2>7, <3>1, <3>2 DEF InView
  <2>9. InPlace(A, U, a)'
    BY <2>2 DEF InPlace, Looping
  <2> QED
    BY <1>0, <1>1, <1>4, <2>1, <2>6, <2>8, <2>9, AnchorStays
<1> QED
  BY <1>6, <1>7, <1>8

LEMMA AnchorReorder ==
    ASSUME TypeOK, Carried, Orderly, Air, NEW a \in Agents,
           Test(a) \/ Store(a) \/ Drop(a) \/ Done(a),
           NEW A \in Numbers, NEW T \in Numbers, Anchored(A, T)
    PROVE  \E B, U \in Numbers : Anchored(B, U)'
<1>0. Only(a) /\ pc[a] \in {"test", "store", "drop", "done"}
  BY TestDoes, StoreDoes, DropDoes, DoneDoes
<1>1. Others(a)
  BY <1>0, OthersIdle DEF Active, Orderly
<1>2. UNCHANGED <<start_win, flags, dozing, hi, base, out, early>>
  BY TestDoes, StoreDoes, DropDoes, DoneDoes DEF tblVars, airVars, histVars, sideVars
<1>3. /\ A % SeqMod = start_win' % SeqMod /\ A <= Reach' /\ Reach' = Reach
      /\ ~early => out < A
  <2>1. \A b \in Agents : ~Looping(b)
    BY <1>0, <1>1 DEF Looping, Others, Active
  <2> QED
    BY <1>2, <2>1 DEF Anchored, Reach
<1>4. pc'[a] \in {"store", "drop", "scan", "done", "idle"}
  BY TestDoes, StoreDoes, DropDoes, DoneDoes
<1>5. InView(A, T, a)'
  BY <1>4 DEF InView
<1>6. InPlace(A, T, a)'
  <2>1. CASE Test(a)
    <3>1. InPlace(A, T, a) /\ pc[a] = "test" /\ loc'[a] = loc[a] /\ pc'[a] \in {"store", "drop"}
      BY <2>1, TestDoes DEF Anchored
    <3> QED
      BY <3>1 DEF InPlace, SlotOf, Looping
  <2>2. CASE Store(a)
    <3>1. pc'[a] = "scan" /\ loc'[a].i = 0 /\ A \in Int
      BY <2>2, StoreDoes, NumberIs
    <3>2. A + loc'[a].i = A
      BY <3>1
    <3> QED
      BY <1>2, <1>3, <3>1, <3>2 DEF InPlace
  <2>3. CASE Drop(a) \/ Done(a)
    <3>1. pc'[a] \in {"done", "idle"}
      BY <2>3, DropDoes, DoneDoes
    <3> QED
      BY <3>1 DEF InPlace, Looping
  <2> QED
    BY <2>1, <2>2, <2>3
<1> QED
  BY <1>0, <1>1, <1>2, <1>3, <1>5, <1>6, AnchorStays

LEMMA AnchorUntilBegin ==
    ASSUME TypeOK, Orderly, Air, NEW a \in Agents, UntilBegin(a),
           NEW A \in Numbers, NEW T \in Numbers, Anchored(A, T)
    PROVE  \E B, U \in Numbers : Anchored(B, U)'
<1>0. Only(a) /\ pc[a] = "until" /\ pc'[a] = "take" /\ Others(a)
  BY UntilBeginDoes, OthersIdle DEF Active, Orderly
<1>1. UNCHANGED <<start_win, flags, dozing, hi, base, out, early>>
  BY UntilBeginDoes DEF tblVars, airVars, histVars, sideVars
<1>2. /\ A % SeqMod = start_win' % SeqMod /\ A <= Reach' /\ Reach' = Reach
      /\ ~early => out < A
  <2>1. \A b \in Agents : ~Looping(b)
    BY <1>0 DEF Looping, Others, Active
  <2> QED
    BY <1>1, <2>1 DEF Anchored, Reach
<1>3. InView(A, T, a)
  BY DEF Anchored
<1>4. InView(A, T, a)'
  BY <1>0, <1>1, <1>2, <1>3, UntilBeginDoes DEF InView
<1>5. /\ A \in Int /\ T \in Int /\ out \in Int
      /\ loc[a].kind # "addba" => A <= T
  BY <1>0, <1>3, NumberIs DEF InView, TypeOK
<1>6. A + loc'[a].i = A
  BY <1>5, UntilBeginDoes
<1>7. InPlace(A, T, a)'
  BY <1>0, <1>1, <1>2, <1>5, <1>6, UntilBeginDoes DEF InPlace
<1> QED
  BY <1>0, <1>1, <1>2, <1>4, <1>7, AnchorStays

\* The packet that is taken comes before the new beginning, or is early.
LEMMA AnchorAhead ==
    ASSUME TypeOK, Air, NEW a \in Agents, pc[a] = "take",
           NEW A \in Numbers, NEW T \in Numbers, Anchored(A, T),
           loc[a].kind # "addba", Ahead(loc[a])
    PROVE  A + loc[a].i < T
<1>1. /\ T % SeqMod = loc[a].start % SeqMod /\ A <= T
      /\ IF loc[a].kind = "delba" THEN T = A + WinSize ELSE T <= Reach
      /\ A % SeqMod = start_win % SeqMod
  BY DEF Anchored, InView
<1>2. /\ A \in Int /\ T \in Int /\ start_win \in Int /\ loc[a].start \in Int /\ loc[a].i \in Int
      /\ -A \in Int /\ -start_win \in Int
  BY NumberIs, LocalHas, Space, ReorderAssumption DEF TypeOK
<1>3. T - A \in 0 .. SeqMod - 1
  BY <1>1, <1>2, NumberIs, ReachIs, ReorderAssumption
<1>4. (loc[a].start - start_win) % SeqMod = T - A
  <2>1. PICK s \in Int : s = loc[a].start
    BY <1>2
  <2>2. PICK w \in Int : w = start_win
    BY <1>2
  <2>3. (T + (-A)) % SeqMod = (s + (-A)) % SeqMod
    BY <1>1, <1>2, <2>1, SameShift
  <2>4. PICK d \in Int : d = s - A - w
    BY <1>2, <2>1, <2>2
  <2>5. (A + d) % SeqMod = (w + d) % SeqMod
    <3>1. A % SeqMod = w % SeqMod
      BY <1>1, <2>2
    <3> QED
      BY <1>2, <3>1, SameShift
  <2>6. A + d = s - w /\ w + d = s + (-A) /\ T + (-A) = T - A
    BY <1>2, <2>1, <2>2, <2>4
  <2>7. (s - w) % SeqMod = (T - A) % SeqMod
    BY <2>3, <2>5, <2>6
  <2> DEFINE x == T - A
  <2>8. x \in -SeqMod .. 2 * SeqMod - 1 /\ x < SeqMod /\ ~(x < 0)
    BY <1>2, <1>3, Space
  <2> HIDE DEF x
  <2>9. x % SeqMod = x
    BY <2>8, ModNear
  <2> QED
    BY <2>1, <2>2, <2>7, <2>9 DEF x
<1>5. loc[a].i < T - A
  BY <1>4 DEF Ahead
<1> QED
  BY <1>2, <1>5

\* A packet is taken from its slot.
LEMMA AnchorTakes ==
    ASSUME TypeOK, Orderly, Apart, Air, NEW a \in Agents, Only(a),
           \/ /\ pc[a] = "take" /\ Takes(a, "give") /\ loc[a].i < loc[a].send
              /\ early' = (early \/ ~Ahead(loc[a]))
           \/ pc[a] = "scan" /\ Takes(a, "pass") /\ loc[a].i < WinSize /\ early' = early,
           UNCHANGED <<start_win, flags, hi, base, out>>,
           NEW A \in Numbers, NEW T \in Numbers, Anchored(A, T)
    PROVE  \E B, U \in Numbers : Anchored(B, U)'
<1> DEFINE i == loc[a].i
<1>0. Others(a)
  BY OthersIdle DEF Active, Orderly
<1>1. i \in Slots
  <2>1. i \in 0 .. WinSize /\ loc[a].send \in 0 .. WinSize
    BY LocalHas DEF TypeOK
  <2> QED
    BY <2>1, ReorderAssumption DEF Slots
<1>2. /\ A % SeqMod = start_win % SeqMod /\ A <= Reach /\ Reach' = Reach
      /\ InView(A, T, a) /\ InPlace(A, T, a)
  BY DEF Anchored, Reach
<1>3. hand'[a] = A + i
  BY <1>1, <1>2, SlotFrame DEF Takes, Orderly
<1>4. /\ pc'[a] \in {"give", "pass"} /\ loc'[a] = loc[a]
      /\ pc'[a] = "give" <=> pc[a] = "take"
      /\ ~early' => ~early
      /\ pc[a] = "take" /\ ~early' => Ahead(loc[a])
  <2>1. CASE pc[a] = "take"
    BY <2>1 DEF Takes
  <2>2. CASE pc[a] # "take"
    BY <2>2 DEF Takes
  <2> QED
    BY <2>1, <2>2
<1>5. InView(A, T, a)'
  BY <1>2, <1>4 DEF InView
<1>6. InPlace(A, T, a)'
  <2>1. ~early' /\ pc'[a] = "give" /\ loc[a].kind # "addba" => A + i < T
    BY <1>4, AnchorAhead
  <2> QED
    BY <1>2, <1>3, <1>4, <2>1 DEF InPlace, Looping
<1>7. Looping(a)'
  BY <1>4 DEF Looping
<1> QED
  BY <1>0, <1>2, <1>5, <1>6, <1>7, AnchorStays

\* A slot of the loop is empty.
LEMMA AnchorPasses ==
    ASSUME TypeOK, Orderly, Air, NEW a \in Agents, Only(a),
           pc[a] = "take", pc'[a] = "take", GoesOn(a),
           UNCHANGED <<start_win, flags, hi, base, out, early>>,
           NEW A \in Numbers, NEW T \in Numbers, Anchored(A, T)
    PROVE  \E B, U \in Numbers : Anchored(B, U)'
<1>0. Others(a) /\ Looping(a)'
  BY OthersIdle DEF Active, Orderly, Looping
<1>1. /\ A % SeqMod = start_win % SeqMod /\ A <= Reach /\ Reach' = Reach
      /\ InView(A, T, a) /\ InPlace(A, T, a)
  BY DEF Anchored, Reach
<1>2. InView(A, T, a)'
  BY <1>1 DEF InView, GoesOn
<1>3. /\ ~early => out < A + loc[a].i
      /\ ~early /\ loc[a].kind # "addba" => out < T
  BY <1>1 DEF InPlace, Looping
<1>4. A + loc[a].i < A + loc'[a].i /\ out \in Int /\ A + loc[a].i \in Int /\ A + loc'[a].i \in Int
  BY NumberIs, LocalHas, ReorderAssumption DEF GoesOn, TypeOK
<1>5. ~early => out < A + loc'[a].i
  <2> DEFINE x == A + loc[a].i
             y == A + loc'[a].i
  <2>1. x < y /\ out \in Int /\ x \in Int /\ y \in Int /\ (~early => out < x)
    BY <1>3, <1>4
  <2> HIDE DEF x, y
  <2>2. ~early => out < y
    BY <2>1
  <2> QED
    BY <2>2 DEF y
<1>6. InPlace(A, T, a)'
  BY <1>3, <1>5 DEF InPlace, GoesOn
<1> QED
  BY <1>0, <1>1, <1>2, <1>6, AnchorStays

\* A packet is dispatched: behind all that went before it.
LEMMA AnchorGive ==
    ASSUME TypeOK, Carried, Orderly, Apart, Air, ~overlap, NEW a \in Agents, Give(a),
           ~early => ordered,
           NEW A \in Numbers, NEW T \in Numbers, Anchored(A, T)
    PROVE  (\E B, U \in Numbers : Anchored(B, U)') /\ (~early' => ordered')
<1>0. /\ Only(a) /\ GoesOn(a) /\ pc[a] \in {"give", "pass"} /\ pc'[a] \in {"take", "scan"}
      /\ pc[a] = "give" <=> pc'[a] = "take"
      /\ UNCHANGED <<start_win, flags, hi, base, early>>
      /\ ~early => out' = hand[a] /\ ordered' = (ordered /\ out < hand[a])
  BY GiveDoes DEF tblVars, airVars, Deliver
<1>1. Others(a) /\ Looping(a)'
  BY <1>0, OthersIdle DEF Active, Orderly, Looping
<1>2. /\ A % SeqMod = start_win % SeqMod /\ A <= Reach /\ Reach' = Reach
      /\ InView(A, T, a) /\ InPlace(A, T, a)
  BY <1>0 DEF Anchored, Reach
<1>3. /\ hand[a] = A + loc[a].i
      /\ ~early => out < A + loc[a].i
      /\ ~early /\ pc[a] = "give" /\ loc[a].kind # "addba" => A + loc[a].i < T
  BY <1>0, <1>2 DEF InPlace, Looping
<1>4. /\ A \in Int /\ T \in Int /\ loc[a].i \in Int /\ loc'[a].i = loc[a].i + 1
      /\ Reach \in Int
  BY <1>0, NumberIs, LocalHas, ReachIs, ReorderAssumption DEF GoesOn, TypeOK
<1>5. hand[a] < Reach
  <2>1. hand[a] # Empty
    BY <1>3, <1>4, NumberIs, LocalHas, ReorderAssumption DEF Empty, TypeOK
  <2> QED
    BY <2>1, SeenBelow DEF Apart, Known
<1>6. A + loc'[a].i <= Reach
  BY <1>3, <1>4, <1>5
<1>7. ~early' => out' < A + loc'[a].i /\ ordered'
  <2>1. ~early' => out' = A + loc[a].i /\ ordered'
    BY <1>0, <1>3
  <2> QED
    BY <1>4, <2>1
<1>8. ~early' /\ pc'[a] = "take" /\ loc'[a].kind # "addba" => out' < T
  BY <1>0, <1>3 DEF GoesOn
<1>9. InView(A, T, a)'
  BY <1>0, <1>2 DEF InView, GoesOn
<1>10. InPlace(A, T, a)'
  BY <1>0, <1>2, <1>6, <1>7, <1>8 DEF InPlace
<1> QED
  BY <1>0, <1>1, <1>2, <1>7, <1>9, <1>10, AnchorStays

\* The window begins at the frame it was to begin with ...
LEMMA AnchorUntilRotate ==
    ASSUME TypeOK, Carried, Orderly, Air, NEW a \in Agents, UntilRotate(a),
           loc[a].kind # "delba",
           NEW A \in Numbers, NEW T \in Numbers, Anchored(A, T)
    PROVE  \E B, U \in Numbers : Anchored(B, U)'
<1>0. /\ Only(a) /\ pc[a] = "take" /\ pc'[a] = AfterUntil(a) /\ start_win' = loc[a].start
      /\ UNCHANGED <<flags, hi, base, early>>
      /\ AfterUntil(a) \in {"test", "scan", "idle"}
      /\ CarriedBy(a)
  BY UntilRotateDoes DEF airVars, AfterUntil, Carried
<1>1. Others(a)
  BY <1>0, OthersIdle DEF Active, Orderly
<1>2. InView(A, T, a) /\ InPlace(A, T, a) /\ Reach' = Reach
  BY <1>0 DEF Anchored, Reach
<1>3. /\ T % SeqMod = start_win' % SeqMod /\ T <= Reach
      /\ loc[a].kind = "data" => loc[a].n = T + WinSize - 1
  BY <1>0, <1>2 DEF InView
<1>4. ~early => out' < T
  <2>1. CASE loc[a].kind = "addba"
    <3>1. out' = FirstFrame - 1 /\ T \in Int /\ FirstFrame <= T
      BY <2>1, UntilRotateDoes, NumberIs
    <3> QED
      BY <3>1, ReorderAssumption
  <2>2. CASE loc[a].kind # "addba"
    BY <1>0, <1>2, <2>2, UntilRotateDoes DEF InPlace
  <2> QED
    BY <2>1, <2>2
<1>5. InView(A, T, a)' /\ InView(T, T, a)'
  BY <1>0 DEF InView
<1>6. CASE AfterUntil(a) = "test"
  <2>1. /\ loc'[a].n = loc[a].n /\ loc'[a].kind = loc[a].kind
        /\ loc'[a].seq = loc[a].seq /\ loc'[a].start = loc[a].start
    BY <1>6, UntilRotateDoes
  <2>2. loc[a].kind = "data" => loc'[a].n = T + SlotOf(loc'[a])
    <3> SUFFICES ASSUME loc[a].kind = "data" PROVE loc'[a].n = T + SlotOf(loc'[a])
      OBVIOUS
    <3> DEFINE k == SlotOf(loc[a])
    <3>1. loc[a].n \in Frames
      <4>1. loc[a].n \in Frames \cup {Empty} /\ loc[a].n # Empty
        <5>1. loc[a].n = T + WinSize - 1
          BY <1>3
        <5> QED
          BY <5>1, LocalHas, NumberIs, ReorderAssumption DEF TypeOK, Empty
      <4> QED
        BY <4>1
    <3>2. loc[a].seq = loc[a].n % SeqMod /\ k \in Slots
      BY <1>0, <3>1, EmptyNoFrame DEF CarriedBy, Storing
    <3>3. k = ((loc[a].n % SeqMod) - loc[a].start) % SeqMod
      BY <3>2 DEF SlotOf
    <3> HIDE DEF k
    <3>4. loc[a].start \in 0 .. SeqMod
      BY LocalHas DEF TypeOK
    <3>5. (loc[a].start + k) % SeqMod = loc[a].n % SeqMod
      BY <3>1, <3>3, <3>4, SlotStandsFor
    <3>6. (T + k) % SeqMod = (loc[a].start + k) % SeqMod
      <4>1. k \in Int /\ loc[a].start \in Int /\ T \in Int /\ T % SeqMod = loc[a].start % SeqMod
        BY <1>0, <1>3, <3>2, <3>4, NumberIs, Space, ReorderAssumption DEF Slots
      <4> QED
        BY <4>1, SameShift
    <3>7. loc[a].n = T + k
      BY <1>3, <3>1, <3>2, <3>5, <3>6, FrameInPlace
    <3> QED
      BY <2>1, <3>7 DEF k, SlotOf
  <2>3. InPlace(T, T, a)'
    BY <1>0, <1>6, <2>1, <2>2 DEF InPlace, Looping
  <2> QED
    BY <1>0, <1>1, <1>2, <1>3, <1>4, <1>5, <2>3, AnchorStays
<1>7. CASE AfterUntil(a) = "scan"
  <2>1. loc'[a].i = 0 /\ T \in Int
    BY <1>7, UntilRotateDoes, NumberIs
  <2>2. T + loc'[a].i = T
    BY <2>1
  <2>3. InPlace(T, T, a)'
    BY <1>0, <1>2, <1>3, <1>4, <1>7, <2>2 DEF InPlace
  <2> QED
    BY <1>0, <1>1, <1>2, <1>3, <1>4, <1>5, <2>3, AnchorStays
<1>8. CASE AfterUntil(a) = "idle"
  <2>1. InPlace(T, T, a)'
    BY <1>0, <1>8 DEF InPlace, Looping
  <2> QED
    BY <1>0, <1>1, <1>2, <1>3, <1>4, <1>5, <2>1, AnchorStays
<1> QED
  BY <1>0, <1>6, <1>7, <1>8

\* ... or behind the packets that were in order.
LEMMA AnchorScanRotate ==
    ASSUME TypeOK, Orderly, Air, NEW a \in Agents, ScanRotate(a),
           NEW A \in Numbers, NEW T \in Numbers, Anchored(A, T)
    PROVE  \E B, U \in Numbers : Anchored(B, U)'
<1>0. /\ Only(a) /\ pc[a] = "rotate" /\ pc'[a] = "done"
      /\ UNCHANGED <<flags, hi, base, early, out>>
  BY ScanRotateDoes DEF airVars, histVars
<1>1. Others(a)
  BY <1>0, OthersIdle DEF Active, Orderly
<1>2. /\ A % SeqMod = start_win % SeqMod /\ InPlace(A, T, a) /\ Reach' = Reach
  BY <1>0 DEF Anchored, Reach
<1>3. A + loc[a].i <= Reach /\ (~early => out < A + loc[a].i)
  BY <1>0, <1>2 DEF InPlace, Looping
<1>4. A \in Int /\ FirstFrame <= A /\ loc[a].i \in Int /\ 0 <= loc[a].i /\ start_win \in Int
  BY NumberIs, LocalHas, Space, ReorderAssumption DEF TypeOK
<1>5. PICK B \in Int : B = A + loc[a].i
  BY <1>4
<1>6. B \in Numbers
  BY <1>3, <1>4, <1>5, ReachIs, ReorderAssumption DEF Numbers
<1>7. B % SeqMod = start_win' % SeqMod
  <2>1. PICK i \in Int : i = loc[a].i
    BY <1>4
  <2>2. (A + i) % SeqMod = (start_win + i) % SeqMod
    BY <1>2, <1>4, SameShift
  <2>3. start_win' = (start_win + i) % SeqMod
    BY <2>1, ScanRotateDoes
  <2>4. start_win + i \in Int
    BY <1>4
  <2>5. start_win' % SeqMod = (start_win + i) % SeqMod
    BY <2>3, <2>4, SameReduced
  <2> QED
    BY <1>5, <2>1, <2>2, <2>5
<1>8. InView(B, T, a)' /\ InPlace(B, T, a)'
  BY <1>0 DEF InView, InPlace, Looping
<1> QED
  BY <1>0, <1>1, <1>2, <1>3, <1>5, <1>6, <1>7, <1>8, AnchorStays

\* A step of a context that is at work on the table.
LEMMA RankedStep ==
    ASSUME TypeOK, Deleting, Carried, Window, Apart, Air, Ranked, NEW a \in Agents, Step(a)
    PROVE  Ranked'
<1>0. /\ overlap' = overlap /\ exists' = exists /\ Within(a)
      /\ Give(a) \/ ordered' = ordered
      /\ UntilTake(a) \/ early' = early
      /\ ~spent' => ~spent
  BY StepWithin, ClassifyDoes, TestDoes, StoreDoes, DropDoes, DoneDoes, UntilBeginDoes,
     UntilTakeDoes, UntilRotateDoes, ScanTakeDoes, ScanRotateDoes, GiveDoes
     DEF Step, tblVars, histVars, sideVars
<1> SUFFICES ASSUME ~overlap, ~spent' PROVE Ranked'
  BY <1>0 DEF Ranked
<1>1. Orderly /\ exists
  <2>1. Orderly
    BY DEF Window
  <2> QED
    BY <1>0, <2>1 DEF Orderly, Ending, Within, Inside
<1>2. Serving
  <2>1. Others(a) /\ pc[a] \notin {"idle", "wait", "stop", "free"}
    BY <1>0, <1>1, OthersIdle DEF Orderly, Within, Active
  <2> QED
    BY <1>1, <2>1 DEF Others, Active, Agents, Deleters, Serving
<1>3. (~early => ordered) /\ \E A, T \in Numbers : Anchored(A, T)
  BY <1>0, <1>1, <1>2 DEF Ranked
<1>4. PICK A \in Numbers, T \in Numbers : Anchored(A, T)
  BY <1>3
<1>5. ~early' => ordered'
  <2>1. CASE Give(a)
    BY <1>1, <1>3, <1>4, <2>1, AnchorGive
  <2>2. CASE ~Give(a)
    <3>1. ordered' = ordered
      BY <1>0, <2>2
    <3>2. ~early' => ~early
      BY <1>0, UntilTakeDoes
    <3> QED
      BY <1>3, <3>1, <3>2
  <2> QED
    BY <2>1, <2>2
<1>6. CASE UntilRotate(a) /\ loc[a].kind = "delba"
  <2>1. a \in Deleters /\ pc'[a] = "stop"
    BY <1>6, UntilRotateDoes DEF Carried, CarriedBy, AfterUntil
  <2> QED
    BY <1>0, <1>1, <1>5, <2>1 DEF Ranked, Serving
<1>7. ASSUME ~(UntilRotate(a) /\ loc[a].kind = "delba")
      PROVE  \E B, U \in Numbers : Anchored(B, U)'
  <2>1. CASE UntilTake(a)
    <3>1. /\ pc[a] = "take" /\ loc[a].i < loc[a].send /\ Only(a)
          /\ UNCHANGED <<start_win, flags, hi, base, out>>
      BY <2>1, UntilTakeDoes DEF airVars
    <3>2. CASE Takes(a, "give") /\ early' = (early \/ (~overlap /\ ~Ahead(loc[a])))
      <4>1. early' = (early \/ ~Ahead(loc[a]))
        BY <3>2
      <4> QED
        BY <1>1, <1>4, <3>1, <3>2, <4>1, AnchorTakes
    <3>3. CASE pc'[a] = "take" /\ GoesOn(a) /\ UNCHANGED <<hand, rx_reorder_ptr, early>>
      BY <1>1, <1>4, <3>1, <3>3, AnchorPasses
    <3> QED
      BY <2>1, <3>2, <3>3, UntilTakeDoes
  <2>2. CASE ScanTake(a)
    <3>1. pc[a] = "scan" /\ Only(a) /\ UNCHANGED <<start_win, flags, hi, base, out, early>>
      BY <2>2, ScanTakeDoes DEF airVars, histVars
    <3>2. CASE loc[a].i < WinSize /\ Takes(a, "pass")
      BY <1>1, <1>4, <3>1, <3>2, AnchorTakes
    <3>3. CASE pc'[a] = "rotate" /\ UNCHANGED <<loc, hand, rx_reorder_ptr>>
      <4>1. Others(a)
        BY <1>1, <3>1, OthersIdle DEF Orderly, Active
      <4>2. /\ A % SeqMod = start_win % SeqMod /\ A <= Reach /\ Reach' = Reach
            /\ InPlace(A, T, a)
        BY <1>4, <3>1 DEF Anchored, Reach
      <4>3. InView(A, T, a)' /\ InPlace(A, T, a)' /\ Looping(a)'
        BY <3>1, <3>3, <4>2 DEF InView, InPlace, Looping
      <4> QED
        BY <3>1, <4>1, <4>2, <4>3, AnchorStays
    <3> QED
      BY <2>2, <3>2, <3>3, ScanTakeDoes
  <2> QED
    BY <1>1, <1>3, <1>4, <1>7, <2>1, <2>2, AnchorClassify, AnchorReorder, AnchorUntilBegin,
       AnchorUntilRotate, AnchorScanRotate, AnchorGive DEF Step
<1> QED
  BY <1>0, <1>1, <1>5, <1>6, <1>7 DEF Ranked

\* The air moves and the table does not.
LEMMA AnchorQuiet ==
    ASSUME TypeOK, NEW A \in Numbers, NEW T \in Numbers, Anchored(A, T),
           Reach \in Int, Reach' \in Int, Reach <= Reach',
           UNCHANGED <<start_win, rx_reorder_ptr, out, hand>>, early => early',
           \/ "no_drop" \in flags' /\ ~dozing' => "no_drop" \in flags /\ ~dozing
           \/ \A a \in Agents : pc'[a] # "classify",
           \A a \in Agents : \/ pc'[a] = pc[a] /\ loc'[a] = loc[a]
                             \/ ~Looping(a) /\ pc'[a] \in Resting
    PROVE  \E B, U \in Numbers : Anchored(B, U)'
<1>0. A \in Int /\ T \in Int
  BY NumberIs
<1>1. \A a \in Agents : InView(A, T, a)'
  <2> SUFFICES ASSUME NEW a \in Agents PROVE InView(A, T, a)'
    OBVIOUS
  <2>1. InView(A, T, a)
    BY DEF Anchored
  <2>2. CASE pc'[a] = pc[a] /\ loc'[a] = loc[a]
    BY <1>0, <2>1, <2>2 DEF InView
  <2>3. CASE pc'[a] \in Resting
    BY <2>3 DEF InView, Resting
  <2> QED
    BY <2>2, <2>3
<1>2. \A a \in Agents : InPlace(A, T, a)' /\ (Looping(a) => Looping(a)')
  <2> SUFFICES ASSUME NEW a \in Agents PROVE InPlace(A, T, a)' /\ (Looping(a) => Looping(a)')
    OBVIOUS
  <2>1. InPlace(A, T, a)
    BY DEF Anchored
  <2>2. CASE pc'[a] = pc[a] /\ loc'[a] = loc[a]
    <3>1. pc'[a] \in {"scan", "pass", "rotate"} => A + loc'[a].i <= Reach'
      <4>1. A + loc[a].i \in Int
        BY <1>0, LocalHas, ReorderAssumption DEF TypeOK
      <4>2. A + loc[a].i <= Reach => A + loc[a].i <= Reach'
        BY <4>1
      <4> QED
        BY <2>1, <2>2, <4>2 DEF InPlace
    <3>2. InPlace(A, T, a)'
      BY <2>1, <2>2, <3>1 DEF InPlace, Looping, SlotOf
    <3> QED
      BY <2>2, <3>2 DEF Looping
  <2>3. CASE ~Looping(a) /\ pc'[a] \in Resting
    BY <2>3 DEF InPlace, Looping, Resting
  <2> QED
    BY <2>2, <2>3
<1>3. Anchored(A, T)'
  <2>1. A % SeqMod = start_win' % SeqMod /\ A <= Reach'
    BY <1>0 DEF Anchored
  <2>2. ~early' /\ (\A a \in Agents : ~Looping(a)') => out' < A
    BY <1>2 DEF Anchored
  <2> QED
    BY <1>1, <1>2, <2>1, <2>2 DEF Anchored
<1> QED
  BY <1>3

\* A packet, a request or an event begins its work, alone.
LEMMA AnchorBegins ==
    ASSUME NEW a \in Agents, Only(a), Others(a), ~Active(a),
           pc'[a] \in {"classify", "until", "find"},
           NEW A \in Numbers, NEW T \in Numbers, NEW U \in Numbers, Anchored(A, T),
           Reach \in Int, Reach' \in Int, Reach <= Reach',
           UNCHANGED <<start_win, out, early>>, InView(A, U, a)'
    PROVE  \E B, V \in Numbers : Anchored(B, V)'
<1>1. \A b \in Agents : ~Looping(b)
  BY DEF Looping, Others, Active
<1>2. A % SeqMod = start_win' % SeqMod /\ A <= Reach' /\ (~early' => out' < A)
  <2>1. A \in Int
    BY NumberIs
  <2> QED
    BY <1>1, <2>1 DEF Anchored
<1>3. InPlace(A, U, a)'
  BY DEF InPlace, Looping
<1> QED
  BY <1>2, <1>3, AnchorStays

LEMMA ReachGrows ==
    ASSUME TypeOK, TypeOK', base <= base', hi <= hi'
    PROVE  /\ Reach \in Int /\ Reach' \in Int /\ Reach <= Reach'
           /\ hi' + 1 <= Reach' /\ base' <= Reach'
<1>1. hi \in Int /\ base \in Int /\ hi' \in Int /\ base' \in Int
  BY ReorderAssumption DEF TypeOK
<1>2. Reach = IF hi + 1 < base THEN base ELSE hi + 1
  BY Zenon DEF Reach, Larger
<1>3. Reach' = IF hi' + 1 < base' THEN base' ELSE hi' + 1
  BY Zenon DEF Reach, Larger
<1>4. Reach \in Int /\ (Reach = hi + 1 \/ Reach = base)
      /\ hi + 1 <= Reach /\ base <= Reach
  BY <1>1, <1>2
<1>5. Reach' \in Int /\ hi' + 1 <= Reach' /\ base' <= Reach'
  <2>1. PICK h \in Int, b \in Int : h = hi' /\ b = base'
    BY <1>1
  <2>2. PICK r : r = Reach'
    OBVIOUS
  <2>3. r = IF h + 1 < b THEN b ELSE h + 1
    BY <1>3, <2>1, <2>2
  <2>4. r \in Int /\ h + 1 <= r /\ b <= r
    BY <2>3
  <2> QED
    BY <2>1, <2>2, <2>4
<1>6. Reach <= Reach'
  <2>1. PICK r \in Int, s \in Int : r = Reach /\ s = Reach'
    BY <1>4, <1>5
  <2>2. hi + 1 <= s /\ base <= s
    <3>1. PICK h \in Int, b \in Int : h = hi' /\ b = base'
      BY <1>1
    <3>2. hi <= h /\ base <= b
      BY <3>1
    <3>3. h + 1 <= s /\ b <= s
      BY <1>5, <2>1, <3>1
    <3> QED
      BY <1>1, <3>2, <3>3
  <2>3. r <= s
    BY <1>4, <2>1, <2>2
  <2> QED
    BY <2>1, <2>3
<1> QED
  BY <1>4, <1>5, <1>6

\* What the table was before the work began.
LEMMA RankedBefore ==
    ASSUME Window, Ranked, NEW a \in Agents, Others(a), ~Active(a), exists, ~overlap, ~spent
    PROVE  (~early => ordered) /\ \E A, T \in Numbers : Anchored(A, T)
<1>1. Serving
  BY DEF Others, Active, Agents, Deleters, Serving
<1> QED
  BY <1>1 DEF Ranked

LEMMA ComesGrows ==
    ASSUME TypeOK, Air, NEW n \in Sendable, Comes(n)
    PROVE  hi <= hi' /\ n < hi' + 1
<1>1. n \in Int /\ hi \in Int
  BY SendableIs, ReachIs
<1> QED
  BY <1>1 DEF Comes, Larger

\* A frame that comes is not too far ahead of the window.
LEMMA ComingInView ==
    ASSUME TypeOK, TypeOK', Air, Air', NEW a \in Agents, NEW n \in Sendable, Comes(n),
           base' = base, UNCHANGED <<flags, dozing>>, pc'[a] = "classify", loc'[a].seq = n % SeqMod,
           loc'[a].kind \in {"data", "sync"}, loc'[a].kind = "data" => loc'[a].n = n,
           NEW A \in Numbers, A <= Reach
    PROVE  n \in Numbers /\ Reach <= Reach' /\ InView(A, n, a)'
<1>1. /\ n \in Int /\ base <= n /\ n < base + WinSize /\ n \notin came
      /\ FirstFrame <= n /\ n <= Woken /\ A \in Int
      /\ "no_drop" \in flags /\ ~dozing => n = Woken
  BY SendableIs, NumberIs
<1>2. hi <= hi' /\ n < hi' + 1
  BY ComesGrows
<1>3. n \in Numbers
  BY <1>1, ReorderAssumption DEF Numbers
<1>4. /\ Reach \in Int /\ Reach <= base + WinSize
      /\ hi \in Int /\ base \in Int /\ (Reach = hi + 1 \/ Reach = base)
      /\ hi' \in Int /\ WinSize \in Int /\ Woken \in Int /\ base <= base'
  <2>1. hi' \in Int
    BY DEF TypeOK
  <2>2. base \in Int /\ base <= base'
    BY ReachIs
  <2> QED
    BY <2>1, <2>2, ReachIs, ReorderAssumption
<1>5. Reach <= Reach' /\ hi' + 1 <= Reach' /\ Reach' \in Int
  BY <1>2, <1>4, ReachGrows
<1>6. n < Reach'
  <2>1. PICK h \in Int, r \in Int : h = hi' /\ r = Reach'
    BY <1>4, <1>5
  <2>2. n < h + 1 /\ h + 1 <= r
    BY <1>2, <1>5, <2>1
  <2>3. n < r
    BY <1>1, <2>2
  <2> QED
    BY <2>1, <2>3
<1>7. A <= n + WinSize
  BY <1>1, <1>4
<1>8. "no_drop" \in flags /\ ~dozing => A <= n
  <2> SUFFICES ASSUME "no_drop" \in flags, ~dozing PROVE A <= n
    OBVIOUS
  <2>1. n = Woken /\ base <= Woken /\ Woken <= base
    BY <1>1, <1>4 DEF Air
  <2>2. base = n
    BY <1>4, <2>1
  <2>3. ~(hi >= base)
    <3> SUFFICES ASSUME hi >= base PROVE FALSE
      OBVIOUS
    <3>1. hi \in came /\ hi <= Woken
      BY DEF Air
    <3>2. hi = n
      BY <1>4, <2>1, <3>1
    <3> QED
      BY <1>1, <3>1, <3>2
  <2> QED
    BY <1>1, <1>4, <2>2, <2>3
<1> QED
  BY <1>1, <1>3, <1>4, <1>5, <1>6, <1>7, <1>8 DEF InView

\* Whatever begins its work on a table that nobody works on has a frame in view.
LEMMA RankedBegins ==
    ASSUME TypeOK, TypeOK', Window, Ranked, NEW a \in Agents, Only(a), Meets(a), ~overlap',
           ~Active(a), pc'[a] \in {"classify", "until", "find"}, exists, exists',
           start_win' = start_win, base <= base', hi <= hi', spent' = spent,
           \A A \in Numbers : A <= Reach /\ A % SeqMod = start_win % SeqMod
                                 => \E U \in Numbers : InView(A, U, a)'
    PROVE  Ranked'
<1> SUFFICES ASSUME ~spent PROVE Ranked'
  BY DEF Ranked
<1>1. ~overlap /\ Others(a) /\ UNCHANGED <<out, ordered, early>>
  BY MeetsNobody
<1>2. (~early => ordered) /\ \E A, T \in Numbers : Anchored(A, T)
  BY <1>1, RankedBefore
<1>3. PICK A \in Numbers, T \in Numbers : Anchored(A, T)
  BY <1>2
<1>4. A <= Reach /\ A % SeqMod = start_win % SeqMod
  BY <1>3 DEF Anchored
<1>5. PICK U \in Numbers : InView(A, U, a)'
  BY <1>4
<1>6. Reach \in Int /\ Reach' \in Int /\ Reach <= Reach'
  BY ReachGrows
<1>7. \E B, V \in Numbers : Anchored(B, V)'
  BY <1>1, <1>3, <1>5, <1>6, AnchorBegins
<1> QED
  BY <1>1, <1>2, <1>7 DEF Ranked

\* Nothing in the table moves.
LEMMA RankedQuiet ==
    ASSUME TypeOK, TypeOK', Ranked, base <= base', hi <= hi',
           UNCHANGED <<exists, start_win, rx_reorder_ptr, out, ordered, overlap, spent, hand>>,
           early => early',
           \/ "no_drop" \in flags' /\ ~dozing' => "no_drop" \in flags /\ ~dozing
           \/ \A a \in Agents : pc'[a] # "classify",
           \A a \in Agents : \/ pc'[a] = pc[a] /\ loc'[a] = loc[a]
                             \/ ~Active(a) /\ pc'[a] \in Resting
    PROVE  Ranked'
<1> SUFFICES ASSUME ~overlap, ~spent, Serving'
             PROVE  \E B, U \in Numbers : Anchored(B, U)'
  BY DEF Ranked
<1>1. Serving
  BY DEF Agents, Deleters, Serving, Active
<1>2. PICK A \in Numbers, T \in Numbers : Anchored(A, T)
  BY <1>1 DEF Ranked
<1>3. Reach \in Int /\ Reach' \in Int /\ Reach <= Reach'
  BY ReachGrows
<1>4. \A a \in Agents : \/ pc'[a] = pc[a] /\ loc'[a] = loc[a]
                        \/ ~Looping(a) /\ pc'[a] \in Resting
  BY DEF Looping, Active
<1> QED
  BY <1>2, <1>3, <1>4, AnchorQuiet

\* A packet, or a frame the firmware had to drop, comes in.
LEMMA RankedComes ==
    ASSUME TypeOK, TypeOK', Air, Air', Window, Ranked, NEW n, RxData(n) \/ RxbaSync(n)
    PROVE  Ranked'
<1> SUFFICES ASSUME ~overlap' PROVE Ranked'
  BY DEF Ranked
<1>1. PICK a \in Agents :
        /\ pc[a] = "idle" /\ pc'[a] = "classify" /\ Only(a) /\ Meets(a)
        /\ loc'[a].seq = n % SeqMod /\ loc'[a].kind \in {"data", "sync"}
        /\ loc'[a].kind = "data" => loc'[a].n = n
        /\ n \in Sendable /\ Comes(n) /\ base' = base /\ exists
        /\ UNCHANGED <<tblVars, dozing, spent>>
  <2>1. CASE RxData(n)
    <3>1. "rx" \in Agents
      BY DEF Agents
    <3> QED
      BY <2>1, <3>1, RxDataDoes DEF sideVars
  <2>2. CASE RxbaSync(n)
    <3>1. "main" \in Agents
      BY DEF Agents
    <3> QED
      BY <2>2, <3>1, RxbaSyncDoes
  <2> QED
    BY <2>1, <2>2
<1>2. start_win' = start_win /\ flags' = flags /\ exists' /\ ~Active(a)
  BY <1>1 DEF tblVars, Active
<1>3. base <= base' /\ hi <= hi'
  BY <1>1, ReachIs, ComesGrows
<1>4. \A A \in Numbers : A <= Reach => \E U \in Numbers : InView(A, U, a)'
  BY <1>1, <1>2, ComingInView
<1> QED
  BY <1>1, <1>2, <1>3, <1>4, RankedBegins

\* A block ack request, and a new agreement for a table that is there: the window
\* is to begin where the sender's begins.
LEMMA RankedRequests ==
    ASSUME TypeOK, TypeOK', Air, Window, Ranked, RxBar \/ AddbaAgain
    PROVE  Ranked'
<1> SUFFICES ASSUME ~overlap' PROVE Ranked'
  BY DEF Ranked
<1>1. PICK a \in Agents :
        /\ pc[a] = "idle" /\ Only(a) /\ Meets(a) /\ UNCHANGED <<base, hi, tblVars, dozing, spent>>
        /\ exists
        /\ \/ pc'[a] = "classify" /\ loc'[a].kind = "bar" /\ loc'[a].seq = base % SeqMod
           \/ pc'[a] = "until" /\ loc'[a].kind = "addba" /\ loc'[a].start = base % SeqMod
  <2>1. CASE RxBar
    <3>1. "rx" \in Agents
      BY DEF Agents
    <3> QED
      BY <2>1, <3>1, RxBarDoes DEF sideVars
  <2>2. CASE AddbaAgain
    <3>1. "main" \in Agents
      BY DEF Agents
    <3> QED
      BY <2>2, <3>1, AddbaAgainDoes
  <2> QED
    BY <2>1, <2>2
<1>2. /\ start_win' = start_win /\ flags' = flags /\ exists' /\ ~Active(a)
      /\ base' = base /\ hi' = hi
  BY <1>1 DEF tblVars, Active
<1>3. /\ base \in Int /\ hi \in Int /\ Reach \in Int /\ base <= Reach /\ Reach <= base + WinSize
      /\ Reach <= Woken + 1 /\ FirstFrame <= base /\ base <= Woken + 1
      /\ "no_drop" \in flags /\ ~dozing => base >= Woken
  BY ReachIs DEF Air
<1>4. base \in Numbers
  BY <1>3, ReorderAssumption DEF Numbers
<1>5. Reach' = Reach
  BY <1>2 DEF Reach
<1>6. (base % SeqMod) % SeqMod = base % SeqMod
  BY <1>3, SameReduced
<1>7. ASSUME NEW A \in Numbers, A <= Reach
      PROVE  InView(A, base, a)'
  <2>1. A \in Int /\ A <= base + WinSize /\ ("no_drop" \in flags /\ ~dozing => A <= base + 1)
    BY <1>3, <1>7, NumberIs, ReorderAssumption
  <2> QED
    BY <1>1, <1>2, <1>3, <1>5, <1>6, <2>1 DEF InView
<1>8. base <= base' /\ hi <= hi'
  BY <1>2, <1>3
<1> QED
  BY <1>1, <1>2, <1>4, <1>7, <1>8, RankedBegins

\* What only moves the air, a deletion that waits for the worker, and the end of one.
LEMMA RankedAir ==
    ASSUME TypeOK, TypeOK', Air, Ranked,
           \/ SenderMoves \/ \E n \in Sent : Direct(n) \/ RxAmsdu(n)
           \/ \E d \in Deleters : Delba(d) \/ ResetSeq(d)
    PROVE  Ranked'
<1> DEFINE Steady == /\ UNCHANGED <<tblVars, hand, out, ordered, overlap, dozing, spent>>
                     /\ early => early'
<1>1. Steady
  <2>1. CASE SenderMoves
    BY <2>1 DEF SenderMoves, agentVars, sideVars
  <2>2. ASSUME NEW n \in Sent, Direct(n)
        PROVE  Steady
    BY <2>2 DEF Direct, agentVars, sideVars
  <2>3. ASSUME NEW n \in Sent, RxAmsdu(n)
        PROVE  Steady
    BY <2>3 DEF RxAmsdu, agentVars, sideVars
  <2>4. ASSUME NEW d \in Deleters, Delba(d)
        PROVE  Steady
    BY <2>4 DEF Delba, histVars
  <2>5. ASSUME NEW d \in Deleters, ResetSeq(d)
        PROVE  Steady
    BY <2>5 DEF ResetSeq, histVars, sideVars
  <2> QED
    BY <2>1, <2>2, <2>3, <2>4, <2>5
<1>2. base <= base' /\ hi <= hi'
  <2>0. base \in Int /\ hi \in Int
    BY ReachIs
  <2>1. CASE SenderMoves
    BY <2>0, <2>1 DEF SenderMoves
  <2>2. CASE \E d \in Deleters : Delba(d) \/ ResetSeq(d)
    <3>1. base' = base /\ hi' = hi
      BY <2>2 DEF Delba, ResetSeq
    <3> QED
      BY <2>0, <3>1
  <2>3. ASSUME NEW n \in Sent, Direct(n) \/ RxAmsdu(n)
        PROVE  base <= base' /\ hi <= hi'
    <3>1. n \in Sendable /\ Comes(n) /\ base' = base
      BY <2>3 DEF Direct, RxAmsdu
    <3> QED
      BY <2>0, <3>1, ComesGrows
  <2> QED
    BY <2>1, <2>2, <2>3
<1>3. \A a \in Agents : \/ pc'[a] = pc[a] /\ loc'[a] = loc[a]
                        \/ ~Active(a) /\ pc'[a] \in Resting
  <2>1. ASSUME NEW d \in Deleters, Delba(d) \/ ResetSeq(d)
        PROVE  Only(d) /\ ~Active(d) /\ pc'[d] \in Resting
    BY <2>1, DelbaDoes, ResetSeqDoes DEF Active, Resting
  <2>2. CASE \E d \in Deleters : Delba(d) \/ ResetSeq(d)
    BY <2>1, <2>2 DEF Only
  <2>3. CASE SenderMoves \/ \E n \in Sent : Direct(n) \/ RxAmsdu(n)
    BY <2>3 DEF SenderMoves, Direct, RxAmsdu, agentVars
  <2> QED
    BY <2>2, <2>3
<1> QED
  BY <1>1, <1>2, <1>3, RankedQuiet DEF tblVars

\* The timer expires, or the worker has been waited for.
LEMMA RankedFlushes ==
    ASSUME TypeOK, TypeOK', Deleting, Air, Window, Ranked, TimerExpires \/ \E d \in Deleters : FlushWorker(d)
    PROVE  Ranked'
<1> SUFFICES ASSUME ~overlap' PROVE Ranked'
  BY DEF Ranked
<1>0. /\ base \in Int /\ hi \in Int /\ Reach \in Int /\ Reach <= Woken + 1
      /\ "timer" \in Agents /\ Deleters \subseteq Agents
  BY ReachIs DEF Agents, Deleters
<1>1. CASE TimerExpires
  <2>1. /\ Only("timer") /\ Meets("timer") /\ pc["timer"] = "idle" /\ pc'["timer"] = "find"
        /\ UNCHANGED <<exists, start_win, base, hi, spent>> /\ armed
    BY <1>1, TimerExpiresDoes DEF tblVars, airVars, sideVars
  <2>2. ~overlap /\ Orderly
    BY <1>0, <2>1, MeetsNobody DEF Window
  <2>3. exists /\ exists' /\ ~Active("timer") /\ base <= base' /\ hi <= hi'
    BY <1>0, <2>1, <2>2 DEF Orderly, Ending, Active, Inside
  <2>4. \A A \in Numbers : InView(A, A, "timer")'
    BY <2>1 DEF InView
  <2> QED
    BY <1>0, <2>1, <2>3, <2>4, RankedBegins
<1>2. ASSUME NEW d \in Deleters, FlushWorker(d)
      PROVE  Ranked'
  <2>1. /\ Only(d) /\ Meets(d) /\ pc[d] = "wait" /\ pc'[d] = "until"
        /\ UNCHANGED <<exists, start_win, base, hi, spent>> /\ loc'[d].kind = loc[d].kind
        /\ loc'[d].start = (start_win + WinSize) % SeqMod
    BY <1>2, FlushWorkerDoes DEF tblVars, airVars, sideVars
  <2>2. ~overlap /\ Orderly
    BY <1>0, <2>1, MeetsNobody DEF Window
  <2>3. exists /\ exists' /\ ~Active(d) /\ base <= base' /\ hi <= hi'
    BY <1>0, <2>1, <2>2 DEF Orderly, Ending, Active, Inside
  <2>4. loc'[d].kind = "delba"
    BY <2>1 DEF Deleting
  <2>5. ASSUME NEW A \in Numbers, A <= Reach, A % SeqMod = start_win % SeqMod
        PROVE  \E U \in Numbers : InView(A, U, d)'
    <3>1. A \in Int /\ start_win \in Int /\ WinSize \in Int /\ FirstFrame <= A
      BY NumberIs, Space, ReorderAssumption DEF TypeOK
    <3>2. PICK U \in Int : U = A + WinSize
      BY <3>1
    <3>3. U \in Numbers /\ A <= U
      BY <1>0, <2>5, <3>1, <3>2, ReorderAssumption DEF Numbers
    <3>4. U % SeqMod = loc'[d].start % SeqMod
      <4>1. (A + WinSize) % SeqMod = (start_win + WinSize) % SeqMod
        BY <2>5, <3>1, SameShift
      <4>2. start_win + WinSize \in Int
        BY <3>1
      <4>3. ((start_win + WinSize) % SeqMod) % SeqMod = (start_win + WinSize) % SeqMod
        BY <4>2, SameReduced
      <4> QED
        BY <2>1, <3>2, <4>1, <4>3
    <3>5. InView(A, U, d)'
      BY <2>1, <2>4, <3>2, <3>3, <3>4 DEF InView
    <3> QED
      BY <3>3, <3>5
  <2> QED
    BY <1>0, <2>1, <2>3, <2>5, RankedBegins
<1> QED
  BY <1>1, <1>2

\* The flush: the window is to begin behind the last packet of the table, which
\* is one the firmware has handed over.
LEMMA RankedFlush ==
    ASSUME TypeOK, TypeOK', Carried, Apart, Air, Window, Ranked, FlushFind \/ FlushFrom
    PROVE  Ranked'
<1>0. /\ "timer" \in Agents /\ Active("timer") /\ Only("timer")
      /\ UNCHANGED <<exists, start_win, flags, rx_reorder_ptr, hi, base, out, ordered, early,
                     overlap, hand, spent>>
  BY FlushFindDoes, FlushFromDoes DEF Agents, Active, tblVars, airVars, histVars, sideVars
<1> SUFFICES ASSUME ~overlap, ~spent PROVE Ranked'
  BY <1>0 DEF Ranked
<1>1. Orderly /\ Others("timer") /\ exists
  <2>1. Orderly
    BY DEF Window
  <2>2. exists
    BY <1>0, <2>1 DEF Orderly, Ending, Active, Inside
  <2> QED
    BY <1>0, <2>1, <2>2, OthersIdle DEF Orderly
<1>2. Serving
  BY <1>1 DEF Others, Active, Agents, Deleters, Serving
<1>3. (~early => ordered) /\ \E A, T \in Numbers : Anchored(A, T)
  BY <1>1, <1>2 DEF Ranked
<1>4. PICK A \in Numbers, T \in Numbers : Anchored(A, T)
  BY <1>3
<1>5. /\ A % SeqMod = start_win % SeqMod /\ A <= Reach /\ Reach' = Reach
      /\ InPlace(A, T, "timer")
  BY <1>0, <1>4 DEF Anchored, Reach
<1>6. ~early => out < A
  <2>1. \A a \in Agents : ~Looping(a)
    <3>1. ~Looping("timer")
      BY FlushFindDoes, FlushFromDoes DEF Looping
    <3> QED
      BY <1>1, <3>1 DEF Others, Active, Looping
  <2> QED
    BY <1>4, <2>1 DEF Anchored
<1>7. \E B, U \in Numbers : Anchored(B, U)'
  <2>1. CASE FlushFind
    <3>1. InView(A, T, "timer")' /\ InPlace(A, T, "timer")'
      BY <1>0, <2>1, FlushFindDoes DEF InView, InPlace, Looping
    <3> QED
      BY <1>0, <1>1, <1>5, <1>6, <3>1, AnchorStays
  <2>2. CASE FlushFrom
    <3>1. /\ pc["timer"] = "flush" /\ pc'["timer"] = "until" /\ loc'["timer"].kind = "flush"
          /\ loc'["timer"].start = (start_win + loc["timer"].i + 1) % SeqMod
      BY <1>0, <2>2, FlushFromDoes DEF Carried, CarriedBy
    <3>2. PICK i \in Slots : i = loc["timer"].i /\ rx_reorder_ptr[i] # Empty
      BY <1>5, <3>1 DEF InPlace
    <3>3. A + i < Reach
      BY <1>1, <1>5, <3>2, SlotFrame DEF Orderly
    <3>4. /\ A \in Int /\ i \in Int /\ 0 <= i /\ start_win \in Int /\ FirstFrame <= A
          /\ Reach \in Int /\ Reach <= Woken + 1
      BY NumberIs, ReachIs, Space, ReorderAssumption DEF TypeOK, Slots
    <3>5. PICK U \in Int : U = A + (i + 1)
      BY <3>4
    <3>6. U \in Numbers /\ A <= U /\ U <= Reach
      BY <3>3, <3>4, <3>5, ReorderAssumption DEF Numbers
    <3>7. U % SeqMod = loc'["timer"].start % SeqMod
      <4>1. (A + (i + 1)) % SeqMod = (start_win + (i + 1)) % SeqMod
        <5>1. PICK d \in Int : d = i + 1
          BY <3>4
        <5>2. (A + d) % SeqMod = (start_win + d) % SeqMod
          BY <1>5, <3>4, SameShift
        <5> QED
          BY <5>1, <5>2
      <4>2. start_win + (i + 1) \in Int /\ start_win + i + 1 = start_win + (i + 1)
        BY <3>4
      <4>3. ((start_win + (i + 1)) % SeqMod) % SeqMod = (start_win + (i + 1)) % SeqMod
        BY <4>2, SameReduced
      <4> QED
        BY <3>1, <3>2, <3>5, <4>1, <4>2, <4>3
    <3>8. InView(A, U, "timer")' /\ InPlace(A, U, "timer")'
      BY <1>5, <3>1, <3>6, <3>7 DEF InView, InPlace, Looping
    <3> QED
      BY <1>0, <1>1, <1>5, <1>6, <3>6, <3>8, AnchorStays
  <2> QED
    BY <2>1, <2>2
<1> QED
  BY <1>0, <1>1, <1>3, <1>7 DEF Ranked

\* A table is made: its window begins at the sender's, or behind the last packet
\* of the TID that was seen.
LEMMA RankedCreate ==
    ASSUME TypeOK, TypeOK', Air, Window, Ranked, Create
    PROVE  Ranked'
<1>0. /\ ~exists /\ UNCHANGED <<pc, loc, hand, hi, base, out, ordered, early, overlap>>
      /\ ~spent' => ~spent
      /\ \/ /\ rx_seq # None /\ start_win' = rx_seq + 1
         \/ start_win' = base % SeqMod
  BY DEF Create, agentVars, airVars, histVars
<1> SUFFICES ASSUME ~overlap, ~spent' PROVE Ranked'
  BY <1>0 DEF Ranked
<1>1. (~early => ordered) /\ out = FirstFrame - 1 /\ \A a \in Agents : ~Inside(a)
  BY <1>0 DEF Ranked, Window, Orderly, Ending
<1>2. /\ base \in Int /\ hi \in Int /\ FirstFrame <= base /\ base <= Woken + 1 /\ hi <= Woken
      /\ hi + 1 <= Reach /\ base <= Reach /\ Reach' = Reach
  BY <1>0, ReachIs DEF Air, Reach
<1>3. PICK A \in Numbers : A % SeqMod = start_win' % SeqMod /\ A <= Reach
  <2>1. CASE start_win' = base % SeqMod
    <3>1. base \in Numbers
      BY <1>2, ReorderAssumption DEF Numbers
    <3>2. (base % SeqMod) % SeqMod = base % SeqMod
      BY <1>2, SameReduced
    <3> QED
      BY <1>2, <2>1, <3>1, <3>2
  <2>2. CASE rx_seq # None /\ start_win' = rx_seq + 1
    <3>1. PICK n \in FirstFrame .. hi : n % SeqMod = rx_seq
      BY <2>2 DEF Air
    <3>2. n \in Int /\ FirstFrame <= n /\ n <= hi /\ rx_seq \in Int
      BY <1>2, <3>1, Space, ReorderAssumption DEF TypeOK
    <3>3. PICK A \in Int : A = n + 1
      BY <3>2
    <3>4. A \in Numbers /\ A <= hi + 1 /\ hi + 1 \in Int
      BY <1>2, <3>2, <3>3, ReorderAssumption DEF Numbers
    <3>5. n % SeqMod = rx_seq % SeqMod
      BY <3>1, <3>2, SameReduced
    <3>6. (n + 1) % SeqMod = (rx_seq + 1) % SeqMod
      BY <3>2, <3>5, SameShift
    <3>7. Reach \in Int /\ A <= Reach
      BY <1>2, <3>3, <3>4, ReachIs
    <3> QED
      BY <2>2, <3>3, <3>4, <3>6, <3>7
  <2> QED
    BY <1>0, <2>1, <2>2
<1>4. \A a \in Agents : InView(A, A, a)' /\ InPlace(A, A, a)'
  BY <1>0, <1>1 DEF InView, InPlace, Looping, Inside
<1>5. out' < A
  BY <1>0, <1>1, NumberIs, ReorderAssumption
<1>6. Anchored(A, A)'
  BY <1>2, <1>3, <1>4, <1>5 DEF Anchored
<1> QED
  BY <1>0, <1>1, <1>6 DEF Ranked, Create

\* The host is about to sleep, and sleeps: the sender's window moves, and the
\* table's does not.
LEMMA RankedSleep ==
    ASSUME TypeOK, TypeOK', Air, Window, Ranked, HsActivated \/ Asleep
    PROVE  Ranked'
<1> SUFFICES ASSUME ~overlap' PROVE Ranked'
  BY DEF Ranked
<1>0. UNCHANGED <<exists, start_win, rx_reorder_ptr, pc, loc, hand, spent>>
  BY DEF HsActivated, Asleep, tblVars, agentVars
<1>1. CASE HsActivated
  <2>1. "main" \in Agents /\ Meets("main") /\ pc["main"] = "idle" /\ base' = base /\ hi' = hi
    BY <1>1 DEF HsActivated, Agents
  <2>2. ~overlap /\ UNCHANGED <<out, ordered, early>>
    BY <2>1, MeetsNobody
  <2>3. dozing' = TRUE
    BY <1>1 DEF HsActivated
  <2>4. base <= base' /\ hi <= hi'
    BY <2>1, ReachIs
  <2> QED
    <3>1. \A a \in Agents : pc'[a] = pc[a] /\ loc'[a] = loc[a]
      BY <1>0
    <3>2. overlap' = overlap
      BY <2>2 DEF TypeOK
    <3> QED
      BY <1>0, <2>2, <2>3, <2>4, <3>1, <3>2, RankedQuiet
<1>2. CASE Asleep
  <2>1. ~overlap /\ UNCHANGED <<out, ordered, early>> /\ \A a \in Agents : ~Active(a)
    BY <1>2 DEF Asleep
  <2>2. \A a \in Agents : pc'[a] # "classify"
    BY <1>0, <2>1 DEF Active
  <2>3. base <= base' /\ hi <= hi'
    <3>1. hi \in Int /\ base \in Int /\ Woken \in Int
      BY ReachIs, ReorderAssumption
    <3> QED
      BY <1>2, <3>1 DEF Asleep, Larger
  <2> QED
    <3>1. \A a \in Agents : pc'[a] = pc[a] /\ loc'[a] = loc[a]
      BY <1>0
    <3>2. overlap' = overlap
      BY <2>1 DEF TypeOK
    <3> QED
      BY <1>0, <2>1, <2>2, <2>3, <3>1, <3>2, RankedQuiet
<1> QED
  BY <1>1, <1>2

\* The table is freed, and its order with it.
LEMMA RankedDeletion ==
    ASSUME TypeOK, Window, Ranked, NEW d \in Deleters, StopTimer(d) \/ Free(d)
    PROVE  Ranked'
<1> SUFFICES ASSUME ~overlap' PROVE Ranked'
  BY DEF Ranked
<1>1. CASE StopTimer(d)
  <2>1. /\ pc[d] = "stop" /\ pc'[d] = "free"
        /\ UNCHANGED <<exists, out, ordered, early, overlap, spent>>
    BY <1>1, StopTimerDoes DEF tblVars, histVars, sideVars
  <2> QED
    BY <2>1 DEF Ranked, Serving
<1>2. CASE Free(d)
  <2>1. ~exists' /\ out' = FirstFrame - 1 /\ ordered' = TRUE
    BY <1>2, FreeDoes DEF NewOrder
  <2> QED
    BY <2>1 DEF Ranked, Serving
<1> QED
  BY <1>1, <1>2

LEMMA RankedNext ==
    ASSUME TypeOK, TypeOK', Deleting, Carried, Window, Apart, Air, Air', Ranked, [Next]_vars
    PROVE  Ranked'
<1>1. CASE UNCHANGED vars
  <2>1. /\ UNCHANGED <<exists, start_win, flags, rx_reorder_ptr, out, ordered, early, overlap,
                       spent, dozing, hand>>
        /\ base' = base /\ hi' = hi /\ pc' = pc /\ loc' = loc
    BY <1>1 DEF vars, tblVars, agentVars, airVars, histVars, sideVars
  <2>2. base <= base' /\ hi <= hi'
    BY <2>1, ReachIs
  <2>3. \A a \in Agents : pc'[a] = pc[a] /\ loc'[a] = loc[a]
    BY <2>1
  <2> QED
    BY <2>1, <2>2, <2>3, RankedQuiet
<1>2. CASE Next
  <2>1. CASE Arrivals
    BY <2>1, RankedAir, RankedComes, RankedRequests, RankedCreate, RankedSleep DEF Arrivals
  <2>2. CASE Handlers \/ TimerExpires
    BY <2>2, RankedFlushes, RankedFlush, RankedDeletion, RankedAir DEF Handlers, Deletion
  <2>3. CASE \E a \in Agents : Step(a)
    BY <2>3, RankedStep
  <2> QED
    BY <1>2, <2>1, <2>2, <2>3 DEF Next
<1> QED
  BY <1>1, <1>2

LEMMA RankedInit == Init => Apart /\ Air /\ Ranked
<1> SUFFICES ASSUME Init PROVE Apart /\ Air /\ Ranked
  OBVIOUS
<1>1. Apart
  BY DEF Init, Apart, NotTwice, Known, Idle
<1>2. Air
  <2>1. /\ base = FirstFrame /\ hi = FirstFrame - 1 /\ came = {} /\ rx_seq = None /\ flags = {}
    BY DEF Init
  <2> QED
    BY <2>1, ReorderAssumption DEF Air
<1>3. Ranked
  BY DEF Init, Ranked, Serving
<1> QED
  BY <1>1, <1>2, <1>3

RankedInv == TypeOK /\ Holding /\ Deleting /\ Carried /\ Window /\ Apart /\ Air /\ Ranked

LEMMA AlwaysRanked == Spec => []RankedInv
<1>1. Init => RankedInv
  <2>1. Init => Deleting
    BY DEF Init, Deleting, Inside, Idle, Deleters, Agents
  <2> QED
    BY <2>1, TypeInit, WindowInit, RankedInit DEF RankedInv
<1>2. RankedInv /\ [Next]_vars => RankedInv'
  <2> SUFFICES ASSUME RankedInv, [Next]_vars PROVE RankedInv'
    OBVIOUS
  <2>1. TypeOK /\ Holding /\ Deleting /\ Carried /\ Window /\ Apart /\ Air /\ Ranked
    BY DEF RankedInv
  <2>2. TypeOK' /\ Holding' /\ Deleting' /\ Carried' /\ Window' /\ Apart' /\ Air'
    BY <2>1, TypeNext, DeletingNext, CarriedNext, WindowNext, ApartNext, AirNext
  <2>3. Ranked'
    BY <2>1, <2>2, RankedNext
  <2> QED
    BY <2>2, <2>3 DEF RankedInv
<1> QED
  BY <1>1, <1>2, PTL DEF Spec

\* The table's packets go up in the order they were sent in: through losses, moves
\* of the window, flushes, block ack requests, events of the firmware and the
\* wrapping of the sequence numbers (mwifiex_11n_rx_reorder_pkt and the loops it
\* calls).  The exceptions are contexts that meet in the table, a packet dispatched
\* from behind the window's new beginning, an A-MSDU that went up past the table
\* (11n_rxreorder.c:582-585), and a frame let through by RXREOR_FORCE_NO_DROP
\* before the host slept (596-599); and the order begins anew where the table is
\* deleted, its agreement is renewed, or the sender starts over.
THEOREM DispatchedInOrder == Spec => []InOrder
<1>1. RankedInv => InOrder
  BY DEF RankedInv, Ranked, InOrder
<1> QED
  BY <1>1, AlwaysRanked, PTL

\* A table that is deleted is empty, unless contexts meet: "dispatches all the
\* pending packets in the Rx reorder table before deletion"
\* (mwifiex_del_rx_reorder_entry).
THEOREM DeletedEmpty ==
    Spec => [](~overlap /\ (\E d \in Deleters : pc[d] = "free") => AllEmpty)
<1>1. Window => (~overlap /\ (\E d \in Deleters : pc[d] = "free") => AllEmpty)
  BY DEF Window, Orderly, Ending
<1> QED
  BY <1>1, AlwaysWindow, PTL

\* The slot a packet is bound for is free when it is tested.
SlotFree ==
    ~overlap /\ ~spent => \A a \in Agents : pc[a] = "test" /\ loc[a].kind = "data"
                                    => rx_reorder_ptr[SlotOf(loc[a])] = Empty

LEMMA FreeSlot == RankedInv => SlotFree
<1> SUFFICES ASSUME RankedInv, ~overlap, ~spent, NEW a \in Agents, pc[a] = "test",
                    loc[a].kind = "data"
             PROVE  rx_reorder_ptr[SlotOf(loc[a])] = Empty
  BY DEF SlotFree
<1>1. TypeOK /\ Deleting /\ Carried /\ Apart /\ Air /\ Ranked /\ Orderly
  BY DEF RankedInv, Window
<1> DEFINE k == SlotOf(loc[a])
<1>2. k \in Slots
  BY <1>1 DEF Carried, CarriedBy, Storing
<1>3. Active(a) /\ Others(a) /\ exists
  <2>1. Active(a)
    BY DEF Active
  <2> QED
    BY <1>1, <2>1, OthersIdle DEF Orderly, Ending, Inside
<1>4. Serving
  BY <1>3 DEF Others, Active, Agents, Deleters, Serving
<1>5. PICK A \in Numbers, T \in Numbers : Anchored(A, T)
  BY <1>1, <1>3, <1>4 DEF Ranked
<1>6. A <= Reach /\ A % SeqMod = start_win % SeqMod /\ loc[a].n = A + k
  BY <1>5 DEF Anchored, InPlace
<1> HIDE DEF k
<1>7. ASSUME rx_reorder_ptr[k] # Empty PROVE FALSE
  <2>1. rx_reorder_ptr[k] = A + k
    BY <1>1, <1>2, <1>6, <1>7, SlotFrame DEF Orderly
  <2>2. rx_reorder_ptr[k] # loc[a].n
    BY <1>1, <1>2, <1>7 DEF Apart, NotTwice
  <2> QED
    BY <1>6, <2>1, <2>2
<1> QED
  BY <1>7 DEF k

\* The slot of a packet is free when it comes, unless contexts meet or a frame was
\* let through by RXREOR_FORCE_NO_DROP before the host slept: none is dropped for
\* another one that has its place (the test before the store in
\* mwifiex_11n_rx_reorder_pkt), however the numbers wrap.
THEOREM NoneTakenForAnother == Spec => []SlotFree
BY FreeSlot, AlwaysRanked, PTL
-------------------------------------------------------------------------------
(***************************************************************************)
(* The newest packet.                                                      *)
(***************************************************************************)
\* The newest frame is at most this far ahead of the window: every frame that
\* bypassed the table may have brought it one stride further.
Slack == WinSize - 1 + (Most - left) * Stride

\* The newest frame is at most d ahead of the number v stands for.
Nearby(v, d) == \A N \in Numbers : N % SeqMod = v % SeqMod => hi <= N + d
NotPast(v)   == \A N \in Numbers : N % SeqMod = v % SeqMod => N <= hi

\* What the sender has got to, and what a new table would begin with.
Aired ==
    /\ left \in 0 .. Most /\ base <= hi + Gap + 1
    /\ rx_seq # None => \E m \in FirstFrame .. hi : /\ m % SeqMod = rx_seq
                                                    /\ hi <= m + Slack \/ base >= Woken

\* The window, or the frame it is about to begin with, is near the newest frame;
\* only a packet that is being classified may be a stride ahead.
Turning == {"until", "take", "give"}
CloseBy(a) ==
    /\ pc[a] = "classify" =>
         IF loc[a].kind = "data" /\ loc[a].n = hi
         THEN Nearby(start_win, Slack + Stride) /\ NotPast(start_win)
         ELSE Nearby(start_win, Slack)
    /\ pc[a] \in Turning => Nearby(loc[a].start, Slack)
Close ==
    /\ \A a \in Agents : CloseBy(a)
    /\ (\A a \in Agents : pc[a] \notin Turning \cup {"classify"}) => Nearby(start_win, Slack)

\* The frame the host wakes for is still to be classified.
ToCome == \/ base = Woken /\ Woken \notin came
          \/ \E a \in Agents : pc[a] = "classify" /\ loc[a].kind = "data"

\* After a sleep the window may be anywhere, but nothing can be dropped for it: the
\* flag forbids it, or there is nothing to come, or the table has been made anew
\* and the next packet is where it was to begin.
GuardedBy(a) ==
    /\ pc[a] = "classify" => \E F \in Woken .. base : /\ loc[a].seq = F % SeqMod
                                                      /\ loc[a].kind # "bar" => F = Woken
    /\ pc[a] = "drop" => loc[a].kind # "data"
Renewed ==
    /\ "shift" \in flags /\ init_win = Woken % SeqMod /\ init_win < start_win
    /\ \A a \in Agents : /\ pc[a] \notin {"scan", "pass", "rotate"}
                         /\ pc[a] \in Turning => loc[a].kind = "delba"
Guarded ==
    /\ base >= Woken
    /\ \A a \in Agents : GuardedBy(a)
    /\ "no_drop" \in flags \/ ~ToCome \/ Renewed

\* What a context has in its hands is not newer than the newest frame.
RecentBy(a) ==
    /\ pc[a] = "classify" => Nearby(loc[a].seq, Slack)
    /\ pc[a] = "classify" /\ loc[a].kind = "data" => a = "rx" /\ loc[a].n <= hi
    /\ pc[a] = "drop" /\ loc[a].kind = "data" => loc[a].n < hi
Recent == \A a \in Agents : RecentBy(a)

\* Until the host has slept the flag is there, or was used up.
Flagged == dozing /\ ~spent /\ exists => "no_drop" \in flags

AtWork == ~overlap /\ ~spent /\ Few /\ Serving
Newest == AtWork => Recent /\ (Close \/ Guarded)

-------------------------------------------------------------------------------
LEMMA OneNumber ==
    ASSUME NEW A \in Numbers, NEW B \in Numbers, A % SeqMod = B % SeqMod
    PROVE  A = B
<1>1. A \in Int /\ B \in Int /\ A - B < SeqMod /\ B - A < SeqMod
  BY NumberIs, ReorderAssumption
<1> QED
  BY <1>1, ModClose

LEMMA SlackIs ==
    ASSUME TypeOK, left \in 0 .. Most
    PROVE  /\ Slack \in Int /\ WinSize - 1 <= Slack /\ Stride \in Int /\ Stride >= WinSize
           /\ Few => Slack + Stride < Half
<1>1. /\ left \in Int /\ Most \in Int /\ 0 <= left /\ left <= Most /\ Gap \in Int /\ WinSize \in Int
      /\ Half \in Int /\ 0 <= Gap
  BY ReorderAssumption
<1>2. Stride \in Int /\ Stride >= WinSize /\ Stride >= 0
  BY <1>1, ReorderAssumption DEF Stride
<1> DEFINE s == Stride  k == Most - left
<1>3. k \in Int /\ 0 <= k /\ k <= Most /\ s \in Int /\ 0 <= s
  BY <1>1, <1>2
<1> HIDE DEF s, k
<1>4. k * s \in Int /\ 0 <= k * s /\ (k + 1) * s = k * s + s
  BY <1>1, <1>3
<1>5. Slack = WinSize - 1 + k * s /\ (Few => (k + 1) * s + WinSize <= Half)
  BY DEF Slack, Few, s, k
<1> DEFINE p == k * s
<1>6. p \in Int /\ 0 <= p /\ Slack = WinSize - 1 + p /\ (Few => p + s + WinSize <= Half)
  BY <1>4, <1>5
<1> HIDE DEF p
<1> QED
  BY <1>1, <1>2, <1>3, <1>6 DEF s

\* One thing more that Most bounds is one stride more.
LEMMA SlackGrows ==
    ASSUME TypeOK, left \in 0 .. Most
    PROVE  /\ left' = left => Slack' = Slack /\ Few' = Few
           /\ Once => /\ left' \in 0 .. Most /\ Slack' = Slack + Stride
                      /\ Slack' \in Int /\ Slack <= Slack' /\ (Few' => Few)
<1>1. left' = left => Slack' = Slack /\ Few' = Few
  BY DEF Slack, Few, Stride
<1>2. ASSUME Once
      PROVE  left' \in 0 .. Most /\ Slack' = Slack + Stride
  <2>1. left' = left - 1 /\ left \in Int /\ Most \in Int /\ 0 < left /\ left <= Most
    BY <1>2, ReorderAssumption DEF Once
  <2>2. left' \in 0 .. Most /\ Most - left' = (Most - left) + 1
    BY <2>1
  <2> DEFINE s == Stride  k == Most - left
  <2>3. k \in Int /\ s \in Int
    BY <2>1, SlackIs
  <2>4. Slack' = WinSize - 1 + (k + 1) * s
    <3>1. Slack' = WinSize - 1 + (Most - left') * s
      BY DEF Slack, Stride
    <3> QED
      BY <2>2, <3>1
  <2> HIDE DEF s, k
  <2>5. (k + 1) * s = k * s + s /\ k * s \in Int
    BY <2>3
  <2>6. Slack = WinSize - 1 + k * s
    BY DEF Slack, k, s
  <2> DEFINE p == k * s
  <2>7. Slack = WinSize - 1 + p /\ Slack' = WinSize - 1 + (p + s) /\ p \in Int /\ WinSize \in Int
    BY <2>4, <2>5, <2>6, ReorderAssumption
  <2> HIDE DEF p
  <2>8. Slack' = Slack + s
    BY <2>3, <2>7
  <2> QED
    BY <2>2, <2>8 DEF s
<1>3. Slack \in Int /\ Stride \in Int /\ 0 <= Stride
  BY SlackIs, ReorderAssumption
<1>4. ASSUME Once, Few' PROVE Few
  <2> DEFINE s == Stride  k == Most - left
  <2>1. left' = left - 1 /\ left \in Int /\ Most \in Int
    BY <1>4, ReorderAssumption DEF Once
  <2>2. k \in Int /\ s \in Int /\ 0 <= s /\ Most - left' + 1 = k + 2
    BY <1>3, <2>1
  <2>3. (k + 2) * s + WinSize <= Half
    <3>1. (Most - left' + 1) * s + WinSize <= Half
      BY <1>4 DEF Few, Stride
    <3> QED
      BY <2>2, <3>1
  <2> HIDE DEF s, k
  <2>4. (k + 2) * s = (k + 1) * s + s /\ (k + 1) * s \in Int
    BY <2>2
  <2> DEFINE p == (k + 1) * s
  <2>5. p \in Int /\ p + s + WinSize <= Half
    BY <2>3, <2>4
  <2> HIDE DEF p
  <2>6. p + WinSize <= Half
    BY <2>2, <2>5, ReorderAssumption
  <2> QED
    BY <2>6 DEF Few, p, k, s
<1> QED
  BY <1>1, <1>2, <1>3, <1>4

\* A frame that comes is at most a stride ahead of the newest one, and not newer
\* than it unless it is new.
LEMMA ComesNear ==
    ASSUME TypeOK, Air, Aired, NEW n \in Sendable, Comes(n)
    PROVE  /\ n \in Numbers /\ n \in Int /\ hi \in Int /\ hi' \in Int
           /\ hi <= hi' /\ n <= hi' /\ hi' <= hi + Stride /\ hi' <= n + WinSize - 1
           /\ n = hi' => hi < n
           /\ n # hi' => hi' = hi
<1>1. /\ n \in Int /\ base <= n /\ n < base + WinSize /\ n \notin came
      /\ FirstFrame <= n /\ n <= Woken /\ hi \in Int /\ base \in Int
  BY SendableIs, ReachIs
<1>2. hi' = IF hi < n THEN n ELSE hi
  BY DEF Comes, Larger
<1>3. /\ hi < base + WinSize /\ (hi >= base => hi \in came) /\ base <= hi + Gap + 1
  BY DEF Air, Aired
<1>4. n \in Numbers
  BY <1>1, ReorderAssumption DEF Numbers
<1>5. Stride = Gap + WinSize /\ Gap \in Int /\ WinSize \in Int /\ 0 <= Gap
  BY ReorderAssumption DEF Stride
<1>6. n # hi
  BY <1>1, <1>3
<1> QED
  BY <1>1, <1>2, <1>3, <1>4, <1>5, <1>6

LEMMA AiredComes ==
    ASSUME TypeOK, Air, Aired, NEW n \in Sendable, Comes(n), base' = base,
           \/ left' = left /\ rx_seq' = n % SeqMod
           \/ Once /\ rx_seq' \in {n % SeqMod, rx_seq}
    PROVE  Aired'
<1>1. /\ n \in Int /\ hi \in Int /\ hi' \in Int /\ hi <= hi' /\ n <= hi' /\ hi' <= hi + Stride
      /\ hi' <= n + WinSize - 1 /\ FirstFrame <= n /\ base \in Int /\ base <= hi + Gap + 1
  BY ComesNear, SendableIs, ReachIs DEF Aired
<1>2. /\ left' \in 0 .. Most /\ Slack \in Int /\ Slack' \in Int /\ WinSize - 1 <= Slack
      /\ Stride \in Int /\ Slack <= Slack'
      /\ rx_seq' # n % SeqMod => Slack' = Slack + Stride /\ rx_seq' = rx_seq
  BY SlackIs, SlackGrows DEF Aired
<1>h. PICK h \in Int : h = hi'
  BY <1>1
<1>s. PICK s \in Int : s = Slack'
  BY <1>2
<1>i. /\ n \in Int /\ hi \in Int /\ hi <= h /\ n <= h /\ h <= hi + Stride /\ base <= hi + Gap + 1
      /\ h <= n + WinSize - 1 /\ FirstFrame <= n /\ base \in Int /\ Stride \in Int
      /\ Slack \in Int /\ WinSize - 1 <= Slack /\ Slack <= s
  BY <1>1, <1>2, <1>h, <1>s
<1>3. base' <= hi' + Gap + 1
  <2>1. base <= h + Gap + 1
    BY <1>i, ReorderAssumption
  <2> QED
    BY <1>h, <2>1
<1>4. CASE rx_seq' = n % SeqMod
  <2>1. n \in FirstFrame .. h /\ h <= n + s
    BY <1>i, ReorderAssumption
  <2> QED
    BY <1>2, <1>3, <1>4, <1>h, <1>s, <2>1 DEF Aired
<1>5. CASE rx_seq' # n % SeqMod /\ rx_seq' # None
  <2>1. PICK m \in FirstFrame .. hi : m % SeqMod = rx_seq /\ (hi <= m + Slack \/ base >= Woken)
    BY <1>2, <1>5 DEF Aired
  <2>2. s = Slack + Stride
    BY <1>2, <1>5, <1>s
  <2>3. m \in FirstFrame .. h /\ (h <= m + s \/ base >= Woken)
    BY <1>i, <2>1, <2>2, ReorderAssumption
  <2> QED
    BY <1>2, <1>3, <1>5, <1>h, <1>s, <2>1, <2>3 DEF Aired
<1> QED
  BY <1>2, <1>3, <1>4, <1>5 DEF Aired

LEMMA AiredNext == TypeOK /\ Air /\ Aired /\ [Next]_vars => Aired'
<1> SUFFICES ASSUME TypeOK, Air, Aired, [Next]_vars PROVE Aired'
  OBVIOUS
<1>0. hi \in Int /\ base \in Int /\ Slack \in Int /\ left \in 0 .. Most /\ base <= hi + Gap + 1
  BY ReachIs, SlackIs DEF Aired
<1>1. ASSUME UNCHANGED airVars PROVE Aired'
  BY <1>1 DEF Aired, Slack, airVars
<1>2. CASE UNCHANGED vars
  BY <1>1, <1>2 DEF vars
<1>3. ASSUME NEW a \in Agents, Step(a) PROVE Aired'
  <2>1. UNCHANGED airVars
    BY <1>3, ClassifyDoes, TestDoes, StoreDoes, DropDoes, DoneDoes, UntilBeginDoes,
       UntilTakeDoes, UntilRotateDoes, ScanTakeDoes, ScanRotateDoes, GiveDoes DEF Step
  <2> QED
    BY <1>1, <2>1
<1>4. CASE FlushFind \/ FlushFrom \/ TimerExpires \/ Create
  <2>1. UNCHANGED airVars
    BY <1>4 DEF FlushFind, FlushFrom, TimerExpires, Create
  <2> QED
    BY <1>1, <2>1
<1>9. ASSUME NEW d \in Deleters, Deletion(d) PROVE Aired'
  <2>1. CASE UNCHANGED airVars
    BY <1>1, <2>1
  <2>2. CASE ResetSeq(d)
    <3>1. rx_seq' = None /\ UNCHANGED <<base, hi, left>>
      BY <2>2 DEF ResetSeq
    <3> QED
      BY <3>1 DEF Aired
  <2> QED
    BY <1>9, <2>1, <2>2 DEF Deletion, FlushWorker, StopTimer, Free
<1>10. ASSUME UNCHANGED <<base, hi, rx_seq, left>> PROVE Aired'
  BY <1>10 DEF Aired, Slack
<1>5. CASE (RxBar \/ AddbaAgain \/ HsActivated \/ \E d \in Deleters : Delba(d)) /\ left' # left
  <2>1. UNCHANGED <<base, hi, rx_seq>> /\ Once
    BY <1>5 DEF RxBar, AddbaAgain, Delba, HsActivated
  <2>2. left' \in 0 .. Most /\ Slack <= Slack' /\ Slack' \in Int
    BY <1>0, <2>1, SlackGrows
  <2>3. ASSUME rx_seq' # None
        PROVE  \E m \in FirstFrame .. hi' : m % SeqMod = rx_seq' /\ (hi' <= m + Slack' \/ base' >= Woken)
    <3>1. PICK m \in FirstFrame .. hi : m % SeqMod = rx_seq /\ (hi <= m + Slack \/ base >= Woken)
      BY <2>1, <2>3 DEF Aired
    <3>2. m \in Int
      BY <1>0, <3>1, ReorderAssumption
    <3>3. PICK s \in Int : s = Slack'
      BY <2>2
    <3>4. Slack <= s
      BY <2>2, <3>3
    <3>5. hi <= m + s \/ base >= Woken
      BY <1>0, <3>1, <3>2, <3>4
    <3> QED
      BY <2>1, <3>1, <3>3, <3>5
  <2> QED
    BY <1>0, <2>1, <2>2, <2>3 DEF Aired
<1>6. ASSUME NEW n \in Sent, Direct(n) \/ RxData(n) \/ RxAmsdu(n) \/ RxbaSync(n)
      PROVE  Aired'
  <2>1. /\ n \in Sendable /\ Comes(n) /\ base' = base
        /\ \/ left' = left /\ rx_seq' = n % SeqMod
           \/ Once /\ rx_seq' \in {n % SeqMod, rx_seq}
    BY <1>6 DEF Direct, RxData, RxAmsdu, RxbaSync
  <2> QED
    BY <2>1, AiredComes
<1>7. CASE SenderMoves
  <2>1. /\ base' = base + 1 /\ base <= hi + Gap /\ UNCHANGED <<hi, rx_seq, left>>
    BY <1>7 DEF SenderMoves
  <2>2. Slack' = Slack /\ base' <= hi' + Gap + 1 /\ (base >= Woken => base' >= Woken)
    BY <1>0, <2>1, SlackGrows, ReorderAssumption
  <2> QED
    BY <1>0, <2>1, <2>2 DEF Aired
<1>11. CASE (RxBar \/ AddbaAgain \/ HsActivated \/ \E d \in Deleters : Delba(d)) /\ left' = left
  <2>1. UNCHANGED <<base, hi, rx_seq>>
    BY <1>11 DEF RxBar, AddbaAgain, Delba, HsActivated
  <2> QED
    BY <1>10, <1>11, <2>1
<1>8. CASE Asleep
  <2>1. /\ base' = Woken /\ rx_seq' = rx_seq /\ left' = left
        /\ hi' = (IF hi < Woken - 1 THEN Woken - 1 ELSE hi)
    BY <1>8 DEF Asleep, Larger
  <2>2. hi <= hi' /\ base' <= hi' + Gap + 1 /\ hi' \in Int
    BY <1>0, <2>1, ReorderAssumption
  <2>3. left' \in 0 .. Most
    BY <1>0, <2>1
  <2>4. FirstFrame .. hi \subseteq FirstFrame .. hi' /\ base' >= Woken
    BY <1>0, <2>1, <2>2, ReorderAssumption
  <2> QED
    BY <2>1, <2>2, <2>3, <2>4 DEF Aired
<1> QED
  BY <1>2, <1>3, <1>4, <1>5, <1>6, <1>7, <1>8, <1>9, <1>11 DEF Next, Arrivals, Handlers

LEMMA FlaggedNext == TypeOK /\ Flagged /\ [Next]_vars => Flagged'
<1> SUFFICES ASSUME TypeOK, Flagged, [Next]_vars PROVE Flagged'
  OBVIOUS
<1>1. ASSUME UNCHANGED <<exists, flags, dozing, spent>> PROVE Flagged'
  BY <1>1 DEF Flagged
<1>2. ASSUME NEW a \in Agents, Step(a) PROVE Flagged'
  <2>1. CASE Classify(a)
    BY <2>1 DEF Classify, Flagged
  <2>2. CASE ~Classify(a)
    BY <1>1, <1>2, <2>2, TestDoes, StoreDoes, DropDoes, DoneDoes, UntilBeginDoes,
       UntilTakeDoes, UntilRotateDoes, ScanTakeDoes, ScanRotateDoes, GiveDoes
       DEF Step, tblVars, sideVars
  <2> QED
    BY <2>1, <2>2
<1>3. ASSUME NEW d \in Deleters, Deletion(d) \/ Delba(d) PROVE Flagged'
  <2>1. CASE Free(d)
    BY <2>1 DEF Free, Flagged
  <2>2. CASE ~Free(d)
    BY <1>1, <1>3, <2>2 DEF Deletion, FlushWorker, StopTimer, ResetSeq, Delba, tblVars, sideVars
  <2> QED
    BY <2>1, <2>2
<1>4. CASE Create \/ HsActivated \/ Asleep
  BY <1>4 DEF Create, HsActivated, Asleep, Flagged
<1>5. CASE FlushFind \/ FlushFrom \/ TimerExpires \/ SenderMoves \/ RxBar \/ AddbaAgain
           \/ UNCHANGED vars
  BY <1>1, <1>5 DEF FlushFind, FlushFrom, TimerExpires, SenderMoves, RxBar, AddbaAgain, vars,
                   tblVars, sideVars
<1>6. ASSUME NEW n \in Sent, Direct(n) \/ RxData(n) \/ RxAmsdu(n) \/ RxbaSync(n)
      PROVE  Flagged'
  BY <1>1, <1>6 DEF Direct, RxData, RxAmsdu, RxbaSync, tblVars, sideVars
<1> QED
  BY <1>2, <1>3, <1>4, <1>5, <1>6 DEF Next, Arrivals, Handlers

-------------------------------------------------------------------------------
(***************************************************************************)
(* From one context to all.                                                *)
(***************************************************************************)
LEMMA RestIdle ==
    ASSUME NEW a \in Agents, Others(a), Only(a)
    PROVE  \A b \in Agents \ {a} : pc[b] \in Resting /\ pc'[b] \in Resting
BY DEF Others, Only, Active, Resting

LEMMA CloseFrom ==
    ASSUME NEW a \in Agents, Others(a), Only(a), CloseBy(a)',
           pc'[a] \notin Turning \cup {"classify"} => Nearby(start_win, Slack)'
    PROVE  Close'
<1>1. \A b \in Agents \ {a} : pc'[b] \in Resting
  BY RestIdle
<1>2. \A b \in Agents \ {a} : CloseBy(b)'
  BY <1>1 DEF CloseBy, Turning, Resting
<1> QED
  BY <1>2 DEF Close

LEMMA GuardedFrom ==
    ASSUME NEW a \in Agents, Others(a), Only(a), base' >= Woken, GuardedBy(a)',
           "no_drop" \in flags' \/ ~ToCome' \/ Renewed'
    PROVE  Guarded'
<1>1. \A b \in Agents \ {a} : pc'[b] \in Resting
  BY RestIdle
<1>2. \A b \in Agents \ {a} : GuardedBy(b)'
  BY <1>1 DEF GuardedBy, Resting
<1> QED
  BY <1>2 DEF Guarded

LEMMA RecentFrom ==
    ASSUME NEW a \in Agents, Others(a), Only(a), RecentBy(a)'
    PROVE  Recent'
<1>1. \A b \in Agents \ {a} : pc'[b] \in Resting
  BY RestIdle
<1>2. \A b \in Agents \ {a} : RecentBy(b)'
  BY <1>1 DEF RecentBy, Resting
<1> QED
  BY <1>2 DEF Recent

\* The window does not lie near for all contexts when one of them looks elsewhere.
LEMMA CloseRest ==
    ASSUME NEW a \in Agents, Others(a), Close, pc[a] \notin Turning \cup {"classify"}
    PROVE  Nearby(start_win, Slack)
<1>1. \A b \in Agents : pc[b] \notin Turning \cup {"classify"}
  BY DEF Others, Active, Turning
<1> QED
  BY <1>1 DEF Close

-------------------------------------------------------------------------------
(***************************************************************************)
(* The steps of a context.                                                 *)
(***************************************************************************)
Knows == TypeOK /\ Carried /\ Orderly /\ Air /\ Aired

LEMMA KnowsAll ==
    ASSUME RankedInv, Aired, ~overlap
    PROVE  Knows
BY DEF RankedInv, Window, Knows

\* What a context's own step needs, held before.
LEMMA StaysAtWork ==
    ASSUME NEW a \in Agents, Only(a), pc[a] \notin {"stop", "free"}, AtWork',
           UNCHANGED <<exists, left, overlap>>, ~spent' => ~spent
    PROVE  AtWork
<1>1. Few
  BY DEF AtWork, Few, Stride
<1>2. \A d \in Deleters : pc[d] \notin {"stop", "free"}
  BY DEF AtWork, Serving, Only, Agents, Deleters
<1> QED
  BY <1>1, <1>2 DEF AtWork, Serving

\* Of the steps but the classification, those that leave the window where it is.
Remains(a) == \/ Test(a) \/ Store(a) \/ Drop(a) \/ Done(a) \/ UntilBegin(a) \/ UntilTake(a)
            \/ ScanTake(a) \/ Give(a)

LEMMA RemainsDoes ==
    ASSUME TypeOK, NEW a \in Agents, Remains(a)
    PROVE  /\ Only(a)
           /\ UNCHANGED <<exists, start_win, init_win, flags, airVars, overlap, spent>>
           /\ \/ /\ pc[a] \in Turning /\ pc'[a] \in Turning
                 /\ loc'[a].start = loc[a].start /\ loc'[a].kind = loc[a].kind
              \/ /\ pc[a] \in {"test", "store", "drop", "done", "scan", "pass"}
                 /\ pc'[a] \in {"store", "drop", "scan", "done", "idle", "pass", "rotate"}
                 /\ pc'[a] = "drop" => pc[a] = "test" /\ loc'[a] = loc[a]
                                       /\ rx_reorder_ptr[SlotOf(loc[a])] # Empty
                 /\ pc'[a] \in {"scan", "pass", "rotate"}
                      => pc[a] \in {"store", "scan", "pass"}
<1>1. CASE Test(a) \/ Store(a) \/ Drop(a) \/ Done(a)
  BY <1>1, TestDoes, StoreDoes, DropDoes, DoneDoes DEF tblVars, sideVars
<1>2. CASE UntilBegin(a) \/ UntilTake(a)
  BY <1>2, UntilBeginDoes, UntilTakeDoes DEF Takes, GoesOn, Turning, tblVars, sideVars
<1>3. CASE ScanTake(a) \/ Give(a)
  BY <1>3, ScanTakeDoes, GiveDoes DEF Takes, GoesOn, Turning, tblVars, sideVars
<1> QED
  BY <1>1, <1>2, <1>3 DEF Remains

LEMMA NewestRemains ==
    ASSUME RankedInv, Aired, Newest, NEW a \in Agents, Remains(a)
    PROVE  Newest'
<1> SUFFICES ASSUME AtWork' PROVE Recent' /\ (Close' \/ Guarded')
  BY DEF Newest
<1>1. TypeOK
  BY DEF RankedInv
<1>2. /\ Only(a)
      /\ UNCHANGED <<exists, start_win, init_win, flags, hi, left, base, came, overlap, spent>>
      /\ pc[a] \notin {"idle", "wait", "classify", "stop", "free", "reset", "lost"}
      /\ pc'[a] # "classify"
  BY <1>1, RemainsDoes DEF Turning, airVars
<1>3. AtWork
  BY <1>2, StaysAtWork
<1>4. Knows
  BY <1>3, KnowsAll DEF AtWork
<1>5. Others(a)
  BY <1>2, <1>4, OthersIdle DEF Knows, Orderly, Active
<1>6. ~(pc'[a] = "drop" /\ loc'[a].kind = "data")
  BY <1>1, <1>2, <1>3, RemainsDoes, FreeSlot DEF SlotFree, AtWork, Turning
<1>7. Recent'
  BY <1>2, <1>5, <1>6, RecentFrom DEF RecentBy
<1>8. CASE Close
  <2>1. CASE pc[a] \in Turning
    <3>1. Nearby(loc[a].start, Slack) /\ pc'[a] \in Turning /\ loc'[a].start = loc[a].start
      BY <1>1, <1>8, <2>1, RemainsDoes DEF Close, CloseBy, Turning
    <3>2. Nearby(loc[a].start, Slack)'
      BY <1>2, <3>1 DEF Nearby, Slack
    <3>3. CloseBy(a)'
      BY <1>2, <3>2 DEF CloseBy
    <3> QED
      <4>1. Only(a)
        BY <1>2
      <4>2. pc'[a] \notin Turning \cup {"classify"} => Nearby(start_win, Slack)'
        BY <3>1
      <4> QED
        BY <1>5, <3>3, <4>1, <4>2, <1>7, CloseFrom
  <2>2. CASE pc[a] \notin Turning
    <3>1. pc'[a] \notin Turning
      BY <1>1, <2>2, RemainsDoes DEF Turning
    <3>2. Nearby(start_win, Slack)
      BY <1>2, <1>5, <1>8, <2>2, CloseRest
    <3>3. Nearby(start_win, Slack)'
      BY <1>2, <3>2 DEF Nearby, Slack
    <3>4. CloseBy(a)'
      BY <1>2, <3>1 DEF CloseBy
    <3> QED
      <4>1. Only(a)
        BY <1>2
      <4>2. pc'[a] \notin Turning \cup {"classify"} => Nearby(start_win, Slack)'
        BY <3>3
      <4> QED
        BY <1>5, <3>4, <4>1, <4>2, <1>7, CloseFrom
  <2> QED
    BY <2>1, <2>2
<1>9. CASE Guarded
  <2>1. GuardedBy(a)'
    BY <1>2, <1>6 DEF GuardedBy
  <2>2. ~ToCome => ~ToCome'
    BY <1>2, <1>5, RestIdle DEF ToCome, Resting
  <2>3. Renewed => Renewed'
    <3> SUFFICES ASSUME Renewed PROVE Renewed'
      OBVIOUS
    <3>1. \A b \in Agents \ {a} : pc'[b] \in Resting
      BY <1>2, <1>5, RestIdle
    <3>2. pc'[a] \notin {"scan", "pass", "rotate"} /\ (pc'[a] \in Turning => loc'[a].kind = "delba")
      <4>1. pc[a] # "store"
        BY <1>4 DEF Renewed, Knows, Orderly, Swept, SweptBy, Storing
      <4> QED
        BY <1>1, <4>1, RemainsDoes DEF Renewed, Turning
    <3> QED
      BY <1>2, <3>1, <3>2 DEF Renewed, Turning, Resting
  <2> QED
    <3>1. base' >= Woken
      BY <1>2, <1>9 DEF Guarded
    <3>2. "no_drop" \in flags' \/ ~ToCome' \/ Renewed'
      BY <1>2, <1>9, <2>2, <2>3 DEF Guarded
    <3> QED
      <4>1. Only(a)
        BY <1>2
      <4> QED
        BY <1>5, <2>1, <3>1, <3>2, <4>1, <1>7, GuardedFrom
<1> QED
  BY <1>3, <1>7, <1>8, <1>9 DEF Newest

\* Of the numbers only one stands for a frame.
LEMMA NearIs ==
    ASSUME NEW A \in Numbers, NEW v, A % SeqMod = v % SeqMod
    PROVE  \A N \in Numbers : N % SeqMod = v % SeqMod => N = A
BY OneNumber

\* A step that leaves the air and the flags as they are, and brings nothing to come.
LEMMA GuardedStays ==
    ASSUME NEW a \in Agents, Others(a), Only(a), Guarded, UNCHANGED <<flags, base, came>>,
           pc'[a] # "classify", ~(pc'[a] = "drop" /\ loc'[a].kind = "data"), Renewed => Renewed'
    PROVE  Guarded'
<1>1. GuardedBy(a)'
  BY DEF GuardedBy
<1>2. ~ToCome => ~ToCome'
  BY RestIdle DEF ToCome, Resting
<1>3. base' >= Woken
  BY DEF Guarded
<1>4. "no_drop" \in flags' \/ ~ToCome' \/ Renewed'
  BY <1>2 DEF Guarded
<1> QED
  BY <1>1, <1>3, <1>4, GuardedFrom

\* A window further ahead is nearer to the newest frame.
LEMMA AheadIsNear ==
    ASSUME TypeOK, Air, Aired, Nearby(start_win, Slack), NEW A \in Numbers,
           A % SeqMod = start_win % SeqMod, NEW k \in 0 .. WinSize,
           A + k <= Woken + WinSize + 1
    PROVE  Nearby((start_win + k) % SeqMod, Slack)
<1>1. /\ A \in Int /\ FirstFrame <= A /\ k \in Int /\ 0 <= k /\ start_win \in Int
      /\ Slack \in Int /\ hi \in Int
  BY NumberIs, SlackIs, ReachIs, ReorderAssumption DEF TypeOK, Aired
<1>2. PICK B \in Int : B = A + k
  BY <1>1
<1>3. hi <= A + Slack
  BY DEF Nearby
<1>4. B \in Numbers /\ hi <= B + Slack
  BY <1>1, <1>2, <1>3, ReorderAssumption DEF Numbers
<1>5. PICK w \in Int : w = start_win + k
  BY <1>1
<1>6. B % SeqMod = (w % SeqMod) % SeqMod
  BY <1>1, <1>2, <1>5, SameShift, SameReduced
<1>7. \A N \in Numbers : N % SeqMod = (w % SeqMod) % SeqMod => hi <= N + Slack
  BY <1>4, <1>6, NearIs
<1> QED
  BY <1>5, <1>7 DEF Nearby

LEMMA NewestUntilRotate ==
    ASSUME RankedInv, Aired, Newest, NEW a \in Agents, UntilRotate(a)
    PROVE  Newest'
<1> SUFFICES ASSUME AtWork' PROVE Recent' /\ (Close' \/ Guarded')
  BY DEF Newest
<1>1. TypeOK
  BY DEF RankedInv
<1>2. /\ pc[a] = "take" /\ Only(a) /\ pc'[a] = AfterUntil(a) /\ start_win' = loc[a].start
      /\ UNCHANGED <<exists, init_win, flags, hi, left, base, came, overlap, spent>>
  BY <1>1, UntilRotateDoes DEF airVars, sideVars
<1>3. AtWork
  BY <1>2, StaysAtWork
<1>4. Knows /\ Recent /\ (Close \/ Guarded)
  BY <1>3, KnowsAll DEF AtWork, Newest
<1>5. Others(a)
  BY <1>2, <1>4, OthersIdle DEF Knows, Orderly, Active
<1>6. pc'[a] \in {"test", "scan", "stop", "idle"}
  BY <1>2 DEF AfterUntil
<1>7. Recent'
  BY <1>2, <1>5, <1>6, RecentFrom DEF RecentBy
<1>8. CASE Close
  <2>1. Nearby(loc[a].start, Slack)
    BY <1>2, <1>8 DEF Close, CloseBy, Turning
  <2>2. Nearby(start_win, Slack)'
    BY <1>2, <2>1 DEF Nearby, Slack
  <2>3. CloseBy(a)'
    BY <1>6 DEF CloseBy, Turning
  <2>4. Only(a)
    BY <1>2
  <2> QED
    BY <1>5, <1>7, <2>2, <2>3, <2>4, CloseFrom
<1>9. CASE Guarded
  <2>1. ~Renewed
    <3> SUFFICES ASSUME Renewed PROVE FALSE
      OBVIOUS
    <3>1. loc[a].kind = "delba"
      BY <1>2 DEF Renewed, Turning
    <3>2. a \in Deleters
      BY <1>4, <3>1 DEF Knows, Carried, CarriedBy
    <3>3. pc'[a] = "stop"
      BY <1>2, <3>1 DEF AfterUntil
    <3> QED
      BY <3>2, <3>3 DEF AtWork, Serving
  <2>2. Guarded'
    BY <1>2, <1>5, <1>6, <1>9, <2>1, GuardedStays
  <2> QED
    BY <1>7, <2>2
<1> QED
  BY <1>4, <1>8, <1>9

LEMMA NewestScanRotate ==
    ASSUME RankedInv, Aired, Newest, NEW a \in Agents, ScanRotate(a)
    PROVE  Newest'
<1> SUFFICES ASSUME AtWork' PROVE Recent' /\ (Close' \/ Guarded')
  BY DEF Newest
<1>1. TypeOK
  BY DEF RankedInv
<1>2. /\ pc[a] = "rotate" /\ Only(a) /\ pc'[a] = "done"
      /\ start_win' = (start_win + loc[a].i) % SeqMod
      /\ UNCHANGED <<exists, init_win, flags, hi, left, base, came, overlap, spent>>
  BY <1>1, ScanRotateDoes DEF airVars, sideVars
<1>3. AtWork
  BY <1>2, StaysAtWork
<1>4. Knows /\ Recent /\ (Close \/ Guarded)
  BY <1>3, KnowsAll DEF AtWork, Newest
<1>5. Others(a)
  BY <1>2, <1>4, OthersIdle DEF Knows, Orderly, Active
<1>6. Recent'
  BY <1>2, <1>5, RecentFrom DEF RecentBy
<1>7. CASE Close
  <2>1. PICK A \in Numbers, T \in Numbers : Anchored(A, T)
    BY <1>3 DEF RankedInv, Ranked, AtWork
  <2>2. A % SeqMod = start_win % SeqMod /\ A + loc[a].i <= Reach
    BY <1>2, <2>1 DEF Anchored, InPlace
  <2>3. A + loc[a].i <= Woken + WinSize + 1 /\ loc[a].i \in 0 .. WinSize
    <3>1. /\ Reach <= Woken + 1 /\ Reach \in Int /\ A \in Int /\ loc[a].i \in 0 .. WinSize
      BY <1>1, <1>4, ReachIs, NumberIs, LocalHas DEF Knows, TypeOK
    <3>2. A + loc[a].i <= Reach
      BY <2>2
    <3> QED
      BY <3>1, <3>2, ReorderAssumption
  <2>4. Nearby(start_win, Slack)
    BY <1>2, <1>5, <1>7, CloseRest DEF Turning
  <2>5. Nearby((start_win + loc[a].i) % SeqMod, Slack)
    BY <1>1, <1>4, <2>2, <2>3, <2>4, AheadIsNear DEF Knows
  <2>6. Nearby(start_win, Slack)'
    BY <1>2, <2>5 DEF Nearby, Slack
  <2>7. CloseBy(a)'
    BY <1>2 DEF CloseBy, Turning
  <2>8. Only(a)
    BY <1>2
  <2> QED
    BY <1>5, <1>6, <2>6, <2>7, <2>8, CloseFrom
<1>8. CASE Guarded
  <2>1. ~Renewed
    BY <1>2 DEF Renewed
  <2>2. Guarded'
    BY <1>2, <1>5, <1>8, <2>1, GuardedStays
  <2> QED
    BY <1>6, <2>2
<1> QED
  BY <1>4, <1>7, <1>8

-------------------------------------------------------------------------------
(***************************************************************************)
(* The steps that take the window nowhere.                                 *)
(***************************************************************************)
Still == {"idle", "wait", "reset", "lost", "find", "flush"}

LEMMA NewestQuiet ==
    ASSUME TypeOK, Aired, Recent, Close \/ Guarded,
           UNCHANGED <<start_win, init_win, flags>>, base' \in Int, base <= base',
           base >= Woken /\ base' = Woken /\ Woken \notin came'
              => base = Woken /\ Woken \notin came,
           hi' \in Int, hi <= hi', hi' = hi \/ pc["rx"] = "idle",
           Slack' \in Int, Slack <= Slack', hi' + Slack <= hi + Slack',
           \A a \in Agents : \/ pc'[a] = pc[a] /\ loc'[a] = loc[a]
                             \/ pc[a] \in Still /\ pc'[a] \in Still
    PROVE  Recent' /\ (Close' \/ Guarded')
<1>0. hi \in Int /\ base \in Int /\ Slack \in Int /\ Stride \in Int
  BY SlackIs, ReorderAssumption DEF TypeOK, Aired
<1>h. PICK h \in Int, s \in Int : h = hi' /\ s = Slack'
  OBVIOUS
<1>i. hi <= h /\ Slack <= s /\ h + Slack <= hi + s
  BY <1>h
<1>1. ASSUME NEW v, Nearby(v, Slack)
      PROVE  \A N \in Numbers : N % SeqMod = v % SeqMod => h <= N + s
  <2> SUFFICES ASSUME NEW N \in Numbers, N % SeqMod = v % SeqMod PROVE h <= N + s
    OBVIOUS
  <2>1. hi <= N + Slack
    BY <1>1 DEF Nearby
  <2> QED
    BY <1>0, <1>i, <2>1, NumberIs
<1>2. ASSUME hi' = hi, Nearby(start_win, Slack + Stride)
      PROVE  \A N \in Numbers : N % SeqMod = start_win % SeqMod => h <= N + (s + Stride)
  <2> SUFFICES ASSUME NEW N \in Numbers, N % SeqMod = start_win % SeqMod PROVE h <= N + (s + Stride)
    OBVIOUS
  <2>1. hi <= N + (Slack + Stride)
    BY <1>2 DEF Nearby
  <2>2. h = hi
    BY <1>2, <1>h
  <2> QED
    BY <1>0, <1>i, <2>1, <2>2, NumberIs
<1>3. Recent'
  <2> SUFFICES ASSUME NEW a \in Agents PROVE RecentBy(a)'
    BY DEF Recent
  <2>1. CASE pc'[a] = pc[a] /\ loc'[a] = loc[a]
    <3>0. RecentBy(a)
      BY DEF Recent
    <3>1. pc'[a] = "classify" => Nearby(loc[a].seq, Slack)'
      <4> SUFFICES ASSUME pc[a] = "classify"
                   PROVE \A N \in Numbers : N % SeqMod = loc'[a].seq % SeqMod => hi' <= N + Slack'
        BY <2>1 DEF Nearby
      <4>1. Nearby(loc[a].seq, Slack)
        BY <3>0 DEF RecentBy
      <4> QED
        BY <1>1, <1>h, <2>1, <4>1
    <3>2. loc[a].kind = "data" /\ pc[a] \in {"classify", "drop"}
            => (loc[a].n <= hi => loc[a].n <= h) /\ (loc[a].n < hi => loc[a].n < h)
      <4>1. loc[a].n \in Int
        BY LocalHas, ReorderAssumption DEF TypeOK, Frames, Empty
      <4> QED
        BY <1>0, <1>i, <4>1
    <3> QED
      BY <1>h, <2>1, <3>0, <3>1, <3>2 DEF RecentBy
  <2>2. CASE pc'[a] \in Still
    BY <2>2 DEF RecentBy, Still
  <2> QED
    BY <2>1, <2>2
<1>4. CASE Close
  <2>1. ASSUME NEW a \in Agents PROVE CloseBy(a)'
    <3>1. CASE pc'[a] = pc[a] /\ loc'[a] = loc[a]
      <4>0. CloseBy(a)
        BY <1>4 DEF Close
      <4>1. pc[a] \in Turning => Nearby(loc[a].start, Slack)'
        <5> SUFFICES ASSUME pc[a] \in Turning
                     PROVE \A N \in Numbers : N % SeqMod = loc'[a].start % SeqMod => hi' <= N + Slack'
          BY DEF Nearby
        <5>1. Nearby(loc[a].start, Slack)
          BY <4>0 DEF CloseBy
        <5> QED
          BY <1>1, <1>h, <3>1, <5>1
      <4>2. CASE pc[a] = "classify" /\ loc[a].kind = "data" /\ loc[a].n = hi
        <5>1. hi' = hi
          BY <4>2 DEF Recent, RecentBy
        <5>2. Nearby(start_win, Slack + Stride) /\ NotPast(start_win)
          BY <4>0, <4>2 DEF CloseBy
        <5>3. Nearby(start_win, Slack + Stride)'
          <6>1. \A N \in Numbers : N % SeqMod = start_win' % SeqMod => hi' <= N + (Slack + Stride)'
            BY <1>2, <1>h, <5>1, <5>2 DEF Stride
          <6> QED
            BY <6>1 DEF Nearby
        <5>4. NotPast(start_win)'
          BY <5>1, <5>2 DEF NotPast
        <5> QED
          BY <3>1, <4>1, <4>2, <5>1, <5>3, <5>4 DEF CloseBy
      <4>3. CASE pc[a] = "classify" /\ ~(loc[a].kind = "data" /\ loc[a].n = hi)
        <5>1. Nearby(start_win, Slack)
          BY <4>0, <4>3 DEF CloseBy
        <5>2. Nearby(start_win, Slack)'
          <6>1. \A N \in Numbers : N % SeqMod = start_win' % SeqMod => hi' <= N + Slack'
            BY <1>1, <1>h, <5>1
          <6> QED
            BY <6>1 DEF Nearby
        <5>3. ~(loc'[a].kind = "data" /\ loc'[a].n = hi')
          BY <3>1, <4>3 DEF Recent, RecentBy
        <5> QED
          BY <3>1, <4>3, <5>2, <5>3 DEF CloseBy, Turning
      <4> QED
        BY <3>1, <4>1, <4>2, <4>3 DEF CloseBy
    <3>2. CASE pc'[a] \in Still
      BY <3>2 DEF CloseBy, Still, Turning
    <3> QED
      BY <3>1, <3>2
  <2>2. (\A a \in Agents : pc'[a] \notin Turning \cup {"classify"}) => Nearby(start_win, Slack)'
    <3> SUFFICES ASSUME \A a \in Agents : pc'[a] \notin Turning \cup {"classify"}
                 PROVE  Nearby(start_win, Slack)'
      OBVIOUS
    <3>1. \A a \in Agents : pc[a] \notin Turning \cup {"classify"}
      BY DEF Still, Turning
    <3>2. Nearby(start_win, Slack)
      BY <1>4, <3>1 DEF Close
    <3>3. \A N \in Numbers : N % SeqMod = start_win' % SeqMod => hi' <= N + Slack'
      BY <1>1, <1>h, <3>2
    <3> QED
      BY <3>3 DEF Nearby
  <2> QED
    BY <1>3, <2>1, <2>2 DEF Close
<1>5. CASE Guarded
  <2>0. PICK b \in Int : b = base'
    OBVIOUS
  <2>1. base' >= Woken /\ base >= Woken /\ Woken .. base \subseteq Woken .. base'
    <3>1. base <= b /\ base >= Woken
      BY <1>5, <2>0 DEF Guarded
    <3>2. b >= Woken /\ Woken .. base \subseteq Woken .. b
      BY <1>0, <3>1, ReorderAssumption
    <3> QED
      BY <2>0, <3>1, <3>2
  <2>2. ASSUME NEW a \in Agents PROVE GuardedBy(a)'
    <3>1. CASE pc'[a] = pc[a] /\ loc'[a] = loc[a]
      BY <1>5, <2>1, <3>1 DEF Guarded, GuardedBy
    <3>2. CASE pc'[a] \in Still
      BY <3>2 DEF GuardedBy, Still
    <3> QED
      BY <3>1, <3>2
  <2>3. ToCome' => ToCome
    BY <2>1 DEF ToCome, Still
  <2>4. Renewed => Renewed'
    <3> SUFFICES ASSUME Renewed PROVE Renewed'
      OBVIOUS
    <3>1. \A a \in Agents : /\ pc'[a] \notin {"scan", "pass", "rotate"}
                            /\ pc'[a] \in Turning => loc'[a].kind = "delba"
      BY DEF Renewed, Still, Turning
    <3> QED
      BY <3>1 DEF Renewed
  <2>5. Guarded'
    BY <1>5, <2>1, <2>2, <2>3, <2>4 DEF Guarded
  <2> QED
    BY <1>3, <2>5
<1> QED
  BY <1>4, <1>5

LEMMA NewestStill ==
    ASSUME RankedInv, TypeOK', Aired, Newest,
           \/ SenderMoves \/ FlushFind \/ TimerExpires \/ UNCHANGED vars
           \/ \E d \in Deleters : Delba(d) \/ ResetSeq(d)
           \/ \E n \in Sent : RxAmsdu(n)
    PROVE  Newest'
<1> SUFFICES ASSUME AtWork' PROVE Recent' /\ (Close' \/ Guarded')
  BY DEF Newest
<1>1. TypeOK /\ Air
  BY DEF RankedInv
<1>2. left \in 0 .. Most /\ hi \in Int /\ base \in Int /\ Slack \in Int /\ Stride \in Int
      /\ 0 <= Stride /\ hi' \in Int /\ base' \in Int
  BY <1>1, SlackIs, ReachIs, ReorderAssumption DEF TypeOK, Aired
<1>3. ASSUME UNCHANGED <<exists, overlap, spent>>, left' = left \/ Once,
             \A d \in Deleters : pc[d] \in {"stop", "free"} => pc'[d] = pc[d]
      PROVE  AtWork
  <2>1. Few
    BY <1>1, <1>2, <1>3, SlackGrows DEF AtWork
  <2> QED
    BY <1>3, <2>1 DEF AtWork, Serving
<1>4. ASSUME AtWork PROVE Recent /\ (Close \/ Guarded)
  BY <1>4 DEF Newest
<1>5. ASSUME left' = left, hi' = hi
      PROVE  /\ hi <= hi' /\ hi' = hi /\ Slack' \in Int /\ Slack <= Slack'
             /\ hi' + Slack <= hi + Slack'
  BY <1>1, <1>2, <1>5, SlackGrows
<1>6. ASSUME Once, hi <= hi', hi' <= hi + Stride
      PROVE  Slack' \in Int /\ Slack <= Slack' /\ hi' + Slack <= hi + Slack'
  <2>1. PICK h \in Int, s \in Int : h = hi' /\ s = Slack'
    BY <1>1, <1>2, <1>6, SlackGrows
  <2>2. s = Slack + Stride /\ h <= hi + Stride
    BY <1>1, <1>2, <1>6, <2>1, SlackGrows
  <2>3. Slack <= s /\ h + Slack <= hi + s
    BY <1>2, <2>2
  <2> QED
    BY <2>1, <2>3
<1>7. CASE SenderMoves
  <2>1. /\ base' = base + 1 /\ UNCHANGED <<start_win, init_win, flags, hi, left, pc, loc>>
        /\ UNCHANGED <<exists, overlap, spent>>
        /\ base <= base' /\ (base >= Woken => base' # Woken)
    <3>1. /\ base' = base + 1 /\ UNCHANGED <<start_win, init_win, flags, hi, left, pc, loc>>
          /\ UNCHANGED <<exists, overlap, spent>>
      BY <1>7 DEF SenderMoves, tblVars, agentVars, sideVars
    <3> QED
      BY <1>2, <3>1, ReorderAssumption
  <2>2. Recent /\ (Close \/ Guarded)
    BY <1>3, <1>4, <2>1
  <2> QED
    BY <1>1, <1>2, <1>5, <2>1, <2>2, NewestQuiet
<1>8. CASE FlushFind \/ TimerExpires \/ UNCHANGED vars \/ \E d \in Deleters : ResetSeq(d)
  <2>1. /\ UNCHANGED <<start_win, init_win, flags, hi, left, base, came>> /\ base <= base'
        /\ UNCHANGED <<exists, overlap, spent>>
        /\ \A d \in Deleters : pc[d] \in {"stop", "free"} => pc'[d] = pc[d]
        /\ \A a \in Agents : \/ pc'[a] = pc[a] /\ loc'[a] = loc[a]
                             \/ pc[a] \in Still /\ pc'[a] \in Still
    <3>0. Deleters \subseteq Agents \ {"timer"}
      BY DEF Deleters, Agents
    <3>1. CASE FlushFind
      <4>1. \A d \in Deleters : pc'[d] = pc[d]
        BY <1>1, <3>0, <3>1, FlushFindDoes DEF Only
      <4>2. \A a \in Agents : \/ pc'[a] = pc[a] /\ loc'[a] = loc[a]
                              \/ pc[a] \in Still /\ pc'[a] \in Still
        BY <1>1, <3>1, FlushFindDoes DEF Only, Still
      <4> QED
        BY <1>1, <1>2, <3>1, <4>1, <4>2, FlushFindDoes DEF tblVars, airVars, sideVars
    <3>2. CASE TimerExpires
      <4>1. \A d \in Deleters : pc'[d] = pc[d]
        BY <1>1, <3>0, <3>2, TimerExpiresDoes DEF Only
      <4>2. \A a \in Agents : \/ pc'[a] = pc[a] /\ loc'[a] = loc[a]
                              \/ pc[a] \in Still /\ pc'[a] \in Still
        BY <1>1, <3>2, TimerExpiresDoes DEF Only, Still
      <4>3. ~overlap /\ ~overlap'
        <5>1. "timer" \in Agents /\ Meets("timer")
          BY <1>1, <3>2, TimerExpiresDoes DEF Agents
        <5> QED
          BY <5>1, MeetsNobody DEF AtWork
      <4> QED
        BY <1>1, <1>2, <3>2, <4>1, <4>2, <4>3, TimerExpiresDoes
           DEF tblVars, airVars, sideVars, TypeOK
    <3>3. CASE UNCHANGED vars
      BY <1>2, <3>3 DEF vars, agentVars, tblVars, airVars, sideVars
    <3>4. ASSUME NEW d \in Deleters, ResetSeq(d)
          PROVE  /\ UNCHANGED <<start_win, init_win, flags, hi, left, base, came>>
                 /\ UNCHANGED <<exists, overlap, spent>>
                 /\ Only(d) /\ pc[d] = "reset" /\ pc'[d] = "idle" /\ d \in Agents
      BY <1>1, <3>4, <3>0, ResetSeqDoes DEF tblVars, sideVars
    <3>5. CASE \E d \in Deleters : ResetSeq(d)
      <4>1. PICK d \in Deleters : ResetSeq(d)
        BY <3>5
      <4>2. /\ Only(d) /\ pc[d] = "reset" /\ pc'[d] = "idle"
            /\ UNCHANGED <<start_win, init_win, flags, hi, left, base, came>>
            /\ UNCHANGED <<exists, overlap, spent>>
        BY <3>4, <4>1
      <4>3. \A b \in Deleters : pc[b] \in {"stop", "free"} => pc'[b] = pc[b]
        BY <3>0, <4>2 DEF Only
      <4> QED
        BY <1>2, <4>2, <4>3 DEF Only, Still
    <3> QED
      BY <1>8, <3>1, <3>2, <3>3, <3>5
  <2>2. Recent /\ (Close \/ Guarded)
    BY <1>3, <1>4, <2>1
  <2> QED
    BY <1>1, <1>2, <1>5, <2>1, <2>2, NewestQuiet
<1>9. ASSUME NEW d \in Deleters, Delba(d) PROVE Recent' /\ (Close' \/ Guarded')
  <2>1. /\ pc[d] = "idle" /\ pc'[d] = "wait" /\ Only(d) /\ (left' = left \/ Once)
        /\ UNCHANGED <<start_win, init_win, flags, hi, base, came, exists, overlap, spent>>
    BY <1>1, <1>9, DelbaDoes DEF tblVars
  <2>2. \A b \in Deleters : pc[b] \in {"stop", "free"} => pc'[b] = pc[b]
    BY <2>1 DEF Only, Agents, Deleters
  <2>3. \A a \in Agents : \/ pc'[a] = pc[a] /\ loc'[a] = loc[a]
                          \/ pc[a] \in Still /\ pc'[a] \in Still
    BY <2>1 DEF Only, Still
  <2>4. Recent /\ (Close \/ Guarded)
    BY <1>3, <1>4, <2>1, <2>2
  <2>5. hi <= hi' /\ hi' <= hi + Stride /\ base <= base'
    BY <1>2, <2>1
  <2>6. Slack' \in Int /\ Slack <= Slack' /\ hi' + Slack <= hi + Slack'
    BY <1>5, <1>6, <2>1, <2>5
  <2> QED
    BY <1>1, <1>2, <2>1, <2>3, <2>4, <2>5, <2>6, NewestQuiet
<1>10. ASSUME NEW n \in Sent, RxAmsdu(n) PROVE Recent' /\ (Close' \/ Guarded')
  <2>1. /\ UNCHANGED <<start_win, init_win, flags, base, pc, loc>> /\ Once
        /\ n \in Sendable /\ Comes(n) /\ pc["rx"] = "idle"
        /\ UNCHANGED <<exists, overlap, spent>>
    BY <1>10 DEF RxAmsdu, tblVars, agentVars, sideVars
  <2>2. hi <= hi' /\ hi' <= hi + Stride /\ base <= base'
    BY <1>1, <1>2, <2>1, ComesNear
  <2>3. Woken \notin came' => Woken \notin came
    BY <2>1 DEF Comes
  <2>4. Recent /\ (Close \/ Guarded)
    BY <1>3, <1>4, <2>1
  <2> QED
    BY <1>1, <1>2, <1>6, <2>1, <2>2, <2>3, <2>4, NewestQuiet
<1> QED
  BY <1>7, <1>8, <1>9, <1>10

\* Without a table, or with one that is being freed, there is nothing to be near.
LEMMA NewestNone ==
    ASSUME TypeOK, (\E d \in Deleters : StopTimer(d) \/ Free(d)) \/ \E n \in Sent : Direct(n)
    PROVE  Newest'
<1>1. ASSUME NEW d \in Deleters, StopTimer(d) PROVE Newest'
  BY <1>1, StopTimerDoes DEF Newest, AtWork, Serving
<1>2. ASSUME NEW d \in Deleters, Free(d) PROVE Newest'
  BY <1>2 DEF Free, Newest, AtWork, Serving
<1>3. ASSUME NEW n \in Sent, Direct(n) PROVE Newest'
  BY <1>3 DEF Direct, Newest, AtWork, Serving, tblVars
<1> QED
  BY <1>1, <1>2, <1>3

-------------------------------------------------------------------------------
(***************************************************************************)
(* The steps that ask for another window.                                  *)
(***************************************************************************)
\* The flush and the deletion ask for a window ahead of the one there is.
LEMMA NewestAsked ==
    ASSUME TypeOK, Air, Aired, Newest, AtWork, NEW a \in Agents, Others(a), Only(a),
           pc[a] \notin Turning \cup {"classify"}, pc'[a] = "until",
           NEW A \in Numbers, A % SeqMod = start_win % SeqMod,
           NEW k \in 0 .. WinSize, A + k <= Woken + WinSize + 1,
           loc'[a].start = (start_win + k) % SeqMod,
           UNCHANGED <<start_win, init_win, flags, airVars>>,
           Renewed => loc'[a].kind = "delba"
    PROVE  Recent' /\ (Close' \/ Guarded')
<1>1. Recent'
  BY RecentFrom DEF RecentBy
<1>2. CASE Close
  <2>1. Nearby(start_win, Slack)
    BY <1>2, CloseRest
  <2>2. Nearby((start_win + k) % SeqMod, Slack)
    BY <2>1, AheadIsNear
  <2>3. Nearby(loc[a].start, Slack)'
    BY <2>2 DEF Nearby, Slack, airVars
  <2>4. CloseBy(a)'
    BY <2>3 DEF CloseBy
  <2>5. pc'[a] \notin Turning \cup {"classify"} => Nearby(start_win, Slack)'
    BY DEF Turning
  <2> QED
    BY <1>1, <2>4, <2>5, CloseFrom
<1>3. CASE Guarded
  <2>1. Renewed => Renewed'
    <3> SUFFICES ASSUME Renewed PROVE Renewed'
      OBVIOUS
    <3>1. \A b \in Agents : /\ pc'[b] \notin {"scan", "pass", "rotate"}
                            /\ pc'[b] \in Turning => loc'[b].kind = "delba"
      BY RestIdle DEF Turning, Resting
    <3> QED
      BY <3>1 DEF Renewed
  <2>2. Guarded'
    BY <1>3, <2>1, GuardedStays DEF airVars
  <2> QED
    BY <1>1, <2>2
<1> QED
  BY <1>2, <1>3 DEF Newest

LEMMA NewestFlush ==
    ASSUME RankedInv, Aired, Newest, FlushFrom
    PROVE  Newest'
<1> SUFFICES ASSUME AtWork' PROVE Recent' /\ (Close' \/ Guarded')
  BY DEF Newest
<1>1. TypeOK /\ Air
  BY DEF RankedInv
<1>2. /\ pc["timer"] = "flush" /\ pc'["timer"] = "until" /\ Only("timer")
      /\ loc'["timer"].start = (start_win + loc["timer"].i + 1) % SeqMod
      /\ UNCHANGED <<exists, start_win, init_win, flags, airVars, overlap, spent>>
      /\ "timer" \in Agents /\ left' = left
  BY <1>1, FlushFromDoes DEF tblVars, airVars, sideVars, Agents
<1>3. AtWork
  BY <1>2, StaysAtWork
<1>4. Knows
  BY <1>3, KnowsAll DEF AtWork
<1>5. Others("timer") /\ "timer" \in Agents
  BY <1>2, <1>4, OthersIdle DEF Knows, Orderly, Active, Agents
<1>6. PICK A \in Numbers, T \in Numbers : Anchored(A, T)
  BY <1>3 DEF RankedInv, Ranked, AtWork
<1>7. /\ A % SeqMod = start_win % SeqMod /\ A <= Reach
      /\ loc["timer"].i \in Slots /\ rx_reorder_ptr[loc["timer"].i] # Empty
  BY <1>2, <1>5, <1>6 DEF Anchored, InPlace
<1>8. ~Renewed
  BY <1>4, <1>7 DEF Renewed, Knows, Orderly, Ending, AllEmpty
<1>9. A + loc["timer"].i < Reach
  BY <1>1, <1>4, <1>7, SlotFrame DEF RankedInv, Knows, Orderly
<1>10. /\ start_win \in Int /\ loc["timer"].i \in Int /\ 0 <= loc["timer"].i /\ A \in Int
       /\ loc["timer"].i < WinSize /\ Reach \in Int /\ Reach <= Woken + 1
  BY <1>1, <1>7, ReachIs, NumberIs, ReorderAssumption DEF TypeOK, Slots
<1>11. PICK k \in Int : k = loc["timer"].i + 1
  BY <1>10
<1>12. /\ k \in 0 .. WinSize /\ A + k <= Woken + WinSize + 1
       /\ start_win + loc["timer"].i + 1 = start_win + k
  BY <1>9, <1>10, <1>11, ReorderAssumption
<1>13. loc'["timer"].start = (start_win + k) % SeqMod
  BY <1>2, <1>12
<1> QED
  BY <1>1, <1>2, <1>3, <1>4, <1>5, <1>7, <1>8, <1>12, <1>13, NewestAsked DEF Knows, Turning

LEMMA NewestDelete ==
    ASSUME RankedInv, Aired, Newest, NEW d \in Deleters, FlushWorker(d)
    PROVE  Newest'
<1> SUFFICES ASSUME AtWork' PROVE Recent' /\ (Close' \/ Guarded')
  BY DEF Newest
<1>1. TypeOK /\ Air
  BY DEF RankedInv
<1>2. /\ pc[d] = "wait" /\ pc'[d] = "until" /\ Only(d)
      /\ loc'[d].start = (start_win + WinSize) % SeqMod /\ Meets(d)
      /\ loc'[d].kind = "delba"
      /\ UNCHANGED <<exists, start_win, init_win, flags, airVars, left, spent>>
      /\ d \in Agents
  BY <1>1, FlushWorkerDoes DEF tblVars, airVars, sideVars, RankedInv, Deleting, Agents, Deleters
<1>3. ~overlap /\ ~overlap' /\ Others(d)
  BY <1>2, MeetsNobody DEF AtWork
<1>4. AtWork /\ Knows
  <2>1. \A b \in Deleters : pc[b] \notin {"stop", "free"}
    BY <1>2, <1>3 DEF Others, Active, Agents, Deleters
  <2>2. Few
    BY <1>2 DEF AtWork, Few, Stride
  <2> QED
    BY <1>2, <1>3, <2>1, <2>2, KnowsAll DEF AtWork, Serving
<1>5. PICK A \in Numbers, T \in Numbers : Anchored(A, T)
  BY <1>4 DEF RankedInv, Ranked, AtWork
<1>6. A % SeqMod = start_win % SeqMod /\ A <= Reach
  BY <1>5 DEF Anchored
<1>7. A <= Reach /\ A \in Int /\ Reach \in Int /\ Reach <= Woken + 1
  BY <1>1, <1>6, ReachIs, NumberIs
<1>8. WinSize \in 0 .. WinSize /\ A + WinSize <= Woken + WinSize + 1
  BY <1>7, ReorderAssumption
<1> QED
  BY <1>1, <1>2, <1>3, <1>4, <1>6, <1>8, NewestAsked DEF Knows, Turning

\* The firmware asks for the sender's window.
LEMMA NewestAgain ==
    ASSUME RankedInv, TypeOK', Aired, Newest, AddbaAgain
    PROVE  Newest'
<1> SUFFICES ASSUME AtWork' PROVE Recent' /\ Close'
  BY DEF Newest
<1>1. TypeOK /\ Air
  BY DEF RankedInv
<1>2. /\ pc'["main"] = "until" /\ Only("main") /\ loc'["main"].start = base % SeqMod
      /\ Meets("main") /\ Once /\ hi' = hi
  BY <1>1, AddbaAgainDoes DEF AddbaAgain
<1>3. Others("main") /\ "main" \in Agents
  BY <1>2, MeetsNobody DEF AtWork, Agents
<1>4. Recent'
  BY <1>2, <1>3, RecentFrom DEF RecentBy
<1>5. /\ base \in Int /\ FirstFrame <= base /\ base <= Woken + 1 /\ hi < base + WinSize
      /\ hi \in Int /\ Slack \in Int /\ WinSize - 1 <= Slack
  BY <1>1, ReachIs, SlackIs DEF Air, Aired
<1>6. PICK s \in Int : s = Slack' /\ Slack <= s
  BY <1>1, <1>2, SlackGrows DEF Aired
<1>7. base \in Numbers /\ hi <= base + s
  <2>1. Slack <= s
    BY <1>6
  <2> QED
    BY <1>5, <2>1, ReorderAssumption DEF Numbers
<1>8. base % SeqMod = (base % SeqMod) % SeqMod
  BY <1>5, SameReduced
<1>9. \A N \in Numbers : N % SeqMod = loc'["main"].start % SeqMod => hi' <= N + Slack'
  BY <1>2, <1>6, <1>7, <1>8, NearIs
<1>10. Nearby(loc["main"].start, Slack)'
  BY <1>9 DEF Nearby
<1>11. CloseBy("main")'
  BY <1>2, <1>10 DEF CloseBy
<1>12. pc'["main"] \notin Turning \cup {"classify"} => Nearby(start_win, Slack)'
  BY <1>2 DEF Turning
<1>13. Only("main")
  BY <1>2
<1> QED
  BY <1>3, <1>4, <1>11, <1>12, <1>13, CloseFrom

-------------------------------------------------------------------------------
(***************************************************************************)
(* What comes, the sleep and a new table.                                  *)
(***************************************************************************)
\* A context begins at a table that is at work.
LEMMA AtWorkBegins ==
    ASSUME TypeOK, left \in 0 .. Most, NEW a \in Agents, Others(a), ~Active(a), ~overlap, exists,
           left' = left \/ Once, spent' = spent, AtWork'
    PROVE  AtWork
<1>1. Few
  BY SlackGrows DEF AtWork
<1>2. \A d \in Deleters : pc[d] \notin {"stop", "free"}
  BY DEF Others, Active, Agents, Deleters
<1> QED
  BY <1>1, <1>2 DEF AtWork, Serving

\* After a sleep the sender's window is all that is sent.
LEMMA GuardedComes ==
    ASSUME TypeOK, Air, NEW n \in Sendable, Comes(n), NEW a \in Agents, Others(a), Only(a),
           ~Active(a), pc'[a] = "classify", loc'[a].seq = n % SeqMod, Guarded,
           UNCHANGED <<start_win, init_win, flags, base>>
    PROVE  Guarded'
<1>1. base = Woken /\ n = Woken /\ Woken \notin came /\ base \in Int
  <2>1. base >= Woken /\ base \in Int /\ base <= n /\ n <= Woken /\ n \in Int /\ n \notin came
    BY SendableIs, ReachIs DEF Guarded
  <2>2. n = Woken /\ base = Woken
    BY <2>1, ReorderAssumption
  <2> QED
    BY <2>1, <2>2
<1>2. base' >= Woken
  BY DEF Guarded
<1>3. GuardedBy(a)'
  <2>1. Woken \in Woken .. base'
    BY <1>1, ReorderAssumption
  <2> QED
    BY <1>1, <2>1 DEF GuardedBy
<1>4. "no_drop" \in flags \/ Renewed
  BY <1>1 DEF Guarded, ToCome
<1>5. Renewed => Renewed'
  <2> SUFFICES ASSUME Renewed PROVE Renewed'
    OBVIOUS
  <2>1. \A b \in Agents : /\ pc'[b] \notin {"scan", "pass", "rotate"}
                          /\ pc'[b] \in Turning => loc'[b].kind = "delba"
    BY RestIdle DEF Turning, Resting
  <2> QED
    BY <2>1 DEF Renewed
<1> QED
  BY <1>2, <1>3, <1>4, <1>5, GuardedFrom

LEMMA NewestComes ==
    ASSUME RankedInv, TypeOK', Aired, Newest, NEW n, RxData(n) \/ RxbaSync(n)
    PROVE  Newest'
<1> SUFFICES ASSUME AtWork' PROVE Recent' /\ (Close' \/ Guarded')
  BY DEF Newest
<1>1. TypeOK /\ Air /\ left \in 0 .. Most
  BY DEF RankedInv, Aired
<1>2. PICK a \in Agents :
        /\ pc[a] = "idle" /\ pc'[a] = "classify" /\ Only(a) /\ loc'[a].seq = n % SeqMod
        /\ exists /\ n \in Sendable /\ Comes(n) /\ Meets(a)
        /\ UNCHANGED <<exists, start_win, init_win, flags, base, spent>>
        /\ \/ a = "rx" /\ loc'[a].n = n /\ loc'[a].kind = "data" /\ left' = left
           \/ loc'[a].kind = "sync" /\ Once
  <2>1. CASE RxData(n)
    <3>1. "rx" \in Agents
      BY DEF Agents
    <3> QED
      BY <1>1, <2>1, <3>1, RxDataDoes DEF tblVars, sideVars
  <2>2. CASE RxbaSync(n)
    <3>1. "main" \in Agents /\ Once
      BY <2>2 DEF Agents, RxbaSync
    <3> QED
      BY <1>1, <2>2, <3>1, RxbaSyncDoes DEF tblVars
  <2> QED
    BY <2>1, <2>2
<1>3. ~overlap /\ Others(a) /\ ~Active(a)
  BY <1>2, MeetsNobody DEF AtWork, Active
<1>4. AtWork
  BY <1>1, <1>2, <1>3, AtWorkBegins
<1>5. /\ n \in Numbers /\ n \in Int /\ hi \in Int /\ hi' \in Int /\ Slack \in Int /\ Stride \in Int
      /\ 0 <= Stride /\ WinSize - 1 <= Slack /\ base <= n /\ base \in Int /\ Reach \in Int
  BY <1>1, <1>2, ComesNear, SlackIs, SendableIs, ReachIs, ReorderAssumption DEF Aired
<1>6. PICK h \in Int, s \in Int : h = hi' /\ s = Slack' /\ Slack <= s
  BY <1>1, <1>2, <1>5, SlackGrows
<1>7. /\ hi <= h /\ n <= h /\ h <= hi + Stride /\ h <= n + WinSize - 1 /\ Slack <= s
      /\ (n = h => hi < n) /\ (n # h => h = hi)
  BY <1>1, <1>2, <1>6, ComesNear
<1>8. s = Slack \/ s = Slack + Stride
  BY <1>1, <1>2, <1>6, SlackGrows
<1>9. loc'[a].kind # "data" => s = Slack + Stride
  BY <1>1, <1>2, <1>6, SlackGrows
<1>10. RecentBy(a)'
  <2>1. h <= n + s
    BY <1>5, <1>7, ReorderAssumption
  <2>2. n % SeqMod = (n % SeqMod) % SeqMod
    BY <1>5, SameReduced
  <2>3. \A N \in Numbers : N % SeqMod = loc'[a].seq % SeqMod => hi' <= N + Slack'
    BY <1>2, <1>5, <1>6, <2>1, <2>2, NearIs
  <2>4. Nearby(loc[a].seq, Slack)'
    BY <2>3 DEF Nearby
  <2>5. loc'[a].kind = "data" => a = "rx" /\ loc'[a].n <= hi'
    BY <1>2, <1>6, <1>7
  <2> QED
    BY <1>2, <2>4, <2>5 DEF RecentBy
<1>11. Only(a)
  BY <1>2
<1>12. Recent'
  BY <1>3, <1>10, <1>11, RecentFrom
<1>13. CASE Close
  <2>1. PICK A \in Numbers, T \in Numbers : Anchored(A, T)
    BY <1>4 DEF RankedInv, Ranked, AtWork
  <2>2. A % SeqMod = start_win % SeqMod /\ A <= Reach
    BY <2>1 DEF Anchored
  <2>3. hi <= A + Slack
    BY <1>2, <1>3, <1>11, <1>13, <2>2, CloseRest DEF Nearby, Turning
  <2>4. A \in Int
    BY NumberIs
  <2>5. start_win' = start_win
    BY <1>2
  <2>6. CASE loc'[a].kind = "data" /\ loc'[a].n = hi'
    <3>1. n = h /\ hi < h
      BY <1>2, <1>6, <1>7, <2>6
    <3>2. h <= A + (Slack + Stride) /\ h <= A + (s + Stride)
      BY <1>5, <1>7, <2>3, <2>4
    <3>3. A <= h
      <4>1. A <= Reach /\ (Reach = hi + 1 \/ Reach = base)
        BY <1>1, <2>2, ReachIs
      <4> QED
        BY <1>5, <2>4, <3>1, <4>1
    <3>4. \A N \in Numbers : N % SeqMod = start_win' % SeqMod => hi' <= N + (Slack + Stride)'
      <4>1. (Slack + Stride)' = s + Stride
        BY <1>6 DEF Stride
      <4> QED
        BY <1>6, <2>2, <2>5, <3>2, <4>1, NearIs
    <3>5. \A N \in Numbers : N % SeqMod = start_win' % SeqMod => N <= hi'
      BY <1>6, <2>2, <2>5, <3>3, NearIs
    <3>6. CloseBy(a)'
      BY <1>2, <2>6, <3>4, <3>5 DEF CloseBy, Nearby, NotPast, Turning
    <3>7. pc'[a] \notin Turning \cup {"classify"} => Nearby(start_win, Slack)'
      BY <1>2
    <3> QED
      BY <1>3, <1>11, <1>12, <3>6, <3>7, CloseFrom
  <2>7. CASE ~(loc'[a].kind = "data" /\ loc'[a].n = hi')
    <3>1. s = Slack + Stride \/ h = hi
      BY <1>2, <1>6, <1>7, <1>9, <2>7
    <3>2. h <= A + s
      BY <1>5, <1>7, <2>3, <2>4, <3>1
    <3>3. \A N \in Numbers : N % SeqMod = start_win' % SeqMod => hi' <= N + Slack'
      BY <1>6, <2>2, <2>5, <3>2, NearIs
    <3>4. CloseBy(a)'
      BY <1>2, <2>7, <3>3 DEF CloseBy, Nearby, Turning
    <3>5. pc'[a] \notin Turning \cup {"classify"} => Nearby(start_win, Slack)'
      BY <1>2
    <3> QED
      BY <1>3, <1>11, <1>12, <3>4, <3>5, CloseFrom
  <2> QED
    BY <2>6, <2>7
<1>14. CASE Guarded
  BY <1>1, <1>2, <1>3, <1>12, <1>14, GuardedComes
<1> QED
  BY <1>4, <1>13, <1>14 DEF Newest

LEMMA NewestBar ==
    ASSUME RankedInv, TypeOK', Aired, Newest, RxBar
    PROVE  Newest'
<1> SUFFICES ASSUME AtWork' PROVE Recent' /\ (Close' \/ Guarded')
  BY DEF Newest
<1>1. TypeOK /\ Air /\ left \in 0 .. Most
  BY DEF RankedInv, Aired
<1>2. /\ pc["rx"] = "idle" /\ pc'["rx"] = "classify" /\ Only("rx")
      /\ loc'["rx"].seq = base % SeqMod /\ loc'["rx"].kind = "bar"
      /\ exists /\ Meets("rx") /\ Once
      /\ UNCHANGED <<exists, start_win, init_win, flags, base, hi, came, spent>>
  BY <1>1, RxBarDoes DEF tblVars, sideVars, RxBar
<1>3. ~overlap /\ Others("rx") /\ "rx" \in Agents /\ Only("rx")
  BY <1>2, MeetsNobody DEF AtWork, Agents
<1>4. AtWork
  <2>1. ~Active("rx")
    BY <1>2 DEF Active
  <2> QED
    BY <1>1, <1>2, <1>3, <2>1, AtWorkBegins
<1>5. /\ base \in Int /\ FirstFrame <= base /\ base <= Woken + 1 /\ hi < base + WinSize
      /\ hi \in Int /\ Slack \in Int /\ WinSize - 1 <= Slack /\ Stride \in Int
  BY <1>1, ReachIs, SlackIs DEF Air
<1>6. PICK s \in Int : s = Slack' /\ Slack <= s
  BY <1>1, <1>2, SlackGrows
<1>7. Slack <= s
  BY <1>6
<1>8. RecentBy("rx")'
  <2>1. base \in Numbers /\ hi <= base + s
    BY <1>5, <1>7, ReorderAssumption DEF Numbers
  <2>2. base % SeqMod = (base % SeqMod) % SeqMod
    BY <1>5, SameReduced
  <2>3. \A N \in Numbers : N % SeqMod = loc'["rx"].seq % SeqMod => hi' <= N + Slack'
    BY <1>2, <1>6, <2>1, <2>2, NearIs
  <2>4. Nearby(loc["rx"].seq, Slack)'
    BY <2>3 DEF Nearby
  <2> QED
    BY <1>2, <2>4 DEF RecentBy
<1>9. Recent'
  BY <1>3, <1>8, RecentFrom
<1>10. CASE Close
  <2>1. Nearby(start_win, Slack)
    BY <1>2, <1>3, <1>10, CloseRest DEF Turning
  <2>2. \A N \in Numbers : N % SeqMod = start_win % SeqMod => hi <= N + s
    <3> SUFFICES ASSUME NEW N \in Numbers, N % SeqMod = start_win % SeqMod PROVE hi <= N + s
      OBVIOUS
    <3>1. hi <= N + Slack
      BY <2>1 DEF Nearby
    <3> QED
      BY <1>5, <1>7, <3>1, NumberIs
  <2>3. CloseBy("rx")'
    BY <1>2, <1>6, <2>2 DEF CloseBy, Nearby, Turning
  <2>4. pc'["rx"] \notin Turning \cup {"classify"} => Nearby(start_win, Slack)'
    BY <1>2
  <2> QED
    BY <1>3, <1>9, <2>3, <2>4, CloseFrom
<1>11. CASE Guarded
  <2>1. base' >= Woken
    BY <1>2, <1>11 DEF Guarded
  <2>2. GuardedBy("rx")'
    <3>1. base \in Woken .. base
      BY <1>2, <1>5, <2>1, ReorderAssumption
    <3> QED
      BY <1>2, <3>1 DEF GuardedBy
  <2>3. ~ToCome => ~ToCome'
    BY <1>2, <1>3, RestIdle DEF ToCome, Resting
  <2>4. Renewed => Renewed'
    <3> SUFFICES ASSUME Renewed PROVE Renewed'
      OBVIOUS
    <3>1. \A b \in Agents : /\ pc'[b] \notin {"scan", "pass", "rotate"}
                            /\ pc'[b] \in Turning => loc'[b].kind = "delba"
      BY <1>2, <1>3, RestIdle DEF Turning, Resting
    <3> QED
      BY <1>2, <3>1 DEF Renewed
  <2>5. "no_drop" \in flags' \/ ~ToCome' \/ Renewed'
    BY <1>2, <1>11, <2>3, <2>4 DEF Guarded
  <2> QED
    BY <1>3, <1>9, <2>1, <2>2, <2>5, GuardedFrom
<1> QED
  BY <1>4, <1>10, <1>11 DEF Newest

\* The flag is set while frames still come, and holds the window when they have gone by.
LEMMA NewestSleep ==
    ASSUME RankedInv, TypeOK', Aired, Flagged, Newest, HsActivated \/ Asleep
    PROVE  Newest'
<1> SUFFICES ASSUME AtWork' PROVE Recent' /\ (Close' \/ Guarded')
  BY DEF Newest
<1>1. TypeOK /\ Air
  BY DEF RankedInv
<1>2. CASE HsActivated
  <2>1. /\ Meets("main") /\ "main" \in Agents /\ pc["main"] = "idle" /\ Once /\ base < Woken
        /\ UNCHANGED <<exists, start_win, hi, base, pc, loc, spent>> /\ exists
    BY <1>2 DEF HsActivated, Agents, agentVars
  <2>2. ~overlap /\ Others("main") /\ ~Active("main")
    BY <2>1, MeetsNobody DEF AtWork, Active
  <2>3. AtWork /\ left \in 0 .. Most
    BY <1>1, <2>1, <2>2, AtWorkBegins DEF Aired
  <2>4. \A a \in Agents : pc'[a] \in Resting
    BY <2>1, <2>2 DEF Others, Active, Resting
  <2>5. Recent'
    BY <2>4 DEF Recent, RecentBy, Resting
  <2>6. Close
    <3>1. ~Guarded
      BY <1>1, <2>1, ReachIs, ReorderAssumption DEF Guarded
    <3> QED
      BY <2>3, <3>1 DEF Newest
  <2>7. Nearby(start_win, Slack)
    BY <2>1, <2>2, <2>6, CloseRest DEF Turning
  <2>8. PICK s \in Int : s = Slack' /\ Slack <= s
    BY <1>1, <2>1, <2>3, SlackGrows
  <2>9. \A N \in Numbers : N % SeqMod = start_win % SeqMod => hi <= N + s
    <3> SUFFICES ASSUME NEW N \in Numbers, N % SeqMod = start_win % SeqMod PROVE hi <= N + s
      OBVIOUS
    <3>1. hi <= N + Slack /\ hi \in Int /\ Slack \in Int /\ N \in Int /\ Slack <= s
      BY <1>1, <2>3, <2>7, <2>8, ReachIs, SlackIs, NumberIs DEF Nearby
    <3> QED
      BY <3>1
  <2>10. Nearby(start_win, Slack)'
    BY <2>1, <2>8, <2>9 DEF Nearby
  <2>11. \A a \in Agents : CloseBy(a)'
    BY <2>4 DEF CloseBy, Turning, Resting
  <2> QED
    BY <2>5, <2>10, <2>11 DEF Close
<1>3. CASE Asleep
  <2>1. /\ UNCHANGED <<pc, flags, exists, spent>> /\ base' = Woken /\ exists /\ dozing
        /\ \A a \in Agents : ~Active(a)
    BY <1>3 DEF Asleep, AtWork, agentVars, tblVars
  <2>2. \A a \in Agents : pc'[a] \in Resting
    BY <2>1 DEF Active, Resting
  <2>3. Recent'
    BY <2>2 DEF Recent, RecentBy, Resting
  <2>4. base' >= Woken /\ "no_drop" \in flags'
    BY <2>1, ReorderAssumption DEF Flagged, AtWork
  <2>5. \A a \in Agents : GuardedBy(a)'
    BY <2>2 DEF GuardedBy, Resting
  <2> QED
    BY <2>3, <2>4, <2>5 DEF Guarded
<1> QED
  BY <1>2, <1>3

LEMMA NewestCreate ==
    ASSUME RankedInv, Aired, Create
    PROVE  Newest'
<1> SUFFICES ASSUME AtWork' PROVE Recent' /\ (Close' \/ Guarded')
  BY DEF Newest
<1>1. TypeOK /\ Air
  BY DEF RankedInv
<1>2. /\ ~exists /\ UNCHANGED <<agentVars, airVars, overlap>> /\ init_win' = base % SeqMod
      /\ ~spent' => ~spent
      /\ \/ /\ rx_seq # None /\ rx_seq >= base % SeqMod /\ start_win' = rx_seq + 1
            /\ flags' = {"shift"}
         \/ start_win' = base % SeqMod
  BY DEF Create
<1>3. \A a \in Agents : pc'[a] \in {"idle", "reset", "lost"}
  BY <1>2 DEF AtWork, RankedInv, Window, Orderly, Ending, agentVars, Inside
<1>4. Recent'
  BY <1>3 DEF Recent, RecentBy
<1>5. /\ base \in Int /\ FirstFrame <= base /\ base <= Woken + 1 /\ hi < base + WinSize
      /\ hi \in Int /\ hi <= Woken /\ Slack \in Int /\ WinSize - 1 <= Slack
      /\ rx_seq \in Int /\ base % SeqMod \in Int
  BY <1>1, ReachIs, SlackIs, Reduced, ReorderAssumption DEF Air, Aired, TypeOK
<1>6. ASSUME \A N \in Numbers : N % SeqMod = start_win' % SeqMod => hi <= N + Slack
      PROVE  Close'
  <2>1. Nearby(start_win, Slack)'
    BY <1>2, <1>6 DEF Nearby, Slack, airVars
  <2>2. \A a \in Agents : CloseBy(a)'
    BY <1>3 DEF CloseBy, Turning
  <2> QED
    BY <2>1, <2>2 DEF Close
<1>7. CASE start_win' = base % SeqMod
  <2>1. base \in Numbers /\ hi <= base + Slack
    BY <1>5, ReorderAssumption DEF Numbers
  <2>2. base % SeqMod = (base % SeqMod) % SeqMod
    BY <1>5, SameReduced
  <2> QED
    BY <1>4, <1>6, <1>7, <2>1, <2>2, NearIs
<1>8. CASE rx_seq # None /\ rx_seq >= base % SeqMod /\ start_win' = rx_seq + 1 /\ flags' = {"shift"}
  <2>1. PICK m \in FirstFrame .. hi : m % SeqMod = rx_seq /\ (hi <= m + Slack \/ base >= Woken)
    BY <1>8 DEF Aired
  <2>2. CASE hi <= m + Slack
    <3>1. PICK k \in Int : k = m + 1
      BY <1>5, ReorderAssumption
    <3>2. m \in Int /\ k \in Numbers /\ hi <= k + Slack
      BY <1>5, <2>2, <3>1, ReorderAssumption DEF Numbers
    <3>3. k % SeqMod = (rx_seq + 1) % SeqMod
      <4>1. m % SeqMod = rx_seq % SeqMod
        BY <2>1, <3>2, SameReduced
      <4> QED
        BY <1>5, <3>1, <3>2, <4>1, SameShift
    <3> QED
      BY <1>4, <1>6, <1>8, <3>2, <3>3, NearIs
  <2>3. CASE base >= Woken
    <3>1. base' >= Woken /\ base' = base
      BY <1>2, <2>3 DEF airVars
    <3>2. \A a \in Agents : GuardedBy(a)'
      BY <1>3 DEF GuardedBy
    <3>3. ToCome' => base = Woken
      BY <1>3, <3>1 DEF ToCome
    <3>4. base = Woken => Renewed'
      <4>1. base % SeqMod < rx_seq + 1
        BY <1>5, <1>8
      <4>2. \A a \in Agents : pc'[a] \notin {"scan", "pass", "rotate"} /\ pc'[a] \notin Turning
        BY <1>3 DEF Turning
      <4> QED
        BY <1>2, <1>8, <4>1, <4>2 DEF Renewed
    <3>5. Guarded'
      BY <3>1, <3>2, <3>3, <3>4 DEF Guarded
    <3> QED
      BY <1>4, <3>5
  <2> QED
    BY <2>1, <2>2, <2>3
<1> QED
  BY <1>2, <1>7, <1>8

-------------------------------------------------------------------------------
(***************************************************************************)
(* The classification.                                                     *)
(***************************************************************************)
\* A frame that is less than half of the numbers ahead is not taken for an old one.
LEMMA AheadIsNotOld ==
    ASSUME NEW A \in Int, NEW v \in Int, NEW start \in 0 .. SeqMod,
           A % SeqMod = start % SeqMod, A <= v, v < A + Half
    PROVE  ~Old(v % SeqMod, start)
<1>1. PICK j \in 0 .. Half - 1 : v = A + j
  <2>1. v - A \in 0 .. Half - 1 /\ v = A + (v - A)
    BY ReorderAssumption
  <2> QED
    BY <2>1
<1>2. j \in Int /\ start \in Int /\ 0 <= j /\ j < Half
  BY <1>1, ReorderAssumption
<1>3. v % SeqMod = (start + j) % SeqMod
  BY <1>1, <1>2, SameShift
<1> DEFINE d == start + j
<1>4. d \in -SeqMod .. 2 * SeqMod - 1 /\ ~(d < 0)
  BY <1>2, ReorderAssumption
<1> HIDE DEF d
<1>5. d % SeqMod = IF d < SeqMod THEN d ELSE d - SeqMod
  BY <1>4, ModNear
<1> DEFINE s == v % SeqMod
<1>6. s = IF d < SeqMod THEN d ELSE d - SeqMod
  BY <1>3, <1>5 DEF d
<1> HIDE DEF s
<1> DEFINE h == start + Half
<1>7. h \in -SeqMod .. 2 * SeqMod - 1 /\ ~(h < 0)
  BY ReorderAssumption
<1> HIDE DEF h
<1>8. h % SeqMod = IF h < SeqMod THEN h ELSE h - SeqMod
  BY <1>7, ModNear
<1> DEFINE o == h % SeqMod
<1>9. o = IF h < SeqMod THEN h ELSE h - SeqMod
  BY <1>8
<1> HIDE DEF o
<1>10. ~(IF h > SeqMod - 1 THEN o <= s /\ s < start ELSE s < start \/ h <= s)
  BY <1>2, <1>6, <1>9, ReorderAssumption DEF h, d
<1> QED
  BY <1>10 DEF Old, h, o, s

\* The last number of the window that is asked for.
LEMMA AskedIs ==
    ASSUME NEW a \in Agents, NEW F \in Int, loc[a].seq = F % SeqMod
    PROVE  \E E \in Int : /\ E = IF loc[a].kind = "bar" THEN F + WinSize - 1 ELSE F
                          /\ Asked(a) = E % SeqMod
<1>1. CASE loc[a].kind = "bar"
  <2>1. PICK b \in Int : b = WinSize - 1
    BY ReorderAssumption
  <2>2. PICK s \in Int : s = F % SeqMod
    BY Reduced
  <2>3. F + WinSize - 1 = F + b /\ s + WinSize - 1 = s + b
    BY <2>1, ReorderAssumption
  <2>4. (s + b) % SeqMod = (F + b) % SeqMod
    BY <2>2, Space, ModAdd
  <2>5. Asked(a) = (s + WinSize - 1) % SeqMod
    BY <1>1, <2>2 DEF Asked, EndWin
  <2>6. F + b \in Int
    OBVIOUS
  <2> QED
    BY <1>1, <2>3, <2>4, <2>5, <2>6
<1>2. CASE loc[a].kind # "bar"
  BY <1>2 DEF Asked
<1> QED
  BY <1>1, <1>2

\* Whatever the window is: the frame that is asked for is the last one of the
\* window that is moved, and lies in the one that is not.
LEMMA MovedEnds ==
    ASSUME NEW a \in Agents, NEW E \in Int, Asked(a) = E % SeqMod
    PROVE  ((Asked(a) - WinSize + 1) % SeqMod) % SeqMod = (E - WinSize + 1) % SeqMod
<1>1. PICK b \in Int : b = -(WinSize - 1)
  BY ReorderAssumption
<1>2. PICK s \in Int : s = Asked(a)
  BY Reduced
<1>3. s - WinSize + 1 = s + b /\ E - WinSize + 1 = E + b
  BY <1>1, ReorderAssumption
<1>4. (s + b) % SeqMod = (E + b) % SeqMod
  BY <1>2, Space, ModAdd
<1>5. ((s + b) % SeqMod) % SeqMod = (s + b) % SeqMod
  BY <1>1, SameReduced
<1> QED
  BY <1>2, <1>3, <1>4, <1>5

LEMMA UnmovedHolds ==
    ASSUME TypeOK, NEW a \in Agents, NEW E \in Int, Asked(a) = E % SeqMod,
           ~Outside(Asked(a), start_win), NEW A \in Int, A % SeqMod = start_win % SeqMod
    PROVE  \E k \in Slots : E % SeqMod = (A + k) % SeqMod
<1>1. Asked(a) \in 0 .. SeqMod - 1 /\ start_win \in 0 .. SeqMod
  BY AskedType DEF TypeOK
<1>2. PICK k \in Slots : k = (Asked(a) - start_win) % SeqMod
  BY <1>1, InsideHasSlot
<1>3. PICK x \in Int, w \in Int, d \in Int : x = Asked(a) /\ w = start_win /\ d = x - w
  BY <1>1, Space
<1>4. k \in Int
  BY <1>2, ReorderAssumption DEF Slots
<1>5. ((d % SeqMod) + w) % SeqMod = (d + w) % SeqMod
  BY Space, ModAdd
<1>6. d + w = x /\ k + w = w + k
  BY <1>3, <1>4
<1>7. (w + k) % SeqMod = x % SeqMod
  BY <1>2, <1>3, <1>5, <1>6
<1>8. x % SeqMod = E % SeqMod
  BY <1>3, SameReduced
<1>9. (A + k) % SeqMod = (w + k) % SeqMod
  BY <1>3, <1>4, SameShift
<1> QED
  BY <1>7, <1>8, <1>9

\* A context that is to classify the frame the host woke for, with the flag set,
\* brings the window near whatever it was.
LEMMA WokenIsNear ==
    ASSUME Knows, NEW a \in Agents, Classify(a), loc[a].seq = Woken % SeqMod,
           "no_drop" \in flags,
           NEW A \in Numbers, NEW T \in Numbers, A % SeqMod = start_win' % SeqMod,
           pc'[a] = "until" => T % SeqMod = loc'[a].start % SeqMod
    PROVE  /\ pc'[a] # "until" => hi <= A + Slack
           /\ pc'[a] = "until" => hi <= T + Slack
<1>1. TypeOK /\ Air /\ Aired
  BY DEF Knows
<1>2. /\ ~Restart(a) /\ ~IsOld(a) /\ Begin(a) = start_win /\ start_win' = start_win
      /\ pc'[a] = "until" <=> Moves(a)
      /\ Moves(a) => loc'[a].start = (Asked(a) - WinSize + 1) % SeqMod
      /\ Moves(a) <=> Outside(Asked(a), start_win)
  <2>1. ~Restart(a) /\ ~IsOld(a)
    BY DEF Restart, IsOld
  <2>2. Begin(a) = start_win
    BY <2>1 DEF Begin
  <2> QED
    BY <1>1, <2>1, <2>2, ClassifyDoes DEF Moves
<1>3. PICK W \in Int : W = Woken
  BY ReorderAssumption
<1>4. PICK E \in Int : E = (IF loc[a].kind = "bar" THEN W + WinSize - 1 ELSE W) /\ Asked(a) = E % SeqMod
  BY <1>3, AskedIs
<1>5. /\ W <= E /\ E <= W + WinSize - 1 /\ hi <= W /\ hi \in Int /\ Slack \in Int
      /\ WinSize - 1 <= Slack /\ WinSize \in Int /\ SeqMod \in Int
      /\ W + 2 * WinSize <= FirstFrame + SeqMod /\ FirstFrame <= W /\ FirstFrame \in Int
      /\ 1 < WinSize /\ 2 * WinSize < SeqMod
  <2>1. W <= E /\ E <= W + WinSize - 1 /\ WinSize \in Int
    <3>1. WinSize \in Int /\ 1 < WinSize
      BY ReorderAssumption
    <3>2. E = W \/ E = W + WinSize - 1
      BY <1>4
    <3> QED
      BY <3>1, <3>2
  <2>2. hi <= W /\ hi \in Int /\ Slack \in Int /\ WinSize - 1 <= Slack
    BY <1>1, <1>3, ReachIs, SlackIs DEF Air, Aired
  <2>3. 2 * WinSize < SeqMod
    BY ReorderAssumption
  <2> QED
    BY <1>3, <2>1, <2>2, <2>3, ReorderAssumption
<1>6. /\ A \in Int /\ FirstFrame <= A /\ A <= W + WinSize + 1
      /\ T \in Int /\ FirstFrame <= T /\ T <= W + WinSize + 1
  BY <1>3, NumberIs
<1>7. CASE pc'[a] = "until"
  <2>1. T % SeqMod = (E - WinSize + 1) % SeqMod
    <3>1. loc'[a].start = (Asked(a) - WinSize + 1) % SeqMod
      BY <1>2, <1>7
    <3> QED
      BY <1>4, <1>7, <3>1, MovedEnds
  <2>2. PICK U \in Int : U = E - WinSize + 1
    BY <1>5
  <2>3. T - U < SeqMod /\ U - T < SeqMod
    BY <1>5, <1>6, <2>2
  <2>4. T = U
    BY <1>6, <2>1, <2>2, <2>3, ModClose
  <2>5. hi <= T + Slack
    BY <1>5, <1>6, <2>2, <2>4
  <2> QED
    BY <1>7, <2>5
<1>8. CASE pc'[a] # "until"
  <2>1. A % SeqMod = start_win % SeqMod /\ ~Outside(Asked(a), start_win)
    BY <1>2, <1>8
  <2>2. PICK k \in Slots : E % SeqMod = (A + k) % SeqMod
    BY <1>1, <1>4, <1>6, <2>1, UnmovedHolds
  <2>3. k \in Int /\ 0 <= k /\ k < WinSize
    BY ReorderAssumption DEF Slots
  <2>4. PICK U \in Int : U = A + k
    BY <1>6, <2>3
  <2>5. E - U < SeqMod /\ U - E < SeqMod
    BY <1>5, <1>6, <2>3, <2>4
  <2>6. E = U
    BY <2>2, <2>4, <2>5, ModClose
  <2>7. hi <= A + Slack
    BY <1>5, <1>6, <2>3, <2>4, <2>6
  <2> QED
    BY <1>8, <2>7
<1> QED
  BY <1>7, <1>8

LEMMA NewestClassify ==
    ASSUME RankedInv, RankedInv', Aired, Newest, NEW a \in Agents, Classify(a)
    PROVE  Newest'
<1> SUFFICES ASSUME AtWork' PROVE Recent' /\ (Close' \/ Guarded')
  BY DEF Newest
<1>1. TypeOK
  BY DEF RankedInv
<1>2. /\ pc[a] = "classify" /\ Only(a) /\ start_win' = Begin(a)
      /\ pc'[a] = IF IsOld(a) THEN "drop" ELSE IF Moves(a) THEN "until"
                  ELSE IF loc[a].kind = "bar" THEN "scan" ELSE "test"
      /\ loc'[a].n = loc[a].n /\ loc'[a].kind = loc[a].kind
      /\ UNCHANGED <<exists, init_win, hi, left, base, came, overlap>>
      /\ ~spent' => ~spent
  BY <1>1, ClassifyDoes DEF airVars
<1>3. AtWork
  BY <1>2, StaysAtWork
<1>4. Knows /\ Recent /\ (Close \/ Guarded) /\ Air /\ Aired
  BY <1>3, KnowsAll DEF AtWork, Newest, Knows
<1>5. Others(a) /\ Only(a)
  BY <1>2, <1>4, OthersIdle DEF Knows, Orderly, Active
<1>6. /\ loc[a].kind \in {"data", "bar", "sync"} /\ Nearby(loc[a].seq, Slack)
      /\ loc[a].kind = "data" => loc[a].n <= hi
  BY <1>2, <1>4 DEF Knows, Carried, CarriedBy, Recent, RecentBy
<1>7. PICK A \in Numbers, T \in Numbers : Anchored(A, T)
  BY <1>3 DEF RankedInv, Ranked, AtWork
<1>8. /\ A % SeqMod = start_win % SeqMod
      /\ loc[a].kind = "data" => loc[a].seq = loc[a].n % SeqMod
  BY <1>2, <1>7 DEF Anchored, InView
<1>9. PICK B \in Numbers, U \in Numbers : Anchored(B, U)'
  BY DEF RankedInv, Ranked, AtWork
<1>10. /\ B % SeqMod = start_win' % SeqMod
       /\ pc'[a] = "until" => U % SeqMod = loc'[a].start % SeqMod /\ B <= U
       /\ pc'[a] = "until" /\ loc[a].kind = "data" => loc[a].n = U + WinSize - 1
       /\ pc'[a] = "test" /\ loc[a].kind = "data" => loc[a].n = B + SlotOf(loc'[a])
  BY <1>2, <1>6, <1>9 DEF Anchored, InView, InPlace
<1>11. pc'[a] = "test" => SlotOf(loc'[a]) \in Slots
  BY DEF RankedInv, Carried, CarriedBy, Storing, SlotOf
<1>12. /\ hi \in Int /\ Slack \in Int /\ Stride \in Int /\ WinSize - 1 <= Slack
       /\ Slack + Stride < Half /\ Slack' = Slack /\ A \in Int /\ B \in Int /\ U \in Int
       /\ start_win \in 0 .. SeqMod
  BY <1>1, <1>2, <1>3, <1>4, SlackIs, SlackGrows, ReachIs, NumberIs DEF Aired, AtWork, TypeOK
<1>13. loc[a].kind = "data" => loc[a].n \in Int
  <2>1. loc[a].n \in Frames \cup {Empty}
    BY <1>1, LocalHas DEF TypeOK
  <2> QED
    BY <2>1, ReorderAssumption DEF Frames, Empty
\* The next state is close when it is close to the window it begins with.
<1>14. ASSUME pc'[a] # "until" => hi <= B + Slack, pc'[a] = "until" => hi <= U + Slack
       PROVE  Close'
  <2>1. pc'[a] = "until" => Nearby(loc[a].start, Slack)'
    <3>1. pc'[a] = "until" => \A N \in Numbers : N % SeqMod = loc'[a].start % SeqMod => hi' <= N + Slack'
      BY <1>2, <1>10, <1>12, <1>14, NearIs
    <3> QED
      BY <3>1 DEF Nearby
  <2>2. pc'[a] # "until" => Nearby(start_win, Slack)'
    <3>1. pc'[a] # "until" => \A N \in Numbers : N % SeqMod = start_win' % SeqMod => hi' <= N + Slack'
      BY <1>2, <1>10, <1>12, <1>14, NearIs
    <3> QED
      BY <3>1 DEF Nearby
  <2>3. pc'[a] \in {"drop", "until", "scan", "test"}
    BY <1>2
  <2>4. CloseBy(a)'
    BY <2>1, <2>3 DEF CloseBy, Turning
  <2>5. pc'[a] \notin Turning \cup {"classify"} => Nearby(start_win, Slack)'
    BY <2>2 DEF Turning
  <2> QED
    BY <1>5, <2>4, <2>5, CloseFrom
<1>15. ASSUME \A N \in Numbers : N % SeqMod = start_win' % SeqMod => hi <= N + Slack
       PROVE  Close'
  <2>1. hi <= B + Slack
    BY <1>10, <1>15
  <2>2. pc'[a] = "until" => hi <= U + Slack
    <3>1. pc'[a] = "until" => B <= U
      BY <1>10
    <3> QED
      BY <1>12, <2>1, <3>1
  <2> QED
    BY <1>14, <2>1, <2>2
<1>16. Restart(a) => Close'
  BY <1>2, <1>6, <1>15 DEF Begin, Nearby
\* A frame that is not to be dropped.
<1>17. ASSUME loc[a].kind = "data", loc[a].n = hi PROVE ~IsOld(a)
  <2> SUFFICES ASSUME IsOld(a) PROVE FALSE
    OBVIOUS
  <2>1. "no_drop" \notin flags /\ ~Restart(a) /\ Old(loc[a].seq, start_win)
    BY DEF IsOld, Begin
  <2>2. CASE Close
    <3>1. Nearby(start_win, Slack + Stride) /\ NotPast(start_win)
      BY <1>2, <1>17, <2>2 DEF Close, CloseBy
    <3>2. A <= hi /\ hi <= A + (Slack + Stride)
      BY <1>8, <3>1 DEF Nearby, NotPast
    <3>3. hi < A + Half
      BY <1>12, <3>2, ReorderAssumption
    <3>4. ~Old(hi % SeqMod, start_win)
      BY <1>8, <1>12, <3>2, <3>3, AheadIsNotOld
    <3> QED
      BY <1>8, <1>17, <2>1, <3>4
  <2>3. CASE Guarded
    <3>1. ToCome
      BY <1>2, <1>17 DEF ToCome
    <3>2. Renewed
      BY <2>1, <2>3, <3>1 DEF Guarded
    <3>3. loc[a].seq = Woken % SeqMod
      BY <1>2, <1>17, <2>3 DEF Guarded, GuardedBy
    <3>4. loc[a].seq = init_win /\ init_win < start_win /\ "shift" \in flags
      BY <3>2, <3>3 DEF Renewed
    <3>5. init_win <= init_win
      BY <1>1, ReorderAssumption DEF TypeOK
    <3> QED
      BY <2>1, <3>4, <3>5 DEF Restart
  <2> QED
    BY <1>4, <2>2, <2>3
<1>18. Recent'
  <2>1. pc'[a] = "drop" /\ loc[a].kind = "data" => loc[a].n < hi
    <3>1. pc'[a] = "drop" => IsOld(a)
      BY <1>2
    <3> QED
      BY <1>6, <1>12, <1>13, <1>17, <3>1
  <2>2. pc'[a] # "classify"
    BY <1>2
  <2>3. RecentBy(a)'
    BY <1>2, <2>1, <2>2 DEF RecentBy
  <2> QED
    BY <1>5, <2>3, RecentFrom
<1>19. CASE Close
  <2>1. CASE Restart(a)
    BY <1>16, <1>18, <2>1
  <2>2. CASE ~Restart(a) /\ loc[a].kind = "data" /\ loc[a].n = hi
    <3>1. pc'[a] \in {"until", "test"}
      BY <1>2, <1>17, <2>2
    <3>2. pc'[a] = "until" => hi <= U + Slack
      <4>1. pc'[a] = "until" => hi = U + WinSize - 1
        BY <1>10, <2>2
      <4> QED
        BY <1>12, <4>1, ReorderAssumption
    <3>3. pc'[a] = "test" => hi <= B + Slack
      <4> SUFFICES ASSUME pc'[a] = "test" PROVE hi <= B + Slack
        OBVIOUS
      <4>1. PICK k \in Slots : hi = B + k
        BY <1>10, <1>11, <2>2
      <4> QED
        BY <1>12, <4>1, ReorderAssumption DEF Slots
    <3> QED
      BY <1>14, <1>18, <3>1, <3>2, <3>3
  <2>3. CASE ~Restart(a) /\ ~(loc[a].kind = "data" /\ loc[a].n = hi)
    <3>1. Nearby(start_win, Slack)
      BY <1>2, <1>19, <2>3 DEF Close, CloseBy
    <3>2. start_win' = start_win
      BY <1>2, <2>3 DEF Begin
    <3> QED
      BY <1>15, <1>18, <3>1, <3>2 DEF Nearby
  <2> QED
    BY <2>1, <2>2, <2>3
<1>20. CASE Guarded
  <2>1. base >= Woken /\ base' = base /\ base <= Woken + 1 /\ base \in Int
    BY <1>1, <1>2, <1>4, <1>20, ReachIs DEF Guarded, Air
  <2>2. PICK F \in Woken .. base : loc[a].seq = F % SeqMod /\ (loc[a].kind # "bar" => F = Woken)
    BY <1>2, <1>20 DEF Guarded, GuardedBy
  <2>3. CASE ~ToCome
    <3>1. loc[a].kind # "data"
      BY <1>2, <2>3 DEF ToCome
    <3>2. GuardedBy(a)'
      <4>1. pc'[a] # "classify"
        BY <1>2
      <4> QED
        BY <1>2, <3>1, <4>1 DEF GuardedBy
    <3>3. ~ToCome'
      BY <1>2, <1>5, <2>3, RestIdle DEF ToCome, Resting
    <3> QED
      BY <1>5, <1>18, <2>1, <3>2, <3>3, GuardedFrom
  <2>4. CASE ToCome
    <3>1. F = Woken
      <4>1. loc[a].kind = "bar" => base = Woken
        BY <1>2, <1>5, <2>4 DEF ToCome, Others, Active
      <4>2. CASE loc[a].kind = "bar"
        <5>1. F \in Woken .. Woken
          BY <2>2, <4>1, <4>2
        <5> QED
          BY <5>1, ReorderAssumption
      <4> QED
        BY <2>2, <4>2
    <3>2. loc[a].seq = Woken % SeqMod
      BY <2>2, <3>1
    <3>3. CASE "no_drop" \in flags
      <4>1. /\ pc'[a] # "until" => hi <= B + Slack
            /\ pc'[a] = "until" => hi <= U + Slack
        BY <1>4, <1>10, <3>2, <3>3, WokenIsNear
      <4> QED
        BY <1>14, <1>18, <4>1
    <3>4. CASE "no_drop" \notin flags
      <4>1. Renewed
        BY <1>20, <2>4, <3>4 DEF Guarded
      <4>2. loc[a].seq = init_win /\ init_win < start_win /\ "shift" \in flags
        BY <3>2, <4>1 DEF Renewed
      <4>3. init_win <= init_win
        BY <1>1, ReorderAssumption DEF TypeOK
      <4>4. Restart(a)
        BY <3>4, <4>2, <4>3 DEF Restart
      <4> QED
        BY <1>16, <1>18, <4>4
    <3> QED
      BY <3>3, <3>4
  <2> QED
    BY <2>3, <2>4
<1> QED
  BY <1>4, <1>19, <1>20

-------------------------------------------------------------------------------
LEMMA NewestNext ==
    ASSUME RankedInv, RankedInv', Aired, Flagged, Newest, [Next]_vars
    PROVE  Newest'
<1>1. TypeOK /\ TypeOK'
  BY DEF RankedInv
<1>2. CASE UNCHANGED vars
  BY <1>1, <1>2, NewestStill
<1>3. CASE Arrivals
  <2>1. CASE SenderMoves \/ \E d \in Deleters : Delba(d)
    BY <1>1, <2>1, NewestStill
  <2>2. CASE RxBar \/ Create \/ AddbaAgain \/ HsActivated \/ Asleep
    BY <1>1, <2>2, NewestBar, NewestCreate, NewestAgain, NewestSleep
  <2>3. ASSUME NEW n \in Sent, Direct(n) \/ RxData(n) \/ RxAmsdu(n) \/ RxbaSync(n)
        PROVE  Newest'
    BY <1>1, <2>3, NewestNone, NewestComes, NewestStill
  <2> QED
    BY <1>3, <2>1, <2>2, <2>3 DEF Arrivals
<1>4. CASE FlushFind \/ FlushFrom \/ TimerExpires
  BY <1>1, <1>4, NewestStill, NewestFlush
<1>6. ASSUME NEW d \in Deleters, Deletion(d) PROVE Newest'
  BY <1>1, <1>6, NewestStill, NewestDelete, NewestNone DEF Deletion
<1>5. ASSUME NEW a \in Agents, Step(a) PROVE Newest'
  <2>1. CASE Classify(a)
    BY <2>1, NewestClassify
  <2>2. CASE UntilRotate(a)
    BY <2>2, NewestUntilRotate
  <2>3. CASE ScanRotate(a)
    BY <2>3, NewestScanRotate
  <2>4. CASE Remains(a)
    BY <2>4, NewestRemains
  <2> QED
    BY <1>5, <2>1, <2>2, <2>3, <2>4 DEF Step, Remains
<1> QED
  BY <1>2, <1>3, <1>4, <1>5, <1>6 DEF Next, Handlers

LEMMA NewestInit == Init => Aired /\ Flagged /\ Newest
<1> SUFFICES ASSUME Init PROVE Aired /\ Flagged /\ Newest
  OBVIOUS
<1>1. /\ left = Most /\ base = FirstFrame /\ hi = FirstFrame - 1 /\ rx_seq = None
      /\ exists = FALSE
  BY DEF Init
<1>2. Most \in 0 .. Most /\ FirstFrame <= FirstFrame - 1 + Gap + 1
  BY ReorderAssumption
<1> QED
  BY <1>1, <1>2 DEF Aired, Flagged, Newest, AtWork, Serving

\* While few frames have gone past the table for the width of the window, the
\* newest packet is not dropped: not as one behind the window (the first test of
\* mwifiex_11n_rx_reorder_pkt) and not for a slot that is taken (the second),
\* through losses, flushes, restarts of the agreement and the wrapping of the
\* numbers, nor after the host has slept through more than half of them (the flag
\* that mwifiex_hs_activated_event sets).  The exceptions: contexts that met in the
\* table, and a flag that a frame used up before the host slept
\* (11n_rxreorder.c:596-599) or whose table was made anew.
THEOREM NewestCorrect == Spec => []NewestKept
<1>1. Init => RankedInv /\ Aired /\ Flagged /\ Newest
  <2>1. Init => Deleting
    BY DEF Init, Deleting, Inside, Idle, Deleters, Agents
  <2> QED
    BY <2>1, TypeInit, WindowInit, RankedInit, NewestInit DEF RankedInv
<1>2. RankedInv /\ RankedInv' /\ Aired /\ Flagged /\ Newest /\ [Next]_vars
        => Aired' /\ Flagged' /\ Newest'
  BY AiredNext, FlaggedNext, NewestNext DEF RankedInv
<1>3. RankedInv /\ Newest => NewestKept
  <2> SUFFICES ASSUME RankedInv, Newest, ~overlap, ~spent, Few, NEW a \in Agents,
                      pc[a] = "drop", loc[a].kind = "data"
               PROVE  loc[a].n < hi
    BY DEF NewestKept
  <2>1. Orderly /\ Active(a) /\ Inside(a)
    BY DEF RankedInv, Window, Active, Inside
  <2>2. exists
    BY <2>1 DEF Orderly, Ending
  <2>3. \A d \in Deleters : pc[d] \notin {"stop", "free"}
    BY <2>1, OthersIdle DEF Orderly, Others, Active, Agents, Deleters
  <2> QED
    BY <2>2, <2>3 DEF Newest, AtWork, Serving, Recent, RecentBy
<1> QED
  BY <1>1, <1>2, <1>3, AlwaysRanked, PTL DEF Spec
-------------------------------------------------------------------------------
(***************************************************************************)
(* What is dropped at all.                                                 *)
(***************************************************************************)
\* It lies behind the window, or half of the numbers ahead of it.
Behind ==
    ~overlap /\ ~spent => \A a \in Agents : pc[a] = "drop" /\ loc[a].kind = "data" =>
        \A A \in Numbers : A % SeqMod = start_win % SeqMod
                             => loc[a].n < A \/ A + Half <= loc[a].n

\* Only the classification has a packet dropped, and while it is dropped nothing
\* else happens to the table.
LEMMA DropBegins ==
    ASSUME RankedInv, [Next]_vars, ~overlap', ~spent', NEW a \in Agents, pc'[a] = "drop",
           loc'[a].kind = "data"
    PROVE  /\ ~overlap /\ ~spent
           /\ \/ Classify(a)
              \/ pc[a] = "drop" /\ loc'[a] = loc[a] /\ start_win' = start_win
<1>1. TypeOK /\ Deleting
  BY DEF RankedInv
<1>2. ~overlap /\ ~spent
  <2>1. ASSUME NEW b \in Agents, Meets(b) PROVE ~overlap
    BY <2>1, MeetsNobody
  <2>2. ASSUME NEW b \in Agents, Step(b) PROVE ~overlap /\ ~spent
    <3>1. CASE Classify(b)
      BY <1>1, <3>1, ClassifyDoes
    <3>2. CASE ~Classify(b)
      BY <2>2, <3>2, <1>1, TestDoes, StoreDoes, DropDoes, DoneDoes, UntilBeginDoes,
         UntilTakeDoes, UntilRotateDoes, ScanTakeDoes, ScanRotateDoes, GiveDoes
         DEF Step, sideVars
    <3> QED
      BY <3>1, <3>2
  <2>3. CASE FlushFind \/ FlushFrom \/ TimerExpires
    BY <1>1, <2>1, <2>3, FlushFindDoes, FlushFromDoes DEF TimerExpires, Agents, sideVars
  <2>7. ASSUME NEW d \in Deleters, Deletion(d) \/ Delba(d)
        PROVE  ~overlap /\ ~spent
    <3>1. CASE FlushWorker(d)
      BY <2>1, <3>1 DEF FlushWorker, sideVars, Agents, Deleters
    <3>2. CASE Free(d)
      BY <3>2 DEF Free
    <3>3. CASE StopTimer(d) \/ ResetSeq(d) \/ Delba(d)
      BY <3>3 DEF StopTimer, ResetSeq, Delba, sideVars
    <3> QED
      BY <2>7, <3>1, <3>2, <3>3 DEF Deletion
  <2>4. CASE RxBar \/ AddbaAgain \/ HsActivated
    BY <2>1, <2>4 DEF RxBar, AddbaAgain, HsActivated, Agents, sideVars
  <2>8. CASE Asleep \/ Create \/ SenderMoves
    <3>1. CASE Asleep
      BY <3>1 DEF Asleep
    <3>2. CASE Create
      BY <3>2 DEF Create
    <3>3. CASE SenderMoves
      BY <3>3 DEF SenderMoves, sideVars
    <3> QED
      BY <2>8, <3>1, <3>2, <3>3
  <2>5. ASSUME NEW n \in Sent, Direct(n) \/ RxData(n) \/ RxAmsdu(n) \/ RxbaSync(n)
        PROVE  ~overlap /\ ~spent
    BY <2>1, <2>5 DEF Direct, RxData, RxAmsdu, RxbaSync, Agents, sideVars
  <2>6. CASE UNCHANGED vars
    BY <2>6 DEF vars, sideVars
  <2> QED
    BY <2>2, <2>3, <2>4, <2>5, <2>6, <2>7, <2>8 DEF Next, Arrivals, Handlers
<1>3. Orderly
  BY <1>2 DEF RankedInv, Window
<1>4. ASSUME NEW b \in Agents, Step(b)
      PROVE  Classify(a)
  <2>1. Only(b) /\ Active(b)
    BY <1>1, <1>4, ClassifyDoes, TestDoes, StoreDoes, DropDoes, DoneDoes, UntilBeginDoes,
       UntilTakeDoes, UntilRotateDoes, ScanTakeDoes, ScanRotateDoes, GiveDoes DEF Step, Active
  <2>2. a = b
    <3>1. a # b => pc[a] = "drop"
      BY <2>1 DEF Only
    <3> QED
      BY <1>3, <2>1, <3>1 DEF Orderly, Alone, Active
  <2>3. ~Remains(a)
    <3> SUFFICES ASSUME Remains(a) PROVE FALSE
      OBVIOUS
    <3>1. pc[a] = "test" /\ loc'[a] = loc[a] /\ rx_reorder_ptr[SlotOf(loc[a])] # Empty
      BY <1>1, RemainsDoes DEF Turning
    <3> QED
      BY <1>2, <3>1, FreeSlot DEF SlotFree
  <2>4. ~(UntilRotate(a) \/ ScanRotate(a))
    BY <1>1, UntilRotateDoes, ScanRotateDoes DEF AfterUntil
  <2> QED
    <3>1. Step(a)
      BY <1>4, <2>2
    <3> QED
      BY <2>3, <2>4, <3>1 DEF Step, Remains
<1>5. CASE \/ FlushFind \/ FlushFrom \/ TimerExpires
           \/ \E d \in Deleters : FlushWorker(d) \/ StopTimer(d) \/ Free(d) \/ ResetSeq(d)
  <2>1. \E b \in Agents : /\ Only(b) /\ pc'[b] # "drop"
                          /\ start_win' = start_win \/ pc[b] = "free"
    <3>1. CASE FlushFind \/ FlushFrom \/ TimerExpires
      BY <1>1, <3>1, FlushFindDoes, FlushFromDoes, TimerExpiresDoes DEF Agents, tblVars
    <3>2. ASSUME NEW d \in Deleters, FlushWorker(d) \/ StopTimer(d) \/ Free(d) \/ ResetSeq(d)
          PROVE  /\ d \in Agents /\ Only(d) /\ pc'[d] # "drop"
                 /\ start_win' = start_win \/ pc[d] = "free"
      <4>1. d \in Agents
        BY DEF Agents, Deleters
      <4>2. CASE Free(d)
        BY <1>1, <4>1, <4>2, FreeDoes
      <4>3. CASE FlushWorker(d) \/ StopTimer(d) \/ ResetSeq(d)
        BY <1>1, <4>1, <4>3, FlushWorkerDoes, StopTimerDoes, ResetSeqDoes DEF tblVars
      <4> QED
        BY <3>2, <4>2, <4>3
    <3> QED
      BY <1>5, <3>1, <3>2
  <2> QED
    BY <1>2, <1>3, <2>1 DEF Only, Orderly, Alone, Active
<1>6. CASE \/ RxBar \/ AddbaAgain \/ \E n \in Sent : RxData(n) \/ RxbaSync(n)
           \/ \E d \in Deleters : Delba(d)
  <2>1. \E b \in Agents : Only(b) /\ pc'[b] # "drop" /\ UNCHANGED start_win
    <3>1. CASE RxBar \/ AddbaAgain \/ \E n \in Sent : RxData(n) \/ RxbaSync(n)
      BY <1>1, <3>1, RxBarDoes, AddbaAgainDoes, RxDataDoes, RxbaSyncDoes DEF Agents, tblVars
    <3>2. ASSUME NEW d \in Deleters, Delba(d)
          PROVE  d \in Agents /\ Only(d) /\ pc'[d] # "drop" /\ UNCHANGED start_win
      BY <1>1, <3>2, DelbaDoes DEF Agents, Deleters, tblVars
    <3> QED
      BY <1>6, <3>1, <3>2
  <2> QED
    BY <1>2, <2>1 DEF Only
<1>7. CASE SenderMoves \/ HsActivated \/ Asleep \/ UNCHANGED vars
           \/ \E n \in Sent : Direct(n) \/ RxAmsdu(n)
  BY <1>2, <1>7 DEF SenderMoves, HsActivated, Asleep, vars, Direct, RxAmsdu, agentVars, tblVars
<1>8. CASE Create
  BY <1>3, <1>8 DEF Create, Orderly, Ending, Inside, agentVars
<1> QED
  BY <1>2, <1>4, <1>5, <1>6, <1>7, <1>8 DEF Next, Arrivals, Handlers, Deletion

\* Only a packet behind the window is dropped: none that lies in the window or up to
\* half of the numbers ahead of it (Old is the test of mwifiex_11n_rx_reorder_pkt with
\* its two cases), and none for a slot that is taken, whatever has been lost, flushed
\* or begun anew, and where the numbers wrap.  The exceptions: contexts that met in
\* the table, and a frame that used up RXREOR_FORCE_NO_DROP before the host slept
\* (11n_rxreorder.c:596-599) or a table made anew before that.
THEOREM DroppedIsBehind == Spec => []Behind
<1>1. Init => Behind
  BY DEF Init, Behind
<1>2. RankedInv /\ RankedInv' /\ Behind /\ [Next]_vars => Behind'
  <2> SUFFICES ASSUME RankedInv, RankedInv', Behind, [Next]_vars, ~overlap', ~spent',
                      NEW a \in Agents, pc'[a] = "drop", loc'[a].kind = "data",
                      NEW A \in Numbers, A % SeqMod = start_win' % SeqMod
               PROVE  loc'[a].n < A \/ A + Half <= loc'[a].n
    BY DEF Behind
  <2>1. ~overlap /\ ~spent /\ TypeOK
    BY DropBegins DEF RankedInv
  <2>2. CASE pc[a] = "drop" /\ loc'[a] = loc[a] /\ start_win' = start_win
    BY <2>1, <2>2 DEF Behind
  <2>3. CASE Classify(a)
    <3>1. /\ IsOld(a) /\ start_win' = Begin(a) /\ loc'[a].n = loc[a].n
          /\ loc[a].kind = "data" /\ pc[a] = "classify"
      BY <2>1, <2>3, ClassifyDoes
    <3>2. Old(loc[a].seq, start_win) /\ start_win' = start_win
      BY <3>1 DEF IsOld, Begin
    <3>3. Carried /\ Orderly /\ Ending
      BY <2>1 DEF RankedInv, Window, Orderly
    <3>4. Serving
      <4>1. Active(a) /\ Inside(a)
        BY <3>1 DEF Active, Inside
      <4> QED
        BY <3>1, <3>3, <4>1, OthersIdle
           DEF Orderly, Ending, Others, Active, Agents, Deleters, Serving
    <3>5. PICK B \in Numbers, T \in Numbers : Anchored(B, T)
      BY <2>1, <3>4 DEF RankedInv, Ranked
    <3>6. loc[a].seq = loc[a].n % SeqMod
      BY <3>1, <3>5 DEF Anchored, InView
    <3>7. A \in Int /\ loc[a].n \in Int /\ start_win \in 0 .. SeqMod
      <4>1. loc[a].n \in Frames \cup {Empty}
        BY <2>1, LocalHas DEF TypeOK
      <4> QED
        BY <2>1, <4>1, NumberIs, ReorderAssumption DEF Frames, Empty, TypeOK
    <3>8. ~(A <= loc[a].n /\ loc[a].n < A + Half)
      BY <3>2, <3>6, <3>7, AheadIsNotOld
    <3>9. loc[a].n < A \/ A + Half <= loc[a].n
      BY <3>7, <3>8, ReorderAssumption
    <3> QED
      BY <3>1, <3>9
  <2> QED
    BY <2>2, <2>3, DropBegins
<1> QED
  BY <1>1, <1>2, AlwaysRanked, PTL DEF Spec
===============================================================================
