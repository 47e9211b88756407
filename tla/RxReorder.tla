------------------------------- MODULE RxReorder ------------------------------
(***************************************************************************)
(* The receive reorder table of the reference driver                       *)
(* (src/doc/mwifiex/11n_rxreorder.c), for one sender and one TID under a   *)
(* block ack agreement.  Four contexts work on it: the receive worker      *)
(* ("rx"), the flush timer's softirq ("timer"), the main thread, which     *)
(* handles the firmware's events ("main"), and a caller of cfg80211, which *)
(* deletes the tables when a TDLS link ends ("user").  rx_reorder_tbl_lock *)
(* is taken for one slot or one rotation at a time, and not at all where a *)
(* packet is put into its slot.                                            *)
(*                                                                         *)
(* Frames are numbered from FirstFrame on without end; what the air and    *)
(* the table know of a frame is its sequence number, n % SeqMod.           *)
(***************************************************************************)
EXTENDS Integers, FiniteSets

CONSTANTS
    SeqMod,       \* MAX_TID_VALUE, 4096
    WinSize,      \* the window of the agreement: 16, 32 or 64
    Half,         \* TWOPOW11
    FirstFrame,   \* the number the play starts with
    MaxFrames,    \* bound: frames below this one are sent
    Woken,        \* bound: the frame the host wakes for, when it has slept
    Gap,          \* bound: frames lost in a row while the host is awake
    Most,         \* bound: requests, A-MSDUs, the main thread's events together
    Cpus          \* bound: contexts that work on the table at one time

ASSUME ReorderAssumption ==
    /\ SeqMod \in Nat /\ WinSize \in Nat /\ Half \in Nat /\ Gap \in Nat
    /\ SeqMod = 2 * Half /\ 1 < WinSize /\ Gap + 2 * WinSize - 2 < Half
    /\ FirstFrame \in Nat /\ MaxFrames \in Nat /\ FirstFrame <= MaxFrames
    /\ Most \in Nat /\ Cpus \in Nat /\ Woken \in Nat
    /\ MaxFrames <= Woken /\ Woken + 2 * WinSize <= FirstFrame + SeqMod

VARIABLES
    exists,         \* whether the table is there
    start_win,      \* the sequence number slot 0 stands for
    init_win,
    flags,          \* "no_drop", "shift": RXREOR_FORCE_NO_DROP, RXREOR_INIT_...
    rx_reorder_ptr, \* the slots
    timer_is_set,   \* what the driver believes
    armed,          \* whether the timer is pending
    rx_locked,      \* keeps the worker off while a table is deleted
    rx_seq,         \* the last sequence number seen on the TID, or None
    pc, loc,        \* where each context is, and its local variables
    hand,           \* the packet it has taken from its slot
    base,           \* the sender's window begins here
    hi,             \* the newest frame the firmware has handed over
    left,           \* how many more of the things that Most bounds
    came,           \* the packets of the sender's window that have come
    gone,           \* history: those of them that are dispatched or freed
    out, ordered,   \* history: the last dispatched, and whether all were in order
    early,          \* history: whether a packet went up before its turn: from
                    \* behind the window's new beginning, or past the table
    overlap,        \* history: whether contexts met in the table
    crossed,        \* history: whether a deletion and a handler of the main
                    \* thread met, at work or waiting
    dozing,         \* the host is about to sleep
    spent           \* history: whether the flag was used up, or its table made
                    \* anew, before the host slept

tblVars  == <<exists, start_win, init_win, flags, rx_reorder_ptr>>
timeVars == <<timer_is_set, armed>>
agentVars == <<pc, loc, hand>>
airVars  == <<base, hi, rx_seq, left, came>>
histVars == <<gone, out, ordered, early>>
sideVars == <<rx_locked, crossed, dozing, spent>>
vars == <<tblVars, timeVars, sideVars, agentVars, airVars, histVars, overlap>>

Agents   == {"rx", "timer", "main", "user"}
Deleters == {"main", "user"}
Slots  == 0 .. WinSize - 1
Empty  == -1
None   == -1                  \* MWIFIEX_DEF_11N_RX_SEQ_NUM
Idle   == [n |-> Empty, kind |-> "none", seq |-> 0, start |-> 0, prev |-> 0,
           i |-> 0, send |-> 0]
Larger(a, b)  == IF a < b THEN b ELSE a
Smaller(a, b) == IF a < b THEN a ELSE b

Init ==
    /\ exists = FALSE /\ start_win = 0 /\ init_win = 0 /\ flags = {}
    /\ rx_reorder_ptr = [k \in Slots |-> Empty]
    /\ timer_is_set = FALSE /\ armed = FALSE /\ rx_locked = FALSE
    /\ pc = [a \in Agents |-> "idle"] /\ loc = [a \in Agents |-> Idle]
    /\ hand = [a \in Agents |-> Empty]
    /\ base = FirstFrame /\ hi = FirstFrame - 1 /\ rx_seq = None /\ left = Most
    /\ came = {} /\ gone = {} /\ out = FirstFrame - 1 /\ ordered = TRUE
    /\ early = FALSE /\ overlap = FALSE /\ crossed = FALSE
    /\ dozing = FALSE /\ spent = FALSE

-------------------------------------------------------------------------------
Once              == left > 0 /\ left' = left - 1
Goto(a, from, to) == pc[a] = from /\ pc' = [pc EXCEPT ![a] = to]
Keep(a, l)        == loc' = [loc EXCEPT ![a] = l]

\* A context that works on the table while another one does.
Active(a)  == pc[a] \notin {"idle", "wait", "reset", "lost"}
NewOrder   == out' = FirstFrame - 1 /\ ordered' = TRUE /\ early' = FALSE
Meets(a)   ==
    /\ Cardinality({b \in Agents : Active(b)}) < Cpus
    /\ overlap' = (overlap \/ \E b \in Agents \ {a} : Active(b))
    /\ IF overlap' THEN NewOrder ELSE UNCHANGED <<out, ordered, early>>

\* A context that has the table's address.
Inside(a)  == pc[a] \notin {"idle", "reset", "lost"}
Crosses(d) == crossed' = (crossed \/ \E b \in Deleters \ {d} : Inside(b))

\* The order is looked at until contexts meet or a packet is early.
Deliver(n) ==
    /\ gone' = gone \cup {n}
    /\ IF overlap \/ early THEN UNCHANGED <<out, ordered>>
       ELSE out' = n /\ ordered' = (ordered /\ out < n)

-------------------------------------------------------------------------------
(***************************************************************************)
(* mwifiex_11n_rx_reorder_pkt, on a packet in the worker or, with no       *)
(* payload, for a frame the firmware has dropped, in the main thread.      *)
(***************************************************************************)

\* The 802.11 sender: its window moves on when it has an acknowledgement or has
\* given up.
Passed(n) == gone' = gone \ (FirstFrame .. n - 1) /\ came' = came \ (FirstFrame .. n - 1)
Sent == (FirstFrame .. MaxFrames - 1) \cup {Woken}
SenderMoves ==
    /\ base \in Sent /\ base <= hi + Gap
    /\ base' = base + 1 /\ Passed(base + 1)
    /\ UNCHANGED <<tblVars, timeVars, sideVars, agentVars, hi, rx_seq, left, out,
                   ordered, early, overlap>>

Comes(n)  == came' = came \cup {n} /\ hi' = Larger(hi, n)
Sendable == (Sent \cap (base .. base + WinSize - 1)) \ came

\* mwifiex_process_sta_rx_packet, without an agreement: frames come one by one
\* and go straight up.
Direct(n) ==
    /\ ~exists /\ ~rx_locked /\ pc["rx"] = "idle"
    /\ n = base /\ n \in Sendable
    /\ Comes(n) /\ rx_seq' = n % SeqMod
    /\ gone' = gone \cup {n}
    /\ UNCHANGED <<tblVars, timeVars, sideVars, agentVars, base, left, out, ordered,
                   early, overlap>>

\* With one: any frame of the sender's window that has not come yet.
RxData(n) ==
    /\ exists /\ ~rx_locked /\ n \in Sendable
    /\ Goto("rx", "idle", "classify")
    /\ Keep("rx", [Idle EXCEPT !.n = n, !.kind = "data", !.seq = n % SeqMod])
    /\ Comes(n) /\ rx_seq' = n % SeqMod
    /\ Meets("rx")
    /\ UNCHANGED <<tblVars, timeVars, sideVars, hand, base, left, gone>>

\* An A-MSDU in an agreement that does not provide for them goes straight up,
\* whatever the table holds.
RxAmsdu(n) ==
    /\ exists /\ ~rx_locked /\ n \in Sendable /\ Once
    /\ pc["rx"] = "idle"
    /\ Comes(n) /\ rx_seq' = n % SeqMod
    /\ gone' = gone \cup {n} /\ early' = (early \/ ~overlap)
    /\ UNCHANGED <<tblVars, timeVars, sideVars, agentVars, base, out, ordered, overlap>>

\* A block ack request: the sender's window begins there now.
RxBar ==
    /\ exists /\ ~rx_locked /\ Once
    /\ Goto("rx", "idle", "classify")
    /\ Keep("rx", [Idle EXCEPT !.kind = "bar", !.seq = base % SeqMod])
    /\ Meets("rx")
    /\ UNCHANGED <<tblVars, timeVars, sideVars, hand, base, hi, rx_seq, came, gone>>

\* mwifiex_11n_rxba_sync_event: a frame the firmware had to drop.
RxbaSync(n) ==
    /\ exists /\ Once /\ n \in Sendable
    /\ Goto("main", "idle", "classify")
    /\ Keep("main", [Idle EXCEPT !.kind = "sync", !.seq = n % SeqMod])
    /\ Comes(n) /\ gone' = gone \cup {n}
    /\ Meets("main") /\ Crosses("main")
    /\ UNCHANGED <<tblVars, timeVars, rx_locked, dozing, spent, hand, base, rx_seq>>

EndWin_NoMask(start) == start + WinSize - 1     \* slip: not reduced
EndWin(start) == (start + WinSize - 1) % SeqMod

\* The packet lies behind the window.
Old_NoWrap(seq, start) == seq < start     \* slip: without the second half
Old(seq, start) ==
    IF start + Half > SeqMod - 1
    THEN (start + Half) % SeqMod <= seq /\ seq < start
    ELSE seq < start \/ start + Half <= seq

\* It lies outside of it.
Outside(seq, start) ==
    LET end == EndWin(start)
    IN  \/ end < start /\ end < seq /\ seq < start
        \/ start < end /\ (end < seq \/ seq < start)

\* From the table's fields to what is to be done, all in local variables but for
\* the flags and, for a sender that has started over, the window.
Classify(a) ==
    /\ pc[a] = "classify"
    /\ LET l       == loc[a]
           shift   == "shift" \in flags
           restart == /\ "no_drop" \notin flags /\ shift
                      /\ l.seq < start_win /\ init_win <= l.seq
           start   == IF restart THEN l.seq ELSE start_win
           seq     == IF l.kind = "bar" THEN EndWin(l.seq) ELSE l.seq
           old     == "no_drop" \notin flags /\ ~restart /\ Old(l.seq, start)
           moves   == ~old /\ Outside(seq, start)
       IN  /\ flags' = flags \ (IF shift THEN {"shift", "no_drop"} ELSE {"no_drop"})
           /\ start_win' = start
           /\ Keep(a, [l EXCEPT !.seq = seq, !.prev = start_win,
                                !.start = IF moves
                                          THEN (seq - WinSize + 1) % SeqMod ELSE start])
           /\ pc' = [pc EXCEPT ![a] =
                       CASE old   -> "drop"
                         [] moves -> "until"
                         [] ~old /\ ~moves /\ l.kind = "bar" -> "scan"
                         [] OTHER -> "test"]
           /\ spent' = (spent \/ (dozing /\ "no_drop" \in flags))
           /\ IF restart THEN out' = FirstFrame - 1 ELSE UNCHANGED out
    /\ UNCHANGED <<exists, init_win, rx_reorder_ptr, timeVars, rx_locked, crossed, dozing,
                   hand, airVars, gone, ordered, early, overlap>>

\* The slot of a packet, by the window as it was when the packet was classified.
SlotOf(l) == (l.seq - l.start) % SeqMod

Test(a) ==
    /\ Goto(a, "test", IF rx_reorder_ptr[SlotOf(loc[a])] = Empty THEN "store"
                                                                 ELSE "drop")
    /\ UNCHANGED <<tblVars, timeVars, sideVars, loc, hand, airVars, histVars,
                   overlap>>

\* Between the test and the store, and around the store, no lock is held: a
\* rotation that is under way may write over it, and one that went before may
\* have brought another packet there.
Rotating(b) ==
    \/ pc[b] = "take" /\ loc[b].i = loc[b].send
    \/ pc[b] = "rotate"

Store(a) ==
    /\ Goto(a, "store", "scan")
    /\ \/ /\ rx_reorder_ptr' = [rx_reorder_ptr EXCEPT ![SlotOf(loc[a])] = loc[a].n]
       \/ /\ \E b \in Agents \ {a} : Rotating(b)
          /\ UNCHANGED rx_reorder_ptr
    /\ Keep(a, [Idle EXCEPT !.kind = loc[a].kind, !.prev = loc[a].prev])
    /\ UNCHANGED <<exists, start_win, init_win, flags, timeVars, sideVars, hand,
                   airVars, histVars, overlap>>

\* ret = -1, and the caller frees the packet.
Drop(a) ==
    /\ Goto(a, "drop", "done")
    /\ gone' = gone \cup ({loc[a].n} \ {Empty})
    /\ Keep(a, [Idle EXCEPT !.kind = loc[a].kind, !.prev = loc[a].prev])
    /\ UNCHANGED <<tblVars, timeVars, sideVars, hand, airVars, out, ordered,
                   early, overlap>>

\* The timer runs whenever the window has moved or it was not running.
Done_OnlyIfMoved(a) ==       \* slip: a timer that is not set is not started
    /\ Goto(a, "done", "idle")
    /\ Keep(a, Idle)
    /\ IF loc[a].prev # start_win
       THEN armed' = TRUE /\ timer_is_set' = TRUE ELSE UNCHANGED timeVars
    /\ UNCHANGED <<tblVars, sideVars, hand, airVars, histVars, overlap>>

Done(a) ==
    /\ Goto(a, "done", "idle")
    /\ Keep(a, Idle)
    /\ IF ~timer_is_set \/ loc[a].prev # start_win
       THEN armed' = TRUE /\ timer_is_set' = TRUE ELSE UNCHANGED timeVars
    /\ UNCHANGED <<tblVars, sideVars, hand, airVars, histVars, overlap>>

-------------------------------------------------------------------------------
(***************************************************************************)
(* mwifiex_11n_dispatch_pkt_until_start_win and _scan_and_dispatch.  The   *)
(* lock is held for one slot, the packet dispatched without it.            *)
(***************************************************************************)
UntilBegin(a) ==
    /\ Goto(a, "until", "take")
    /\ Keep(a, [loc[a] EXCEPT !.i = 0,
          !.send = IF loc[a].start > start_win
                   THEN Smaller(loc[a].start - start_win, WinSize) ELSE WinSize])
    /\ UNCHANGED <<tblVars, timeVars, sideVars, hand, airVars, histVars, overlap>>

\* One slot of the loop, under the lock.
TakeSlot_NotCleared(a, to) ==      \* slip: the slot keeps the packet
    /\ hand' = [hand EXCEPT ![a] = rx_reorder_ptr[loc[a].i]]
    /\ pc' = [pc EXCEPT ![a] = to]
    /\ UNCHANGED <<rx_reorder_ptr, loc>>
TakeSlot(a, to) ==
    /\ hand' = [hand EXCEPT ![a] = rx_reorder_ptr[loc[a].i]]
    /\ rx_reorder_ptr' = [rx_reorder_ptr EXCEPT ![loc[a].i] = Empty]
    /\ pc' = [pc EXCEPT ![a] = to]
    /\ UNCHANGED loc

\* The packet in slot l.i comes before the start window the caller asked for.
Ahead(l) == l.i < (l.start - start_win) % SeqMod

UntilTake(a) ==
    /\ pc[a] = "take" /\ loc[a].i < loc[a].send
    /\ IF rx_reorder_ptr[loc[a].i] # Empty
       THEN /\ TakeSlot(a, "give")
            /\ early' = (early \/ (~overlap /\ ~Ahead(loc[a])))
       ELSE /\ Keep(a, [loc[a] EXCEPT !.i = @ + 1])
            /\ UNCHANGED <<pc, hand, rx_reorder_ptr, early>>
    /\ UNCHANGED <<exists, start_win, init_win, flags, timeVars, sideVars, airVars,
                   gone, out, ordered, overlap>>

ScanTake(a) ==
    /\ pc[a] = "scan"
    /\ IF loc[a].i < WinSize /\ rx_reorder_ptr[loc[a].i] # Empty
       THEN TakeSlot(a, "pass")
       ELSE pc' = [pc EXCEPT ![a] = "rotate"]
                /\ UNCHANGED <<loc, hand, rx_reorder_ptr>>
    /\ UNCHANGED <<exists, start_win, init_win, flags, timeVars, sideVars, airVars,
                   histVars, overlap>>

\* mwifiex_11n_dispatch_pkt.
Give(a) ==
    /\ \/ Goto(a, "give", "take") \/ Goto(a, "pass", "scan")
    /\ Deliver(hand[a])
    /\ hand' = [hand EXCEPT ![a] = Empty]
    /\ Keep(a, [loc[a] EXCEPT !.i = @ + 1])
    /\ UNCHANGED <<tblVars, timeVars, sideVars, airVars, early, overlap>>

\* The rotation by d slots, under the lock: slots that neither receive nor give
\* a packet keep what they have.
Rotated_OneShort(d) ==             \* slip: the last packet is not moved
    [k \in Slots |-> IF k < WinSize - d - 1 THEN rx_reorder_ptr[k + d]
                     ELSE IF k >= d THEN Empty ELSE rx_reorder_ptr[k]]
Rotated_OffByOne(d) ==             \* slip: one slot short
    [k \in Slots |-> IF d = 0 THEN rx_reorder_ptr[k]
                     ELSE IF k + d <= WinSize THEN rx_reorder_ptr[k + d - 1] ELSE Empty]
Rotated(d) ==
    [k \in Slots |-> IF k < WinSize - d THEN rx_reorder_ptr[k + d]
                     ELSE IF k >= d THEN Empty ELSE rx_reorder_ptr[k]]

AfterUntil(a) ==
    CASE loc[a].kind = "data"  -> "test"
      [] loc[a].kind = "sync"  -> "test"
      [] loc[a].kind = "bar"   -> "scan"
      [] loc[a].kind = "delba" -> "stop"
      [] OTHER                 -> "idle"

UntilRotate(a) ==
    /\ pc[a] = "take" /\ loc[a].i = loc[a].send
    /\ rx_reorder_ptr' = Rotated(loc[a].send)
    /\ start_win' = loc[a].start
    /\ pc' = [pc EXCEPT ![a] = AfterUntil(a)]
    /\ Keep(a, IF AfterUntil(a) = "idle" THEN Idle
               ELSE [loc[a] EXCEPT !.i = 0, !.send = 0])
    /\ out' = IF loc[a].kind = "addba" THEN FirstFrame - 1 ELSE out
    /\ UNCHANGED <<exists, init_win, flags, timeVars, sideVars, hand, airVars, gone,
                   ordered, early, overlap>>

ScanRotate(a) ==
    /\ Goto(a, "rotate", "done")
    /\ rx_reorder_ptr' = Rotated(loc[a].i)
    /\ start_win' = (start_win + loc[a].i) % SeqMod
    /\ Keep(a, [loc[a] EXCEPT !.i = 0])
    /\ UNCHANGED <<exists, init_win, flags, timeVars, sideVars, hand, airVars, histVars,
                   overlap>>

-------------------------------------------------------------------------------
(***************************************************************************)
(* mwifiex_flush_data, in softirq.                                         *)
(***************************************************************************)
TimerExpires ==
    /\ armed /\ Goto("timer", "idle", "find")
    /\ armed' = FALSE /\ timer_is_set' = FALSE
    /\ Meets("timer")
    /\ UNCHANGED <<tblVars, sideVars, loc, hand, airVars, gone>>

\* mwifiex_11n_find_last_seq_num, then the window behind that packet.
FlushFind ==
    /\ LET full == {k \in Slots : rx_reorder_ptr[k] # Empty}
       IN  \/ full = {} /\ Goto("timer", "find", "idle") /\ UNCHANGED loc
           \/ /\ Goto("timer", "find", "flush")
              /\ \E last \in full :
                    /\ \A k \in full : k <= last
                    /\ Keep("timer", [Idle EXCEPT !.kind = "flush", !.i = last])
    /\ UNCHANGED <<tblVars, timeVars, sideVars, hand, airVars, histVars, overlap>>

FlushFrom ==
    /\ Goto("timer", "flush", "until")
    /\ Keep("timer", [loc["timer"] EXCEPT !.start = (start_win + loc["timer"].i + 1) % SeqMod])
    /\ UNCHANGED <<tblVars, timeVars, sideVars, hand, airVars, histVars, overlap>>

-------------------------------------------------------------------------------
(***************************************************************************)
(* Agreements made and ended, and the host's sleep.                        *)
(***************************************************************************)

\* mwifiex_11n_create_rx_reorder_tbl for a new table ...
Create ==
    /\ ~exists /\ pc["main"] = "idle"
    /\ exists' = TRUE /\ init_win' = base % SeqMod
    /\ IF rx_seq # None /\ rx_seq >= base % SeqMod
       THEN start_win' = rx_seq + 1 /\ flags' = {"shift"}
       ELSE start_win' = base % SeqMod /\ flags' = {}
    /\ spent' = (spent \/ dozing)
    /\ UNCHANGED <<rx_reorder_ptr, timeVars, rx_locked, crossed, dozing, agentVars, airVars,
                   histVars, overlap>>

\* ... and for one that is there.
AddbaAgain ==
    /\ exists /\ Once
    /\ Goto("main", "idle", "until")
    /\ Keep("main", [Idle EXCEPT !.kind = "addba", !.start = base % SeqMod])
    /\ Meets("main") /\ Crosses("main")
    /\ UNCHANGED <<tblVars, timeVars, rx_locked, dozing, spent, hand, base, hi, rx_seq,
                   came, gone>>

\* mwifiex_del_rx_reorder_entry, for a deleted agreement or for all of them in
\* mwifiex_11n_cleanup_reorder_tbl: the worker is kept off and waited for, ...
Delba(d) ==
    /\ exists
    /\ IF d = "main" THEN Once ELSE UNCHANGED left
    /\ Goto(d, "idle", "wait")
    /\ rx_locked' = TRUE
    /\ Keep(d, [Idle EXCEPT !.kind = "delba"])
    /\ Crosses(d)
    /\ UNCHANGED <<tblVars, timeVars, dozing, spent, hand, base, hi, rx_seq, came,
                   histVars, overlap>>

FlushWorker(d) ==
    /\ pc["rx"] = "idle"
    /\ Goto(d, "wait", "until")
    /\ Keep(d, [loc[d] EXCEPT !.start = (start_win + WinSize) % SeqMod])
    /\ Meets(d)
    /\ UNCHANGED <<tblVars, timeVars, sideVars, hand, airVars, gone>>

\* ... the timer is stopped and waited for, ...
StopTimer_NotSync(d) ==            \* slip: del_timer
    /\ Goto(d, "stop", "free")
    /\ armed' = FALSE /\ timer_is_set' = FALSE
    /\ UNCHANGED <<tblVars, sideVars, loc, hand, airVars, histVars, overlap>>
StopTimer(d) ==
    /\ pc["timer"] = "idle"
    /\ Goto(d, "stop", "free")
    /\ armed' = FALSE /\ timer_is_set' = FALSE
    /\ UNCHANGED <<tblVars, sideVars, loc, hand, airVars, histVars, overlap>>

\* ... and the table is freed.  Where a context still has its address, or the
\* timer is pending again, what follows is undefined: the play ends.
Free(d) ==
    /\ pc[d] = "free"
    /\ exists' = FALSE /\ rx_locked' = FALSE
    /\ start_win' = 0 /\ init_win' = 0 /\ flags' = {}
    /\ rx_reorder_ptr' = [k \in Slots |-> Empty]
    /\ NewOrder
    /\ UNCHANGED <<timeVars, airVars, crossed, dozing, spent, gone>>
    /\ IF armed \/ \E b \in Agents \ {d} : Inside(b)
       THEN /\ pc' = [a \in Agents |-> "lost"] /\ loc' = [a \in Agents |-> Idle]
            /\ hand' = [a \in Agents |-> Empty] /\ overlap' = TRUE
       ELSE /\ \E to \in {"idle", "reset"} :
                  (d = "user" => to = "reset") /\ pc' = [pc EXCEPT ![d] = to]
            /\ Keep(d, Idle) /\ UNCHANGED <<hand, overlap>>

\* mwifiex_11n_cleanup_reorder_tbl forgets the sequence numbers, too.
ResetSeq(d) ==
    /\ Goto(d, "reset", "idle")
    /\ rx_seq' = None
    /\ UNCHANGED <<tblVars, timeVars, sideVars, loc, hand, base, hi, left, came,
                   histVars, overlap>>

\* mwifiex_hs_activated_event: the host is about to sleep, and the first packet
\* after that is not to be held against the old window.
HsActivated_FlagOred ==            \* slip: the flag is lost
    /\ exists /\ Once /\ pc["main"] = "idle"
    /\ base < Woken /\ ~dozing
    /\ flags' = flags /\ dozing' = TRUE
    /\ Meets("main")
    /\ UNCHANGED <<exists, start_win, init_win, rx_reorder_ptr, timeVars, rx_locked, crossed,
                   spent, agentVars, base, hi, rx_seq, came, gone>>
HsActivated ==
    /\ exists /\ Once /\ pc["main"] = "idle"
    /\ base < Woken /\ ~dozing
    /\ flags' = {"no_drop"} /\ dozing' = TRUE
    /\ Meets("main")
    /\ UNCHANGED <<exists, start_win, init_win, rx_reorder_ptr, timeVars, rx_locked, crossed,
                   spent, agentVars, base, hi, rx_seq, came, gone>>

\* The host sleeps and frames go by.  Until then frames come as ever, and the
\* first of them uses the flag up.
Asleep ==
    /\ exists /\ dozing /\ dozing' = FALSE
    /\ base < Woken
    /\ base' = Woken /\ hi' = Larger(hi, base' - 1)
    /\ Passed(Woken)
    /\ overlap' = (overlap \/ \E a \in Agents : Active(a))
    /\ IF overlap' THEN NewOrder ELSE UNCHANGED <<out, ordered, early>>
    /\ UNCHANGED <<tblVars, timeVars, rx_locked, crossed, spent, agentVars, rx_seq, left>>

-------------------------------------------------------------------------------
Step(a) ==
    \/ Classify(a) \/ Test(a) \/ Store(a) \/ Drop(a) \/ Done(a)
    \/ UntilBegin(a) \/ UntilTake(a) \/ UntilRotate(a)
    \/ ScanTake(a) \/ ScanRotate(a) \/ Give(a)

Deletion(d) == FlushWorker(d) \/ StopTimer(d) \/ Free(d) \/ ResetSeq(d)
Handlers    == FlushFind \/ FlushFrom \/ \E d \in Deleters : Deletion(d)

Arrivals ==
    \/ SenderMoves \/ RxBar
    \/ \E n \in Sent : Direct(n) \/ RxData(n) \/ RxAmsdu(n) \/ RxbaSync(n)
    \/ Create \/ AddbaAgain \/ HsActivated \/ Asleep
    \/ \E d \in Deleters : Delba(d)

Next == Arrivals \/ Handlers \/ TimerExpires \/ \E a \in Agents : Step(a)

\* Every context that has begun is scheduled, and a pending timer expires.  No
\* frame has to come.
Fairness ==
    /\ \A a \in Agents : WF_vars(Step(a))
    /\ WF_vars(FlushFind \/ FlushFrom)
    /\ \A d \in Deleters : WF_vars(Deletion(d))
    /\ WF_vars(TimerExpires)

Spec == Init /\ [][Next]_vars /\ Fairness
-------------------------------------------------------------------------------
Frames == FirstFrame .. Woken
Pcs    == {"idle", "classify", "test", "store", "scan", "pass", "rotate", "drop",
           "done", "until", "take", "give", "find", "flush", "wait", "stop", "free",
           "reset", "lost"}
Locals == [n : Frames \cup {Empty}, seq : 0 .. SeqMod - 1, prev : 0 .. SeqMod,
           kind : {"none", "data", "bar", "sync", "addba", "delba", "flush"},
           start : 0 .. SeqMod, i : 0 .. WinSize, send : 0 .. WinSize]

\* Every variable has its type.  start_win may be MAX_TID_VALUE itself: a table
\* made after sequence number 4095 begins at last_seq + 1, not reduced.
TypeOK ==
    /\ exists \in BOOLEAN /\ start_win \in 0 .. SeqMod /\ init_win \in 0 .. SeqMod - 1
    /\ flags \subseteq {"no_drop", "shift"}
    /\ rx_reorder_ptr \in [Slots -> Frames \cup {Empty}]
    /\ timer_is_set \in BOOLEAN /\ armed \in BOOLEAN /\ rx_locked \in BOOLEAN
    /\ pc \in [Agents -> Pcs] /\ loc \in [Agents -> Locals]
    /\ hand \in [Agents -> Frames \cup {Empty}]
    /\ base \in Nat /\ hi \in Int /\ rx_seq \in -1 .. SeqMod - 1
    /\ came \subseteq Frames /\ gone \subseteq Frames /\ out \in Int
    /\ ordered \in BOOLEAN /\ early \in BOOLEAN /\ overlap \in BOOLEAN
    /\ crossed \in BOOLEAN /\ dozing \in BOOLEAN /\ spent \in BOOLEAN

\* Whatever contexts meet in the table, no packet is in two places: none is
\* dispatched twice, or freed when it was dispatched or still is in a slot.
NotTwice ==
    /\ \A j, k \in Slots : j # k /\ rx_reorder_ptr[j] = rx_reorder_ptr[k]
                            => rx_reorder_ptr[j] = Empty
    /\ \A a, b \in Agents :
          /\ a # b => hand[a] = Empty \/ hand[a] # hand[b]
          /\ a # b => loc[a].n = Empty \/ loc[a].n # loc[b].n
          /\ hand[a] = Empty \/ hand[a] # loc[b].n
    /\ \A a \in Agents, k \in Slots :
          rx_reorder_ptr[k] # Empty => rx_reorder_ptr[k] \notin {hand[a], loc[a].n}
    /\ \A n \in gone : \A a \in Agents, k \in Slots :
          n \notin {hand[a], loc[a].n, rx_reorder_ptr[k]}

\* Unless contexts meet, no packet is forgotten: not by a rotation, and not when
\* the table is deleted.  (When they do, a rotation may write over a packet, and
\* a deletion that meets a flush may leave one in the table it frees.)
NoneForgotten ==
    ~overlap => \A n \in came : \/ n \in gone
                                \/ \E a \in Agents : n \in {hand[a], loc[a].n}
                                \/ \E k \in Slots : n = rx_reorder_ptr[k]

\* The table's packets go up in the order they were sent in.  The exceptions are
\* in the hypotheses and in the history: contexts that met in the table, a packet
\* dispatched from behind the window's new beginning, an A-MSDU that went up past
\* the table (11n_rxreorder.c:582-585), a frame that came after the firmware's
\* event but before the host slept, and was not held against the window (596-599);
\* and the order begins anew where the table is deleted, its agreement is renewed,
\* or the sender starts over.
InOrder == ~overlap /\ ~early /\ ~spent => ordered

\* "This function dispatches all packets in the Rx reorder table until the start
\* window": none from behind it goes up with them.
OnlyUntilStart == \A a \in Agents : pc[a] = "give" => Ahead(loc[a])

\* Between packets every slot holds the packet its place stands for, through
\* rotations, wrapping of the sequence numbers, flushes and the sender's restarts.
AtRest == \A a \in Agents : ~Active(a)
SlotsMatch ==
    exists /\ ~overlap /\ AtRest =>
        \A k \in Slots : rx_reorder_ptr[k] # Empty =>
            rx_reorder_ptr[k] % SeqMod = (start_win + k) % SeqMod

\* What goes past the table lets the window fall behind the sender's: an A-MSDU,
\* and a sleep of the host.  While that has happened few times for the width of
\* the window ...
Stride == Gap + WinSize
Few    == (Most - left + 1) * Stride + WinSize <= Half

\* ... the newest packet is not dropped as an old one, nor for a slot that is not
\* free: not where the numbers wrap, and not after a sleep through more than half
\* of them.  The exceptions: a frame used up RXREOR_FORCE_NO_DROP before the host
\* slept (11n_rxreorder.c:596-599) or the table is a new one that never had it,
\* and contexts met in the table.
NewestKept ==
    ~overlap /\ ~spent /\ Few =>
        \A a \in Agents : pc[a] = "drop" /\ loc[a].kind = "data" => loc[a].n < hi

\* When a table is freed the worker is not in it, nor anybody else, and its timer
\* is not pending.  The exception: where a deletion from user context meets one
\* in the main thread, or another of its handlers, nothing keeps them apart.
FreedAlone ==
    \A d \in Deleters : pc[d] = "free" =>
        /\ pc["rx"] = "idle"
        /\ ~crossed => ~armed /\ \A b \in Agents \ {d} : ~Inside(b)

\* A packet that waits for one before it does not wait for ever: whatever is
\* lost and whatever the worker does meanwhile, the timer runs and empties the
\* table.  Only a handler of the main thread or a deletion that meets the flush
\* may leave a packet behind with no timer running.
Flushed ==
    []~(Active("timer") /\ \E d \in Deleters : Active(d))
        => []<>(\A k \in Slots : rx_reorder_ptr[k] = Empty)
===============================================================================
