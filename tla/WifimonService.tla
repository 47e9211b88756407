---------------------------- MODULE WifimonService ----------------------------
(***************************************************************************)
(* What the plugin promises to those who call it (kwifimon_export.h): five *)
(* counters that are read, and read and cleared, at one instant; and a     *)
(* state word whose flags are raised and lowered at one instant.  Threads, *)
(* the mutex and the files are not here.                                   *)
(***************************************************************************)
EXTENDS Integers

CONSTANTS Callers, CounterMod

VARIABLES
    cnt,     \* wifimon_stats_t
    flags,   \* the bits of kwifimon_mod_state()
    view     \* what each caller is being told about cnt

vars == <<cnt, flags, view>>

Kinds   == {"pkt", "mgmt", "amsdu", "bar", "evt"}
Zero    == [k \in Kinds |-> 0]
Nothing == [k \in {} |-> 0]

Init == cnt = Zero /\ flags = {} /\ view = [c \in Callers |-> Nothing]

\* A frame arrives.
Count(k) ==
    /\ cnt' = [cnt EXCEPT ![k] = IF @ + 1 < CounterMod THEN @ + 1 ELSE 0]
    /\ UNCHANGED <<flags, view>>

\* kwifimon_mod_stats(s, reset): the answer and the reset are one event.
Answer(c, reset) ==
    /\ view[c] = Nothing
    /\ view' = [view EXCEPT ![c] = cnt]
    /\ cnt' = IF reset THEN Zero ELSE cnt
    /\ UNCHANGED flags

Return(c) ==
    /\ view' = [view EXCEPT ![c] = Nothing]
    /\ UNCHANGED <<cnt, flags>>

\* STATE_REC_FILE or STATE_REC_NET.
Recording == {{1}, {0, 1}}

SetFlags ==
    /\ \E b \in Recording : flags' \in {flags \cup b, flags \ b}
    /\ UNCHANGED <<cnt, view>>

\* STATE_ERROR: there is no driver to hook, and nothing will ever be counted.
Fault ==
    /\ cnt = Zero /\ flags = {}
    /\ flags' = {0, 31}
    /\ UNCHANGED <<cnt, view>>

Next ==
    \/ \E k \in Kinds : Count(k)
    \/ \E c \in Callers : Return(c) \/ \E reset \in BOOLEAN : Answer(c, reset)
    \/ SetFlags \/ Fault

Spec == Init /\ [][Next]_vars
===============================================================================
