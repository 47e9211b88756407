----------------------------- MODULE PatchProofs ------------------------------
(***************************************************************************)
(* The patcher's properties, for a trampoline of any length.               *)
(***************************************************************************)
EXTENDS Patch, TLAPS

\* The words patch_do has passed are patched, and no write that could undo them
\* is on its way; a branch is only ever asked for when the trampoline is
\* there.  The word read back is the one in memory, or was overtaken, which in the
\* trampoline can only have been by the word of the patch.
Progress ==
    /\ \A w \in late : w[1] \in Trampoline => w[2] = "patch"
    /\ <<Branch, "patch">> \in late => \A w \in Trampoline : mem[w] = "patch"
    /\ routine = "patch_do" =>
         \A w \in Trampoline : w < at => mem[w] = "patch"
    /\ routine = "patch_undo" => at = Branch
    /\ routine # "none" /\ phase = "compare" =>
         /\ mem[at] = got \/ at \in overtaken
         /\ at \in Trampoline /\ got = "patch" => mem[at] = "patch"

IInv == TypeOK /\ BranchComplete /\ Progress

LEMMA InitIInv == Init => IInv
BY TrampolineAssumption
   DEF Init, IInv, TypeOK, BranchComplete, Progress, Word, Value, Branch,
       Trampoline

LEMMA StepIInv == IInv /\ [Next]_vars => IInv'
<1> SUFFICES ASSUME IInv, [Next]_vars PROVE IInv'
  OBVIOUS
<1> USE TrampolineAssumption
    DEF IInv, TypeOK, BranchComplete, Progress, Word, Value, Branch, Trampoline
<1>1. CASE PatchDo
  BY <1>1 DEF PatchDo, Begin
<1>2. CASE PatchUndo
  BY <1>2 DEF PatchUndo, Begin
<1>3. CASE MemWrite
  BY <1>3 DEF MemWrite, Written, Return
<1>4. CASE MemRead
  <2>1. CASE Return(-2) /\ UNCHANGED <<got, overtaken>>
    BY <1>4, <2>1 DEF MemRead, Return
  <2>2. CASE /\ got' = mem[at] /\ phase' = "compare" /\ overtaken' = {}
             /\ UNCHANGED <<routine, at, result>>
    <3>1. TypeOK' /\ BranchComplete'
      BY <1>4, <2>2 DEF MemRead
    <3>2. Progress'
      BY <1>4, <2>2 DEF MemRead
    <3> QED
      BY <3>1, <3>2
  <2> QED
    BY <1>4, <2>1, <2>2 DEF MemRead
<1>5. CASE Compare
  <2>1. CASE got = Written /\ Advance
    <3>1. UNCHANGED <<mem, late, got, overtaken>>
      BY <1>5 DEF Compare
    <3>2. CASE at # Branch
      BY <2>1, <3>1, <3>2, <1>5 DEF Compare, Advance, Written
    <3>3. CASE at = Branch
      BY <2>1, <3>1, <3>3, <1>5 DEF Compare, Advance, Written, Return
    <3> QED
      BY <3>2, <3>3
  <2>2. CASE got # Written /\ Return(-3)
    BY <1>5, <2>2 DEF Compare, Return
  <2> QED
    BY <1>5, <2>1, <2>2 DEF Compare
<1>6. CASE LateWrite
  <2>1. PICK w \in late :
          /\ mem' = [mem EXCEPT ![w[1]] = w[2]] /\ late' = late \ {w}
          /\ overtaken' = overtaken \cup {w[1]}
          /\ UNCHANGED <<routine, at, phase, got, result>>
    BY <1>6 DEF LateWrite
  <2>2. w = <<w[1], w[2]>> /\ w[1] \in Word /\ w[2] \in Value
    OBVIOUS
  <2>3. TypeOK'
    BY <2>1, <2>2
  <2>4. BranchComplete'
    BY <2>1, <2>2
  <2>5. Progress'
    BY <2>1, <2>2
  <2> QED
    BY <2>3, <2>4, <2>5
<1>7. CASE UNCHANGED vars
  BY <1>7 DEF vars
<1> QED
  BY <1>1, <1>2, <1>3, <1>4, <1>5, <1>6, <1>7 DEF Next

LEMMA AlwaysIInv == Spec => []IInv
BY InitIInv, StepIInv, PTL DEF Spec

\* The patcher's variables have their types: patch_do stays within the words of
\* the trampoline and the branch, and reports one of its results.
THEOREM TypeCorrect == Spec => []TypeOK
<1>1. IInv => TypeOK
  BY DEF IInv
<1> QED
  BY <1>1, AlwaysIInv, PTL

\* The firmware's branch points into the trampoline only when every word of the
\* trampoline is there, whichever request fails, is lost or comes late, however
\* patch_do and patch_undo follow one another.
THEOREM BranchCorrect == Spec => []BranchComplete
<1>1. IInv => BranchComplete
  BY DEF IInv
<1> QED
  BY <1>1, AlwaysIInv, PTL

\* The results of patch_do and patch_undo say what the memory holds, for the
\* trampoline always, and for the branch unless a late write has overtaken the
\* chip's answer.
THEOREM ResultCorrect == Spec => ResultTrue
<1> DEFINE Says == /\ result' = Branch =>
                        /\ \A w \in Trampoline : mem'[w] = "patch"
                        /\ mem'[Branch] = "patch" \/ Branch \in overtaken
                   /\ result' = 0 => mem'[Branch] = "orig" \/ Branch \in overtaken
<1>1. IInv /\ [Next]_vars => [routine # "none" /\ routine' = "none" => Says]_vars
  <2> SUFFICES ASSUME IInv, Next, routine # "none", routine' = "none" PROVE Says
    OBVIOUS
  <2> USE TrampolineAssumption
      DEF IInv, TypeOK, Progress, Word, Branch, Trampoline, Return
  <2>1. CASE MemWrite \/ MemRead
    BY <2>1 DEF MemWrite, MemRead
  <2>2. CASE Compare
    BY <2>2 DEF Compare, Advance, Written
  <2> QED
    BY <2>1, <2>2 DEF Next, PatchDo, PatchUndo, Begin, LateWrite
<1> QED
  BY <1>1, AlwaysIInv, PTL DEF Spec, ResultTrue
===============================================================================
