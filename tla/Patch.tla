--------------------------------- MODULE Patch --------------------------------
(***************************************************************************)
(* The firmware patcher (src/src/app/patch.c) and the word requests it is  *)
(* made of (src/src/app/util.c), against a chip that runs the memory it    *)
(* patches.  The patch is a trampoline of several words, at an address     *)
(* nothing jumps to, and one branch to it in the chip's own code.          *)
(***************************************************************************)
EXTENDS Integers

CONSTANT TrampolineWords          \* words of p1_patch; p2_patch has one

ASSUME TrampolineAssumption == TrampolineWords \in Nat \ {0}

\* The words in the order patch_do writes them: p1_patch, then p2_patch.
Branch     == TrampolineWords + 1
Trampoline == 1 .. TrampolineWords
Word       == 1 .. Branch

\* What a word can hold: p2_orig's bytes, the patch's, or anything else (the
\* patcher does not look at what it overwrites).
Value == {"orig", "patch", "other"}

VARIABLES
    mem,       \* the chip's memory, at the words of the patch
    late,      \* writes the chip may still carry out
    routine,   \* "patch_do" or "patch_undo", "none" between calls
    at,        \* the word it is at
    phase,     \* what is next: the write, the read back or the comparison
    got,       \* the word read back
    result,    \* the last result: words patched, 0, or a negative error
    overtaken  \* history: the words late writes hit since the chip read one

vars == <<mem, late, routine, at, phase, got, result, overtaken>>

Init ==
    /\ mem \in [Word -> {"orig", "other"}] /\ late = {}
    /\ routine = "none" /\ at = 1 /\ phase = "write" /\ got = "other"
    /\ result = 0 /\ overtaken = {}

\* patch_do starts with the first table entry.  patch_undo stops before it, and
\* p1_patch has no original to go back to: what is left is the branch.
Begin(name, first) ==
    /\ routine = "none"
    /\ routine' = name /\ at' = first /\ phase' = "write"
    /\ UNCHANGED <<mem, late, got, result, overtaken>>

PatchDo_BranchOnly == Begin("patch_do", Branch)    \* slip: the first entry skipped

PatchDo   == Begin("patch_do", 1)
PatchUndo == Begin("patch_undo", Branch)

Written == IF routine = "patch_do" THEN "patch" ELSE "orig"

Return(r) == routine' = "none" /\ result' = r /\ UNCHANGED <<at, phase>>

\* mem_write.  Whether the ioctl succeeds or fails, the chip may carry out the
\* write now, later or never: an answer that timed out says nothing, and a word
\* of ROM does not change.
MemWrite ==
    /\ routine # "none" /\ phase = "write"
    /\ \/ /\ mem' \in {mem, [mem EXCEPT ![at] = Written]}
          /\ UNCHANGED late
       \/ /\ late' = late \cup {<<at, Written>>}
          /\ UNCHANGED mem
    /\ \/ phase' = "read" /\ UNCHANGED <<routine, at, result>>
       \/ Return(-1)
    /\ UNCHANGED <<got, overtaken>>

\* mem_read: the chip reads the word and answers, or the request fails.
MemRead ==
    /\ routine # "none" /\ phase = "read"
    /\ \/ /\ got' = mem[at] /\ phase' = "compare" /\ overtaken' = {}
          /\ UNCHANGED <<routine, at, result>>
       \/ Return(-2) /\ UNCHANGED <<got, overtaken>>
    /\ UNCHANGED <<mem, late>>

Advance ==
    \/ /\ at # Branch
       /\ at' = at + 1 /\ phase' = "write"
       /\ UNCHANGED <<routine, result>>
    \/ /\ at = Branch
       /\ Return(IF routine = "patch_do" THEN Branch ELSE 0)

\* Slips: the word read is not compared; one word too many.
Compare_Unchecked ==
    /\ routine # "none" /\ phase = "compare"
    /\ Advance
    /\ UNCHANGED <<mem, late, got, overtaken>>
Compare_TooFar ==
    /\ routine # "none" /\ phase = "compare"
    /\ at' = at + 1 /\ phase' = "write"
    /\ UNCHANGED <<mem, late, routine, got, result, overtaken>>

\* The answer has come back, and is compared with the word written.
Compare ==
    /\ routine # "none" /\ phase = "compare"
    /\ \/ got = Written /\ Advance
       \/ got # Written /\ Return(-3)
    /\ UNCHANGED <<mem, late, got, overtaken>>

\* The chip carries out a write that was given up on.
LateWrite ==
    \E w \in late :
        /\ mem' = [mem EXCEPT ![w[1]] = w[2]]
        /\ late' = late \ {w}
        /\ overtaken' = overtaken \cup {w[1]}
        /\ UNCHANGED <<routine, at, phase, got, result>>

Next == PatchDo \/ PatchUndo \/ MemWrite \/ MemRead \/ Compare \/ LateWrite

Spec == Init /\ [][Next]_vars
-------------------------------------------------------------------------------
\* Every variable has its type.
TypeOK ==
    /\ mem \in [Word -> Value] /\ late \subseteq Word \X Value
    /\ routine \in {"none", "patch_do", "patch_undo"}
    /\ at \in Word /\ phase \in {"write", "read", "compare"} /\ got \in Value
    /\ result \in -3 .. Branch /\ overtaken \subseteq Word

\* The chip never branches into a trampoline that is not there in full: not
\* while patch_do is at work, not after it or patch_undo gave up at any word,
\* not when they are called again, not when a write arrives late.
BranchComplete == mem[Branch] = "patch" => \A w \in Trampoline : mem[w] = "patch"

\* A call that reports success leaves the chip as it says: the whole trampoline
\* and the branch into it there after patch_do returned its count, the chip's own
\* code back after patch_undo.  The one exception is the last word, the branch,
\* when a write that was given up on earlier is carried out between the chip's
\* reading of it and the return: mem_read's answer is then out of date, and the
\* comparison of patch.c:80 and 115 cannot see it.
ResultTrue ==
    [][routine # "none" /\ routine' = "none" =>
         /\ result' = Branch =>
              /\ \A w \in Trampoline : mem'[w] = "patch"
              /\ mem'[Branch] = "patch" \/ Branch \in overtaken
         /\ result' = 0 => mem'[Branch] = "orig" \/ Branch \in overtaken]_vars
===============================================================================
