------------------------------- MODULE BnCtx -------------------------------
(***************************************************************************)
(* The BN_CTX pool allocator of ctx_bn.c: a fixed array of BN_CTX_ARRAY_SIZE *)
(* bignums handed out in stack order, a stack of frame boundaries pushed by *)
(* BN_CTX_start and popped by BN_CTX_end, a sticky high-water mark          *)
(* bnArrayMax, and three extended-size bignums addressed by purpose.        *)
(*                                                                         *)
(* A bignum's contents are abstracted to 0 (cleared: BN_clear zeroises     *)
(* every word and resets top and neg) or a member of Data (whatever the     *)
(* arithmetic code wrote into it).  The caller is arbitrary here: every     *)
(* operation may be called in any order, unbalanced ones included.         *)
(* BnCtxClient restricts the caller to the nesting discipline.             *)
(***************************************************************************)
EXTENDS Integers

CONSTANTS
  ArraySize,   \* BN_CTX_ARRAY_SIZE: entries of bnArray[] and of stack[]
  Data         \* nonzero values the arithmetic code writes into a bignum

ASSUME ArraySizeAssumption == ArraySize \in Nat \ {0}
ASSUME DataAssumption == 0 \notin Data

VARIABLES
  bnArray,     \* bnCTX->bnArray[i]: contents of the i-th pool bignum
  bnArrayMax,  \* bnCTX->bnArrayMax: highest array index ever handed out
  stack,       \* bnCTX->stack[]: first free index of each frame
  stackPos,    \* bnCTX->stackPos: the current frame
  bnExt,       \* bnExtArray[0] and bnExt2Array[0..1], by BIGNUM_EXT_TYPE
  stackOOB     \* history: stack[] was accessed outside 0..ArraySize-1

ctxVars == <<bnArray, bnArrayMax, stack, stackPos, bnExt, stackOOB>>
stdVars == <<bnArray, bnArrayMax, stack, stackPos, stackOOB>>

Slots == 0 .. ArraySize - 1
Contents == {0} \cup Data

(* BIGNUM_EXT_MONT, BIGNUM_EXT_MUL1, BIGNUM_EXT_MUL2: the purposes that     *)
(* BN_CTX_get_ext maps to bnExtArray[0], bnExt2Array[0], bnExt2Array[1].   *)
ExtTags == {"EXT_MONT", "EXT_MUL1", "EXT_MUL2"}

TypeOK ==
  /\ bnArray \in [Slots -> Contents]
  /\ bnArrayMax \in 0 .. ArraySize
  /\ stack \in [Slots -> 0 .. ArraySize]
  /\ stackPos \in -1 .. ArraySize
  /\ bnExt \in [ExtTags -> Contents]
  /\ stackOOB \in BOOLEAN

(* sanityCheckBNCTX: the REQUIRES of every operation. *)
sanityCheckBNCTX ==
  /\ bnArrayMax \in 0 .. ArraySize
  /\ stackPos \in 0 .. ArraySize - 1

(* BN_CTX_init, and the state BN_CTX_final leaves: memset to zero, every *)
(* bignum BN_init'ed (cleared).                                           *)
BN_CTX_init ==
  /\ bnArray = [i \in Slots |-> 0]
  /\ bnArrayMax = 0
  /\ stack = [i \in Slots |-> 0]
  /\ stackPos = 0
  /\ bnExt = [t \in ExtTags |-> 0]
  /\ stackOOB = FALSE

(* Mutations of the clearing loop: starting one below the frame, stopping *)
(* one short of its end.                                                   *)
ClearStdFromBelow(lo, hi) ==
  [i \in Slots |-> IF lo - 1 <= i /\ i < hi THEN 0 ELSE bnArray[i]]
ClearStdShort(lo, hi) ==
  [i \in Slots |-> IF lo <= i /\ i < hi - 1 THEN 0 ELSE bnArray[i]]

(* The loop of BN_CTX_end: BN_clear on bnArray[lo .. hi-1]. *)
ClearStd(lo, hi) == [i \in Slots |-> IF lo <= i /\ i < hi THEN 0 ELSE bnArray[i]]

(* Mutation: the new frame's boundary is not copied from the old one. *)
BN_CTX_start_noCopy ==
  \/ /\ ~sanityCheckBNCTX
     /\ UNCHANGED ctxVars
  \/ /\ sanityCheckBNCTX
     /\ stackPos + 1 < ArraySize
     /\ stackPos' = stackPos + 1
     /\ stack' = [stack EXCEPT ![stackPos + 1] = 0]
     /\ UNCHANGED <<bnArray, bnArrayMax, bnExt, stackOOB>>
  \/ /\ sanityCheckBNCTX
     /\ stackPos + 1 = ArraySize
     /\ stackPos' = ArraySize
     /\ stackOOB' = TRUE
     /\ UNCHANGED <<bnArray, bnArrayMax, stack, bnExt>>

(* BN_CTX_start: advance one frame, the new frame starting where the old  *)
(* one ends.  The REQUIRES is checked before the increment, so from the    *)
(* last frame stackPos becomes ArraySize and stack[ArraySize] is written   *)
(* outside the array; the ENSURES then fails, leaving the context insane.  *)
BN_CTX_start ==
  \/ /\ ~sanityCheckBNCTX
     /\ UNCHANGED ctxVars
  \/ /\ sanityCheckBNCTX
     /\ stackPos + 1 < ArraySize
     /\ stackPos' = stackPos + 1
     /\ stack' = [stack EXCEPT ![stackPos + 1] = stack[stackPos]]
     /\ UNCHANGED <<bnArray, bnArrayMax, bnExt, stackOOB>>
  \/ /\ sanityCheckBNCTX
     /\ stackPos + 1 = ArraySize
     /\ stackPos' = ArraySize
     /\ stackOOB' = TRUE
     /\ UNCHANGED <<bnArray, bnArrayMax, stack, bnExt>>

(* stack[stackPos - 1] as BN_CTX_end reads it: at stackPos = 0 this reads  *)
(* stack[-1], outside the array, whose value is undefined.                 *)
FrameBase == IF stackPos > 0 THEN {stack[stackPos - 1]} ELSE 0 .. ArraySize

(* Mutation: the ENSURES of BN_CTX_end off by one, failing (and skipping  *)
(* the unwinding) already when the frame ends at the last slot.            *)
EndStd_strictEnsures ==
  \/ /\ ~sanityCheckBNCTX
     /\ UNCHANGED stdVars
  \/ /\ sanityCheckBNCTX
     /\ \E lo \in FrameBase :
          /\ stackOOB' = (stackOOB \/ stackPos = 0)
          /\ \/ /\ lo > stack[stackPos]
                /\ UNCHANGED <<bnArray, bnArrayMax, stack, stackPos>>
             \/ /\ lo <= stack[stackPos]
                /\ stack[stackPos] < ArraySize - 1
                /\ bnArray' = ClearStd(lo, stack[stackPos])
                /\ stack' = [stack EXCEPT ![stackPos] = 0]
                /\ stackPos' = stackPos - 1
                /\ UNCHANGED bnArrayMax
             \/ /\ lo <= stack[stackPos]
                /\ stack[stackPos] >= ArraySize - 1
                /\ bnArray' = ClearStd(lo, stack[stackPos])
                /\ UNCHANGED <<bnArrayMax, stack, stackPos>>

(* BN_CTX_end on the standard pool: clear the frame, then unwind it.  The  *)
(* loop leaves i = stack[stackPos], so ENSURES_V(i < BN_CTX_ARRAY_SIZE)    *)
(* fails, after the clearing and before the unwinding, when the frame      *)
(* reaches the end of the array.                                           *)
EndStd ==
  \/ /\ ~sanityCheckBNCTX
     /\ UNCHANGED stdVars
  \/ /\ sanityCheckBNCTX
     /\ \E lo \in FrameBase :
          /\ stackOOB' = (stackOOB \/ stackPos = 0)
          /\ \/ /\ lo > stack[stackPos]
                /\ UNCHANGED <<bnArray, bnArrayMax, stack, stackPos>>
             \/ /\ lo <= stack[stackPos]
                /\ stack[stackPos] < ArraySize
                /\ bnArray' = ClearStd(lo, stack[stackPos])
                /\ stack' = [stack EXCEPT ![stackPos] = 0]
                /\ stackPos' = stackPos - 1
                /\ UNCHANGED bnArrayMax
             \/ /\ lo <= stack[stackPos]
                /\ stack[stackPos] >= ArraySize
                /\ bnArray' = ClearStd(lo, stack[stackPos])
                /\ UNCHANGED <<bnArrayMax, stack, stackPos>>

BN_CTX_end == EndStd /\ UNCHANGED bnExt

(* BN_CTX_get: the capacity test reads the high-water mark bnArrayMax,     *)
(* which nothing but BN_CTX_final lowers.  GetSlot is the bignum returned. *)
GetSlot == stack[stackPos]

(* Mutation: BN_CTX_get without its capacity test. *)
GetOK_noCapacity == sanityCheckBNCTX

GetOK == bnArrayMax < ArraySize /\ sanityCheckBNCTX

BN_CTX_get ==
  /\ GetOK
  /\ stack' = [stack EXCEPT ![stackPos] = @ + 1]
  /\ bnArrayMax' = IF stack[stackPos] + 1 > bnArrayMax
                     THEN stack[stackPos] + 1 ELSE bnArrayMax
  /\ UNCHANGED <<bnArray, stackPos, bnExt, stackOOB>>

(* BN_CTX_get returning NULL: pool overflow or a failed REQUIRES. *)
BN_CTX_get_fail ==
  /\ ~GetOK
  /\ UNCHANGED ctxVars

(* The extended bignums that BN_CTX_end_ext clears for a purpose tag; for  *)
(* BIGNUM_EXT_MUL2 the ENSURES_V fails first and nothing is cleared.       *)
ExtReleased(t) ==
  IF t = "EXT_MUL1" THEN {"EXT_MUL1", "EXT_MUL2"}
  ELSE IF t = "EXT_MONT" THEN {"EXT_MONT"} ELSE {}

(* BN_CTX_end_ext: the standard BN_CTX_end, whose failure it cannot see,   *)
(* then BN_clear on the extended bignums of the tag.                       *)
BN_CTX_end_ext(t) ==
  /\ EndStd
  /\ bnExt' = [e \in ExtTags |-> IF e \in ExtReleased(t) THEN 0 ELSE bnExt[e]]

(* BN_CTX_final: zeroise and re-initialise, if the context is sane. *)
BN_CTX_final ==
  \/ /\ ~sanityCheckBNCTX
     /\ UNCHANGED ctxVars
  \/ /\ sanityCheckBNCTX
     /\ bnArray' = [i \in Slots |-> 0]
     /\ bnArrayMax' = 0
     /\ stack' = [i \in Slots |-> 0]
     /\ stackPos' = 0
     /\ bnExt' = [t \in ExtTags |-> 0]
     /\ UNCHANGED stackOOB

(* The arithmetic code, outside this file, writing a pool bignum. *)
Arith ==
  \/ \E i \in Slots, v \in Data :
       /\ bnArray' = [bnArray EXCEPT ![i] = v]
       /\ UNCHANGED <<bnArrayMax, stack, stackPos, bnExt, stackOOB>>
  \/ \E t \in ExtTags, v \in Data :
       /\ bnExt' = [bnExt EXCEPT ![t] = v]
       /\ UNCHANGED stdVars

Init == BN_CTX_init

Next ==
  \/ BN_CTX_start
  \/ BN_CTX_end
  \/ BN_CTX_get
  \/ BN_CTX_get_fail
  \/ \E t \in ExtTags : BN_CTX_end_ext(t)
  \/ BN_CTX_final
  \/ Arith

Spec == Init /\ [][Next]_ctxVars

-----------------------------------------------------------------------------
(* Whatever the caller does, while the context passes sanityCheckBNCTX    *)
(* its frames are nested (the boundaries of stack[0..stackPos] never       *)
(* decrease) and the open frame ends at or below bnArrayMax.  This is what *)
(* keeps BN_CTX_get's returned &bnArray[stack[stackPos]] inside the array  *)
(* once its bnArrayMax test passes, and BN_CTX_end's REQUIRES true.        *)
FrameBounds ==
  sanityCheckBNCTX =>
    /\ \A i \in 1 .. stackPos : stack[i - 1] <= stack[i]
    /\ stack[stackPos] <= bnArrayMax
(* Every bignum BN_CTX_get hands out lies inside bnArray[] and in the open *)
(* frame: &bnArray[stack[stackPos]] is below BN_CTX_ARRAY_SIZE, whatever   *)
(* the caller did before, since the capacity test reads bnArrayMax and not *)
(* stack[stackPos], and it is not below the frame's start, so it is none   *)
(* of an enclosing frame's bignums.                                        *)
GetInBounds ==
  [][BN_CTX_get => /\ GetSlot \in Slots
                   /\ stackPos > 0 => stack[stackPos - 1] <= GetSlot]_ctxVars

=============================================================================
