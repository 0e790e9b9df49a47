---------------------------- MODULE BnCtx_proofs ----------------------------
(***************************************************************************)
(* Proofs about the BN_CTX allocator of BnCtx, for every ArraySize and      *)
(* Data.  FrameBounds alone is not inductive: BN_CTX_get's increment keeps  *)
(* stack[stackPos] inside 0 .. ArraySize only because stack[stackPos] <=    *)
(* bnArrayMax < ArraySize, and the pop of BN_CTX_end keeps the open frame   *)
(* under bnArrayMax only because the frames are nested.  TypeOK and         *)
(* FrameBounds are therefore proved together, as the invariant FrameInv.    *)
(***************************************************************************)
EXTENDS BnCtx, TLAPS

FrameInv == TypeOK /\ FrameBounds

USE ArraySizeAssumption

(* The release of a frame by BN_CTX_end, shared by BN_CTX_end and           *)
(* BN_CTX_end_ext, keeps the frames nested and under the high-water mark,   *)
(* whether it pops the frame, fails its ENSURES or reads stack[-1].         *)
LEMMA EndStdPreserves ==
  ASSUME FrameInv, EndStd, bnExt' \in [ExtTags -> Contents]
  PROVE  FrameInv'
<1> USE DEF FrameInv, TypeOK, FrameBounds, sanityCheckBNCTX
<1>1. CASE ~sanityCheckBNCTX /\ UNCHANGED stdVars
  BY <1>1 DEF stdVars
<1>2. CASE sanityCheckBNCTX
  <2>1. PICK lo \in FrameBase :
          /\ stackOOB' = (stackOOB \/ stackPos = 0)
          /\ \/ /\ lo > stack[stackPos]
                /\ UNCHANGED <<bnArray, bnArrayMax, stack, stackPos>>
             \/ /\ lo <= stack[stackPos]
                /\ stack[stackPos] < ArraySize
                /\ bnArray' = ClearStd(lo, stack[stackPos])
                /\ stack' = [stack EXCEPT ![stackPos] = 0]
                /\ stackPos' = stackPos - 1
                /\ UNCHANGED bnArrayMax
             \/ /\ lo <= stack[stackPos]
                /\ stack[stackPos] >= ArraySize
                /\ bnArray' = ClearStd(lo, stack[stackPos])
                /\ UNCHANGED <<bnArrayMax, stack, stackPos>>
    BY <1>2 DEF EndStd
  <2>2. lo \in Int
    BY <1>2 DEF FrameBase
  <2>3. ClearStd(lo, stack[stackPos]) \in [Slots -> Contents]
    BY <1>2, <2>2 DEF ClearStd, Slots, Contents
  <2>4. CASE lo > stack[stackPos] /\ UNCHANGED <<bnArray, bnArrayMax, stack, stackPos>>
    BY <2>1, <2>4
  <2>5. CASE /\ lo <= stack[stackPos]
             /\ stack[stackPos] < ArraySize
             /\ bnArray' = ClearStd(lo, stack[stackPos])
             /\ stack' = [stack EXCEPT ![stackPos] = 0]
             /\ stackPos' = stackPos - 1
             /\ UNCHANGED bnArrayMax
    BY <1>2, <2>1, <2>3, <2>5 DEF Slots
  <2>6. CASE /\ lo <= stack[stackPos]
             /\ stack[stackPos] >= ArraySize
             /\ bnArray' = ClearStd(lo, stack[stackPos])
             /\ UNCHANGED <<bnArrayMax, stack, stackPos>>
    BY <2>1, <2>3, <2>6
  <2>7. QED
    BY <2>1, <2>4, <2>5, <2>6
<1>3. QED
  BY <1>1, <1>2 DEF EndStd

(* The initial state of BN_CTX_init satisfies the invariant. *)
LEMMA InitFrame ==
  ASSUME Init
  PROVE  FrameInv
<1>1. stackOOB \in BOOLEAN
  BY Zenon DEF Init, BN_CTX_init
<1>2. QED
  BY <1>1 DEF Init, BN_CTX_init, FrameInv, TypeOK, FrameBounds, Slots, Contents

(* Every operation, called in any order, keeps the invariant. *)
LEMMA FrameStep ==
  ASSUME FrameInv, [Next]_ctxVars
  PROVE  FrameInv'
<1> USE DEF FrameInv, TypeOK, FrameBounds, sanityCheckBNCTX
<1>1. CASE BN_CTX_start
  <2>1. stackOOB' \in BOOLEAN
    BY <1>1, Zenon DEF BN_CTX_start, ctxVars
  <2>2. CASE ~sanityCheckBNCTX /\ UNCHANGED ctxVars
    BY <2>2 DEF ctxVars
  <2>3. CASE /\ sanityCheckBNCTX
             /\ stackPos + 1 < ArraySize
             /\ stackPos' = stackPos + 1
             /\ stack' = [stack EXCEPT ![stackPos + 1] = stack[stackPos]]
             /\ UNCHANGED <<bnArray, bnArrayMax, bnExt, stackOOB>>
    <3>1. ASSUME NEW i \in 1 .. stackPos + 1 PROVE stack'[i - 1] <= stack'[i]
      <4>1. CASE i = stackPos + 1
        BY <2>3, <4>1 DEF Slots
      <4>2. CASE i <= stackPos
        BY <2>3, <4>2 DEF Slots
      <4>3. QED
        BY <4>1, <4>2 DEF Slots
    <3>2. QED
      BY <2>1, <2>3, <3>1 DEF Slots
  <2>4. CASE /\ sanityCheckBNCTX
             /\ stackPos + 1 = ArraySize
             /\ stackPos' = ArraySize
             /\ stackOOB' = TRUE
             /\ UNCHANGED <<bnArray, bnArrayMax, stack, bnExt>>
    BY <2>1, <2>4
  <2>5. QED
    BY <1>1, <2>2, <2>3, <2>4 DEF BN_CTX_start
<1>2. CASE BN_CTX_end
  BY <1>2, EndStdPreserves DEF BN_CTX_end
<1>3. CASE BN_CTX_get
  <2>1. stackOOB' \in BOOLEAN
    BY <1>3, Zenon DEF BN_CTX_get
  <2>2. QED
    BY <1>3, <2>1 DEF BN_CTX_get, GetOK, Slots
<1>4. CASE BN_CTX_get_fail
  BY <1>4 DEF BN_CTX_get_fail, ctxVars
<1>5. CASE \E t \in ExtTags : BN_CTX_end_ext(t)
  <2>1. PICK t \in ExtTags : BN_CTX_end_ext(t)
    BY <1>5
  <2>2. bnExt' \in [ExtTags -> Contents]
    BY <2>1 DEF BN_CTX_end_ext, Contents
  <2>3. QED
    BY <2>1, <2>2, EndStdPreserves DEF BN_CTX_end_ext
<1>6. CASE BN_CTX_final
  <2>1. stackOOB' \in BOOLEAN
    BY <1>6, Zenon DEF BN_CTX_final, ctxVars
  <2>2. QED
    BY <1>6, <2>1 DEF BN_CTX_final, ctxVars, Slots, Contents
<1>7. CASE Arith
  <2>1. stackOOB' \in BOOLEAN
    BY <1>7, Zenon DEF Arith, stdVars
  <2>2. QED
    BY <1>7, <2>1 DEF Arith, stdVars, Contents
<1>8. CASE UNCHANGED ctxVars
  BY <1>8 DEF ctxVars
<1>9. QED
  BY <1>1, <1>2, <1>3, <1>4, <1>5, <1>6, <1>7, <1>8 DEF Next

(* Whatever order the caller calls BN_CTX_start, BN_CTX_end,               *)
(* BN_CTX_end_ext, BN_CTX_get and BN_CTX_final in, every reachable state    *)
(* is well typed (every stack[] boundary inside 0 .. BN_CTX_ARRAY_SIZE) and *)
(* satisfies FrameBounds: while the context is sane its frames are nested   *)
(* and the open one ends at or below bnArrayMax.                            *)
THEOREM FrameInvariant == Spec => [](TypeOK /\ FrameBounds)
<1>1. Init => FrameInv
  BY InitFrame
<1>2. FrameInv /\ [Next]_ctxVars => FrameInv'
  BY FrameStep
<1>3. QED
  BY <1>1, <1>2, PTL DEF Spec, FrameInv

(* TypeOK of bnctx_any_caller on its own: whatever order the operations    *)
(* are called in, every variable keeps its type.  stackPos stays within    *)
(* -1 .. BN_CTX_ARRAY_SIZE: an unbalanced BN_CTX_end can take it one below *)
(* the array and a BN_CTX_start from the last frame one above it, and no   *)
(* operation moves it further once the context is insane.                  *)
THEOREM CtxTypeCorrect == Spec => []TypeOK
BY FrameInvariant, PTL
(* GetInBounds of bnctx_any_caller, for every BN_CTX_ARRAY_SIZE and every  *)
(* caller: BN_CTX_get never returns a bignum outside bnArray[] or below    *)
(* the open frame's start.  Its capacity test bnArrayMax < ArraySize is    *)
(* enough only because FrameBounds keeps stack[stackPos] <= bnArrayMax.    *)
THEOREM GetStaysInBounds == Spec => GetInBounds
<1> DEFINE GetIn == BN_CTX_get => /\ GetSlot \in Slots
                                  /\ stackPos > 0 => stack[stackPos - 1] <= GetSlot
<1>1. FrameInv => GetIn
  <2>1. SUFFICES ASSUME FrameInv, BN_CTX_get
                 PROVE  /\ GetSlot \in Slots
                        /\ stackPos > 0 => stack[stackPos - 1] <= GetSlot
    OBVIOUS
  <2>2. sanityCheckBNCTX /\ bnArrayMax < ArraySize
    BY <2>1 DEF BN_CTX_get, GetOK
  <2>3. /\ stackPos \in Slots /\ stack \in [Slots -> 0 .. ArraySize]
        /\ bnArrayMax \in 0 .. ArraySize
    BY <2>1, <2>2 DEF FrameInv, TypeOK, sanityCheckBNCTX, Slots
  <2>4. stack[stackPos] <= bnArrayMax
    BY <2>1, <2>2 DEF FrameInv, FrameBounds
  <2>5. GetSlot \in Slots
    BY <2>2, <2>3, <2>4 DEF GetSlot, Slots
  <2>6. stackPos > 0 => stack[stackPos - 1] <= GetSlot
    <3>1. stackPos > 0 => stackPos \in 1 .. stackPos
      BY <2>3 DEF Slots
    <3>2. QED
      BY <2>1, <2>2, <3>1 DEF FrameInv, FrameBounds, GetSlot
  <2>7. QED
    BY <2>5, <2>6
<1>2. Spec => []FrameInv
  BY FrameInvariant DEF FrameInv
<1> HIDE DEF GetIn
<1>3. []FrameInv => [][GetIn]_ctxVars
  BY <1>1, PTL
<1>4. QED
  BY <1>2, <1>3 DEF GetInBounds, GetIn

=============================================================================
