------------------------- MODULE BnCtxClient_proofs -------------------------
(***************************************************************************)
(* Proof that the BN_CTX pool, driven by a caller that keeps the nesting    *)
(* discipline and never holds more bignums than the pool has slots less     *)
(* one, implements the scoped allocator of BnCtxScopes.                     *)
(*                                                                         *)
(* The refinement mapping CtxScopes reads frame i off bnArray between the  *)
(* boundaries stack[i-1] and stack[i].  It is a refinement only because of *)
(* an invariant that ties the pool to the caller's call stack: the ghost   *)
(* frames are the pool's frames, the boundaries never decrease, the frames *)
(* together hold exactly the slots below stack[stackPos], which is at most *)
(* MaxHeld (so BN_CTX_end's ENSURES never fails), and every slot at or     *)
(* above it is cleared (so BN_CTX_get returns a zero bignum).              *)
(***************************************************************************)
EXTENDS BnCtxClient, FiniteSetTheorems, SequenceTheorems, TLAPS

USE ArraySizeAssumption, DataAssumption, ClientAssumption

(* The caller of client_sized: it never needs the last pool slot, and its  *)
(* calls never nest as deep as the stack of frame boundaries.              *)
SizedCaller == MaxHeld < ArraySize /\ MaxDepth < ArraySize

(* The pool slots of frame i. *)
Frame(i) == stack[i - 1] .. stack[i] - 1

FrameT == [held : UNION {[S -> Contents] : S \in SUBSET Slots},
           ext : UNION {[E -> Contents] : E \in SUBSET ExtTags},
           failed : BOOLEAN, mark : 0 .. ArraySize]

(* The types of the pool's variables, with the context sane. *)
PoolType ==
  /\ bnArray \in [Slots -> Contents]
  /\ bnArrayMax \in 0 .. ArraySize
  /\ stack \in [Slots -> 0 .. ArraySize]
  /\ stackPos \in 0 .. ArraySize - 1
  /\ stackOOB \in BOOLEAN

(* The caller's call stack has one frame per pool frame. *)
FramesType == frames \in Seq(FrameT) /\ Depth = stackPos

(* The boundaries start at 0 and never decrease. *)
Nested ==
  /\ stack[0] = 0
  /\ \A i, j \in 0 .. stackPos : i <= j => stack[i] <= stack[j]

(* The frames together hold at most MaxHeld bignums. *)
WithinHeld == stack[stackPos] <= MaxHeld

(* Each function holds exactly the slots of its frame, and together they   *)
(* hold the slots below stack[stackPos].                                   *)
Owned ==
  /\ \A i \in 1 .. Depth : DOMAIN frames[i].held = Frame(i)
  /\ HeldSlots = 0 .. stack[stackPos] - 1

(* Every slot at or above stack[stackPos] is cleared. *)
ClearAbove == \A s \in Slots : s >= stack[stackPos] => bnArray[s] = 0

IInv == PoolType /\ FramesType /\ Nested /\ WithinHeld /\ Owned /\ ClearAbove

(* The caller releases extended bignums only with the tags whose          *)
(* BN_CTX_end_ext clears them.                                             *)
ReleasingCaller == "EXT_MUL2" \notin EndExtTags

(* Each function holds no extended bignum or one group of them, and no two *)
(* functions hold the same one.                                            *)
ExtShape == \A i \in 1 .. Depth : DOMAIN frames[i].ext \in {{}} \cup ExtGroups
ExtDisjoint ==
  \A i, j \in 1 .. Depth : i # j => DOMAIN frames[i].ext \cap DOMAIN frames[j].ext = {}

(* Every extended bignum no function holds is cleared. *)
ExtClear == \A t \in ExtTags \ HeldExt : bnExt[t] = 0

(* The part of the invariant about the extended bignums, which needs no    *)
(* bound on the caller.                                                    *)
ExtInv == frames \in Seq(FrameT) /\ ExtShape /\ ExtDisjoint /\ ExtClear

CInv == IInv /\ ExtShape /\ ExtDisjoint /\ ExtClear

-----------------------------------------------------------------------------
(* Under the invariant the context always passes sanityCheckBNCTX. *)
LEMMA IInvSane ==
  ASSUME PoolType
  PROVE  sanityCheckBNCTX
BY DEF PoolType, sanityCheckBNCTX

(* The initial state satisfies the invariant and maps to no open scope. *)
LEMMA InitIInv ==
  ASSUME ClientInit
  PROVE  IInv /\ CtxScopes = <<>>
<1>1. frames = <<>> /\ stackPos = 0 /\ stack = [i \in Slots |-> 0]
        /\ bnArray = [i \in Slots |-> 0] /\ bnArrayMax = 0 /\ stackOOB = FALSE
  BY DEF ClientInit, Init, BN_CTX_init
<1>2. FramesType
  BY <1>1 DEF FramesType, Depth
<1>3. HeldSlots = {} /\ Depth = 0
  BY <1>1 DEF HeldSlots, Depth
<1>4. CtxScopes = <<>>
  BY <1>1 DEF CtxScopes
<1>5. PoolType /\ Nested /\ WithinHeld /\ ClearAbove
  <2>1. PoolType
    BY <1>1 DEF PoolType, Slots, Contents
  <2>2. Nested /\ WithinHeld /\ ClearAbove
    BY <1>1 DEF Nested, WithinHeld, ClearAbove, Slots
  <2>3. QED
    BY <2>1, <2>2
<1>6. Owned
  BY <1>1, <1>3 DEF Owned, Slots
<1>7. QED
  BY <1>2, <1>4, <1>5, <1>6 DEF IInv

(* Frame i, read off the pool, is a sequence of contents as long as the    *)
(* frame, and the frames together a sequence of stackPos scopes.           *)
LEMMA FrameScopeSeq ==
  ASSUME PoolType, Nested, NEW i \in 1 .. stackPos
  PROVE  FrameScope(i) \in Seq(Contents)
<1>1. /\ stack \in [Slots -> 0 .. ArraySize] /\ bnArray \in [Slots -> Contents]
      /\ stackPos \in 0 .. ArraySize - 1
      /\ stack[i - 1] <= stack[i]
  BY DEF PoolType, Nested
<1>2. stack[i] - stack[i - 1] \in Nat
  BY <1>1 DEF Slots
<1>3. \A k \in 1 .. stack[i] - stack[i - 1] : stack[i - 1] + k - 1 \in Slots
  BY <1>1 DEF Slots
<1>4. QED
  BY <1>1, <1>2, <1>3 DEF FrameScope

LEMMA CtxScopesSeq ==
  ASSUME PoolType, Nested
  PROVE  CtxScopes \in Seq(Seq(Contents))
<1>1. stackPos \in Nat
  BY DEF PoolType
<1>2. \A i \in 1 .. stackPos : FrameScope(i) \in Seq(Contents)
  BY FrameScopeSeq
<1>3. QED
  BY <1>1, <1>2 DEF CtxScopes

LEMMA CtxScopesLen ==
  ASSUME PoolType
  PROVE  Len(CtxScopes) = stackPos
<1>1. stackPos \in Nat /\ DOMAIN CtxScopes = 1 .. stackPos
  BY DEF PoolType, CtxScopes
<1>2. QED
  BY <1>1

(* Updating one field of a frame of the call stack keeps it a frame. *)
LEMMA FrameHeldUpdate ==
  ASSUME NEW f \in FrameT, NEW S \in SUBSET Slots, NEW h \in [S -> Contents]
  PROVE  [f EXCEPT !.held = h] \in FrameT
BY DEF FrameT

LEMMA FrameExtUpdate ==
  ASSUME NEW f \in FrameT, NEW E \in SUBSET ExtTags, NEW x \in [E -> Contents]
  PROVE  [f EXCEPT !.ext = x] \in FrameT
BY DEF FrameT

LEMMA FrameFailedUpdate ==
  ASSUME NEW f \in FrameT
  PROVE  [f EXCEPT !.failed = TRUE] \in FrameT
BY DEF FrameT

(* BN_CTX_start, for a caller whose calls nest less deep than the stack of *)
(* frame boundaries, pushes an empty frame: a new, empty, innermost scope. *)
LEMMA StartStep ==
  ASSUME IInv, SizedCaller, CallStart
  PROVE  IInv' /\ CtxScopes' = Append(CtxScopes, <<>>) /\ UNCHANGED stackOOB
<1> DEFINE sp == stackPos
<1>0. PoolType /\ FramesType /\ Nested /\ WithinHeld /\ Owned /\ ClearAbove
  BY DEF IInv
<1>1. sp + 1 < ArraySize /\ sp \in Nat
  BY <1>0 DEF CallStart, FramesType, SizedCaller, PoolType
<1>2. /\ stackPos' = sp + 1
      /\ stack' = [stack EXCEPT ![sp + 1] = stack[sp]]
      /\ UNCHANGED <<bnArray, bnArrayMax, bnExt, stackOOB>>
  BY <1>0, <1>1, IInvSane DEF CallStart, BN_CTX_start
<1>3. NewFrame \in FrameT
  <2>1. <<>> \in [{} -> Contents] /\ {} \in SUBSET Slots
    OBVIOUS
  <2>2. <<>> \in [{} -> Contents] /\ {} \in SUBSET ExtTags
    OBVIOUS
  <2>3. bnArrayMax \in 0 .. ArraySize
    BY <1>0 DEF PoolType
  <2>4. QED
    BY <2>1, <2>2, <2>3 DEF NewFrame, FrameT
<1>4. frames' = Append(frames, NewFrame) /\ frames \in Seq(FrameT) /\ Len(frames) = sp
  BY <1>0 DEF CallStart, FramesType, Depth
<1>5. frames' \in Seq(FrameT) /\ Len(frames') = sp + 1
  BY <1>3, <1>4
<1>6. stack \in [Slots -> 0 .. ArraySize] /\ sp + 1 \in Slots
  BY <1>0, <1>1 DEF PoolType, Slots
<1>7. \A i \in 1 .. sp : frames'[i] = frames[i] /\ Frame(i)' = Frame(i)
  BY <1>2, <1>4, <1>6 DEF Frame, Slots
<1>8. \A n \in {sp + 1} : DOMAIN frames'[n].held = {} /\ Frame(n)' = {}
  <2>1. frames'[sp + 1] = NewFrame
    BY <1>4
  <2>2. DOMAIN NewFrame.held = {}
    BY DEF NewFrame
  <2>3. stack'[sp + 1] = stack[sp] /\ stack'[sp] = stack[sp] /\ stack[sp] \in Int
    BY <1>1, <1>2, <1>6 DEF Slots
  <2>4. \A n \in {sp + 1} : DOMAIN frames'[n].held = {}
    BY <2>1, <2>2
  <2>5. \A n \in {sp + 1} : Frame(n)' = {}
    BY <1>1, <2>3 DEF Frame
  <2>6. QED
    BY <2>4, <2>5
<1>9. HeldSlots' = HeldSlots
  <2>1. Depth' = sp + 1 /\ Depth = sp
    BY <1>4, <1>5 DEF Depth
  <2>2. QED
    BY <1>1, <2>1, <1>7, <1>8 DEF HeldSlots
<1>10. IInv'
  <2>1. PoolType'
    BY <1>0, <1>1, <1>2, <1>6 DEF PoolType, Slots
  <2>2. FramesType'
    BY <1>2, <1>5 DEF FramesType, Depth
  <2>3. Nested'
    BY <1>0, <1>1, <1>2, <1>6 DEF Nested, Slots
  <2>4. WithinHeld' /\ ClearAbove'
    BY <1>0, <1>1, <1>2, <1>6 DEF WithinHeld, ClearAbove, Slots
  <2>5. Owned'
    <3>1. \A i \in 1 .. Depth' : DOMAIN frames'[i].held = Frame(i)'
      <4>1. SUFFICES ASSUME NEW i \in 1 .. sp + 1
                     PROVE  DOMAIN frames'[i].held = Frame(i)'
        BY <1>5 DEF Depth
      <4>2. CASE i \in 1 .. sp
        BY <1>0, <1>7, <4>2 DEF Owned, FramesType
      <4>3. CASE i = sp + 1
        BY <1>8, <4>3
      <4>4. QED
        BY <1>1, <4>2, <4>3
    <3>2. stack'[stackPos'] = stack[sp]
      BY <1>1, <1>2, <1>6 DEF Slots
    <3>3. QED
      BY <1>0, <1>9, <3>1, <3>2 DEF Owned
  <2>6. QED
    BY <2>1, <2>2, <2>3, <2>4, <2>5 DEF IInv
<1>11. CtxScopes' = Append(CtxScopes, <<>>)
  <2>1. CtxScopes \in Seq(Seq(Contents)) /\ Len(CtxScopes) = sp
    BY <1>0, CtxScopesSeq, CtxScopesLen
  <2>2. \A i \in 1 .. sp : FrameScope(i)' = FrameScope(i)
    BY <1>1, <1>2, <1>6 DEF Slots, FrameScope
  <2>3. \A n \in {sp + 1} : FrameScope(n)' = <<>>
    BY <1>1, <1>2, <1>6 DEF Slots, FrameScope
  <2>4. CtxScopes' = [i \in 1 .. sp + 1 |-> IF i <= sp THEN CtxScopes[i] ELSE <<>>]
    BY <1>1, <1>2, <2>2, <2>3 DEF CtxScopes
  <2>5. <<>> \in Seq(Contents)
    OBVIOUS
  <2>6. CtxScopes' \in Seq(Seq(Contents)) /\ Len(CtxScopes') = sp + 1
    BY <1>1, <2>1, <2>4, <2>5
  <2>7. /\ Append(CtxScopes, <<>>) \in Seq(Seq(Contents))
        /\ Len(Append(CtxScopes, <<>>)) = sp + 1
        /\ \A i \in 1 .. sp + 1 :
             Append(CtxScopes, <<>>)[i] = IF i <= sp THEN CtxScopes[i] ELSE <<>>
    BY <1>1, <2>1, <2>5, AppendProperties
  <2>8. QED
    BY <1>1, <2>4, <2>6, <2>7, SeqEqual
<1>12. QED
  BY <1>2, <1>10, <1>11

(* A BN_CTX_get that succeeds, for a caller holding fewer than MaxHeld     *)
(* bignums, hands out the slot just above the innermost frame, which is    *)
(* cleared: the innermost scope gains a bignum that reads zero.            *)
LEMMA GetStep ==
  ASSUME IInv, SizedCaller, CallGet
  PROVE  /\ IInv'
         /\ CtxScopes # <<>>
         /\ CtxScopes' = [CtxScopes EXCEPT ![Len(CtxScopes)] = Append(@, 0)]
<1> DEFINE sp == stackPos
           top == stack[stackPos]
           h == [x \in DOMAIN frames[sp].held \cup {top} |->
                   IF x = top THEN 0 ELSE frames[sp].held[x]]
<1>0. PoolType /\ FramesType /\ Nested /\ WithinHeld /\ Owned /\ ClearAbove
  BY DEF IInv
<1>1. sp \in 1 .. ArraySize - 1 /\ Len(frames) = sp /\ frames \in Seq(FrameT)
  BY <1>0 DEF CallGet, Running, FramesType, PoolType, Depth
<1>2. /\ stack \in [Slots -> 0 .. ArraySize] /\ sp \in Slots /\ sp - 1 \in Slots
      /\ top \in 0 .. ArraySize /\ stack[sp - 1] \in 0 .. ArraySize
      /\ stack[sp - 1] <= top
  BY <1>0, <1>1 DEF PoolType, Nested, Slots
<1>3. Cardinality(HeldSlots) = top
  <2>1. HeldSlots = 0 .. top - 1
    BY <1>0 DEF Owned
  <2>2. Cardinality(0 .. top - 1) = IF 0 > top - 1 THEN 0 ELSE top - 1 - 0 + 1
    <3>1. \A a, b \in Int : Cardinality(a .. b) = IF a > b THEN 0 ELSE b - a + 1
      BY FS_Interval
    <3>2. 0 \in Int /\ top - 1 \in Int
      BY <1>2
    <3>3. QED
      BY <3>1, <3>2
  <2>3. QED
    BY <1>2, <2>1, <2>2
<1>4. top + 1 <= MaxHeld /\ top + 1 < ArraySize /\ top \in Slots
  BY <1>2, <1>3 DEF CallGet, SizedCaller, Slots
<1>5. /\ stack' = [stack EXCEPT ![sp] = top + 1]
      /\ bnArrayMax' \in 0 .. ArraySize
      /\ UNCHANGED <<bnArray, stackPos, stackOOB>>
  BY <1>0, <1>2, <1>4 DEF CallGet, BN_CTX_get, GetOK, PoolType
<1>6. frames' = [frames EXCEPT ![sp] = [frames[sp] EXCEPT !.held = h]]
  BY <1>1 DEF CallGet, GetSlot, Depth
<1>7. DOMAIN frames[sp].held = Frame(sp) /\ frames[sp] \in FrameT
  BY <1>0, <1>1 DEF Owned, Depth
<1>8. DOMAIN h = stack[sp - 1] .. top /\ h \in [stack[sp - 1] .. top -> Contents]
  <2>1. frames[sp].held \in [Frame(sp) -> Contents]
    BY <1>7 DEF FrameT
  <2>2. Frame(sp) = stack[sp - 1] .. top - 1
    BY DEF Frame
  <2>3. DOMAIN h = {top} \cup Frame(sp)
    BY <2>1
  <2>4. DOMAIN h = stack[sp - 1] .. top
    BY <1>2, <2>2, <2>3
  <2>5. \A x \in DOMAIN h : h[x] \in Contents
    BY <2>1, <2>3 DEF Contents
  <2>6. QED
    BY <2>4, <2>5
<1>9. frames' \in Seq(FrameT) /\ Len(frames') = sp
  <2>1. stack[sp - 1] .. top \in SUBSET Slots
    BY <1>2, <1>4 DEF Slots
  <2>2. [frames[sp] EXCEPT !.held = h] \in FrameT
    BY <1>7, <1>8, <2>1, FrameHeldUpdate
  <2>3. QED
    BY <1>1, <1>6, <2>2
<1>10. \A i \in 1 .. sp - 1 : frames'[i] = frames[i] /\ Frame(i)' = Frame(i)
  BY <1>1, <1>2, <1>5, <1>6 DEF Frame, Slots
<1>11. frames'[sp].held = h /\ Frame(sp)' = stack[sp - 1] .. top
  <2>1. sp \in DOMAIN frames
    BY <1>1
  <2>2. frames'[sp].held = h
    BY <1>6, <1>7, <2>1 DEF FrameT
  <2>3. stack'[sp] = top + 1 /\ stack'[sp - 1] = stack[sp - 1] /\ stackPos' = sp
    BY <1>1, <1>2, <1>5
  <2>4. Frame(sp)' = stack[sp - 1] .. top
    BY <1>2, <2>3 DEF Frame
  <2>5. QED
    BY <2>2, <2>4
<1>12. HeldSlots' = 0 .. top
  <2>1. HeldSlots = UNION {DOMAIN frames[i].held : i \in 1 .. sp}
    BY <1>1 DEF HeldSlots, Depth
  <2>2. HeldSlots' = UNION {DOMAIN frames'[i].held : i \in 1 .. sp}
    BY <1>9 DEF HeldSlots, Depth
  <2>3. \A i \in 1 .. sp - 1 : DOMAIN frames'[i].held = DOMAIN frames[i].held
    BY <1>10
  <2>4. HeldSlots = 0 .. top - 1
    BY <1>0 DEF Owned
  <2>5. DOMAIN frames'[sp].held = DOMAIN frames[sp].held \cup {top}
    <3>1. DOMAIN h = DOMAIN frames[sp].held \cup {top}
      OBVIOUS
    <3>2. QED
      BY <1>11, <3>1
  <2>6. HeldSlots' = HeldSlots \cup {top}
    <3>1. \A i \in 1 .. sp : i = sp \/ i \in 1 .. sp - 1
      BY <1>1
    <3>2. \A x : x \in HeldSlots' <=> \E i \in 1 .. sp : x \in DOMAIN frames'[i].held
      BY <2>2
    <3>3. \A x : x \in HeldSlots <=> \E i \in 1 .. sp : x \in DOMAIN frames[i].held
      BY <2>1
    <3>4. sp \in 1 .. sp
      BY <1>1
    <3>5. QED
      BY <2>3, <2>5, <3>1, <3>2, <3>3, <3>4
  <2>7. QED
    BY <1>2, <2>4, <2>6
<1>13. IInv'
  <2>1. PoolType'
    BY <1>0, <1>1, <1>4, <1>5 DEF PoolType, Slots
  <2>2. FramesType'
    BY <1>1, <1>5, <1>9 DEF FramesType, Depth
  <2>3. Nested'
    BY <1>0, <1>1, <1>2, <1>5 DEF Nested, Slots
  <2>4. WithinHeld'
    BY <1>1, <1>4, <1>5 DEF WithinHeld, Slots
  <2>5. ClearAbove'
    BY <1>0, <1>1, <1>2, <1>5 DEF ClearAbove, Slots
  <2>6. Owned'
    <3>1. \A i \in 1 .. Depth' : DOMAIN frames'[i].held = Frame(i)'
      <4>1. SUFFICES ASSUME NEW i \in 1 .. sp
                     PROVE  DOMAIN frames'[i].held = Frame(i)'
        BY <1>9 DEF Depth
      <4>2. CASE i \in 1 .. sp - 1
        BY <1>0, <1>1, <1>10, <4>2 DEF Owned, Depth
      <4>3. CASE i = sp
        <5>1. Frame(i)' = stack[sp - 1] .. top
          BY <1>5, <1>11, <4>3
        <5>2. QED
          BY <1>8, <1>11, <4>3, <5>1
      <4>4. QED
        BY <1>1, <4>2, <4>3
    <3>2. stack'[stackPos'] = top + 1
      BY <1>1, <1>2, <1>5 DEF Slots
    <3>3. HeldSlots' = 0 .. stack'[stackPos'] - 1
      BY <1>2, <1>12, <3>2
    <3>4. QED
      BY <3>1, <3>3 DEF Owned
  <2>7. QED
    BY <2>1, <2>2, <2>3, <2>4, <2>5, <2>6 DEF IInv
<1>14. CtxScopes # <<>> /\ Len(CtxScopes) = sp /\ CtxScopes \in Seq(Seq(Contents))
  BY <1>0, <1>1, CtxScopesSeq, CtxScopesLen
<1>15. CtxScopes' = [CtxScopes EXCEPT ![sp] = Append(CtxScopes[sp], 0)]
  <2>1. \A i \in 1 .. sp - 1 : FrameScope(i)' = FrameScope(i)
    <3>1. \A i \in 1 .. sp - 1 : stack'[i] = stack[i] /\ stack'[i - 1] = stack[i - 1]
      BY <1>1, <1>2, <1>5
    <3>2. QED
      BY <1>5, <3>1 DEF FrameScope
  <2>2. bnArray[top] = 0
    BY <1>0, <1>2, <1>4 DEF ClearAbove
  <2>3. FrameScope(sp) \in Seq(Contents) /\ Len(FrameScope(sp)) = top - stack[sp - 1]
    <3>1. PoolType /\ Nested /\ sp \in 1 .. stackPos
      BY <1>0, <1>1
    <3>2. FrameScope(sp) \in Seq(Contents)
      BY <3>1, FrameScopeSeq
    <3>3. DOMAIN FrameScope(sp) = 1 .. top - stack[sp - 1] /\ top - stack[sp - 1] \in Nat
      BY <1>2 DEF FrameScope
    <3>4. QED
      BY <3>2, <3>3
  <2>4. \A n \in {sp} : FrameScope(n)' = Append(FrameScope(sp), 0)
    <3>1. \A n \in {sp} : FrameScope(n)'
            = [k \in 1 .. top + 1 - stack[sp - 1] |-> bnArray[stack[sp - 1] + k - 1]]
      BY <1>1, <1>2, <1>5 DEF FrameScope, Slots
    <3> DEFINE lo == stack[sp - 1]
               L == top - lo
               F == [k \in 1 .. top + 1 - lo |-> bnArray[lo + k - 1]]
               A == Append(FrameScope(sp), 0)
    <3>2. L \in Nat /\ bnArray \in [Slots -> Contents] /\ 0 \in Contents
      BY <1>0, <1>2 DEF PoolType, Contents
    <3>0. lo \in Nat /\ top \in Nat /\ lo <= top /\ top < ArraySize
      BY <1>2, <1>4
    <3>3. F \in Seq(Contents) /\ Len(F) = L + 1
      <4>1. lo \in Nat /\ top \in Nat /\ lo <= top /\ top < ArraySize
        BY <3>0
      <4>2. \A k \in 1 .. L + 1 : lo + k - 1 \in Slots
        BY <4>1 DEF Slots
      <4>3. \A k \in 1 .. L + 1 : bnArray[lo + k - 1] \in Contents
        BY <3>2, <4>2
      <4>4. F = [k \in 1 .. L + 1 |-> bnArray[lo + k - 1]]
        BY <4>1
      <4>5. F \in [1 .. L + 1 -> Contents]
        BY <4>3, <4>4
      <4>6. top + 1 - lo \in Nat /\ top + 1 - lo = L + 1
        BY <4>1
      <4>7. \A k \in 1 .. top + 1 - lo : bnArray[lo + k - 1] \in Contents
        BY <4>3, <4>6
      <4>8. QED
        BY <4>6, <4>7
    <3>4. /\ A \in Seq(Contents) /\ Len(A) = L + 1
          /\ \A k \in 1 .. L : A[k] = FrameScope(sp)[k]
          /\ A[L + 1] = 0
      BY <2>3, <3>2, AppendProperties
    <3>5. \A k \in 1 .. L : F[k] = FrameScope(sp)[k]
      BY <3>0 DEF FrameScope
    <3>6. F[L + 1] = 0
      BY <1>2, <2>2, <3>2
    <3>7. \A k \in 1 .. Len(F) : F[k] = A[k]
      <4>1. SUFFICES ASSUME NEW k \in 1 .. L + 1
                     PROVE  F[k] = A[k]
        BY <3>3
      <4>2. CASE k \in 1 .. L
        BY <3>4, <3>5, <4>2
      <4>3. CASE k = L + 1
        BY <3>4, <3>6, <4>3
      <4>4. k \in 1 .. L \/ k = L + 1
        BY <3>0
      <4>5. QED
        BY <4>2, <4>3, <4>4
    <3>8. F = A
      <4>1. Len(F) = Len(A) /\ \A k \in 1 .. Len(F) : F[k] = A[k]
        BY <3>3, <3>4, <3>7
      <4>2. F \in Seq(Contents) /\ A \in Seq(Contents)
        BY <3>3, <3>4
      <4>3. QED
        BY <4>1, <4>2, SeqEqual
    <3>9. QED
      BY <3>1, <3>8
  <2>5. CtxScopes' = [i \in 1 .. sp |-> FrameScope(i)']
    BY <1>5 DEF CtxScopes
  <2>6. \A i \in 1 .. sp :
          FrameScope(i)' = IF i = sp THEN Append(FrameScope(sp), 0) ELSE FrameScope(i)
    BY <1>1, <2>1, <2>4
  <2>7. CtxScopes = [i \in 1 .. sp |-> FrameScope(i)]
    BY DEF CtxScopes
  <2>8. QED
    BY <1>1, <2>5, <2>6, <2>7
<1>16. QED
  BY <1>13, <1>14, <1>15
(* A step that leaves the pool alone and changes no frame's pool bignums   *)
(* keeps the invariant and the scopes.                                     *)
LEMMA PoolUnchanged ==
  ASSUME IInv, UNCHANGED <<bnArray, bnArrayMax, stack, stackPos, stackOOB>>,
         frames' \in Seq(FrameT), Len(frames') = Len(frames),
         \A i \in 1 .. Len(frames) : frames'[i].held = frames[i].held
  PROVE  IInv' /\ CtxScopes' = CtxScopes
<1>0. PoolType /\ FramesType /\ Nested /\ WithinHeld /\ Owned /\ ClearAbove
  BY DEF IInv
<1>1. Depth' = Depth /\ HeldSlots' = HeldSlots
  BY DEF Depth, HeldSlots
<1>2. \A i \in 1 .. Depth : Frame(i)' = Frame(i)
  BY DEF Frame
<1>3. PoolType' /\ Nested' /\ WithinHeld' /\ ClearAbove'
  BY <1>0 DEF PoolType, Nested, WithinHeld, ClearAbove
<1>4. FramesType'
  BY <1>0, <1>1 DEF FramesType
<1>5. Owned'
  BY <1>0, <1>1, <1>2 DEF Owned, Depth
<1>6. CtxScopes' = CtxScopes
  BY DEF CtxScopes, FrameScope
<1>7. QED
  BY <1>3, <1>4, <1>5, <1>6 DEF IInv

(* A NULL from BN_CTX_get changes nothing the scopes can see. *)
LEMMA GetFailStep ==
  ASSUME IInv, CallGetFail
  PROVE  IInv' /\ CtxScopes' = CtxScopes
<1>0. FramesType
  BY DEF IInv
<1>1. Depth \in 1 .. Len(frames) /\ frames \in Seq(FrameT)
  BY <1>0 DEF CallGetFail, Running, Depth, FramesType
<1>2. frames' = [frames EXCEPT ![Depth] = [frames[Depth] EXCEPT !.failed = TRUE]]
  BY DEF CallGetFail
<1>3. [frames[Depth] EXCEPT !.failed = TRUE] \in FrameT
  BY <1>1, FrameFailedUpdate
<1>4. frames' \in Seq(FrameT) /\ Len(frames') = Len(frames)
  BY <1>1, <1>2, <1>3
<1>5. \A i \in 1 .. Len(frames) : frames'[i].held = frames[i].held
  BY <1>1, <1>2 DEF FrameT
<1>6. UNCHANGED <<bnArray, bnArrayMax, stack, stackPos, stackOOB>>
  BY DEF CallGetFail, BN_CTX_get_fail, ctxVars
<1>7. QED
  BY <1>4, <1>5, <1>6, PoolUnchanged
(* Taking extended bignums leaves the pool alone. *)
LEMMA GetExtStep ==
  ASSUME IInv, CallGetExt
  PROVE  IInv' /\ CtxScopes' = CtxScopes
<1>0. FramesType
  BY DEF IInv
<1>1. Depth \in 1 .. Len(frames) /\ frames \in Seq(FrameT)
  BY <1>0 DEF CallGetExt, Running, Depth, FramesType
<1>2. PICK g \in ExtGroups : frames' = [frames EXCEPT ![Depth] = [frames[Depth] EXCEPT !.ext = [t \in g |-> 0]]]
  BY DEF CallGetExt
<1>3. g \in SUBSET ExtTags /\ [t \in g |-> 0] \in [g -> Contents]
  BY DEF ExtGroups, ExtTags, Contents
<1>4. [frames[Depth] EXCEPT !.ext = [t \in g |-> 0]] \in FrameT
  <2>1. frames[Depth] \in FrameT
    BY <1>1
  <2>2. QED
    BY <1>3, <2>1, FrameExtUpdate
<1>5. frames' \in Seq(FrameT) /\ Len(frames') = Len(frames)
  BY <1>1, <1>2, <1>4
<1>6. \A i \in 1 .. Len(frames) : frames'[i].held = frames[i].held
  BY <1>1, <1>2 DEF FrameT
<1>7. UNCHANGED <<bnArray, bnArrayMax, stack, stackPos, stackOOB>>
  BY DEF CallGetExt, ctxVars
<1>8. QED
  BY <1>5, <1>6, <1>7, PoolUnchanged

(* BN_CTX_final, called with no frame open, re-initialises a pool that     *)
(* has no open scope.                                                      *)
LEMMA FinalStep ==
  ASSUME IInv, CallFinal
  PROVE  IInv' /\ CtxScopes' = CtxScopes
<1>0. PoolType /\ FramesType
  BY DEF IInv
<1>1. stackPos = 0 /\ frames = <<>> /\ frames' = <<>>
  BY <1>0 DEF CallFinal, FramesType, Depth
<1>2. /\ bnArray' = [i \in Slots |-> 0] /\ bnArrayMax' = 0
      /\ stack' = [i \in Slots |-> 0] /\ stackPos' = 0 /\ stackOOB' = stackOOB
  BY <1>0, IInvSane DEF CallFinal, BN_CTX_final
<1>3. IInv'
  <2>1. FramesType' /\ Depth' = 0 /\ HeldSlots' = {}
    BY <1>1, <1>2 DEF FramesType, Depth, HeldSlots
  <2>2. PoolType' /\ Nested' /\ WithinHeld' /\ ClearAbove'
    BY <1>0, <1>2 DEF PoolType, Nested, WithinHeld, ClearAbove, Slots, Contents
  <2>3. Owned'
    BY <1>2, <2>1 DEF Owned, Slots
  <2>4. QED
    BY <2>1, <2>2, <2>3 DEF IInv
<1>4. CtxScopes' = CtxScopes
  BY <1>1, <1>2 DEF CtxScopes
<1>5. QED
  BY <1>3, <1>4
(* Writing an extended bignum leaves the pool alone. *)
LEMMA ExtWriteStep ==
  ASSUME IInv, NEW i \in 1 .. Depth, NEW v \in Data, NEW t \in DOMAIN frames[i].ext,
         frames' = [frames EXCEPT ![i].ext[t] = v], UNCHANGED stdVars
  PROVE  IInv' /\ CtxScopes' = CtxScopes
<1>0. FramesType
  BY DEF IInv
<1>1. i \in 1 .. Len(frames) /\ frames \in Seq(FrameT) /\ frames[i] \in FrameT
  BY <1>0 DEF Depth, FramesType
<1>2. PICK E \in SUBSET ExtTags : frames[i].ext \in [E -> Contents]
  BY <1>1 DEF FrameT
<1>3. [frames[i].ext EXCEPT ![t] = v] \in [E -> Contents]
  BY <1>2 DEF Contents
<1>4. [frames[i] EXCEPT !.ext = [frames[i].ext EXCEPT ![t] = v]] \in FrameT
  BY <1>1, <1>3, FrameExtUpdate
<1>5. frames' = [frames EXCEPT ![i] = [frames[i] EXCEPT !.ext = [frames[i].ext EXCEPT ![t] = v]]]
  OBVIOUS
<1>6. frames' \in Seq(FrameT) /\ Len(frames') = Len(frames)
  BY <1>1, <1>4, <1>5
<1>7. \A j \in 1 .. Len(frames) : frames'[j].held = frames[j].held
  BY <1>1, <1>5 DEF FrameT
<1>8. UNCHANGED <<bnArray, bnArrayMax, stack, stackPos, stackOOB>>
  BY DEF stdVars
<1>9. QED
  BY <1>6, <1>7, <1>8, PoolUnchanged
(* The frames' slots are disjoint: slot s of frame i is the k-th bignum   *)
(* of frame j only for j = i and k = s - stack[i-1] + 1.                   *)
LEMMA FrameIndex ==
  ASSUME PoolType, Nested, NEW i \in 1 .. stackPos, NEW s \in Frame(i),
         NEW j \in 1 .. stackPos, NEW k \in 1 .. stack[j] - stack[j - 1]
  PROVE  stack[j - 1] + k - 1 = s <=> (j = i /\ k = s - stack[i - 1] + 1)
<1>1. /\ stack \in [Slots -> 0 .. ArraySize] /\ stackPos \in 0 .. ArraySize - 1
      /\ \A a, b \in 0 .. stackPos : a <= b => stack[a] <= stack[b]
  BY DEF PoolType, Nested
<1>2. /\ stack[i - 1] \in Nat /\ stack[i] \in Nat /\ stack[j - 1] \in Nat /\ stack[j] \in Nat
      /\ stack[i - 1] <= s /\ s < stack[i]
  BY <1>1 DEF Frame, Slots
<1>3. CASE j < i
  <2>1. stack[j] <= stack[i - 1]
    BY <1>1, <1>3
  <2>2. QED
    BY <1>2, <1>3, <2>1
<1>4. CASE j > i
  <2>1. stack[i] <= stack[j - 1]
    <3>1. i \in 0 .. stackPos /\ j - 1 \in 0 .. stackPos /\ i <= j - 1
      BY <1>1, <1>4
    <3>2. QED
      BY <1>1, <3>1
  <2>2. QED
    BY <1>2, <1>4, <2>1
<1>5. CASE j = i
  BY <1>2, <1>5 DEF Frame
<1>6. QED
  BY <1>3, <1>4, <1>5

(* Writing a pool bignum held by frame i overwrites one bignum of scope i *)
(* and nothing else.                                                       *)
LEMMA PoolWriteStep ==
  ASSUME IInv, NEW i \in 1 .. Depth, NEW v \in Data, NEW s \in DOMAIN frames[i].held,
         bnArray' = [bnArray EXCEPT ![s] = v], frames' = [frames EXCEPT ![i].held[s] = v],
         UNCHANGED <<bnArrayMax, stack, stackPos, bnExt, stackOOB>>
  PROVE  IInv' /\ Scopes!Write
<1> DEFINE sp == stackPos
           k == s - stack[i - 1] + 1
<1>0. PoolType /\ FramesType /\ Nested /\ WithinHeld /\ Owned /\ ClearAbove
  BY DEF IInv
<1>1. /\ sp \in Nat /\ i \in 1 .. sp /\ Len(frames) = sp
      /\ frames \in Seq(FrameT) /\ frames[i] \in FrameT
  <2>1. sp \in Nat /\ frames \in Seq(FrameT) /\ Len(frames) = sp
    BY <1>0 DEF PoolType, FramesType, Depth
  <2>2. i \in 1 .. sp
    BY <2>1 DEF Depth
  <2>3. QED
    BY <2>1, <2>2
<1>2. s \in Frame(i)
  BY <1>0, <1>1 DEF Owned, Depth
<1>3. /\ stack[i - 1] \in Nat /\ stack[i] \in Nat /\ stack[i - 1] <= s /\ s < stack[i]
      /\ stack[i] <= stack[sp] /\ stack[sp] \in 0 .. ArraySize
  <2>1. /\ stack \in [Slots -> 0 .. ArraySize] /\ sp \in 0 .. ArraySize - 1
        /\ \A a, c \in 0 .. sp : a <= c => stack[a] <= stack[c]
    BY <1>0 DEF PoolType, Nested
  <2>2. i - 1 \in Slots /\ i \in Slots /\ sp \in Slots
    BY <1>1, <2>1 DEF Slots
  <2>3. stack[i - 1] \in Nat /\ stack[i] \in Nat /\ stack[sp] \in 0 .. ArraySize
    BY <2>1, <2>2
  <2>4. stack[i] <= stack[sp]
    BY <1>1, <2>1
  <2>5. stack[i - 1] <= s /\ s < stack[i]
    BY <1>2, <2>3 DEF Frame
  <2>6. QED
    BY <2>3, <2>4, <2>5
<1>4. s \in Slots /\ s < stack[sp] /\ v \in Contents
  BY <1>2, <1>3 DEF Frame, Slots, Contents
<1>5. PICK S \in SUBSET Slots : frames[i].held \in [S -> Contents]
  <2>1. frames[i] \in FrameT
    BY <1>1
  <2>2. QED
    BY <2>1 DEF FrameT
<1>6. [frames[i] EXCEPT !.held = [frames[i].held EXCEPT ![s] = v]] \in FrameT
  <2>1. [frames[i].held EXCEPT ![s] = v] \in [S -> Contents]
    BY <1>4, <1>5
  <2>2. QED
    BY <1>1, <2>1, FrameHeldUpdate
<1>7. frames' = [frames EXCEPT ![i] = [frames[i] EXCEPT !.held = [frames[i].held EXCEPT ![s] = v]]]
  OBVIOUS
<1>8. /\ frames' \in Seq(FrameT) /\ Len(frames') = sp
      /\ \A j \in 1 .. sp : DOMAIN frames'[j].held = DOMAIN frames[j].held
  <2>1. frames' \in Seq(FrameT) /\ Len(frames') = sp
    BY <1>1, <1>6, <1>7
  <2>2. \A j \in 1 .. sp : j # i => frames'[j] = frames[j]
    BY <1>1, <1>7
  <2>3. DOMAIN frames'[i].held = DOMAIN frames[i].held
    BY <1>1, <1>7 DEF FrameT
  <2>4. QED
    BY <2>1, <2>2, <2>3
<1>9. IInv'
  <2>1. PoolType'
    BY <1>0, <1>4 DEF PoolType
  <2>2. FramesType' /\ Nested' /\ WithinHeld'
    BY <1>0, <1>8 DEF FramesType, Nested, WithinHeld, Depth
  <2>3. Owned'
    <3>1. Depth' = Depth /\ HeldSlots' = HeldSlots
      BY <1>1, <1>8 DEF Depth, HeldSlots
    <3>2. \A j \in 1 .. Depth : Frame(j)' = Frame(j)
      BY DEF Frame
    <3>3. QED
      BY <1>0, <1>1, <1>8, <3>1, <3>2 DEF Owned, Depth
  <2>4. ClearAbove'
    BY <1>0, <1>3, <1>4 DEF ClearAbove, Slots
  <2>5. QED
    BY <2>1, <2>2, <2>3, <2>4 DEF IInv
<1>10. CtxScopes' = [CtxScopes EXCEPT ![i][k] = v]
  <2>1. \A j \in 1 .. sp : \A m \in 1 .. stack[j] - stack[j - 1] :
          bnArray'[stack[j - 1] + m - 1]
            = IF j = i /\ m = k THEN v ELSE bnArray[stack[j - 1] + m - 1]
    <3>1. SUFFICES ASSUME NEW j \in 1 .. sp, NEW m \in 1 .. stack[j] - stack[j - 1]
                   PROVE  bnArray'[stack[j - 1] + m - 1]
                            = IF j = i /\ m = k THEN v ELSE bnArray[stack[j - 1] + m - 1]
      OBVIOUS
    <3>2. stack[j - 1] + m - 1 = s <=> (j = i /\ m = k)
      BY <1>0, <1>1, <1>2, FrameIndex
    <3>3. stack[j - 1] + m - 1 \in Slots
      <4>1. stack \in [Slots -> 0 .. ArraySize] /\ j - 1 \in Slots /\ j \in Slots
        BY <1>0, <1>1 DEF PoolType, Slots
      <4>2. stack[j - 1] \in 0 .. ArraySize /\ stack[j] \in 0 .. ArraySize
        BY <4>1
      <4>3. QED
        BY <3>1, <4>2 DEF Slots
    <3>4. QED
      BY <1>0, <1>4, <3>2, <3>3 DEF PoolType
  <2>2. \A j \in 1 .. sp :
          FrameScope(j)' = IF j = i THEN [FrameScope(i) EXCEPT ![k] = v] ELSE FrameScope(j)
    BY <1>1, <1>3, <2>1 DEF FrameScope
  <2>3. CtxScopes' = [j \in 1 .. sp |-> FrameScope(j)']
    BY DEF CtxScopes
  <2>4. CtxScopes = [j \in 1 .. sp |-> FrameScope(j)]
    BY DEF CtxScopes
  <2>5. QED
    BY <1>1, <2>2, <2>3, <2>4
<1>11. Scopes!Write
  <2>1. Len(CtxScopes) = sp /\ CtxScopes[i] = FrameScope(i)
    BY <1>0, <1>1, CtxScopesLen DEF CtxScopes
  <2>2. Len(FrameScope(i)) = stack[i] - stack[i - 1] /\ k \in 1 .. stack[i] - stack[i - 1]
    <3>1. FrameScope(i) \in Seq(Contents)
      BY <1>0, <1>1, FrameScopeSeq
    <3>2. DOMAIN FrameScope(i) = 1 .. stack[i] - stack[i - 1]
          /\ stack[i] - stack[i - 1] \in Nat
      <4>1. stack[i] - stack[i - 1] \in Nat
        BY <1>2, <1>3 DEF Frame
      <4>2. DOMAIN FrameScope(i) = 1 .. stack[i] - stack[i - 1]
        BY DEF FrameScope
      <4>3. QED
        BY <4>1, <4>2
    <3>3. Len(FrameScope(i)) = stack[i] - stack[i - 1]
      <4>1. Len(FrameScope(i)) \in Nat /\ DOMAIN FrameScope(i) = 1 .. Len(FrameScope(i))
        BY <3>1, LenProperties
      <4>2. QED
        BY <3>2, <4>1
    <3>4. k \in 1 .. stack[i] - stack[i - 1]
      BY <1>2, <1>3 DEF Frame
    <3>5. QED
      BY <3>3, <3>4
  <2>3. QED
    BY <1>1, <1>10, <2>1, <2>2 DEF Scopes!Write
<1>12. QED
  BY <1>9, <1>11
(* A write by the running function overwrites a bignum of an open scope, *)
(* or an extended bignum, which the scopes do not see.                     *)
LEMMA WriteStep ==
  ASSUME IInv, CallWrite
  PROVE  IInv' /\ (Scopes!Write \/ CtxScopes' = CtxScopes)
<1>1. PICK i \in 1 .. Depth, v \in Data :
        \/ \E s \in DOMAIN frames[i].held :
             /\ bnArray' = [bnArray EXCEPT ![s] = v]
             /\ frames' = [frames EXCEPT ![i].held[s] = v]
             /\ UNCHANGED <<bnArrayMax, stack, stackPos, bnExt, stackOOB>>
        \/ \E t \in DOMAIN frames[i].ext :
             /\ bnExt' = [bnExt EXCEPT ![t] = v]
             /\ frames' = [frames EXCEPT ![i].ext[t] = v]
             /\ UNCHANGED stdVars
  BY DEF CallWrite
<1>2. CASE \E s \in DOMAIN frames[i].held :
             /\ bnArray' = [bnArray EXCEPT ![s] = v]
             /\ frames' = [frames EXCEPT ![i].held[s] = v]
             /\ UNCHANGED <<bnArrayMax, stack, stackPos, bnExt, stackOOB>>
  BY <1>2, PoolWriteStep
<1>3. CASE \E t \in DOMAIN frames[i].ext :
             /\ bnExt' = [bnExt EXCEPT ![t] = v]
             /\ frames' = [frames EXCEPT ![i].ext[t] = v]
             /\ UNCHANGED stdVars
  BY <1>3, ExtWriteStep
<1>4. QED
  BY <1>1, <1>2, <1>3
(* BN_CTX_end, and the standard part of BN_CTX_end_ext, for a caller that *)
(* holds at most MaxHeld < ArraySize bignums: the ENSURES after the        *)
(* clearing loop holds, the innermost frame is cleared and popped, and the *)
(* enclosing frames keep their bignums.                                    *)
LEMMA EndStep ==
  ASSUME IInv, SizedCaller, Depth > 0, EndStd, frames' = SubSeq(frames, 1, Depth - 1)
  PROVE  /\ IInv'
         /\ CtxScopes # <<>>
         /\ CtxScopes' = SubSeq(CtxScopes, 1, Len(CtxScopes) - 1)
         /\ UNCHANGED stackOOB
<1> DEFINE sp == stackPos
           top == stack[stackPos]
           lo == stack[stackPos - 1]
<1>0. PoolType /\ FramesType /\ Nested /\ WithinHeld /\ Owned /\ ClearAbove
  BY DEF IInv
<1>1. /\ sp \in 1 .. ArraySize - 1 /\ Len(frames) = sp /\ frames \in Seq(FrameT)
      /\ sp \in Slots /\ sp - 1 \in Slots
  BY <1>0 DEF FramesType, PoolType, Depth, Slots
<1>2. /\ stack \in [Slots -> 0 .. ArraySize]
      /\ lo \in Nat /\ top \in Nat /\ lo <= top /\ top < ArraySize
  BY <1>0, <1>1 DEF PoolType, Nested, WithinHeld, SizedCaller
<1>3. /\ bnArray' = ClearStd(lo, top)
      /\ stack' = [stack EXCEPT ![sp] = 0]
      /\ stackPos' = sp - 1
      /\ UNCHANGED <<bnArrayMax, stackOOB>>
  <2>1. sanityCheckBNCTX /\ FrameBase = {lo}
    BY <1>0, <1>1, IInvSane DEF FrameBase
  <2>2. PICK b \in FrameBase :
          /\ stackOOB' = (stackOOB \/ stackPos = 0)
          /\ \/ /\ b > stack[stackPos]
                /\ UNCHANGED <<bnArray, bnArrayMax, stack, stackPos>>
             \/ /\ b <= stack[stackPos]
                /\ stack[stackPos] < ArraySize
                /\ bnArray' = ClearStd(b, stack[stackPos])
                /\ stack' = [stack EXCEPT ![stackPos] = 0]
                /\ stackPos' = stackPos - 1
                /\ UNCHANGED bnArrayMax
             \/ /\ b <= stack[stackPos]
                /\ stack[stackPos] >= ArraySize
                /\ bnArray' = ClearStd(b, stack[stackPos])
                /\ UNCHANGED <<bnArrayMax, stack, stackPos>>
    BY <2>1 DEF EndStd
  <2>3. b = lo /\ stackPos # 0
    BY <1>1, <2>1
  <2>4. ~(lo > top) /\ top < ArraySize /\ ~(top >= ArraySize)
    BY <1>2
  <2>5. /\ bnArray' = ClearStd(b, top)
        /\ stack' = [stack EXCEPT ![sp] = 0]
        /\ stackPos' = sp - 1
        /\ bnArrayMax' = bnArrayMax
    BY <2>2, <2>3, <2>4
  <2>6. stackOOB' = stackOOB
    BY <1>0, <2>2, <2>3 DEF PoolType
  <2>7. QED
    BY <2>3, <2>5, <2>6
<1>4. /\ frames' \in Seq(FrameT) /\ Len(frames') = sp - 1
      /\ \A j \in 1 .. sp - 1 : frames'[j] = frames[j]
  <2>1. \A j \in 1 .. sp - 1 : frames[j] \in FrameT
    BY <1>1
  <2>2. QED
    BY <1>1, <2>1, SubSeqProperties DEF Depth
<1>5. \A j \in 1 .. sp - 1 : stack'[j] = stack[j] /\ stack'[j - 1] = stack[j - 1]
  BY <1>1, <1>2, <1>3
<1>6. \A j \in 1 .. sp - 1 : Frame(j)' = Frame(j)
  BY <1>3, <1>5 DEF Frame
<1>7. \A j \in 1 .. sp - 1 : Frame(j) \subseteq 0 .. lo - 1
  <2>1. SUFFICES ASSUME NEW j \in 1 .. sp - 1 PROVE Frame(j) \subseteq 0 .. lo - 1
    OBVIOUS
  <2>2. stack[j] <= lo /\ stack[j - 1] \in Nat /\ stack[j] \in Nat
    BY <1>0, <1>1, <1>2 DEF Nested, Slots
  <2>3. QED
    BY <1>2, <2>2 DEF Frame
<1>8. HeldSlots' = 0 .. lo - 1
  <2>1. \A x : x \in HeldSlots' <=> \E j \in 1 .. sp - 1 : x \in DOMAIN frames'[j].held
    BY <1>4 DEF HeldSlots, Depth
  <2>2. \A j \in 1 .. sp - 1 : DOMAIN frames'[j].held = Frame(j)
    BY <1>0, <1>1, <1>4 DEF Owned, Depth
  <2>3. \A x : x \in 0 .. top - 1 <=> \E j \in 1 .. sp : x \in Frame(j)
    <3>1. HeldSlots = 0 .. top - 1
      BY <1>0 DEF Owned
    <3>2. \A x : x \in HeldSlots <=> \E j \in 1 .. sp : x \in DOMAIN frames[j].held
      BY <1>1 DEF HeldSlots, Depth
    <3>3. \A j \in 1 .. sp : DOMAIN frames[j].held = Frame(j)
      BY <1>0, <1>1 DEF Owned, Depth
    <3>4. QED
      BY <3>1, <3>2, <3>3
  <2>4. \A x \in 0 .. lo - 1 : x \notin Frame(sp)
    BY <1>2 DEF Frame
  <2>5. \A x \in 0 .. lo - 1 : x \in 0 .. top - 1
    BY <1>2
  <2>6. \A j \in 1 .. sp : j = sp \/ j \in 1 .. sp - 1
    BY <1>1
  <2>7. SUFFICES ASSUME NEW x PROVE x \in HeldSlots' <=> x \in 0 .. lo - 1
    OBVIOUS
  <2>8. ASSUME x \in HeldSlots' PROVE x \in 0 .. lo - 1
    <3>1. PICK j \in 1 .. sp - 1 : x \in Frame(j)
      BY <2>1, <2>2, <2>8
    <3>2. QED
      BY <1>7, <3>1
  <2>9. ASSUME x \in 0 .. lo - 1 PROVE x \in HeldSlots'
    <3>1. PICK j \in 1 .. sp : x \in Frame(j)
      BY <2>3, <2>5, <2>9
    <3>2. j \in 1 .. sp - 1
      BY <2>4, <2>6, <2>9, <3>1
    <3>3. QED
      BY <2>1, <2>2, <3>1, <3>2
  <2>10. QED
    BY <2>8, <2>9
<1>9. IInv'
  <2>1. PoolType'
    <3>1. bnArray' \in [Slots -> Contents]
      BY <1>0, <1>3 DEF PoolType, ClearStd, Contents
    <3>2. QED
      BY <1>0, <1>1, <1>2, <1>3, <3>1 DEF PoolType
  <2>2. FramesType'
    BY <1>3, <1>4 DEF FramesType, Depth
  <2>3. Nested'
    <3>1. stack'[0] = 0
      BY <1>0, <1>1, <1>2, <1>3 DEF Nested, Slots
    <3>2. \A a \in 0 .. sp - 1 : stack'[a] = stack[a]
      BY <1>1, <1>2, <1>3 DEF Slots
    <3>3. QED
      BY <1>0, <1>1, <1>3, <3>1, <3>2 DEF Nested
  <2>4. stack'[stackPos'] = lo
    BY <1>1, <1>2, <1>3 DEF Slots
  <2>5. WithinHeld'
    BY <1>0, <1>2, <2>4 DEF WithinHeld
  <2>6. Owned'
    <3>1. \A j \in 1 .. Depth' : DOMAIN frames'[j].held = Frame(j)'
      BY <1>0, <1>1, <1>4, <1>6 DEF Owned, Depth
    <3>2. QED
      BY <1>8, <2>4, <3>1 DEF Owned
  <2>7. ClearAbove'
    <3>1. SUFFICES ASSUME NEW x \in Slots, x >= lo PROVE bnArray'[x] = 0
      BY <2>4 DEF ClearAbove
    <3>2. CASE x < top
      BY <1>2, <1>3, <3>1, <3>2 DEF ClearStd, Slots
    <3>3. CASE x >= top
      BY <1>0, <1>3, <3>3 DEF ClearStd, ClearAbove, Slots
    <3>4. QED
      BY <1>2, <3>2, <3>3 DEF Slots
  <2>8. QED
    BY <2>1, <2>2, <2>3, <2>5, <2>6, <2>7 DEF IInv
<1>10. CtxScopes' = SubSeq(CtxScopes, 1, sp - 1)
  <2>1. \A j \in 1 .. sp - 1 : FrameScope(j)' = FrameScope(j)
    <3>1. SUFFICES ASSUME NEW j \in 1 .. sp - 1 PROVE FrameScope(j)' = FrameScope(j)
      OBVIOUS
    <3>2. /\ stack[j - 1] \in Nat /\ stack[j] \in Nat /\ stack[j] <= lo
          /\ \A m \in 1 .. stack[j] - stack[j - 1] : stack[j - 1] + m - 1 \in Slots
      <4>1. j - 1 \in Slots /\ j \in Slots /\ j \in 0 .. sp /\ sp - 1 \in 0 .. sp /\ j <= sp - 1
        BY <1>1 DEF Slots
      <4>2. stack[j - 1] \in Nat /\ stack[j] \in Nat
        BY <1>2, <4>1
      <4>3. stack[j] <= lo
        <5>1. \A a, c \in 0 .. stackPos : a <= c => stack[a] <= stack[c]
          BY <1>0 DEF Nested
        <5>2. QED
          BY <4>1, <5>1, Zenon
      <4>4. \A m \in 1 .. stack[j] - stack[j - 1] : stack[j - 1] + m - 1 \in Slots
        <5>1. lo < ArraySize /\ lo \in Nat
          BY <1>2
        <5>2. stack[j] < ArraySize
          BY <4>2, <4>3, <5>1
        <5>3. QED
          BY <4>2, <5>2 DEF Slots
      <4>5. QED
        BY <4>2, <4>3, <4>4
    <3>3. \A m \in 1 .. stack[j] - stack[j - 1] :
            bnArray'[stack[j - 1] + m - 1] = bnArray[stack[j - 1] + m - 1]
      BY <1>2, <1>3, <3>2 DEF ClearStd
    <3>4. QED
      BY <1>5, <3>3 DEF FrameScope
  <2>2. CtxScopes' = [j \in 1 .. sp - 1 |-> FrameScope(j)]
    BY <1>3, <2>1 DEF CtxScopes
  <2>3. /\ CtxScopes \in Seq(Seq(Contents)) /\ Len(CtxScopes) = sp
        /\ \A j \in 1 .. sp : CtxScopes[j] = FrameScope(j)
    BY <1>0, CtxScopesSeq, CtxScopesLen DEF CtxScopes
  <2>4. /\ SubSeq(CtxScopes, 1, sp - 1) \in Seq(Seq(Contents))
        /\ Len(SubSeq(CtxScopes, 1, sp - 1)) = sp - 1
        /\ \A j \in 1 .. sp - 1 : SubSeq(CtxScopes, 1, sp - 1)[j] = CtxScopes[j]
    <3>1. \A j \in 1 .. sp - 1 : CtxScopes[j] \in Seq(Contents)
      BY <1>1, <2>3
    <3>2. QED
      BY <1>1, <3>1, SubSeqProperties
  <2>5. QED
    BY <1>1, <2>2, <2>3, <2>4, SeqEqual
<1>11. QED
  BY <1>0, <1>1, <1>3, <1>9, <1>10, CtxScopesLen
-----------------------------------------------------------------------------
(* Every step of the disciplined caller keeps the invariant and is a step  *)
(* of the scoped allocator, or leaves its scopes as they were.             *)
LEMMA NextStep ==
  ASSUME IInv, SizedCaller, [ClientNext]_vars
  PROVE  IInv' /\ [Scopes!ScopesNext]_CtxScopes
<1>1. CASE CallStart
  BY <1>1, StartStep DEF Scopes!ScopesNext, Scopes!Begin
<1>2. CASE CallGet
  BY <1>2, GetStep DEF Scopes!ScopesNext, Scopes!Get
<1>3. CASE CallGetFail
  BY <1>3, GetFailStep
<1>4. CASE CallWrite
  BY <1>4, WriteStep DEF Scopes!ScopesNext
<1>5. CASE CallGetExt
  BY <1>5, GetExtStep
<1>6. CASE CallEnd
  <2>1. Depth > 0 /\ EndStd /\ frames' = SubSeq(frames, 1, Depth - 1)
    BY <1>6 DEF CallEnd, BN_CTX_end
  <2>2. QED
    BY <2>1, EndStep DEF Scopes!ScopesNext, Scopes!Release
<1>7. CASE CallEndExt
  <2>1. Depth > 0 /\ EndStd /\ frames' = SubSeq(frames, 1, Depth - 1)
    BY <1>7 DEF CallEndExt, BN_CTX_end_ext
  <2>2. QED
    BY <2>1, EndStep DEF Scopes!ScopesNext, Scopes!Release
<1>8. CASE CallFinal
  BY <1>8, FinalStep
<1>9. CASE UNCHANGED vars
  <2>1. UNCHANGED <<bnArray, bnArrayMax, stack, stackPos, stackOOB>> /\ frames' = frames
    BY <1>9 DEF vars, ctxVars
  <2>2. frames \in Seq(FrameT)
    BY DEF IInv, FramesType
  <2>3. QED
    BY <2>1, <2>2, PoolUnchanged
<1>10. QED
  BY <1>1, <1>2, <1>3, <1>4, <1>5, <1>6, <1>7, <1>8, <1>9 DEF ClientNext

(* For a caller that never needs the last pool slot and nests less deep    *)
(* than the boundary stack, the BN_CTX pool implements the scoped          *)
(* allocator: BN_CTX_start opens a scope, a successful BN_CTX_get adds a   *)
(* cleared bignum to the innermost one, BN_CTX_end and BN_CTX_end_ext      *)
(* discard exactly that scope, and nothing else changes a bignum of an     *)
(* open scope but the caller's own writes.                                 *)
THEOREM ScopesRefinement ==
  ASSUME SizedCaller
  PROVE  ClientSpec => ImplementsScopes
<1>1. ClientInit => IInv /\ Scopes!ScopesInit
  BY InitIInv DEF Scopes!ScopesInit
<1>2. IInv /\ [ClientNext]_vars => IInv' /\ [Scopes!ScopesNext]_CtxScopes
  BY NextStep
<1>3. QED
  BY <1>1, <1>2, PTL DEF ClientSpec, ImplementsScopes, Scopes!Spec
(* No step of the disciplined caller touches stackOOB: BN_CTX_start is     *)
(* never called from the last frame and BN_CTX_end never at stackPos = 0.  *)
LEMMA NoOverrunStep ==
  ASSUME IInv, SizedCaller, [ClientNext]_vars
  PROVE  UNCHANGED stackOOB
<1>1. CASE CallStart
  BY <1>1, StartStep
<1>2. CASE CallEnd
  <2>1. Depth > 0 /\ EndStd /\ frames' = SubSeq(frames, 1, Depth - 1)
    BY <1>2 DEF CallEnd, BN_CTX_end
  <2>2. QED
    BY <2>1, EndStep
<1>3. CASE CallEndExt
  <2>1. Depth > 0 /\ EndStd /\ frames' = SubSeq(frames, 1, Depth - 1)
    BY <1>3 DEF CallEndExt, BN_CTX_end_ext
  <2>2. QED
    BY <2>1, EndStep
<1>4. CASE CallGet \/ CallGetFail \/ CallGetExt \/ CallFinal
  BY <1>4 DEF CallGet, BN_CTX_get, CallGetFail, BN_CTX_get_fail, CallGetExt,
              CallFinal, BN_CTX_final, ctxVars
<1>5. CASE CallWrite
  BY <1>5 DEF CallWrite, stdVars
<1>6. CASE UNCHANGED vars
  BY <1>6 DEF vars, ctxVars
<1>7. QED
  BY <1>1, <1>2, <1>3, <1>4, <1>5, <1>6 DEF ClientNext

(* For the same caller, no access of stack[] ever falls outside the array: *)
(* the property NoStackOverrun of client_sized, for every pool size.       *)
THEOREM NoOverrun ==
  ASSUME SizedCaller
  PROVE  ClientSpec => []NoStackOverrun
<1>1. ClientInit => IInv /\ NoStackOverrun
  BY InitIInv DEF ClientInit, Init, BN_CTX_init, NoStackOverrun
<1>2. IInv /\ NoStackOverrun /\ [ClientNext]_vars => IInv' /\ NoStackOverrun'
  BY NextStep, NoOverrunStep DEF NoStackOverrun
<1>3. QED
  BY <1>1, <1>2, PTL DEF ClientSpec
-----------------------------------------------------------------------------
(* The invariant gives ClearedAtRest: a pool slot nobody holds lies at or  *)
(* above stack[stackPos].                                                  *)
LEMMA CInvCleared ==
  ASSUME CInv
  PROVE  ClearedAtRest
<1>1. \A s \in Slots \ HeldSlots : bnArray[s] = 0
  <2>1. HeldSlots = 0 .. stack[stackPos] - 1 /\ stack[stackPos] \in 0 .. ArraySize
    BY DEF CInv, IInv, Owned, PoolType, Slots
  <2>2. \A s \in Slots \ HeldSlots : s >= stack[stackPos]
    BY <2>1 DEF Slots
  <2>3. QED
    BY <2>2 DEF CInv, IInv, ClearAbove
<1>2. QED
  BY <1>1 DEF CInv, ExtClear, ClearedAtRest

(* A step that changes no frame's extended bignums, and no extended bignum *)
(* nobody holds, keeps the extended part of the invariant.                 *)
LEMMA ExtSame ==
  ASSUME ExtShape, ExtDisjoint, ExtClear, Len(frames') = Len(frames),
         \A i \in 1 .. Len(frames) : DOMAIN frames'[i].ext = DOMAIN frames[i].ext,
         \A e \in ExtTags \ HeldExt : bnExt'[e] = bnExt[e]
  PROVE  ExtShape' /\ ExtDisjoint' /\ ExtClear'
<1>1. Depth' = Depth /\ HeldExt' = HeldExt
  BY DEF Depth, HeldExt
<1>2. QED
  BY <1>1 DEF ExtShape, ExtDisjoint, ExtClear, Depth
(* BN_CTX_get, its NULL, and a write of a pool bignum leave the extended   *)
(* bignums and who holds them alone.                                       *)
LEMMA ExtGetWriteStep ==
  ASSUME ExtInv, CallGet \/ CallGetFail \/ CallWrite
  PROVE  ExtShape' /\ ExtDisjoint' /\ ExtClear'
<1>0. frames \in Seq(FrameT) /\ Depth = Len(frames)
  BY DEF ExtInv, Depth
<1>1. ExtShape /\ ExtDisjoint /\ ExtClear
  BY DEF ExtInv
<1>2. CASE CallGet
  <2>1. Depth \in 1 .. Len(frames)
    BY <1>0, <1>2 DEF CallGet, Running
  <2>2. PICK h : frames' = [frames EXCEPT ![Depth] = [frames[Depth] EXCEPT !.held = h]]
    BY <1>2 DEF CallGet
  <2>3. Len(frames') = Len(frames)
        /\ \A i \in 1 .. Len(frames) : DOMAIN frames'[i].ext = DOMAIN frames[i].ext
    BY <1>0, <2>1, <2>2 DEF FrameT
  <2>4. UNCHANGED bnExt
    BY <1>2 DEF CallGet, BN_CTX_get
  <2>5. QED
    BY <1>1, <2>3, <2>4, ExtSame
<1>3. CASE CallGetFail
  <2>1. Depth \in 1 .. Len(frames)
    BY <1>0, <1>3 DEF CallGetFail, Running
  <2>2. frames' = [frames EXCEPT ![Depth] = [frames[Depth] EXCEPT !.failed = TRUE]]
    BY <1>3 DEF CallGetFail
  <2>3. Len(frames') = Len(frames)
        /\ \A i \in 1 .. Len(frames) : DOMAIN frames'[i].ext = DOMAIN frames[i].ext
    BY <1>0, <2>1, <2>2 DEF FrameT
  <2>4. UNCHANGED bnExt
    BY <1>3 DEF CallGetFail, BN_CTX_get_fail, ctxVars
  <2>5. QED
    BY <1>1, <2>3, <2>4, ExtSame
<1>4. CASE CallWrite
  <2>1. PICK i \in 1 .. Depth, v \in Data :
          \/ \E s \in DOMAIN frames[i].held :
               /\ frames' = [frames EXCEPT ![i].held[s] = v]
               /\ UNCHANGED bnExt
          \/ \E t \in DOMAIN frames[i].ext :
               /\ bnExt' = [bnExt EXCEPT ![t] = v]
               /\ frames' = [frames EXCEPT ![i].ext[t] = v]
    BY <1>4 DEF CallWrite
  <2>2. i \in 1 .. Len(frames) /\ frames[i] \in FrameT
    BY <1>0
  <2>3. CASE \E s \in DOMAIN frames[i].held :
               /\ frames' = [frames EXCEPT ![i].held[s] = v]
               /\ UNCHANGED bnExt
    <3>1. PICK s \in DOMAIN frames[i].held :
            /\ frames' = [frames EXCEPT ![i] = [frames[i] EXCEPT !.held =
                                                  [frames[i].held EXCEPT ![s] = v]]]
            /\ UNCHANGED bnExt
      BY <2>3
    <3>2. Len(frames') = Len(frames)
          /\ \A j \in 1 .. Len(frames) : DOMAIN frames'[j].ext = DOMAIN frames[j].ext
      BY <1>0, <2>2, <3>1 DEF FrameT
    <3>3. QED
      BY <1>1, <3>1, <3>2, ExtSame
  <2>4. CASE \E t \in DOMAIN frames[i].ext :
               /\ bnExt' = [bnExt EXCEPT ![t] = v]
               /\ frames' = [frames EXCEPT ![i].ext[t] = v]
    <3>1. PICK t \in DOMAIN frames[i].ext :
            /\ bnExt' = [bnExt EXCEPT ![t] = v]
            /\ frames' = [frames EXCEPT ![i] = [frames[i] EXCEPT !.ext =
                                                  [frames[i].ext EXCEPT ![t] = v]]]
      BY <2>4
    <3>2. Len(frames') = Len(frames)
          /\ \A j \in 1 .. Len(frames) : DOMAIN frames'[j].ext = DOMAIN frames[j].ext
      BY <1>0, <2>2, <3>1 DEF FrameT
    <3>3. t \in HeldExt
      BY <1>0, <2>2 DEF HeldExt
    <3>4. \A e \in ExtTags \ HeldExt : bnExt'[e] = bnExt[e]
      BY <3>1, <3>3
    <3>5. QED
      BY <1>1, <3>2, <3>4, ExtSame
  <2>5. QED
    BY <2>1, <2>3, <2>4
<1>5. QED
  BY <1>2, <1>3, <1>4
(* BN_CTX_start opens a frame that holds no extended bignum. *)
LEMMA ExtStartStep ==
  ASSUME ExtInv, CallStart
  PROVE  ExtShape' /\ ExtDisjoint' /\ ExtClear'
<1> DEFINE n == Len(frames)
<1>0. ExtShape /\ ExtDisjoint /\ ExtClear
  BY DEF ExtInv
<1>1. /\ frames \in Seq(FrameT) /\ n \in Nat
      /\ frames' = Append(frames, NewFrame)
  BY DEF ExtInv, CallStart
<1>2. /\ Len(frames') = n + 1
      /\ \A i \in 1 .. n + 1 : DOMAIN frames'[i].ext = IF i <= n THEN DOMAIN frames[i].ext ELSE {}
  BY <1>1 DEF NewFrame
<1>3. UNCHANGED bnExt
  BY DEF CallStart, BN_CTX_start, ctxVars
<1>4. Depth' = n + 1 /\ Depth = n
  BY <1>2 DEF Depth
<1>5. HeldExt' = HeldExt
  <2>1. \A x : x \in HeldExt' <=> \E i \in 1 .. n + 1 : x \in DOMAIN frames'[i].ext
    BY <1>4 DEF HeldExt
  <2>2. \A x : x \in HeldExt <=> \E i \in 1 .. n : x \in DOMAIN frames[i].ext
    BY <1>4 DEF HeldExt
  <2>3. \A i \in 1 .. n + 1 : i \in 1 .. n \/ DOMAIN frames'[i].ext = {}
    BY <1>1, <1>2
  <2>4. \A i \in 1 .. n : DOMAIN frames'[i].ext = DOMAIN frames[i].ext /\ i \in 1 .. n + 1
    BY <1>1, <1>2
  <2>5. QED
    BY <2>1, <2>2, <2>3, <2>4
<1>6. ExtShape'
  BY <1>0, <1>1, <1>2, <1>4 DEF ExtShape
<1>7. ExtDisjoint'
  BY <1>0, <1>1, <1>2, <1>4 DEF ExtDisjoint
<1>8. QED
  BY <1>0, <1>3, <1>5, <1>6, <1>7 DEF ExtClear
(* BN_CTX_get_ext gives the running function a group nobody holds. *)
LEMMA ExtGetExtStep ==
  ASSUME ExtInv, CallGetExt
  PROVE  ExtShape' /\ ExtDisjoint' /\ ExtClear'
<1> DEFINE n == Len(frames)
<1>0. ExtShape /\ ExtDisjoint /\ ExtClear
  BY DEF ExtInv
<1>1. frames \in Seq(FrameT) /\ n \in Nat /\ Depth = n
  BY DEF ExtInv, Depth
<1>2. n \in 1 .. n /\ DOMAIN frames[n].ext = {}
  BY <1>1 DEF CallGetExt, Running, Top
<1>3. PICK g \in ExtGroups :
        /\ g \cap HeldExt = {}
        /\ frames' = [frames EXCEPT ![n] = [frames[n] EXCEPT !.ext = [t \in g |-> 0]]]
  BY <1>1 DEF CallGetExt
<1>4. /\ Len(frames') = n
      /\ \A i \in 1 .. n : DOMAIN frames'[i].ext = IF i = n THEN g ELSE DOMAIN frames[i].ext
  BY <1>1, <1>2, <1>3 DEF FrameT
<1>5. Depth' = n
  BY <1>4 DEF Depth
<1>6. \A i \in 1 .. n : DOMAIN frames[i].ext \subseteq HeldExt
  BY <1>1 DEF HeldExt
<1>7. HeldExt' = HeldExt \cup g
  <2>1. \A x : x \in HeldExt' <=> \E i \in 1 .. n : x \in DOMAIN frames'[i].ext
    BY <1>5 DEF HeldExt
  <2>2. \A x : x \in HeldExt <=> \E i \in 1 .. n : x \in DOMAIN frames[i].ext
    BY <1>1 DEF HeldExt
  <2>3. QED
    BY <1>2, <1>4, <2>1, <2>2
<1>8. ExtShape'
  BY <1>0, <1>1, <1>4, <1>5 DEF ExtShape
<1>9. ExtDisjoint'
  BY <1>0, <1>1, <1>3, <1>4, <1>5, <1>6 DEF ExtDisjoint
<1>10. UNCHANGED bnExt
  BY DEF CallGetExt, ctxVars
<1>11. QED
  BY <1>0, <1>7, <1>8, <1>9, <1>10 DEF ExtClear
(* Popping the innermost frame releases exactly its extended bignums. *)
LEMMA ExtPop ==
  ASSUME ExtInv, Depth > 0, frames' = SubSeq(frames, 1, Depth - 1)
  PROVE  /\ ExtShape' /\ ExtDisjoint'
         /\ HeldExt = HeldExt' \cup DOMAIN frames[Depth].ext
         /\ HeldExt' \cap DOMAIN frames[Depth].ext = {}
<1> DEFINE n == Len(frames)
<1>0. ExtShape /\ ExtDisjoint
  BY DEF ExtInv
<1>1. frames \in Seq(FrameT) /\ n \in Nat /\ Depth = n /\ n > 0
  BY DEF ExtInv, Depth
<1>2. Len(frames') = n - 1 /\ \A i \in 1 .. n - 1 : frames'[i] = frames[i]
  <2>1. \A i \in 1 .. n - 1 : frames[i] \in FrameT
    BY <1>1
  <2>2. QED
    BY <1>1, <2>1, SubSeqProperties
<1>3. Depth' = n - 1
  BY <1>2 DEF Depth
<1>4. \A x : x \in HeldExt' <=> \E i \in 1 .. n - 1 : x \in DOMAIN frames[i].ext
  BY <1>2, <1>3 DEF HeldExt
<1>5. \A x : x \in HeldExt <=> \E i \in 1 .. n : x \in DOMAIN frames[i].ext
  BY <1>1 DEF HeldExt
<1>6. ExtShape' /\ ExtDisjoint'
  BY <1>0, <1>1, <1>2, <1>3 DEF ExtShape, ExtDisjoint
<1>7. HeldExt = HeldExt' \cup DOMAIN frames[n].ext
  <2>1. \A i \in 1 .. n : i = n \/ i \in 1 .. n - 1
    BY <1>1
  <2>2. n \in 1 .. n
    BY <1>1
  <2>3. QED
    BY <1>4, <1>5, <2>1, <2>2
<1>8. HeldExt' \cap DOMAIN frames[n].ext = {}
  <2>1. \A i \in 1 .. n - 1 : DOMAIN frames[i].ext \cap DOMAIN frames[n].ext = {}
    BY <1>0, <1>1 DEF ExtDisjoint, Depth
  <2>2. QED
    BY <1>4, <2>1
<1>9. QED
  BY <1>1, <1>6, <1>7, <1>8
(* BN_CTX_end is called only by a function holding no extended bignum, and *)
(* leaves the extended bignums alone.                                      *)
LEMMA ExtEndStep ==
  ASSUME ExtInv, CallEnd
  PROVE  ExtShape' /\ ExtDisjoint' /\ ExtClear'
<1>1. Depth > 0 /\ frames' = SubSeq(frames, 1, Depth - 1) /\ DOMAIN frames[Depth].ext = {}
  BY DEF CallEnd, Top
<1>2. ExtShape' /\ ExtDisjoint' /\ HeldExt' = HeldExt
  BY <1>1, ExtPop
<1>3. UNCHANGED bnExt
  BY DEF CallEnd, BN_CTX_end
<1>4. QED
  BY <1>2, <1>3 DEF ExtInv, ExtClear

(* BN_CTX_end_ext with EXT_MONT or EXT_MUL1 clears every extended bignum   *)
(* the innermost function holds.                                           *)
LEMMA ExtEndExtStep ==
  ASSUME ExtInv, ReleasingCaller, CallEndExt
  PROVE  ExtShape' /\ ExtDisjoint' /\ ExtClear'
<1> DEFINE G == DOMAIN frames[Depth].ext
<1>1. Depth > 0 /\ frames' = SubSeq(frames, 1, Depth - 1)
  BY DEF CallEndExt
<1>2. PICK t \in G \cap EndExtTags : BN_CTX_end_ext(t)
  BY DEF CallEndExt, Top
<1>3. /\ ExtShape' /\ ExtDisjoint'
      /\ HeldExt = HeldExt' \cup G /\ HeldExt' \cap G = {}
  BY <1>1, ExtPop
<1>4. G \in ExtGroups
  <2>1. Depth \in 1 .. Depth
    BY <1>1 DEF Depth
  <2>2. QED
    BY <1>2, <2>1 DEF ExtInv, ExtShape
<1>5. G \subseteq ExtReleased(t)
  <2>1. t # "EXT_MUL2"
    BY <1>2 DEF ReleasingCaller
  <2>2. QED
    BY <1>2, <1>4, <2>1 DEF ExtGroups, ExtReleased
<1>6. bnExt' = [e \in ExtTags |-> IF e \in ExtReleased(t) THEN 0 ELSE bnExt[e]]
  BY <1>2 DEF BN_CTX_end_ext
<1>7. \A e \in ExtTags \ HeldExt' : bnExt'[e] = 0
  <2>1. SUFFICES ASSUME NEW e \in ExtTags \ HeldExt' PROVE bnExt'[e] = 0
    OBVIOUS
  <2>2. CASE e \in G
    BY <1>5, <1>6, <2>2
  <2>3. CASE e \notin G
    <3>1. e \notin HeldExt
      BY <1>3, <2>3
    <3>2. bnExt[e] = 0
      BY <3>1 DEF ExtInv, ExtClear
    <3>3. QED
      BY <1>6, <3>2
  <2>4. QED
    BY <2>2, <2>3
<1>8. QED
  BY <1>3, <1>7 DEF ExtClear

(* BN_CTX_final, with no frame open, clears every extended bignum. *)
LEMMA ExtFinalStep ==
  ASSUME ExtInv, CallFinal
  PROVE  ExtShape' /\ ExtDisjoint' /\ ExtClear'
<1>1. Depth = 0 /\ frames' = frames
  BY DEF CallFinal
<1>2. Depth' = 0 /\ HeldExt' = {} /\ HeldExt = {}
  BY <1>1 DEF Depth, HeldExt
<1>3. bnExt' = [e \in ExtTags |-> 0] \/ bnExt' = bnExt
  BY DEF CallFinal, BN_CTX_final, ctxVars
<1>4. QED
  BY <1>2, <1>3 DEF ExtInv, ExtShape, ExtDisjoint, ExtClear

(* Every step of the caller keeps the extended part of the invariant. *)
LEMMA ExtNextStep ==
  ASSUME ExtInv, ReleasingCaller, [ClientNext]_vars
  PROVE  ExtShape' /\ ExtDisjoint' /\ ExtClear'
<1>1. CASE CallGet \/ CallGetFail \/ CallWrite
  BY <1>1, ExtGetWriteStep
<1>2. CASE CallStart
  BY <1>2, ExtStartStep
<1>3. CASE CallGetExt
  BY <1>3, ExtGetExtStep
<1>4. CASE CallEnd
  BY <1>4, ExtEndStep
<1>5. CASE CallEndExt
  BY <1>5, ExtEndExtStep
<1>6. CASE CallFinal
  BY <1>6, ExtFinalStep
<1>7. CASE UNCHANGED vars
  <2>1. frames' = frames /\ UNCHANGED bnExt
    BY <1>7 DEF vars, ctxVars
  <2>2. QED
    BY <2>1, ExtSame DEF ExtInv
<1>8. QED
  BY <1>1, <1>2, <1>3, <1>4, <1>5, <1>6, <1>7 DEF ClientNext

(* For a caller that never needs the last pool slot, nests less deep than *)
(* the boundary stack and never releases with EXT_MUL2, every bignum, pool *)
(* or extended, that no function holds reads zero: the property            *)
(* ClearedAtRest of client_sized, for every pool size.                     *)
THEOREM ClearedAtRestHolds ==
  ASSUME SizedCaller, ReleasingCaller
  PROVE  ClientSpec => []ClearedAtRest
<1>1. ClientInit => CInv
  <2>1. SUFFICES ASSUME ClientInit PROVE CInv
    OBVIOUS
  <2>2. IInv /\ frames = <<>> /\ bnExt = [e \in ExtTags |-> 0]
    BY <2>1, InitIInv DEF ClientInit, Init, BN_CTX_init
  <2>3. Depth = 0
    BY <2>2 DEF Depth
  <2>4. QED
    BY <2>2, <2>3 DEF CInv, ExtShape, ExtDisjoint, ExtClear
<1>2. CInv /\ [ClientNext]_vars => CInv'
  <2>1. CInv => ExtInv
    BY DEF CInv, IInv, FramesType, ExtInv
  <2>2. QED
    BY <2>1, NextStep, ExtNextStep DEF CInv
<1>3. CInv => ClearedAtRest
  BY CInvCleared
<1>4. QED
  BY <1>1, <1>2, <1>3, PTL DEF ClientSpec
=============================================================================
