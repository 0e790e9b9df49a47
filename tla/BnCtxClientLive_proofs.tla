------------------------ MODULE BnCtxClientLive_proofs ------------------------
(***************************************************************************)
(* Proofs about BnCtxClient for every disciplined caller, the one that     *)
(* exhausts the pool included: every bignum a function holds reads back    *)
(* what it last wrote (LiveSlotsIntact), and the call stack stays well     *)
(* typed (ClientTypeOK).                                                   *)
(***************************************************************************)
EXTENDS BnCtxClient_proofs, BnCtx_proofs

USE ArraySizeAssumption, DataAssumption, ClientAssumption

(* No two functions of the call stack hold the same pool bignum. *)
HeldDisjoint ==
  \A i, j \in 1 .. Depth :
    i # j => DOMAIN frames[i].held \cap DOMAIN frames[j].held = {}

(* While the context is sane, function i holds slots of pool frame i only, *)
(* and the pool may have frames the call stack has already ended: a        *)
(* BN_CTX_end whose frame reached the last slot fails its ENSURES before   *)
(* the pop (ctx_bn.c:649).  Such a frame has left bnArrayMax at the end of *)
(* the array, so no later BN_CTX_get succeeds until BN_CTX_final.          *)
PoolFrames ==
  sanityCheckBNCTX =>
    /\ Depth <= stackPos
    /\ Nested
    /\ stack[stackPos] <= bnArrayMax
    /\ \A i \in 1 .. Depth : DOMAIN frames[i].held \subseteq Frame(i)
    /\ Depth < stackPos => bnArrayMax = ArraySize
    /\ ClearAbove

(* The pool's invariant of BnCtx_proofs, with the call stack well typed. *)
TInv == FrameInv /\ frames \in Seq(FrameT) /\ Depth <= MaxDepth

LInv == HeldDisjoint /\ LiveSlotsIntact /\ PoolFrames

GInv == TInv /\ ExtInv /\ LInv

-----------------------------------------------------------------------------
LEMMA TInvTyped ==
  ASSUME TInv
  PROVE  ClientTypeOK
BY DEF TInv, FrameInv, ClientTypeOK, FrameT

(* Every call of the caller is a BnCtx operation or leaves the context     *)
(* alone: a write is the arithmetic code's, on a slot or a tag.            *)
LEMMA ClientIsCtx ==
  ASSUME TInv, ClientNext
  PROVE  [Next]_ctxVars
<1>0. frames \in Seq(FrameT)
  BY DEF TInv
<1>1. CASE CallWrite
  <2>1. PICK i \in 1 .. Depth, v \in Data :
          \/ \E s \in DOMAIN frames[i].held :
               /\ bnArray' = [bnArray EXCEPT ![s] = v]
               /\ UNCHANGED <<bnArrayMax, stack, stackPos, bnExt, stackOOB>>
          \/ \E t \in DOMAIN frames[i].ext :
               /\ bnExt' = [bnExt EXCEPT ![t] = v]
               /\ UNCHANGED stdVars
    BY <1>1 DEF CallWrite
  <2>2. frames[i] \in FrameT
    BY <1>0 DEF Depth
  <2>3. DOMAIN frames[i].held \subseteq Slots /\ DOMAIN frames[i].ext \subseteq ExtTags
    BY <2>2 DEF FrameT
  <2>4. QED
    BY <2>1, <2>3 DEF Next, Arith
<1>2. CASE CallGetExt
  BY <1>2 DEF CallGetExt
<1>3. CASE CallEndExt
  <2>1. PICK t \in DOMAIN Top.ext \cap EndExtTags : BN_CTX_end_ext(t)
    BY <1>3 DEF CallEndExt
  <2>2. t \in ExtTags
    BY <2>1, ClientAssumption
  <2>3. QED
    BY <2>1, <2>2 DEF Next
<1>4. QED
  BY <1>1, <1>2, <1>3 DEF ClientNext, Next, CallStart, CallGet, CallGetFail,
                         CallEnd, CallFinal

(* Every step keeps the pool's invariant and the call stack well typed. *)
LEMMA TStep ==
  ASSUME TInv, [ClientNext]_vars
  PROVE  TInv'
<1>0. FrameInv /\ frames \in Seq(FrameT) /\ Depth <= MaxDepth /\ Depth = Len(frames)
  BY DEF TInv, Depth
<1>1. FrameInv'
  <2>1. [Next]_ctxVars
    BY ClientIsCtx DEF vars
  <2>2. QED
    BY <1>0, <2>1, FrameStep
<1>2. CASE CallStart
  <2>1. NewFrame \in FrameT
    <3>1. <<>> \in [{} -> Contents] /\ {} \in SUBSET Slots /\ {} \in SUBSET ExtTags
      OBVIOUS
    <3>2. bnArrayMax \in 0 .. ArraySize
      BY <1>0 DEF FrameInv, TypeOK
    <3>3. QED
      BY <3>1, <3>2 DEF NewFrame, FrameT
  <2>2. frames' = Append(frames, NewFrame) /\ Depth < MaxDepth
    BY <1>2 DEF CallStart
  <2>3. frames' \in Seq(FrameT) /\ Len(frames') = Depth + 1
    BY <1>0, <2>1, <2>2
  <2>4. QED
    BY <1>1, <2>2, <2>3 DEF TInv, Depth
<1>3. CASE CallGet
  <2> DEFINE f == frames[Depth]
             h == [x \in DOMAIN f.held \cup {GetSlot} |-> IF x = GetSlot THEN 0 ELSE f.held[x]]
  <2>1. Depth \in 1 .. Len(frames) /\ f \in FrameT
    BY <1>0, <1>3 DEF CallGet, Running
  <2>2. GetSlot \in Slots
    <3>1. GetOK
      BY <1>3 DEF CallGet, BN_CTX_get
    <3>2. QED
      BY <1>0, <3>1 DEF GetOK, FrameInv, FrameBounds, TypeOK, sanityCheckBNCTX, GetSlot, Slots
  <2>3. DOMAIN f.held \cup {GetSlot} \in SUBSET Slots /\ h \in [DOMAIN f.held \cup {GetSlot} -> Contents]
    BY <2>1, <2>2 DEF FrameT, Contents
  <2>4. frames' = [frames EXCEPT ![Depth] = [f EXCEPT !.held = h]]
    BY <1>3 DEF CallGet
  <2>5. [f EXCEPT !.held = h] \in FrameT
    BY <2>1, <2>3, FrameHeldUpdate
  <2>6. frames' \in Seq(FrameT) /\ Len(frames') = Len(frames)
    BY <1>0, <2>1, <2>4, <2>5
  <2>7. QED
    BY <1>0, <1>1, <2>6 DEF TInv, Depth
<1>4. CASE CallGetFail
  <2>1. Depth \in 1 .. Len(frames) /\ frames[Depth] \in FrameT
    BY <1>0, <1>4 DEF CallGetFail, Running
  <2>2. frames' = [frames EXCEPT ![Depth] = [frames[Depth] EXCEPT !.failed = TRUE]]
    BY <1>4 DEF CallGetFail
  <2>3. frames' \in Seq(FrameT) /\ Len(frames') = Len(frames)
    BY <1>0, <2>1, <2>2, FrameFailedUpdate
  <2>4. QED
    BY <1>0, <1>1, <2>3 DEF TInv, Depth
<1>5. CASE CallWrite
  <2>1. PICK i \in 1 .. Depth, v \in Data :
          \/ \E s \in DOMAIN frames[i].held : frames' = [frames EXCEPT ![i].held[s] = v]
          \/ \E t \in DOMAIN frames[i].ext : frames' = [frames EXCEPT ![i].ext[t] = v]
    BY <1>5 DEF CallWrite
  <2>2. frames[i] \in FrameT /\ v \in Contents
    BY <1>0 DEF Contents
  <2>3. frames' \in Seq(FrameT) /\ Len(frames') = Len(frames)
    <3>1. CASE \E s \in DOMAIN frames[i].held : frames' = [frames EXCEPT ![i].held[s] = v]
      <4>1. PICK s \in DOMAIN frames[i].held :
              frames' = [frames EXCEPT ![i] = [frames[i] EXCEPT !.held =
                                                 [frames[i].held EXCEPT ![s] = v]]]
        BY <3>1
      <4>2. [frames[i].held EXCEPT ![s] = v] \in [DOMAIN frames[i].held -> Contents]
            /\ DOMAIN frames[i].held \in SUBSET Slots
        BY <2>2 DEF FrameT
      <4>3. [frames[i] EXCEPT !.held = [frames[i].held EXCEPT ![s] = v]] \in FrameT
        BY <2>2, <4>2, FrameHeldUpdate
      <4>4. QED
        BY <1>0, <4>1, <4>3 DEF Depth
    <3>2. CASE \E t \in DOMAIN frames[i].ext : frames' = [frames EXCEPT ![i].ext[t] = v]
      <4>1. PICK t \in DOMAIN frames[i].ext :
              frames' = [frames EXCEPT ![i] = [frames[i] EXCEPT !.ext =
                                                 [frames[i].ext EXCEPT ![t] = v]]]
        BY <3>2
      <4>2. [frames[i].ext EXCEPT ![t] = v] \in [DOMAIN frames[i].ext -> Contents]
            /\ DOMAIN frames[i].ext \in SUBSET ExtTags
        BY <2>2 DEF FrameT
      <4>3. [frames[i] EXCEPT !.ext = [frames[i].ext EXCEPT ![t] = v]] \in FrameT
        BY <2>2, <4>2, FrameExtUpdate
      <4>4. QED
        BY <1>0, <4>1, <4>3 DEF Depth
    <3>3. QED
      BY <2>1, <3>1, <3>2
  <2>4. QED
    BY <1>0, <1>1, <2>3 DEF TInv, Depth
<1>6. CASE CallGetExt
  <2>1. Depth \in 1 .. Len(frames) /\ frames[Depth] \in FrameT
    BY <1>0, <1>6 DEF CallGetExt, Running
  <2>2. PICK g \in ExtGroups : frames' = [frames EXCEPT ![Depth] =
                                           [frames[Depth] EXCEPT !.ext = [t \in g |-> 0]]]
    BY <1>6 DEF CallGetExt
  <2>3. g \in SUBSET ExtTags /\ [t \in g |-> 0] \in [g -> Contents]
    BY DEF ExtGroups, ExtTags, Contents
  <2>4. [frames[Depth] EXCEPT !.ext = [t \in g |-> 0]] \in FrameT
    BY <2>1, <2>3, FrameExtUpdate
  <2>5. frames' \in Seq(FrameT) /\ Len(frames') = Len(frames)
    BY <1>0, <2>1, <2>2, <2>4
  <2>6. QED
    BY <1>0, <1>1, <2>5 DEF TInv, Depth
<1>7. CASE CallEnd \/ CallEndExt
  <2>1. Depth > 0 /\ frames' = SubSeq(frames, 1, Depth - 1)
    BY <1>7 DEF CallEnd, CallEndExt
  <2>2. frames' \in Seq(FrameT) /\ Len(frames') = Depth - 1
    BY <1>0, <2>1, SubSeqProperties
  <2>3. QED
    BY <1>0, <1>1, <2>2 DEF TInv, Depth
<1>8. CASE CallFinal \/ UNCHANGED vars
  <2>1. frames' = frames
    BY <1>8 DEF CallFinal, vars
  <2>2. QED
    BY <1>0, <1>1, <2>1 DEF TInv, Depth
<1>9. QED
  BY <1>2, <1>3, <1>4, <1>5, <1>6, <1>7, <1>8 DEF ClientNext

(* ClientTypeOK of client_fill, for every pool size and every caller that  *)
(* keeps the nesting discipline, the one that exhausts the pool included:  *)
(* the context stays well typed and the call stack records, for each       *)
(* function, pool slots and extended tags that exist, with contents and a  *)
(* high-water mark in range.                                               *)
THEOREM ClientTyped == ClientSpec => []ClientTypeOK
<1>1. ClientInit => TInv
  <2>1. SUFFICES ASSUME ClientInit PROVE TInv
    OBVIOUS
  <2>2. FrameInv /\ frames = <<>>
    BY <2>1, InitFrame DEF ClientInit
  <2>3. QED
    BY <2>2, ClientAssumption DEF TInv, Depth
<1>2. TInv /\ [ClientNext]_vars => TInv'
  BY TStep
<1>3. QED
  BY <1>1, <1>2, TInvTyped, PTL DEF ClientSpec

-----------------------------------------------------------------------------
(* A held pool bignum lies in its function's frame, below every boundary   *)
(* from that frame up to the open one.                                     *)
LEMMA HeldBelow ==
  ASSUME GInv, sanityCheckBNCTX, NEW i \in 1 .. Depth, NEW s \in DOMAIN frames[i].held
  PROVE  /\ s \in Slots /\ stack[i - 1] <= s /\ s < stack[i]
         /\ \A j \in i .. stackPos : s < stack[j]
<1>1. /\ stack \in [Slots -> 0 .. ArraySize] /\ stackPos \in 0 .. ArraySize - 1
      /\ Depth <= stackPos /\ DOMAIN frames[i].held \subseteq Frame(i)
      /\ \A a, b \in 0 .. stackPos : a <= b => stack[a] <= stack[b]
      /\ Depth \in Nat
  BY DEF GInv, TInv, FrameInv, TypeOK, sanityCheckBNCTX, LInv, PoolFrames, Nested, Depth
<1>2. i \in Slots /\ i - 1 \in Slots /\ stack[i] \in Nat /\ stack[i - 1] \in Nat
  BY <1>1 DEF Slots
<1>3. stack[i - 1] <= s /\ s < stack[i] /\ s \in Int
  BY <1>1, <1>2 DEF Frame
<1>4. s \in Slots
  BY <1>1, <1>2, <1>3 DEF Slots
<1>5. \A j \in i .. stackPos : s < stack[j]
  <2>1. SUFFICES ASSUME NEW j \in i .. stackPos PROVE s < stack[j]
    OBVIOUS
  <2>2. stack[i] <= stack[j] /\ stack[j] \in Nat
    BY <1>1 DEF Slots
  <2>3. QED
    BY <1>2, <1>3, <2>2
<1>6. QED
  BY <1>3, <1>4, <1>5

(* A step that keeps, for every function, the bignums it holds (or opens   *)
(* functions that hold none), and leaves the held bignums' contents alone, *)
(* keeps them disjoint and intact.                                         *)
LEMMA KeepLive ==
  ASSUME frames \in Seq(FrameT), frames' \in Seq(FrameT), HeldDisjoint, LiveSlotsIntact,
         \A i \in 1 .. Len(frames') :
           \/ /\ i <= Len(frames)
              /\ DOMAIN frames'[i].held = DOMAIN frames[i].held
              /\ DOMAIN frames'[i].ext = DOMAIN frames[i].ext
              /\ \A s \in DOMAIN frames[i].held : frames'[i].held[s] = frames[i].held[s]
              /\ \A t \in DOMAIN frames[i].ext : frames'[i].ext[t] = frames[i].ext[t]
           \/ DOMAIN frames'[i].held = {} /\ DOMAIN frames'[i].ext = {},
         \A i \in 1 .. Len(frames') : \A s \in DOMAIN frames'[i].held : bnArray'[s] = bnArray[s],
         \A i \in 1 .. Len(frames') : \A t \in DOMAIN frames'[i].ext : bnExt'[t] = bnExt[t]
  PROVE  HeldDisjoint' /\ LiveSlotsIntact'
<1>1. HeldDisjoint'
  BY DEF HeldDisjoint, Depth
<1>2. LiveSlotsIntact'
  <2>1. SUFFICES ASSUME NEW i \in 1 .. Len(frames')
                 PROVE  /\ \A s \in DOMAIN frames'[i].held : bnArray'[s] = frames'[i].held[s]
                        /\ \A t \in DOMAIN frames'[i].ext : bnExt'[t] = frames'[i].ext[t]
    BY DEF LiveSlotsIntact, Depth
  <2>2. i <= Len(frames) => i \in 1 .. Len(frames)
    OBVIOUS
  <2>3. QED
    BY <2>2 DEF LiveSlotsIntact, Depth
<1>3. QED
  BY <1>1, <1>2

(* The initial state satisfies the invariant. *)
LEMMA InitGInv ==
  ASSUME ClientInit
  PROVE  GInv
<1>1. FrameInv /\ frames = <<>> /\ Depth = 0
  BY InitFrame DEF ClientInit, Depth
<1>2. bnArray = [x \in Slots |-> 0] /\ stack = [x \in Slots |-> 0] /\ stackPos = 0
      /\ bnExt = [e \in ExtTags |-> 0]
  BY DEF ClientInit, Init, BN_CTX_init
<1>3. TInv
  BY <1>1, ClientAssumption DEF TInv
<1>4. ExtInv
  BY <1>1, <1>2 DEF ExtInv, ExtShape, ExtDisjoint, ExtClear
<1>5. HeldDisjoint /\ LiveSlotsIntact
  BY <1>1 DEF HeldDisjoint, LiveSlotsIntact
<1>6. PoolFrames
  BY <1>1, <1>2 DEF PoolFrames, Nested, ClearAbove, FrameInv, TypeOK, Slots
<1>7. QED
  BY <1>3, <1>4, <1>5, <1>6 DEF GInv, LInv

(* BN_CTX_start opens a function that holds nothing; the pool pushes a     *)
(* frame, does nothing (insane context) or overruns the stack and becomes  *)
(* insane.                                                                 *)
LEMMA StartLive ==
  ASSUME GInv, CallStart
  PROVE  LInv'
<1> DEFINE sp == stackPos
<1>0. /\ FrameInv /\ frames \in Seq(FrameT) /\ Depth = Len(frames)
      /\ HeldDisjoint /\ LiveSlotsIntact /\ PoolFrames
  BY DEF GInv, TInv, LInv, Depth
<1>1. frames' = Append(frames, NewFrame) /\ frames' \in Seq(FrameT)
  BY TStep DEF GInv, CallStart, ClientNext, TInv
<1>2. Len(frames') = Depth + 1 /\ Depth' = Depth + 1
      /\ \A i \in 1 .. Depth : frames'[i] = frames[i]
      /\ frames'[Depth + 1] = NewFrame
  BY <1>0, <1>1 DEF Depth
<1>3. UNCHANGED <<bnArray, bnExt>>
  BY DEF CallStart, BN_CTX_start, ctxVars
<1>4. HeldDisjoint' /\ LiveSlotsIntact'
  <2>1. DOMAIN NewFrame.held = {} /\ DOMAIN NewFrame.ext = {}
    BY DEF NewFrame
  <2>2. \A i \in 1 .. Len(frames') : i \in 1 .. Depth \/ i = Depth + 1
    BY <1>0, <1>2
  <2>3. QED
    BY <1>0, <1>1, <1>2, <1>3, <2>1, <2>2, KeepLive
<1>5. PoolFrames'
  <2>1. CASE ~sanityCheckBNCTX /\ UNCHANGED ctxVars
    BY <2>1 DEF PoolFrames, sanityCheckBNCTX, ctxVars
  <2>2. CASE /\ sanityCheckBNCTX
             /\ stackPos + 1 = ArraySize
             /\ stackPos' = ArraySize
             /\ stackOOB' = TRUE
             /\ UNCHANGED <<bnArray, bnArrayMax, stack, bnExt>>
    BY <2>2 DEF PoolFrames, sanityCheckBNCTX
  <2>3. CASE /\ sanityCheckBNCTX
             /\ stackPos + 1 < ArraySize
             /\ stackPos' = stackPos + 1
             /\ stack' = [stack EXCEPT ![stackPos + 1] = stack[stackPos]]
             /\ UNCHANGED <<bnArray, bnArrayMax, bnExt, stackOOB>>
    <3>1. /\ stack \in [Slots -> 0 .. ArraySize] /\ sp \in 0 .. ArraySize - 1
          /\ sp + 1 \in Slots /\ bnArrayMax \in 0 .. ArraySize
      BY <1>0, <2>3 DEF FrameInv, TypeOK, sanityCheckBNCTX, Slots
    <3>2. /\ Depth <= sp /\ Nested /\ stack[sp] <= bnArrayMax
          /\ \A i \in 1 .. Depth : DOMAIN frames[i].held \subseteq Frame(i)
          /\ Depth < sp => bnArrayMax = ArraySize
          /\ ClearAbove
      BY <1>0, <2>3 DEF PoolFrames
    <3>3. \A j \in 0 .. sp : stack'[j] = stack[j]
      BY <2>3, <3>1 DEF Slots
    <3>4. stack'[sp + 1] = stack[sp]
      BY <2>3, <3>1
    <3>5. sanityCheckBNCTX'
      BY <2>3, <3>1 DEF sanityCheckBNCTX
    <3>6. Nested'
      <4>1. stack'[0] = 0
        BY <3>1, <3>2, <3>3 DEF Nested
      <4>2. \A a, b \in 0 .. sp + 1 : a <= b => stack'[a] <= stack'[b]
        <5>1. SUFFICES ASSUME NEW a \in 0 .. sp + 1, NEW b \in 0 .. sp + 1, a <= b
                       PROVE  stack'[a] <= stack'[b]
          OBVIOUS
        <5>2. CASE b <= sp
          <6>1. a \in 0 .. sp /\ b \in 0 .. sp
            BY <3>1, <5>1, <5>2
          <6>2. QED
            BY <3>2, <3>3, <5>1, <6>1 DEF Nested
        <5>3. CASE b = sp + 1 /\ a <= sp
          <6>1. a \in 0 .. sp /\ sp \in 0 .. sp
            BY <3>1, <5>1, <5>3
          <6>2. stack[a] <= stack[sp]
            BY <3>2, <5>3, <6>1 DEF Nested
          <6>3. QED
            BY <3>3, <3>4, <5>3, <6>1, <6>2
        <5>4. CASE b = sp + 1 /\ a = sp + 1
          <6>1. stack[sp] \in Nat
            BY <3>1 DEF Slots
          <6>2. QED
            BY <3>4, <5>4, <6>1
        <5>5. QED
          BY <5>2, <5>3, <5>4, <3>1
      <4>3. QED
        BY <2>3, <4>1, <4>2 DEF Nested
    <3>7. \A i \in 1 .. Depth + 1 : DOMAIN frames'[i].held \subseteq Frame(i)'
      <4>1. SUFFICES ASSUME NEW i \in 1 .. Depth + 1
                     PROVE  DOMAIN frames'[i].held \subseteq Frame(i)'
        OBVIOUS
      <4>2. CASE i \in 1 .. Depth
        <5>1. i \in 0 .. sp /\ i - 1 \in 0 .. sp
          BY <1>0, <3>2, <4>2, <3>1 DEF Depth
        <5>2. Frame(i)' = Frame(i)
          BY <2>3, <3>3, <5>1 DEF Frame
        <5>3. QED
          BY <1>2, <3>2, <4>2, <5>2
      <4>3. CASE i = Depth + 1
        <5>0. DOMAIN NewFrame.held = {}
          BY DEF NewFrame
        <5>1. frames'[i] = NewFrame
          BY <1>0, <1>1, <4>3 DEF Depth
        <5>2. QED
          BY <5>0, <5>1
      <4>4. QED
        BY <4>2, <4>3, <1>0
    <3>8. stack'[stackPos'] <= bnArrayMax' /\ ClearAbove'
      BY <2>3, <3>2, <3>4 DEF ClearAbove
    <3>9. Depth' <= stackPos' /\ (Depth' < stackPos' => bnArrayMax' = ArraySize)
      BY <1>0, <1>2, <2>3, <3>1, <3>2
    <3>10. QED
      BY <1>2, <3>5, <3>6, <3>7, <3>8, <3>9 DEF PoolFrames
  <2>4. QED
    BY <2>1, <2>2, <2>3 DEF CallStart, BN_CTX_start
<1>6. QED
  BY <1>4, <1>5 DEF LInv

(* A BN_CTX_get that succeeds can only come from the open pool frame (a    *)
(* pool frame left by a failed BN_CTX_end has pinned bnArrayMax at the end *)
(* of the array), and hands out a cleared slot that no function holds.     *)
LEMMA GetLive ==
  ASSUME GInv, CallGet
  PROVE  LInv'
<1> DEFINE sp == stackPos
           top == stack[stackPos]
           f == frames[Depth]
           h == [x \in DOMAIN f.held \cup {top} |-> IF x = top THEN 0 ELSE f.held[x]]
<1>0. /\ FrameInv /\ frames \in Seq(FrameT) /\ Depth = Len(frames)
      /\ HeldDisjoint /\ LiveSlotsIntact /\ PoolFrames
  BY DEF GInv, TInv, LInv, Depth
<1>1. GetOK /\ sanityCheckBNCTX /\ Depth \in 1 .. Len(frames)
  BY <1>0 DEF CallGet, BN_CTX_get, GetOK, Running
<1>2. /\ stack \in [Slots -> 0 .. ArraySize] /\ bnArray \in [Slots -> Contents]
      /\ sp \in 0 .. ArraySize - 1 /\ bnArrayMax \in 0 .. ArraySize - 1
  BY <1>0, <1>1 DEF FrameInv, TypeOK, GetOK, sanityCheckBNCTX
<1>3. /\ Depth <= sp /\ Nested /\ top <= bnArrayMax
      /\ \A i \in 1 .. Depth : DOMAIN frames[i].held \subseteq Frame(i)
      /\ (Depth < sp => bnArrayMax = ArraySize)
      /\ ClearAbove
  BY <1>0, <1>1 DEF PoolFrames
<1>4. sp = Depth /\ sp \in 1 .. ArraySize - 1
  BY <1>1, <1>2, <1>3
<1>5. top \in Slots /\ top \in Nat /\ bnArray[top] = 0
  BY <1>2, <1>3, <1>4 DEF ClearAbove, Slots
<1>6. /\ stack' = [stack EXCEPT ![sp] = top + 1]
      /\ bnArrayMax' = IF top + 1 > bnArrayMax THEN top + 1 ELSE bnArrayMax
      /\ UNCHANGED <<bnArray, stackPos, bnExt>>
  BY DEF CallGet, BN_CTX_get
<1>7. frames' = [frames EXCEPT ![Depth] = [f EXCEPT !.held = h]]
  BY DEF CallGet, GetSlot
<1>8. \A i \in 1 .. Depth : \A x \in DOMAIN frames[i].held : x < top
  <2>1. SUFFICES ASSUME NEW i \in 1 .. Depth, NEW x \in DOMAIN frames[i].held
                 PROVE  x < top
    OBVIOUS
  <2>2. \A j \in i .. stackPos : x < stack[j]
    BY <1>1, HeldBelow
  <2>3. QED
    BY <1>4, <2>2
<1>9. /\ Len(frames') = Depth
      /\ \A i \in 1 .. Depth : i # Depth => frames'[i] = frames[i]
      /\ frames'[Depth].held = h /\ frames'[Depth].ext = f.ext
      /\ f \in FrameT
  <2>1. f \in FrameT
    BY <1>0, <1>1
  <2>2. frames'[Depth] = [f EXCEPT !.held = h]
    BY <1>1, <1>7
  <2>3. frames'[Depth].held = h /\ frames'[Depth].ext = f.ext
    BY <2>1, <2>2 DEF FrameT
  <2>4. Len(frames') = Depth /\ \A i \in 1 .. Depth : i # Depth => frames'[i] = frames[i]
    BY <1>0, <1>1, <1>7
  <2>5. QED
    BY <2>1, <2>3, <2>4
<1>10. DOMAIN h = DOMAIN f.held \cup {top}
  OBVIOUS
<1>11. HeldDisjoint'
  <2>1. SUFFICES ASSUME NEW i \in 1 .. Depth, NEW j \in 1 .. Depth, i # j
                 PROVE  DOMAIN frames'[i].held \cap DOMAIN frames'[j].held = {}
    BY <1>9 DEF HeldDisjoint, Depth
  <2>2. DOMAIN frames[i].held \cap DOMAIN frames[j].held = {}
    BY <1>0, <2>1 DEF HeldDisjoint
  <2>3. CASE i # Depth /\ j # Depth
    BY <1>9, <2>2, <2>3
  <2>4. CASE i = Depth
    <3>1. top \notin DOMAIN frames[j].held
      BY <1>5, <1>8
    <3>2. QED
      BY <1>9, <1>10, <2>1, <2>2, <2>4, <3>1
  <2>5. CASE j = Depth
    <3>1. top \notin DOMAIN frames[i].held
      BY <1>5, <1>8
    <3>2. QED
      BY <1>9, <1>10, <2>1, <2>2, <2>5, <3>1
  <2>6. QED
    BY <2>3, <2>4, <2>5
<1>12. LiveSlotsIntact'
  <2>1. SUFFICES ASSUME NEW i \in 1 .. Depth
                 PROVE  /\ \A s \in DOMAIN frames'[i].held : bnArray'[s] = frames'[i].held[s]
                        /\ \A t \in DOMAIN frames'[i].ext : bnExt'[t] = frames'[i].ext[t]
    BY <1>9 DEF LiveSlotsIntact, Depth
  <2>2. /\ \A s \in DOMAIN frames[i].held : bnArray[s] = frames[i].held[s]
        /\ \A t \in DOMAIN frames[i].ext : bnExt[t] = frames[i].ext[t]
    BY <1>0 DEF LiveSlotsIntact
  <2>3. CASE i # Depth
    BY <1>6, <1>9, <2>2, <2>3
  <2>4. CASE i = Depth
    <3>1. \A s \in DOMAIN f.held : s # top
      BY <1>5, <1>8, <2>4
    <3>2. \A s \in DOMAIN h : bnArray[s] = h[s]
      BY <1>5, <2>2, <2>4, <3>1
    <3>3. \A s \in DOMAIN frames'[i].held : bnArray'[s] = frames'[i].held[s]
      <4>1. frames'[i].held = h
        BY <1>9, <2>4
      <4>2. bnArray' = bnArray
        BY <1>6
      <4>3. QED
        BY <3>2, <4>1, <4>2, Zenon
    <3>4. \A t \in DOMAIN frames'[i].ext : bnExt'[t] = frames'[i].ext[t]
      BY <1>6, <1>9, <2>2, <2>4
    <3>5. QED
      BY <3>3, <3>4
  <2>5. QED
    BY <2>3, <2>4
<1>13. PoolFrames'
  <2>1. \A j \in 0 .. sp : j # sp => stack'[j] = stack[j]
    BY <1>2, <1>4, <1>6 DEF Slots
  <2>2. stack'[sp] = top + 1 /\ stackPos' = sp
    BY <1>2, <1>4, <1>6 DEF Slots
  <2>3. bnArrayMax' \in 0 .. ArraySize /\ top + 1 <= bnArrayMax' /\ bnArrayMax <= bnArrayMax'
    BY <1>2, <1>3, <1>5, <1>6
  <2>4. sanityCheckBNCTX'
    BY <1>2, <2>2, <2>3 DEF sanityCheckBNCTX
  <2>5. Nested'
    <3>1. stack'[0] = 0
      BY <1>3, <1>4, <2>1 DEF Nested
    <3>2. \A a, b \in 0 .. sp : a <= b => stack'[a] <= stack'[b]
      <4>1. SUFFICES ASSUME NEW a \in 0 .. sp, NEW b \in 0 .. sp, a <= b
                     PROVE  stack'[a] <= stack'[b]
        OBVIOUS
      <4>2. stack[a] <= stack[b] /\ stack[a] <= top /\ stack[a] \in Nat /\ stack[b] \in Nat
        BY <1>2, <1>3, <4>1 DEF Nested, Slots
      <4>3. CASE a # sp /\ b # sp
        BY <2>1, <4>2, <4>3
      <4>4. CASE b = sp
        BY <1>5, <2>1, <2>2, <4>2, <4>4
      <4>5. QED
        BY <4>1, <4>3, <4>4
    <3>3. QED
      BY <2>2, <3>1, <3>2 DEF Nested
  <2>6. \A i \in 1 .. Depth : DOMAIN frames'[i].held \subseteq Frame(i)'
    <3>1. SUFFICES ASSUME NEW i \in 1 .. Depth
                   PROVE  DOMAIN frames'[i].held \subseteq Frame(i)'
      OBVIOUS
    <3>2. i - 1 \in 0 .. sp /\ i - 1 # sp /\ i \in 0 .. sp
      BY <1>4
    <3>3. CASE i # Depth
      <4>1. Frame(i)' = Frame(i)
        BY <2>1, <2>2, <3>2, <3>3, <1>4 DEF Frame
      <4>2. QED
        BY <1>3, <1>9, <3>3, <4>1
    <3>4. CASE i = Depth
      <4>1. Frame(i)' = stack[i - 1] .. top
        BY <2>1, <2>2, <3>2, <3>4, <1>4, <1>5 DEF Frame
      <4>2. DOMAIN frames[i].held \subseteq stack[i - 1] .. top - 1
        BY <1>3, <1>4, <3>4 DEF Frame
      <4>3. stack[i - 1] <= top
        BY <1>3, <1>4, <3>2 DEF Nested
      <4>4. QED
        BY <1>5, <1>9, <1>10, <3>4, <4>1, <4>2, <4>3
    <3>5. QED
      BY <3>3, <3>4
  <2>7. ClearAbove'
    BY <1>2, <1>3, <1>6, <2>2 DEF ClearAbove, Slots
  <2>8. QED
    BY <1>4, <1>9, <2>2, <2>3, <2>4, <2>5, <2>6, <2>7 DEF PoolFrames, Depth
<1>14. QED
  BY <1>11, <1>12, <1>13 DEF LInv

(* A step that leaves the pool alone and every function holding the same  *)
(* pool bignums keeps the pool's side of the invariant.                    *)
LEMMA PoolSame ==
  ASSUME PoolFrames, Len(frames') = Len(frames),
         \A i \in 1 .. Len(frames) : DOMAIN frames'[i].held = DOMAIN frames[i].held,
         UNCHANGED <<bnArray, bnArrayMax, stack, stackPos>>
  PROVE  PoolFrames'
<1>1. Depth' = Depth
  BY DEF Depth
<1>2. QED
  BY <1>1 DEF PoolFrames, sanityCheckBNCTX, Nested, Frame, ClearAbove, Depth

(* A NULL from BN_CTX_get only marks the function as on its error path. *)
LEMMA GetFailLive ==
  ASSUME GInv, CallGetFail
  PROVE  LInv'
<1>0. /\ frames \in Seq(FrameT) /\ Depth = Len(frames)
      /\ HeldDisjoint /\ LiveSlotsIntact /\ PoolFrames
  BY DEF GInv, TInv, LInv, Depth
<1>1. /\ Depth \in 1 .. Len(frames) /\ frames[Depth] \in FrameT
      /\ frames' = [frames EXCEPT ![Depth] = [frames[Depth] EXCEPT !.failed = TRUE]]
      /\ UNCHANGED ctxVars
  BY <1>0 DEF CallGetFail, Running, BN_CTX_get_fail
<1>2. frames' \in Seq(FrameT)
  BY TStep DEF GInv, ClientNext, TInv
<1>3. /\ Len(frames') = Len(frames)
      /\ \A i \in 1 .. Len(frames) : frames'[i].held = frames[i].held /\ frames'[i].ext = frames[i].ext
  BY <1>0, <1>1 DEF FrameT
<1>4. HeldDisjoint' /\ LiveSlotsIntact'
  BY <1>0, <1>1, <1>2, <1>3, KeepLive DEF ctxVars
<1>5. PoolFrames'
  BY <1>0, <1>1, <1>3, PoolSame DEF ctxVars
<1>6. QED
  BY <1>4, <1>5 DEF LInv

(* BN_CTX_get_ext hands the innermost function extended bignums nobody    *)
(* holds, which read zero.                                                 *)
LEMMA GetExtLive ==
  ASSUME GInv, CallGetExt
  PROVE  LInv'
<1> DEFINE n == Len(frames)
<1>0. /\ frames \in Seq(FrameT) /\ Depth = n /\ n \in Nat
      /\ HeldDisjoint /\ LiveSlotsIntact /\ PoolFrames /\ ExtClear
  BY DEF GInv, TInv, LInv, Depth, ExtInv
<1>1. n \in 1 .. n /\ frames[n] \in FrameT /\ UNCHANGED ctxVars
  BY <1>0 DEF CallGetExt, Running
<1>2. PICK g \in ExtGroups :
        /\ g \cap HeldExt = {}
        /\ frames' = [frames EXCEPT ![n] = [frames[n] EXCEPT !.ext = [t \in g |-> 0]]]
  BY <1>0 DEF CallGetExt
<1>3. /\ Len(frames') = n
      /\ \A i \in 1 .. n : frames'[i].held = frames[i].held
      /\ \A i \in 1 .. n : i # n => frames'[i].ext = frames[i].ext
      /\ frames'[n].ext = [t \in g |-> 0]
  BY <1>0, <1>1, <1>2 DEF FrameT
<1>4. \A t \in g : bnExt[t] = 0
  BY <1>0, <1>2 DEF ExtClear, ExtGroups, ExtTags
<1>5. HeldDisjoint'
  BY <1>0, <1>3 DEF HeldDisjoint, Depth
<1>6. LiveSlotsIntact'
  <2>1. SUFFICES ASSUME NEW i \in 1 .. n
                 PROVE  /\ \A s \in DOMAIN frames'[i].held : bnArray'[s] = frames'[i].held[s]
                        /\ \A t \in DOMAIN frames'[i].ext : bnExt'[t] = frames'[i].ext[t]
    BY <1>3 DEF LiveSlotsIntact, Depth
  <2>2. CASE i # n
    BY <1>0, <1>1, <1>3, <2>2 DEF LiveSlotsIntact, ctxVars
  <2>3. CASE i = n
    BY <1>0, <1>1, <1>3, <1>4, <2>3 DEF LiveSlotsIntact, ctxVars
  <2>4. QED
    BY <2>2, <2>3
<1>7. PoolFrames'
  BY <1>0, <1>1, <1>3, PoolSame DEF ctxVars
<1>8. QED
  BY <1>5, <1>6, <1>7 DEF LInv

(* A write of a held pool bignum changes that bignum alone: no other       *)
(* function holds it, and it lies below the open frame's boundary.         *)
LEMMA WriteHeldLive ==
  ASSUME GInv, NEW i \in 1 .. Depth, NEW v \in Data, NEW s \in DOMAIN frames[i].held,
         bnArray' = [bnArray EXCEPT ![s] = v],
         frames' = [frames EXCEPT ![i].held[s] = v],
         UNCHANGED <<bnArrayMax, stack, stackPos, bnExt, stackOOB>>
  PROVE  LInv'
<1> DEFINE n == Len(frames)
<1>0. /\ frames \in Seq(FrameT) /\ Depth = n /\ bnArray \in [Slots -> Contents]
      /\ HeldDisjoint /\ LiveSlotsIntact /\ PoolFrames
  BY DEF GInv, TInv, LInv, Depth, FrameInv, TypeOK
<1>1. frames[i] \in FrameT /\ s \in Slots
  <2>1. i \in 1 .. n
    BY <1>0
  <2>2. frames[i] \in FrameT
    BY <1>0, <2>1
  <2>3. DOMAIN frames[i].held \subseteq Slots
    BY <2>2 DEF FrameT
  <2>4. QED
    BY <2>2, <2>3
<1>2. /\ Len(frames') = n
      /\ \A j \in 1 .. n : j # i => frames'[j] = frames[j]
      /\ frames'[i].held = [frames[i].held EXCEPT ![s] = v]
      /\ frames'[i].ext = frames[i].ext
  BY <1>0, <1>1 DEF FrameT
<1>3. \A j \in 1 .. n : DOMAIN frames'[j].held = DOMAIN frames[j].held
  BY <1>2
<1>4. HeldDisjoint'
  BY <1>0, <1>2, <1>3 DEF HeldDisjoint, Depth
<1>5. LiveSlotsIntact'
  <2>1. SUFFICES ASSUME NEW j \in 1 .. n
                 PROVE  /\ \A x \in DOMAIN frames'[j].held : bnArray'[x] = frames'[j].held[x]
                        /\ \A t \in DOMAIN frames'[j].ext : bnExt'[t] = frames'[j].ext[t]
    BY <1>2 DEF LiveSlotsIntact, Depth
  <2>2. /\ \A x \in DOMAIN frames[j].held : bnArray[x] = frames[j].held[x]
        /\ \A t \in DOMAIN frames[j].ext : bnExt[t] = frames[j].ext[t]
        /\ DOMAIN frames[j].held \subseteq Slots
    <3>1. frames[j] \in FrameT
      BY <1>0
    <3>2. DOMAIN frames[j].held \subseteq Slots
      BY <3>1 DEF FrameT
    <3>3. QED
      BY <1>0, <3>2 DEF LiveSlotsIntact
  <2>3. CASE j # i
    <3>1. s \notin DOMAIN frames[j].held
      BY <1>0, <2>3 DEF HeldDisjoint
    <3>2. QED
      BY <1>0, <1>2, <2>2, <2>3, <3>1
  <2>4. CASE j = i
    BY <1>0, <1>1, <1>2, <2>2, <2>4
  <2>5. QED
    BY <2>3, <2>4
<1>6. PoolFrames'
  <2>1. SUFFICES ASSUME sanityCheckBNCTX PROVE PoolFrames'
    BY DEF PoolFrames, sanityCheckBNCTX
  <2>2. \A j \in i .. stackPos : s < stack[j]
    BY <2>1, HeldBelow
  <2>3. stackPos \in i .. stackPos
    BY <1>0, <2>1 DEF PoolFrames, sanityCheckBNCTX, Depth
  <2>4. \A x \in Slots : x >= stack[stackPos] => x # s
    <3>1. stack[stackPos] \in Int
      BY <2>1 DEF GInv, TInv, FrameInv, TypeOK, sanityCheckBNCTX, Slots
    <3>2. QED
      BY <1>1, <2>2, <2>3, <3>1 DEF Slots
  <2>5. ClearAbove'
    BY <1>0, <2>1, <2>4 DEF PoolFrames, ClearAbove
  <2>6. Depth' = Depth
    BY <1>2 DEF Depth
  <2>7. QED
    BY <1>0, <1>3, <2>1, <2>5, <2>6 DEF PoolFrames, sanityCheckBNCTX, Nested, Frame, Depth
<1>7. QED
  BY <1>4, <1>5, <1>6 DEF LInv

(* A write of a held extended bignum changes that bignum alone: no other   *)
(* function holds it.                                                      *)
LEMMA WriteExtLive ==
  ASSUME GInv, NEW i \in 1 .. Depth, NEW v \in Data, NEW t \in DOMAIN frames[i].ext,
         bnExt' = [bnExt EXCEPT ![t] = v],
         frames' = [frames EXCEPT ![i].ext[t] = v],
         UNCHANGED stdVars
  PROVE  LInv'
<1> DEFINE n == Len(frames)
<1>0. /\ frames \in Seq(FrameT) /\ Depth = n /\ bnExt \in [ExtTags -> Contents]
      /\ HeldDisjoint /\ LiveSlotsIntact /\ PoolFrames /\ ExtDisjoint
  BY DEF GInv, TInv, LInv, Depth, FrameInv, TypeOK, ExtInv
<1>1. frames[i] \in FrameT /\ t \in ExtTags
  <2>1. i \in 1 .. n
    BY <1>0
  <2>2. frames[i] \in FrameT
    BY <1>0, <2>1
  <2>3. DOMAIN frames[i].ext \subseteq ExtTags
    BY <2>2 DEF FrameT
  <2>4. QED
    BY <2>2, <2>3
<1>2. /\ Len(frames') = n
      /\ \A j \in 1 .. n : j # i => frames'[j] = frames[j]
      /\ frames'[i].ext = [frames[i].ext EXCEPT ![t] = v]
      /\ frames'[i].held = frames[i].held
  BY <1>0, <1>1 DEF FrameT
<1>3. \A j \in 1 .. n : DOMAIN frames'[j].held = DOMAIN frames[j].held
  BY <1>2
<1>4. HeldDisjoint'
  BY <1>0, <1>2, <1>3 DEF HeldDisjoint, Depth
<1>5. LiveSlotsIntact'
  <2>1. SUFFICES ASSUME NEW j \in 1 .. n
                 PROVE  /\ \A x \in DOMAIN frames'[j].held : bnArray'[x] = frames'[j].held[x]
                        /\ \A e \in DOMAIN frames'[j].ext : bnExt'[e] = frames'[j].ext[e]
    BY <1>2 DEF LiveSlotsIntact, Depth
  <2>2. /\ \A x \in DOMAIN frames[j].held : bnArray[x] = frames[j].held[x]
        /\ \A e \in DOMAIN frames[j].ext : bnExt[e] = frames[j].ext[e]
        /\ DOMAIN frames[j].ext \subseteq ExtTags
    <3>1. frames[j] \in FrameT
      BY <1>0
    <3>2. DOMAIN frames[j].ext \subseteq ExtTags
      BY <3>1 DEF FrameT
    <3>3. QED
      BY <1>0, <3>2 DEF LiveSlotsIntact
  <2>3. CASE j # i
    <3>1. t \notin DOMAIN frames[j].ext
      BY <1>0, <2>3 DEF ExtDisjoint
    <3>2. QED
      BY <1>0, <1>2, <2>2, <2>3, <3>1 DEF stdVars
  <2>4. CASE j = i
    BY <1>0, <1>1, <1>2, <2>2, <2>4 DEF stdVars
  <2>5. QED
    BY <2>3, <2>4
<1>6. PoolFrames'
  BY <1>0, <1>2, <1>3, PoolSame DEF stdVars
<1>7. QED
  BY <1>4, <1>5, <1>6 DEF LInv

(* A function writes a bignum it or a caller holds. *)
LEMMA WriteLive ==
  ASSUME GInv, CallWrite
  PROVE  LInv'
<1>1. PICK i \in 1 .. Depth, v \in Data :
        \/ \E s \in DOMAIN frames[i].held :
             /\ bnArray' = [bnArray EXCEPT ![s] = v]
             /\ frames' = [frames EXCEPT ![i].held[s] = v]
             /\ UNCHANGED <<bnArrayMax, stack, stackPos, bnExt, stackOOB>>
        \/ \E t \in DOMAIN frames[i].ext :
             /\ bnExt' = [bnExt EXCEPT ![t] = v]
             /\ frames' = [frames EXCEPT ![i].ext[t] = v]
             /\ UNCHANGED stdVars
  BY DEF CallWrite
<1>2. QED
  BY <1>1, WriteHeldLive, WriteExtLive


(* Dropping the last element of a nonempty sequence keeps the others. *)
LEMMA FrontOfSeq ==
  ASSUME NEW S, NEW q \in Seq(S), NEW m \in Nat, Len(q) = m + 1
  PROVE  /\ Len(SubSeq(q, 1, m)) = m
         /\ \A i \in 1 .. m : SubSeq(q, 1, m)[i] = q[i]
<1>1. \A i \in 1 .. m : q[i] \in S
  OBVIOUS
<1>2. QED
  BY <1>1, SubSeqProperties

(* Ending the innermost function keeps the others as they were. *)
LEMMA PopFrames ==
  ASSUME frames \in Seq(FrameT), Len(frames) > 0,
         frames' = SubSeq(frames, 1, Len(frames) - 1)
  PROVE  /\ Len(frames') = Len(frames) - 1
         /\ \A i \in 1 .. Len(frames) - 1 : frames'[i] = frames[i]
<1>1. Len(frames) - 1 \in Nat /\ Len(frames) = (Len(frames) - 1) + 1
  OBVIOUS
<1>2. QED
  BY <1>1, FrontOfSeq

(* The pool side of BN_CTX_end for the innermost function: the clearing    *)
(* loop starts at stack[stackPos - 1], above every slot an enclosing       *)
(* function holds, and either the frame is popped, or the ENSURES at       *)
(* ctx_bn.c:649 fails with the frame at the end of the array and the pool  *)
(* keeps a frame the call stack no longer has.                             *)
LEMMA EndPool ==
  ASSUME GInv, Depth > 0, EndStd, frames' = SubSeq(frames, 1, Depth - 1)
  PROVE  /\ PoolFrames'
         /\ \A i \in 1 .. Depth - 1 : \A s \in DOMAIN frames[i].held : bnArray'[s] = bnArray[s]
<1> DEFINE n == Len(frames)
           sp == stackPos
           top == stack[stackPos]
<1>0. /\ FrameInv /\ frames \in Seq(FrameT) /\ Depth = n /\ n \in Nat /\ n > 0 /\ PoolFrames
  BY DEF GInv, TInv, LInv, Depth
<1>1. Len(frames') = n - 1 /\ \A i \in 1 .. n - 1 : frames'[i] = frames[i]
  BY <1>0, PopFrames
<1>2. Depth' = n - 1
  BY <1>1 DEF Depth
<1>3. CASE ~sanityCheckBNCTX
  <2>1. UNCHANGED stdVars
    BY <1>3 DEF EndStd
  <2>2. ~sanityCheckBNCTX'
    BY <1>3, <2>1 DEF sanityCheckBNCTX, stdVars
  <2>3. QED
    BY <2>1, <2>2 DEF PoolFrames, stdVars
<1>4. CASE sanityCheckBNCTX
  <2>1. /\ stack \in [Slots -> 0 .. ArraySize] /\ sp \in 0 .. ArraySize - 1
        /\ bnArray \in [Slots -> Contents] /\ bnArrayMax \in 0 .. ArraySize
    BY <1>0, <1>4 DEF FrameInv, TypeOK, sanityCheckBNCTX
  <2>2. /\ n <= sp /\ Nested /\ top <= bnArrayMax
        /\ \A i \in 1 .. n : DOMAIN frames[i].held \subseteq Frame(i)
        /\ (n < sp => bnArrayMax = ArraySize)
        /\ ClearAbove
    BY <1>0, <1>4 DEF PoolFrames
  <2>3. sp \in 1 .. ArraySize - 1 /\ sp - 1 \in Slots /\ sp \in Slots
    BY <1>0, <2>1, <2>2 DEF Slots
  <2>4. FrameBase = {stack[sp - 1]}
    BY <2>3 DEF FrameBase
  <2>5. PICK lo \in FrameBase :
          \/ /\ lo > top
             /\ UNCHANGED <<bnArray, bnArrayMax, stack, stackPos>>
          \/ /\ lo <= top
             /\ top < ArraySize
             /\ bnArray' = ClearStd(lo, top)
             /\ stack' = [stack EXCEPT ![sp] = 0]
             /\ stackPos' = sp - 1
             /\ UNCHANGED bnArrayMax
          \/ /\ lo <= top
             /\ top >= ArraySize
             /\ bnArray' = ClearStd(lo, top)
             /\ UNCHANGED <<bnArrayMax, stack, stackPos>>
    BY <1>4 DEF EndStd
  <2>6. lo = stack[sp - 1] /\ lo <= top /\ lo \in Nat /\ top \in Nat
    <3>1. lo = stack[sp - 1] /\ sp - 1 \in 0 .. sp /\ sp \in 0 .. sp
      BY <2>3, <2>4
    <3>2. QED
      BY <2>1, <2>2, <2>3, <3>1 DEF Nested, Slots
  <2>7. \A i \in 1 .. n - 1 : \A s \in DOMAIN frames[i].held : s \in Slots /\ s < lo
    <3>1. SUFFICES ASSUME NEW i \in 1 .. n - 1, NEW s \in DOMAIN frames[i].held
                   PROVE  s \in Slots /\ s < lo
      OBVIOUS
    <3>2. i \in 1 .. Depth
      BY <1>0
    <3>3. s \in Slots /\ \A j \in i .. sp : s < stack[j]
      BY <1>4, <3>2, HeldBelow
    <3>4. sp - 1 \in i .. sp
      BY <2>2, <2>3
    <3>5. QED
      BY <2>6, <3>3, <3>4
  <2>8. \A x \in Slots : x < lo => ClearStd(lo, top)[x] = bnArray[x]
    BY <2>6 DEF ClearStd, Slots
  <2>9. CASE /\ lo <= top
             /\ top < ArraySize
             /\ bnArray' = ClearStd(lo, top)
             /\ stack' = [stack EXCEPT ![sp] = 0]
             /\ stackPos' = sp - 1
             /\ UNCHANGED bnArrayMax
    <3>1. \A i \in 1 .. n - 1 : \A s \in DOMAIN frames[i].held : bnArray'[s] = bnArray[s]
      BY <2>7, <2>8, <2>9
    <3>2. sanityCheckBNCTX'
      BY <2>1, <2>3, <2>9 DEF sanityCheckBNCTX
    <3>3. \A j \in 0 .. sp - 1 : stack'[j] = stack[j]
      BY <2>1, <2>3, <2>9 DEF Slots
    <3>4. Nested'
      BY <2>2, <2>3, <2>9, <3>3 DEF Nested
    <3>5. stack'[stackPos'] = lo /\ stack'[stackPos'] <= bnArrayMax'
      <4>1. sp - 1 \in 0 .. sp - 1 /\ stackPos' = sp - 1
        BY <2>3, <2>9
      <4>2. stack'[stackPos'] = lo
        BY <2>6, <3>3, <4>1
      <4>3. QED
        BY <2>1, <2>2, <2>6, <2>9, <4>2
    <3>6. \A i \in 1 .. n - 1 : DOMAIN frames'[i].held \subseteq Frame(i)'
      <4>1. SUFFICES ASSUME NEW i \in 1 .. n - 1
                     PROVE  DOMAIN frames'[i].held \subseteq Frame(i)'
        OBVIOUS
      <4>2. i \in 0 .. sp - 1 /\ i - 1 \in 0 .. sp - 1 /\ i \in 1 .. n
        BY <2>2, <2>3
      <4>3. Frame(i)' = Frame(i)
        BY <3>3, <4>2 DEF Frame
      <4>4. QED
        BY <1>1, <2>2, <4>2, <4>3
    <3>7. ClearAbove'
      BY <2>1, <2>2, <2>6, <2>9, <3>5 DEF ClearAbove, ClearStd, Slots
    <3>8. Depth' <= stackPos' /\ (Depth' < stackPos' => bnArrayMax' = ArraySize)
      BY <1>2, <2>2, <2>3, <2>9
    <3>9. QED
      BY <1>0, <3>1, <3>2, <3>4, <3>5, <3>6, <3>7, <3>8, <1>2 DEF PoolFrames
  <2>10. CASE /\ lo <= top
              /\ top >= ArraySize
              /\ bnArray' = ClearStd(lo, top)
              /\ UNCHANGED <<bnArrayMax, stack, stackPos>>
    <3>1. top = ArraySize /\ bnArrayMax = ArraySize
      BY <2>1, <2>2, <2>3, <2>10 DEF Slots
    <3>2. \A i \in 1 .. n - 1 : \A s \in DOMAIN frames[i].held : bnArray'[s] = bnArray[s]
      BY <2>7, <2>8, <2>10
    <3>3. ClearAbove'
      BY <2>10, <3>1 DEF ClearAbove, Slots
    <3>4. \A i \in 1 .. n - 1 : DOMAIN frames'[i].held \subseteq Frame(i)'
      <4>1. SUFFICES ASSUME NEW i \in 1 .. n - 1
                     PROVE  DOMAIN frames'[i].held \subseteq Frame(i)'
        OBVIOUS
      <4>2. i \in 1 .. n /\ frames'[i] = frames[i]
        BY <1>0, <1>1
      <4>3. Frame(i)' = Frame(i)
        BY <2>10 DEF Frame
      <4>4. QED
        BY <2>2, <4>2, <4>3
    <3>5. QED
      BY <1>0, <1>2, <1>4, <2>2, <2>10, <3>1, <3>2, <3>3, <3>4
         DEF PoolFrames, sanityCheckBNCTX, Nested
  <2>11. QED
    BY <2>5, <2>6, <2>9, <2>10
<1>5. QED
  BY <1>3, <1>4


(* BN_CTX_end and BN_CTX_end_ext end the innermost function: the pool      *)
(* bignums and the extended bignums its callers hold keep their contents.  *)
(* BN_CTX_end_ext clears exactly the group the innermost function holds,   *)
(* for a caller that never releases with EXT_MUL2.                         *)
LEMMA EndLive ==
  ASSUME GInv, ReleasingCaller, CallEnd \/ CallEndExt
  PROVE  LInv'
<1> DEFINE n == Len(frames)
           G == DOMAIN frames[n].ext
<1>0. /\ frames \in Seq(FrameT) /\ Depth = n /\ n \in Nat
      /\ HeldDisjoint /\ LiveSlotsIntact /\ ExtShape /\ ExtDisjoint
  BY DEF GInv, TInv, LInv, Depth, ExtInv
<1>1. Depth > 0 /\ frames' = SubSeq(frames, 1, Depth - 1) /\ EndStd
  BY DEF CallEnd, BN_CTX_end, CallEndExt, BN_CTX_end_ext
<1>2. /\ PoolFrames'
      /\ \A i \in 1 .. n - 1 : \A s \in DOMAIN frames[i].held : bnArray'[s] = bnArray[s]
  BY <1>0, <1>1, EndPool
<1>3. Len(frames') = n - 1 /\ \A i \in 1 .. n - 1 : frames'[i] = frames[i]
  BY <1>0, <1>1, PopFrames
<1>4. \A i \in 1 .. n - 1 : \A t \in DOMAIN frames[i].ext : bnExt'[t] = bnExt[t]
  <2>1. CASE CallEnd
    BY <2>1 DEF CallEnd, BN_CTX_end
  <2>2. CASE CallEndExt
    <3>1. PICK t0 \in G \cap EndExtTags : BN_CTX_end_ext(t0)
      BY <1>0, <2>2 DEF CallEndExt, Top
    <3>2. n \in 1 .. n /\ G \in ExtGroups
      BY <1>0, <1>1, <3>1 DEF ExtShape
    <3>3. ExtReleased(t0) = G
      <4>1. t0 # "EXT_MUL2"
        BY <3>1 DEF ReleasingCaller
      <4>2. QED
        BY <3>1, <3>2, <4>1 DEF ExtGroups, ExtReleased
    <3>4. bnExt' = [e \in ExtTags |-> IF e \in G THEN 0 ELSE bnExt[e]]
      BY <3>1, <3>3 DEF BN_CTX_end_ext
    <3>5. SUFFICES ASSUME NEW i \in 1 .. n - 1, NEW t \in DOMAIN frames[i].ext
                   PROVE  bnExt'[t] = bnExt[t]
      OBVIOUS
    <3>6. t \notin G /\ i \in 1 .. n /\ i # n
      BY <1>0, <3>2 DEF ExtDisjoint
    <3>7. frames[i] \in FrameT
      BY <1>0, <3>6
    <3>8. t \in ExtTags
      BY <3>7 DEF FrameT
    <3>9. QED
      BY <3>4, <3>6, <3>8
  <2>3. QED
    BY <2>1, <2>2
<1>5. frames' \in Seq(FrameT)
  BY TStep DEF GInv, ClientNext, TInv
<1>6. HeldDisjoint' /\ LiveSlotsIntact'
  <2>1. \A i \in 1 .. Len(frames') : i <= Len(frames) /\ frames'[i] = frames[i]
    BY <1>0, <1>3
  <2>2. \A i \in 1 .. Len(frames') : \A s \in DOMAIN frames'[i].held : bnArray'[s] = bnArray[s]
    BY <1>2, <1>3
  <2>3. \A i \in 1 .. Len(frames') : \A t \in DOMAIN frames'[i].ext : bnExt'[t] = bnExt[t]
    BY <1>3, <1>4
  <2>4. QED
    BY <1>0, <1>5, <2>1, <2>2, <2>3, KeepLive
<1>7. QED
  BY <1>2, <1>6 DEF LInv

(* BN_CTX_final, with no function open, re-initialises a sane context and *)
(* leaves an insane one alone.                                             *)
LEMMA FinalLive ==
  ASSUME GInv, CallFinal
  PROVE  LInv'
<1>1. Depth = 0 /\ frames' = frames
  BY DEF CallFinal
<1>2. Depth' = 0
  BY <1>1 DEF Depth
<1>3. HeldDisjoint' /\ LiveSlotsIntact'
  BY <1>2 DEF HeldDisjoint, LiveSlotsIntact
<1>4. PoolFrames'
  <2>1. CASE ~sanityCheckBNCTX
    <3>1. UNCHANGED ctxVars
      BY <2>1 DEF CallFinal, BN_CTX_final
    <3>2. QED
      BY <2>1, <3>1 DEF PoolFrames, sanityCheckBNCTX, ctxVars
  <2>2. CASE sanityCheckBNCTX
    <3>1. /\ bnArray' = [x \in Slots |-> 0] /\ bnArrayMax' = 0
          /\ stack' = [x \in Slots |-> 0] /\ stackPos' = 0
      BY <2>2 DEF CallFinal, BN_CTX_final, sanityCheckBNCTX
    <3>2. 0 \in Slots
      BY DEF Slots
    <3>3. QED
      BY <1>2, <3>1, <3>2 DEF PoolFrames, sanityCheckBNCTX, Nested, ClearAbove
  <2>3. QED
    BY <2>1, <2>2
<1>5. QED
  BY <1>3, <1>4 DEF LInv

(* Every step of a caller that never releases with EXT_MUL2 keeps the      *)
(* invariant.                                                              *)
LEMMA GStep ==
  ASSUME GInv, ReleasingCaller, [ClientNext]_vars
  PROVE  GInv'
<1>1. TInv'
  BY TStep DEF GInv
<1>2. ExtInv'
  <2>1. ExtShape' /\ ExtDisjoint' /\ ExtClear'
    BY ExtNextStep DEF GInv
  <2>2. QED
    BY <1>1, <2>1 DEF TInv, ExtInv
<1>3. LInv'
  <2>1. CASE CallStart
    BY <2>1, StartLive
  <2>2. CASE CallGet
    BY <2>2, GetLive
  <2>3. CASE CallGetFail
    BY <2>3, GetFailLive
  <2>4. CASE CallWrite
    BY <2>4, WriteLive
  <2>5. CASE CallGetExt
    BY <2>5, GetExtLive
  <2>6. CASE CallEnd \/ CallEndExt
    BY <2>6, EndLive
  <2>7. CASE CallFinal
    BY <2>7, FinalLive
  <2>8. CASE UNCHANGED vars
    BY <2>8 DEF GInv, LInv, HeldDisjoint, LiveSlotsIntact, PoolFrames, Nested, Frame,
                ClearAbove, sanityCheckBNCTX, Depth, vars, ctxVars
  <2>9. QED
    BY <2>1, <2>2, <2>3, <2>4, <2>5, <2>6, <2>7, <2>8 DEF ClientNext
<1>4. QED
  BY <1>1, <1>2, <1>3 DEF GInv

(* LiveSlotsIntact of client_fill, for every pool size and every caller    *)
(* that keeps the nesting discipline and never releases with EXT_MUL2,     *)
(* the one that exhausts the pool and the boundary stack included: no      *)
(* BN_CTX_get hands out a bignum a function still holds, no BN_CTX_end or  *)
(* BN_CTX_end_ext clears one an enclosing function holds, and every held   *)
(* bignum reads back what its function last wrote.                         *)
THEOREM LiveSlotsHold ==
  ASSUME ReleasingCaller
  PROVE  ClientSpec => []LiveSlotsIntact
<1>1. ClientInit => GInv
  BY InitGInv
<1>2. GInv /\ [ClientNext]_vars => GInv'
  BY GStep
<1>3. GInv => LiveSlotsIntact
  BY DEF GInv, LInv
<1>4. QED
  BY <1>1, <1>2, <1>3, PTL DEF ClientSpec

==============================================================================
