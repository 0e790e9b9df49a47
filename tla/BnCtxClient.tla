---------------------------- MODULE BnCtxClient ----------------------------
(***************************************************************************)
(* The allocator of BnCtx driven by bignum code that follows the nesting    *)
(* discipline of the comment at ctx_bn.c:525-557: every BN_CTX_start is     *)
(* matched by one BN_CTX_end (or BN_CTX_end_ext) of the same function, a    *)
(* NULL from BN_CTX_get sends the function to its error exit, which ends    *)
(* its frame, and a function writes only bignums that it or one of its      *)
(* callers holds.  The caller's call stack is the ghost variable frames:    *)
(* frame i holds pool bignums and extended bignums, each with the value     *)
(* the caller last wrote into it (0 when freshly obtained), and the         *)
(* high-water mark bnArrayMax as it was when the frame was started.        *)
(***************************************************************************)
EXTENDS BnCtx, Sequences, FiniteSets, TLC

CONSTANTS
  MaxDepth,    \* deepest nesting of BN_CTX_start calls in the caller
  MaxHeld,     \* most pool bignums the caller holds at once
  EndExtTags   \* tags the caller may pass to BN_CTX_end_ext

ASSUME ClientAssumption ==
  /\ MaxDepth \in Nat \ {0}
  /\ MaxHeld \in Nat
  /\ EndExtTags \subseteq ExtTags

VARIABLE frames

vars == <<ctxVars, frames>>

(* The extended bignums are taken in the groups their users need: the     *)
(* Montgomery code one EXT_MONT, the multiplication code EXT_MUL1 and       *)
(* EXT_MUL2 together.                                                      *)
ExtGroups == {{"EXT_MONT"}, {"EXT_MUL1", "EXT_MUL2"}}

NewFrame == [held |-> <<>>, ext |-> <<>>, failed |-> FALSE, mark |-> bnArrayMax]

Depth == Len(frames)
Top == frames[Depth]
HeldSlots == UNION {DOMAIN frames[i].held : i \in 1 .. Depth}
HeldExt == UNION {DOMAIN frames[i].ext : i \in 1 .. Depth}

(* The running function: the innermost frame, not on its error path. *)
Running == Depth > 0 /\ ~Top.failed

ClientTypeOK ==
  /\ TypeOK
  /\ frames \in Seq([held : UNION {[S -> Contents] : S \in SUBSET Slots},
                     ext : UNION {[E -> Contents] : E \in SUBSET ExtTags},
                     failed : BOOLEAN, mark : 0 .. ArraySize])
  /\ Depth <= MaxDepth

CallStart ==
  /\ Depth > 0 => ~Top.failed
  /\ Depth < MaxDepth
  /\ BN_CTX_start
  /\ frames' = Append(frames, NewFrame)

CallGet ==
  /\ Running
  /\ Cardinality(HeldSlots) < MaxHeld
  /\ BN_CTX_get
  /\ frames' = [frames EXCEPT ![Depth].held =
                   [x \in DOMAIN @ \cup {GetSlot} |-> IF x = GetSlot THEN 0 ELSE @[x]]]

(* A NULL from BN_CTX_get: the function goes to its error exit. *)
CallGetFail ==
  /\ Running
  /\ Cardinality(HeldSlots) < MaxHeld
  /\ BN_CTX_get_fail
  /\ frames' = [frames EXCEPT ![Depth].failed = TRUE]

(* The running function writes a bignum held by it or by a caller. *)
CallWrite ==
  /\ Running
  /\ \E i \in 1 .. Depth, v \in Data :
       \/ \E s \in DOMAIN frames[i].held :
            /\ bnArray' = [bnArray EXCEPT ![s] = v]
            /\ frames' = [frames EXCEPT ![i].held[s] = v]
            /\ UNCHANGED <<bnArrayMax, stack, stackPos, bnExt, stackOOB>>
       \/ \E t \in DOMAIN frames[i].ext :
            /\ bnExt' = [bnExt EXCEPT ![t] = v]
            /\ frames' = [frames EXCEPT ![i].ext[t] = v]
            /\ UNCHANGED stdVars

(* BN_CTX_get_ext for each purpose of a group, by a function that holds no *)
(* extended bignum and whose callers hold none of the group.               *)
CallGetExt ==
  /\ Running
  /\ DOMAIN Top.ext = {}
  /\ \E g \in ExtGroups :
       /\ g \cap HeldExt = {}
       /\ frames' = [frames EXCEPT ![Depth].ext = [t \in g |-> 0]]
  /\ UNCHANGED ctxVars

CallEnd ==
  /\ Depth > 0
  /\ DOMAIN Top.ext = {}
  /\ BN_CTX_end
  /\ frames' = SubSeq(frames, 1, Depth - 1)

CallEndExt ==
  /\ Depth > 0
  /\ \E t \in DOMAIN Top.ext \cap EndExtTags : BN_CTX_end_ext(t)
  /\ frames' = SubSeq(frames, 1, Depth - 1)

(* The owner of the context releases it between operations. *)
CallFinal ==
  /\ Depth = 0
  /\ BN_CTX_final
  /\ UNCHANGED frames

ClientInit == Init /\ frames = <<>>

ClientNext ==
  \/ CallStart
  \/ CallGet
  \/ CallGetFail
  \/ CallWrite
  \/ CallGetExt
  \/ CallEnd
  \/ CallEndExt
  \/ CallFinal

ClientSpec == ClientInit /\ [][ClientNext]_vars

-----------------------------------------------------------------------------
(* Every bignum a function of the call stack holds, pool or extended, reads *)
(* back what that function last wrote, and a freshly obtained one reads     *)
(* cleared: no BN_CTX_get hands out a bignum still held, and no             *)
(* BN_CTX_end or BN_CTX_end_ext clears one that an enclosing frame holds.   *)
LiveSlotsIntact ==
  \A i \in 1 .. Depth :
    /\ \A s \in DOMAIN frames[i].held : bnArray[s] = frames[i].held[s]
    /\ \A t \in DOMAIN frames[i].ext : bnExt[t] = frames[i].ext[t]

(* Every bignum no function holds is cleared: BN_CTX_end and              *)
(* BN_CTX_end_ext zeroise what they release, so no secret outlives the     *)
(* frame that used it (spec section 8, checkpoint zeroing).               *)
ClearedAtRest ==
  /\ \A s \in Slots \ HeldSlots : bnArray[s] = 0
  /\ \A t \in ExtTags \ HeldExt : bnExt[t] = 0

(* Spec section 8, checkpoint zeroing: the high-water mark after a        *)
(* BN_CTX_end or BN_CTX_end_ext equals the mark before the matching        *)
(* BN_CTX_start.                                                           *)
HighWaterRestored ==
  [][Depth' < Depth => bnArrayMax' = Top.mark]_vars

(* No access of stack[] falls outside the array. *)
NoStackOverrun == ~stackOOB

-----------------------------------------------------------------------------
(* The scopes of BnCtxScopes, read off the pool alone: frame i, for i in   *)
(* 1 .. stackPos, owns bnArray[stack[i-1]] .. bnArray[stack[i]-1], in the  *)
(* order BN_CTX_get handed them out.                                       *)
FrameScope(i) ==
  [k \in 1 .. stack[i] - stack[i - 1] |-> bnArray[stack[i - 1] + k - 1]]
CtxScopes == [i \in 1 .. stackPos |-> FrameScope(i)]

Scopes == INSTANCE BnCtxScopes WITH Values <- Data, scopes <- CtxScopes

(* The pool implements the scoped allocator of spec section 4.2 for a      *)
(* caller that keeps the nesting discipline: every BN_CTX_get that         *)
(* succeeds adds a cleared bignum to the innermost frame, and every        *)
(* BN_CTX_end or BN_CTX_end_ext releases exactly that frame, leaving the   *)
(* bignums of the enclosing frames as they were.                           *)
ImplementsScopes == Scopes!Spec
=============================================================================
