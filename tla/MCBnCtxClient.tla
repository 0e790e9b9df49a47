--------------------------- MODULE MCBnCtxClient ---------------------------
(* The disciplined caller, for TLC.  Three pool bignums, calls nested two   *)
(* deep, two data values so that a clobbered bignum is told apart.         *)
EXTENDS BnCtxClient

MCArraySize == 3
MCData == {1, 2}
MCMaxDepth == MCArraySize - 1
(* A caller whose demand can exceed the pool: BN_CTX_get's NULL is reached. *)
MCMaxHeldUnbounded == MCArraySize + 1
(* A caller within the pool's designed size: it never fills the array. *)
MCMaxHeldSized == MCArraySize - 1
(* The release tags the code's ENSURES_V accepts, and all tags. *)
MCEndExtTags == {"EXT_MONT", "EXT_MUL1"}
MCEndExtTagsAll == ExtTags
=============================================================================
