---------------------------- MODULE BnCtxScopes ----------------------------
(***************************************************************************)
(* What the BN_CTX allocator promises the code that follows its nesting    *)
(* discipline (spec section 4.2, the comment at ctx_bn.c:525-557), with    *)
(* the pool's layout abstracted away.  The state is the stack of open      *)
(* scopes, each the list of the values of the bignums obtained in it:      *)
(*   - BN_CTX_start opens an empty innermost scope;                        *)
(*   - BN_CTX_get either fails, changing nothing, or adds one bignum to    *)
(*     the innermost scope, and that bignum reads zero;                    *)
(*   - the caller overwrites any bignum of any open scope;                 *)
(*   - BN_CTX_end discards the innermost scope and leaves every enclosing  *)
(*     one as it was.                                                      *)
(* Which pool slot backs which bignum, the boundary stack and the          *)
(* high-water mark are not part of the promise.                            *)
(***************************************************************************)
EXTENDS Naturals, Sequences

CONSTANT Values   \* nonzero values the caller writes into a bignum

VARIABLE scopes

ScopesInit == scopes = <<>>

Begin == scopes' = Append(scopes, <<>>)

Get ==
  /\ scopes # <<>>
  /\ scopes' = [scopes EXCEPT ![Len(scopes)] = Append(@, 0)]

Write ==
  \E i \in 1 .. Len(scopes) :
    \E k \in 1 .. Len(scopes[i]), v \in Values :
      scopes' = [scopes EXCEPT ![i][k] = v]

Release ==
  /\ scopes # <<>>
  /\ scopes' = SubSeq(scopes, 1, Len(scopes) - 1)

ScopesNext == Begin \/ Get \/ Write \/ Release

Spec == ScopesInit /\ [][ScopesNext]_scopes
=============================================================================
