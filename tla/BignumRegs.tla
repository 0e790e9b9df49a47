----------------------------- MODULE BignumRegs -----------------------------
(***************************************************************************)
(* The bignum operations of Bignum applied to registers: a standard pool   *)
(* bignum a and the BIGNUM_EXT bignums ExtRegs.  Between operations the     *)
(* arithmetic code outside ctx_bn.c may leave any sane contents in a        *)
(* register, stale words above top included.                                *)
(***************************************************************************)
EXTENDS Bignum

CONSTANT ExtRegs   \* names of the BIGNUM_EXT registers

ASSUME ExtRegsAssumption == "a" \notin ExtRegs

VARIABLE reg

Regs == {"a"} \cup ExtRegs

(* What the arithmetic code outside this file may leave in register r: any *)
(* words below dmax (stale ones above top included), any top, any sign.    *)
Contents(r) ==
  {[d |-> dd, dmax |-> reg[r].dmax, top |-> t, neg |-> n, flags |-> reg[r].flags] :
     dd \in {f \in [Index -> Word] : \A i \in Index : i >= reg[r].dmax => f[i] = 0},
     t \in 0 .. reg[r].dmax, n \in BOOLEAN}

BitNos == -1 .. MaxWords * WordBits

RegInit == reg = [r \in Regs |-> IF r = "a" THEN BN_init ELSE BN_init_ext(FALSE)]

Clear == \E r \in Regs : reg' = [reg EXCEPT ![r] = BN_clear(@)]

SetWord == \E r \in Regs, w \in Word : reg' = [reg EXCEPT ![r] = BN_set_word(@, w).bn]

Copy == \E dst, src \in Regs : reg' = [reg EXCEPT ![dst] = BN_copy(@, reg[src]).bn]

Swap == \E r1, r2 \in Regs :
          /\ r1 # r2
          /\ LET s == BN_swap(reg[r1], reg[r2])
             IN  reg' = [reg EXCEPT ![r1] = s.b1, ![r2] = s.b2]

SetBit == \E r \in Regs, n \in BitNos : reg' = [reg EXCEPT ![r] = BN_set_bit(@, n).bn]

SetNegative == \E r \in Regs, v \in BOOLEAN :
                 reg' = [reg EXCEPT ![r] = BN_set_negative(@, v)]

Normalise == \E r \in Regs : reg' = [reg EXCEPT ![r] = BN_normalise(@).bn]

Arith == \E r \in Regs : \E b \in Contents(r) : reg' = [reg EXCEPT ![r] = b]

RegNext == Clear \/ SetWord \/ Copy \/ Swap \/ SetBit \/ SetNegative
             \/ Normalise \/ Arith

RegSpec == RegInit /\ [][RegNext]_reg

-----------------------------------------------------------------------------
(* Every register passes sanityCheckBignum and keeps its unused words zero. *)
TypeOK ==
  /\ reg \in [Regs -> Bignums]
  /\ \A r \in Regs : /\ sanityCheckBignum(reg[r])
                     /\ \A i \in Index : i >= reg[r].dmax => reg[r].d[i] = 0

(* A step keeps the size (dmax and flags) of every register. *)
SameSizes == \A q \in Regs : reg'[q].dmax = reg[q].dmax /\ reg'[q].flags = reg[q].flags

(* No operation resizes a bignum or changes its size class: BN_copy,       *)
(* BN_swap and the rest write the words, top and sign and never dmax or     *)
(* flags, so a standard bignum stays within BIGNUM_ALLOC_WORDS and a        *)
(* BIGNUM_EXT one keeps BN_FLG_ALLOC_EXT, whatever the sequence of calls.   *)
SizesFixed == [][SameSizes]_reg

(* BN_normalise keeps the value and leaves top at the highest nonzero word *)
(* (or 0), whatever stale zero words the arithmetic left below top.        *)
NormalisePreservesValue ==
  \A r \in Regs : LET n == BN_normalise(reg[r]).bn
                 IN  Mag(n) = Mag(reg[r]) /\ Normalised(n)

(* BN_normalise leaves no negative zero: a bignum with top > 0 that its    *)
(* loop brings to top = 0 is not negative (spec section 3: zero is never   *)
(* negative).                                                               *)
NormaliseClearsSign ==
  \A r \in Regs : LET n == BN_normalise(reg[r]).bn
                 IN  reg[r].top > 0 /\ n.top = 0 => ~n.neg

(* BN_normalise succeeds on every sane bignum: its loop ends within the    *)
(* bound of getBNMaxSize iterations.                                        *)
NormaliseSucceeds == \A r \in Regs : BN_normalise(reg[r]).ok

(* A successful BN_set_bit ORs exactly bit n into the value, so the stale  *)
(* words between top and the new top must have been zeroed.                *)
SetBitSetsBit ==
  \A r \in Regs, n \in 0 .. MaxWords * WordBits - 1 :
    LET s == BN_set_bit(reg[r], n)
        v == Mag(reg[r])
    IN  s.ok => /\ Mag(s.bn) = (IF Bit(v, n) THEN v ELSE v + 2 ^ n)
               /\ s.bn.neg = reg[r].neg

(* Spec section 8, bit round-trip: for any bit within capacity, BN_set_bit *)
(* succeeds and BN_is_bit_set then reads the bit back.                      *)
SetBitRoundTrip ==
  \A r \in Regs, n \in 0 .. MaxWords * WordBits - 1 :
    n < reg[r].dmax * WordBits =>
      LET s == BN_set_bit(reg[r], n) IN s.ok /\ BN_is_bit_set(s.bn, n)

(* BN_copy succeeds exactly when dest has room for src's top words, and    *)
(* then dest has src's value and sign and keeps its own dmax and flags.    *)
CopyFidelity ==
  \A dst, src \in Regs :
    LET c == BN_copy(reg[dst], reg[src])
    IN  /\ c.ok = (reg[dst].dmax >= reg[src].top)
        /\ c.ok => /\ Mag(c.bn) = Mag(reg[src]) /\ c.bn.neg = reg[src].neg
                   /\ c.bn.dmax = reg[dst].dmax /\ c.bn.flags = reg[dst].flags

(* On a normalised bignum the queries agree with its value: BN_num_bits is *)
(* the bit length, BN_get_word the value or BN_NAN, BN_is_bit_set bit n    *)
(* (FALSE for n < 0), BN_high_bit the top bit of the top byte.             *)
QueriesAgree ==
  \A r \in Regs :
    LET b == reg[r]
        v == Mag(b)
    IN  Normalised(b) =>
          /\ BN_num_bits(b) = BitLength(v)
          /\ BN_get_word(b) = IF v < Radix THEN v ELSE BN_NAN
          /\ \A n \in BitNos : BN_is_bit_set(b, n) = (n >= 0 /\ Bit(v, n))
          /\ BN_high_bit(b) = (v > 0 /\ Bit(v, ByteBits * BN_num_bytes(b) - 1))

(* BN_swap never destroys a value: afterwards the two bignums hold the two *)
(* values they held before, exchanged or not.                               *)
SwapNeverLoses ==
  \A r1, r2 \in Regs :
    r1 # r2 =>
      LET s == BN_swap(reg[r1], reg[r2])
          before == {<<Mag(reg[r1]), reg[r1].neg>>, <<Mag(reg[r2]), reg[r2].neg>>}
      IN  {<<Mag(s.b1), s.b1.neg>>, <<Mag(s.b2), s.b2.neg>>} = before

(* Spec section 4.1: BN_swap exchanges the values of two bignums that each *)
(* have room for the other's.                                               *)
SwapExchanges ==
  \A r1, r2 \in Regs :
    r1 # r2 /\ reg[r1].top <= reg[r2].dmax /\ reg[r2].top <= reg[r1].dmax =>
      LET s == BN_swap(reg[r1], reg[r2])
      IN  /\ Mag(s.b1) = Mag(reg[r2]) /\ s.b1.neg = reg[r2].neg
          /\ Mag(s.b2) = Mag(reg[r1]) /\ s.b2.neg = reg[r1].neg
=============================================================================
