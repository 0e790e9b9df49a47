---------------------------- MODULE Bignum_proofs ----------------------------
(***************************************************************************)
(* Proofs about the bignum operations of ctx_bn.c, for every word size and *)
(* every size class.  The central one: whatever sequence of BN_clear,       *)
(* BN_set_word, BN_copy, BN_swap, BN_set_bit, BN_set_negative,              *)
(* BN_normalise and external arithmetic is applied, every register passes   *)
(* sanityCheckBignum and keeps the words at or above dmax zero.  Each       *)
(* operation gets a lemma that it maps a well-formed bignum to one with the *)
(* same dmax and flags; the invariant then follows action by action.        *)
(***************************************************************************)
EXTENDS BignumRegs, WellFoundedInduction, TLAPS

USE BignumAssumption, WordArithAssumption

(* A well-formed bignum: the record type, sanityCheckBignum, and zero words *)
(* at and above dmax.                                                       *)
Good(b) ==
  /\ b \in Bignums
  /\ sanityCheckBignum(b)
  /\ \A i \in Index : i >= b.dmax => b.d[i] = 0

(* The record of the BIGNUM fields, from its parts. *)
BnFields == {"d", "dmax", "top", "neg", "flags"}
Mk(dd, dm, t, n, f) == [d |-> dd, dmax |-> dm, top |-> t, neg |-> n, flags |-> f]

LEMMA SizeFacts ==
  /\ MaxWords \in Nat \ {0}
  /\ AllocWords <= MaxWords /\ ExtWords <= MaxWords /\ Ext2Words <= MaxWords
  /\ WordBits \in Nat \ {0}
  /\ 0 \in Word
  /\ Zeros \in [Index -> Word]
<1>1. MaxWords \in Nat \ {0}
        /\ AllocWords <= MaxWords /\ ExtWords <= MaxWords /\ Ext2Words <= MaxWords
  BY DEF MaxWords
<1>2. WordBits \in Nat \ {0}
  BY DEF WordBits
<1>3. 0 \in Word
  BY DEF Word
<1>4. QED
  BY <1>1, <1>2, <1>3 DEF Zeros

(* getBNMaxSize is one of the three configured sizes, all within MaxWords. *)
LEMMA MaxSizeBound ==
  ASSUME NEW b
  PROVE  getBNMaxSize(b) \in 1 .. MaxWords
BY SizeFacts DEF getBNMaxSize

(* A function with the BIGNUM fields as its domain is the record of them. *)
LEMMA MkExt ==
  ASSUME NEW c, c = [x \in DOMAIN c |-> c[x]], DOMAIN c = BnFields
  PROVE  c = Mk(c.d, c.dmax, c.top, c.neg, c.flags)
<1> DEFINE e == Mk(c.d, c.dmax, c.top, c.neg, c.flags)
<1>1. DOMAIN e = BnFields /\ e.d = c.d /\ e.dmax = c.dmax /\ e.top = c.top
        /\ e.neg = c.neg /\ e.flags = c.flags
  BY DEF Mk, BnFields
<1>2. \A f \in BnFields : c[f] = e[f]
  BY <1>1, Zenon DEF BnFields
<1>3. QED
  BY <1>1, <1>2, Zenon DEF Mk

(* The updates of a bignum's fields that the operations make, as records, *)
(* one lemma per form of update.                                           *)
LEMMA BignumDomain ==
  ASSUME NEW b \in Bignums
  PROVE  DOMAIN b = BnFields
BY DEF Bignums, BnFields

LEMMA ExceptDTN ==
  ASSUME NEW b \in Bignums, NEW z, NEW t, NEW n
  PROVE  [b EXCEPT !.d = z, !.top = t, !.neg = n] = Mk(z, b.dmax, t, n, b.flags)
<1> DEFINE c == [b EXCEPT !.d = z, !.top = t, !.neg = n]
<1>1. c = [x \in DOMAIN c |-> c[x]] /\ DOMAIN c = BnFields
  BY BignumDomain, Zenon
<1>2. c.d = z /\ c.dmax = b.dmax /\ c.top = t /\ c.neg = n /\ c.flags = b.flags
  BY BignumDomain DEF BnFields
<1>3. QED
  BY <1>1, <1>2, MkExt

LEMMA ExceptDT ==
  ASSUME NEW b \in Bignums, NEW z, NEW t
  PROVE  [b EXCEPT !.d = z, !.top = t] = Mk(z, b.dmax, t, b.neg, b.flags)
<1> DEFINE c == [b EXCEPT !.d = z, !.top = t]
<1>1. c = [x \in DOMAIN c |-> c[x]] /\ DOMAIN c = BnFields
  BY BignumDomain, Zenon
<1>2. c.d = z /\ c.dmax = b.dmax /\ c.top = t /\ c.neg = b.neg /\ c.flags = b.flags
  BY BignumDomain DEF BnFields
<1>3. QED
  BY <1>1, <1>2, MkExt

LEMMA ExceptD ==
  ASSUME NEW b \in Bignums, NEW z
  PROVE  [b EXCEPT !.d = z] = Mk(z, b.dmax, b.top, b.neg, b.flags)
<1> DEFINE c == [b EXCEPT !.d = z]
<1>1. c = [x \in DOMAIN c |-> c[x]] /\ DOMAIN c = BnFields
  BY BignumDomain, Zenon
<1>2. c.d = z /\ c.dmax = b.dmax /\ c.top = b.top /\ c.neg = b.neg /\ c.flags = b.flags
  BY BignumDomain DEF BnFields
<1>3. QED
  BY <1>1, <1>2, MkExt

LEMMA ExceptT ==
  ASSUME NEW b \in Bignums, NEW t
  PROVE  [b EXCEPT !.top = t] = Mk(b.d, b.dmax, t, b.neg, b.flags)
<1> DEFINE c == [b EXCEPT !.top = t]
<1>1. c = [x \in DOMAIN c |-> c[x]] /\ DOMAIN c = BnFields
  BY BignumDomain, Zenon
<1>2. c.d = b.d /\ c.dmax = b.dmax /\ c.top = t /\ c.neg = b.neg /\ c.flags = b.flags
  BY BignumDomain DEF BnFields
<1>3. QED
  BY <1>1, <1>2, MkExt

LEMMA ExceptN ==
  ASSUME NEW b \in Bignums, NEW n
  PROVE  [b EXCEPT !.neg = n] = Mk(b.d, b.dmax, b.top, n, b.flags)
<1> DEFINE c == [b EXCEPT !.neg = n]
<1>1. c = [x \in DOMAIN c |-> c[x]] /\ DOMAIN c = BnFields
  BY BignumDomain, Zenon
<1>2. c.d = b.d /\ c.dmax = b.dmax /\ c.top = b.top /\ c.neg = n /\ c.flags = b.flags
  BY BignumDomain DEF BnFields
<1>3. QED
  BY <1>1, <1>2, MkExt

(* c is well formed and has b's size: the same dmax and flags. *)
GoodAs(c, b) == Good(c) /\ c.dmax = b.dmax /\ c.flags = b.flags

(* Rewriting the words, top and sign of a well-formed bignum, within its   *)
(* dmax, keeps it well formed, with its dmax and flags.                    *)
LEMMA GoodUpdate ==
  ASSUME NEW b, Good(b), NEW dd \in [Index -> Word], NEW t \in 0 .. b.dmax,
         NEW n \in BOOLEAN, \A i \in Index : i >= b.dmax => dd[i] = 0
  PROVE  GoodAs(Mk(dd, b.dmax, t, n, b.flags), b)
<1> DEFINE c == Mk(dd, b.dmax, t, n, b.flags)
<1>1. c.d = dd /\ c.dmax = b.dmax /\ c.top = t /\ c.neg = n /\ c.flags = b.flags
  BY DEF Mk
<1>2. getBNMaxSize(c) = getBNMaxSize(b)
  BY <1>1 DEF getBNMaxSize
<1>3. b.dmax \in 1 .. MaxWords /\ b.flags \in SUBSET Flags
  BY MaxSizeBound DEF Good, Bignums, sanityCheckBignum
<1>4. c \in Bignums
  <2>1. t \in 0 .. MaxWords /\ b.dmax \in 0 .. MaxWords
    BY <1>3, SizeFacts
  <2>2. QED
    BY <1>3, <2>1 DEF Mk, Bignums
<1>5. QED
  BY <1>1, <1>2, <1>4 DEF GoodAs, Good, sanityCheckBignum

(* The bignums BN_init and BN_init_ext set up are well formed. *)
LEMMA InitGood == Good(BN_init) /\ Good(BN_init_ext(FALSE))
<1>1. BN_init = Mk(Zeros, AllocWords, 0, FALSE, {})
  BY DEF BN_init, Mk
<1>2. BN_init \in Bignums
  BY <1>1, SizeFacts DEF Mk, Bignums
<1>3. Good(BN_init)
  BY <1>1, <1>2, SizeFacts DEF Good, sanityCheckBignum, getBNMaxSize, Mk, Zeros
<1>4. BN_init_ext(FALSE) = Mk(Zeros, ExtWords, 0, FALSE, {"ALLOC_EXT"})
  <2> DEFINE c == BN_init_ext(FALSE)
  <2>1. DOMAIN BN_init = BnFields
    BY <1>1 DEF Mk, BnFields
  <2>2. c = [x \in DOMAIN c |-> c[x]] /\ DOMAIN c = BnFields
    BY <2>1, Zenon DEF BN_init_ext
  <2>3. c.d = Zeros /\ c.dmax = ExtWords /\ c.top = 0 /\ c.neg = FALSE
          /\ c.flags = {"ALLOC_EXT"}
    BY <1>1, <2>1 DEF BN_init_ext, Mk, BnFields
  <2>4. QED
    BY <2>2, <2>3, MkExt
<1>5. Good(BN_init_ext(FALSE))
  <2> DEFINE c == Mk(Zeros, ExtWords, 0, FALSE, {"ALLOC_EXT"})
  <2>1. c.d = Zeros /\ c.dmax = ExtWords /\ c.top = 0 /\ c.flags = {"ALLOC_EXT"}
    BY DEF Mk
  <2>2. c \in Bignums
    BY SizeFacts DEF Mk, Bignums, Flags
  <2>3. getBNMaxSize(c) = ExtWords
    BY <2>1 DEF getBNMaxSize
  <2>4. sanityCheckBignum(c)
    <3>1. c.dmax \in 1 .. getBNMaxSize(c)
      BY <2>1, <2>3 DEF Mk
    <3>2. c.top \in 0 .. c.dmax
      BY <2>1 DEF Mk
    <3>3. QED
      BY <3>1, <3>2 DEF sanityCheckBignum
  <2>5. \A i \in Index : i >= c.dmax => c.d[i] = 0
    BY <2>1 DEF Zeros
  <2>6. QED
    BY <1>4, <2>2, <2>4, <2>5 DEF Good
<1>6. QED
  BY <1>3, <1>5

(* What BN_clear makes of a sane, non-static bignum. *)
LEMMA ClearIs ==
  ASSUME NEW b, Good(b), sanityCheckBignum(b), ~IsStatic(b)
  PROVE  BN_clear(b) = Mk(Zeros, b.dmax, 0, FALSE, b.flags)
<1>1. b \in Bignums
  BY DEF Good
<1>2. [b EXCEPT !.d = Zeros, !.top = 0, !.neg = FALSE] = Mk(Zeros, b.dmax, 0, FALSE, b.flags)
  BY <1>1, ExceptDTN
<1>3. BN_clear(b) = [b EXCEPT !.d = Zeros, !.top = 0, !.neg = FALSE]
  BY DEF BN_clear
<1>4. QED
  BY <1>2, <1>3

(* BN_clear keeps a bignum well formed, with its size. *)
LEMMA ClearGood ==
  ASSUME NEW b, Good(b)
  PROVE  GoodAs(BN_clear(b), b)
<1>1. CASE ~sanityCheckBignum(b) \/ IsStatic(b)
  BY <1>1 DEF BN_clear, GoodAs
<1>2. CASE sanityCheckBignum(b) /\ ~IsStatic(b)
  <2>1. BN_clear(b) = Mk(Zeros, b.dmax, 0, FALSE, b.flags)
    BY <1>2, ClearIs
  <2>2. 0 \in 0 .. b.dmax
    BY DEF Good, sanityCheckBignum
  <2>3. Zeros \in [Index -> Word] /\ \A i \in Index : i >= b.dmax => Zeros[i] = 0
    BY SizeFacts DEF Zeros
  <2>4. GoodAs(Mk(Zeros, b.dmax, 0, FALSE, b.flags), b)
    BY <2>2, <2>3, GoodUpdate
  <2>5. QED
    BY <2>1, <2>4
<1>3. QED
  BY <1>1, <1>2

(* BN_set_word keeps a bignum well formed: word 0 is below dmax >= 1. *)
LEMMA SetWordGood ==
  ASSUME NEW b, Good(b), NEW w \in Word
  PROVE  GoodAs(BN_set_word(b, w).bn, b)
<1>1. CASE ~sanityCheckBignum(b) \/ IsStatic(b)
  BY <1>1 DEF BN_set_word, GoodAs
<1>2. CASE sanityCheckBignum(b) /\ ~IsStatic(b)
  <2> DEFINE cl == BN_clear(b)
             dd == [Zeros EXCEPT ![0] = w]
             tt == IF w # 0 THEN 1 ELSE 0
  <2>1. cl = Mk(Zeros, b.dmax, 0, FALSE, b.flags)
    BY <1>2, ClearIs
  <2>2. cl \in Bignums /\ cl.d = Zeros
    <3>1. GoodAs(cl, b)
      BY ClearGood
    <3>2. QED
      BY <2>1, <3>1 DEF GoodAs, Good, Mk
  <2>3. BN_set_word(b, w).bn = [cl EXCEPT !.d = [cl.d EXCEPT ![0] = w], !.top = tt]
    BY <1>2 DEF BN_set_word
  <2>4. BN_set_word(b, w).bn = Mk(dd, b.dmax, tt, FALSE, b.flags)
    <3>1. [cl EXCEPT !.d = dd, !.top = tt] = Mk(dd, cl.dmax, tt, cl.neg, cl.flags)
      BY <2>2, ExceptDT
    <3>2. cl.dmax = b.dmax /\ cl.neg = FALSE /\ cl.flags = b.flags
      BY <2>1 DEF Mk
    <3>3. QED
      BY <2>2, <2>3, <3>1, <3>2
  <2>5. b.dmax \in 1 .. MaxWords
    <3>1. getBNMaxSize(b) \in 1 .. MaxWords
      BY MaxSizeBound
    <3>2. QED
      BY <3>1, SizeFacts DEF Good, sanityCheckBignum
  <2>6. dd \in [Index -> Word] /\ \A i \in Index : i >= b.dmax => dd[i] = 0
    BY <2>5, SizeFacts DEF Zeros, Index
  <2>7. tt \in 0 .. b.dmax
    BY <2>5
  <2>8. GoodAs(Mk(dd, b.dmax, tt, FALSE, b.flags), b)
    BY <2>6, <2>7, GoodUpdate
  <2>9. QED
    BY <2>4, <2>8
<1>3. QED
  BY <1>1, <1>2

(* BN_copy keeps dest well formed with its size: it copies only            *)
(* src.top <= dest.dmax words.                                             *)
LEMMA CopyGood ==
  ASSUME NEW dst, NEW src, Good(dst), Good(src)
  PROVE  GoodAs(BN_copy(dst, src).bn, dst)
<1>1. CASE ~(sanityCheckBignum(dst) /\ sanityCheckBignum(src) /\ dst.dmax >= src.top)
  BY <1>1 DEF BN_copy, GoodAs
<1>2. CASE sanityCheckBignum(dst) /\ sanityCheckBignum(src) /\ dst.dmax >= src.top
  <2> DEFINE dd == [i \in Index |-> IF i < src.top THEN src.d[i] ELSE dst.d[i]]
  <2>1. BN_copy(dst, src).bn = Mk(dd, dst.dmax, src.top, src.neg, dst.flags)
    <3>1. dst \in Bignums
      BY DEF Good
    <3>2. [dst EXCEPT !.d = dd, !.top = src.top, !.neg = src.neg]
            = Mk(dd, dst.dmax, src.top, src.neg, dst.flags)
      BY <3>1, ExceptDTN
    <3>3. QED
      BY <1>2, <3>2 DEF BN_copy
  <2>2. dd \in [Index -> Word] /\ \A i \in Index : i >= dst.dmax => dd[i] = 0
    <3>1. dst.d \in [Index -> Word] /\ src.d \in [Index -> Word]
      BY DEF Good, Bignums
    <3>2. dd \in [Index -> Word]
      BY <3>1
    <3>3. \A i \in Index : i >= dst.dmax => dd[i] = 0
      BY <1>2 DEF Good, Bignums, Index
    <3>4. QED
      BY <3>2, <3>3
  <2>3. src.top \in 0 .. dst.dmax /\ src.neg \in BOOLEAN
    BY <1>2 DEF Good, Bignums, sanityCheckBignum
  <2>4. GoodAs(Mk(dd, dst.dmax, src.top, src.neg, dst.flags), dst)
    BY <2>2, <2>3, GoodUpdate
  <2>5. QED
    BY <2>1, <2>4
<1>3. QED
  BY <1>1, <1>2

(* BN_swap keeps both bignums well formed with their sizes, whichever of   *)
(* its three BN_copy calls fails.                                          *)
LEMMA SwapGood ==
  ASSUME NEW b1, NEW b2, Good(b1), Good(b2)
  PROVE  GoodAs(BN_swap(b1, b2).b1, b1) /\ GoodAs(BN_swap(b1, b2).b2, b2)
<1> DEFINE c1 == BN_copy(BN_init, b1)
           c2 == BN_copy(b1, b2)
           c3 == BN_copy(b2, c1.bn)
<1>1. GoodAs(b1, b1) /\ GoodAs(b2, b2)
  BY DEF GoodAs
<1>2. Good(c1.bn)
  BY InitGood, CopyGood DEF GoodAs
<1>3. GoodAs(c2.bn, b1) /\ GoodAs(c3.bn, b2)
  BY <1>2, CopyGood
<1>4. QED
  BY <1>1, <1>3 DEF BN_swap
(* d |= 1 << bitIndex keeps a word a word. *)
LEMMA OrBitWord ==
  ASSUME NEW w \in Word, NEW n \in 0 .. WordBits - 1
  PROVE  OrBit(w, n) \in Word
BY DEF OrBit

(* The word and bit of a bit number within dmax words. *)
LEMMA BitPosition ==
  ASSUME NEW bitNo \in Nat, NEW dm \in Nat, bitNo < dm * WordBits
  PROVE  /\ bitNo \div WordBits \in 0 .. dm - 1
         /\ bitNo % WordBits \in 0 .. WordBits - 1
<1>1. WordBits \in Nat \ {0}
  BY SizeFacts
<1>2. QED
  BY <1>1

(* BN_set_bit keeps a bignum well formed with its size, on each of its     *)
(* paths: the early returns, the failed ENSURES after the zeroing loop,    *)
(* the extension of top and the update in place.                           *)
LEMMA SetBitGood ==
  ASSUME NEW b, Good(b), NEW bitNo \in BitNos
  PROVE  GoodAs(BN_set_bit(b, bitNo).bn, b)
<1> DEFINE wi == bitNo \div WordBits
           bi == bitNo % WordBits
           zeroed == [i \in Index |-> IF b.top <= i /\ i <= wi THEN 0 ELSE b.d[i]]
<1>1. CASE \/ ~sanityCheckBignum(b) \/ IsStatic(b)
           \/ bitNo < 0 \/ bitNo >= b.dmax * WordBits
  BY <1>1 DEF BN_set_bit, GoodAs
<1>2. CASE ~(\/ ~sanityCheckBignum(b) \/ IsStatic(b)
             \/ bitNo < 0 \/ bitNo >= b.dmax * WordBits)
  <2>1. b \in Bignums /\ b.dmax \in 1 .. MaxWords /\ b.top \in 0 .. b.dmax
          /\ b.neg \in BOOLEAN
    <3>1. getBNMaxSize(b) \in 1 .. MaxWords
      BY MaxSizeBound
    <3>2. QED
      BY <3>1, SizeFacts DEF Good, Bignums, sanityCheckBignum
  <2>2. bitNo \in Nat /\ bitNo < b.dmax * WordBits
    BY <1>2, <2>1, SizeFacts DEF BitNos
  <2>3. wi \in 0 .. b.dmax - 1 /\ bi \in 0 .. WordBits - 1
    BY <2>1, <2>2, BitPosition
  <2>4. wi \in Index
    BY <2>1, <2>3, SizeFacts DEF Index
  <2>5. zeroed \in [Index -> Word] /\ \A i \in Index : i >= b.dmax => zeroed[i] = 0
    <3>1. b.d \in [Index -> Word] /\ \A i \in Index : i >= b.dmax => b.d[i] = 0
      BY DEF Good, Bignums
    <3>2. QED
      BY <3>1, SizeFacts
  <2>6. CASE b.top < wi + 1 /\ wi + 1 >= getBNMaxSize(b)
    <3>1. BN_set_bit(b, bitNo).bn = [b EXCEPT !.d = zeroed]
      BY <1>2, <2>6 DEF BN_set_bit
    <3>2. [b EXCEPT !.d = zeroed] = Mk(zeroed, b.dmax, b.top, b.neg, b.flags)
      BY <2>1, ExceptD
    <3>3. GoodAs(Mk(zeroed, b.dmax, b.top, b.neg, b.flags), b)
      BY <2>1, <2>5, GoodUpdate
    <3>4. QED
      BY <3>1, <3>2, <3>3
  <2>7. CASE b.top < wi + 1 /\ ~(wi + 1 >= getBNMaxSize(b))
    <3> DEFINE dd == [zeroed EXCEPT ![wi] = OrBit(zeroed[wi], bi)]
    <3>1. BN_set_bit(b, bitNo).bn = [b EXCEPT !.d = dd, !.top = wi + 1]
      BY <1>2, <2>7 DEF BN_set_bit
    <3>2. [b EXCEPT !.d = dd, !.top = wi + 1] = Mk(dd, b.dmax, wi + 1, b.neg, b.flags)
      BY <2>1, ExceptDT
    <3>3. OrBit(zeroed[wi], bi) \in Word
      BY <2>3, <2>4, <2>5, OrBitWord
    <3>4. dd \in [Index -> Word] /\ \A i \in Index : i >= b.dmax => dd[i] = 0
      <4>1. dd \in [Index -> Word]
        BY <2>4, <2>5, <3>3
      <4>2. ASSUME NEW i \in Index, i >= b.dmax PROVE dd[i] = 0
        <5>1. i # wi /\ i \in Int
          BY <2>1, <2>3, <4>2, SizeFacts DEF Index
        <5>2. QED
          BY <2>5, <4>2, <5>1
      <4>3. QED
        BY <4>1, <4>2
    <3>5. wi + 1 \in 0 .. b.dmax
      BY <2>1, <2>3
    <3>6. GoodAs(Mk(dd, b.dmax, wi + 1, b.neg, b.flags), b)
      BY <2>1, <3>4, <3>5, GoodUpdate
    <3>7. QED
      BY <3>1, <3>2, <3>6
  <2>8. CASE ~(b.top < wi + 1)
    <3> DEFINE dd == [b.d EXCEPT ![wi] = OrBit(b.d[wi], bi)]
    <3>1. BN_set_bit(b, bitNo).bn = [b EXCEPT !.d = dd]
      BY <1>2, <2>8 DEF BN_set_bit
    <3>2. [b EXCEPT !.d = dd] = Mk(dd, b.dmax, b.top, b.neg, b.flags)
      BY <2>1, ExceptD
    <3>3. b.d \in [Index -> Word] /\ \A i \in Index : i >= b.dmax => b.d[i] = 0
      BY DEF Good, Bignums
    <3>4. OrBit(b.d[wi], bi) \in Word
      BY <2>3, <2>4, <3>3, OrBitWord
    <3>5. dd \in [Index -> Word] /\ \A i \in Index : i >= b.dmax => dd[i] = 0
      <4>1. dd \in [Index -> Word]
        BY <2>4, <3>3, <3>4
      <4>2. ASSUME NEW i \in Index, i >= b.dmax PROVE dd[i] = 0
        <5>1. i # wi /\ i \in Int
          BY <2>1, <2>3, <4>2, SizeFacts DEF Index
        <5>2. QED
          BY <3>3, <4>2, <5>1
      <4>3. QED
        BY <4>1, <4>2
    <3>6. GoodAs(Mk(dd, b.dmax, b.top, b.neg, b.flags), b)
      BY <2>1, <3>5, GoodUpdate
    <3>7. QED
      BY <3>1, <3>2, <3>6
  <2>9. QED
    BY <2>6, <2>7, <2>8
<1>3. QED
  BY <1>1, <1>2
(* BN_set_negative keeps a bignum well formed with its size. *)
LEMMA SetNegativeGood ==
  ASSUME NEW b, Good(b), NEW v \in BOOLEAN
  PROVE  GoodAs(BN_set_negative(b, v), b)
<1>1. CASE b.top = 0
  BY <1>1 DEF BN_set_negative, GoodAs
<1>2. CASE b.top # 0
  <2>1. b \in Bignums /\ b.top \in 0 .. b.dmax
    BY DEF Good, sanityCheckBignum
  <2>2. b.d \in [Index -> Word] /\ \A i \in Index : i >= b.dmax => b.d[i] = 0
    BY DEF Good, Bignums
  <2>3. [b EXCEPT !.neg = v] = Mk(b.d, b.dmax, b.top, v, b.flags)
    BY <2>1, ExceptN
  <2>4. GoodAs(Mk(b.d, b.dmax, b.top, v, b.flags), b)
    BY <2>1, <2>2, GoodUpdate
  <2>5. QED
    BY <1>2, <2>3, <2>4 DEF BN_set_negative
<1>3. QED
  BY <1>1, <1>2

(* The loop of BN_normalise ends: below any top there is a lowest t such   *)
(* that the words t .. top-1 are zero, and d[t-1] is then nonzero.         *)
LEMMA NormaliseTopExists ==
  ASSUME NEW dd, NEW top \in Nat
  PROVE  \E t \in 0 .. top : /\ \A i \in t .. top - 1 : dd[i] = 0
                             /\ t = 0 \/ dd[t - 1] # 0
<1> DEFINE Z == {t \in 0 .. top : \A i \in t .. top - 1 : dd[i] = 0}
<1>1. top \in Z /\ Z \subseteq Nat
  OBVIOUS
<1>2. \E m \in Z : \A y \in Z : ~(<<y, m>> \in OpToRel(<, Nat))
  BY <1>1, NatLessThanWellFounded, WFMin
<1>3. PICK m \in Z : \A y \in Z : ~(y < m)
  BY <1>1, <1>2 DEF OpToRel
<1>4. m = 0 \/ dd[m - 1] # 0
  <2>1. CASE m > 0 /\ dd[m - 1] = 0
    <3>1. m - 1 \in Z
      BY <2>1, <1>3
    <3>2. QED
      BY <3>1, <1>3
  <2>2. QED
    BY <2>1
<1>5. QED
  BY <1>3, <1>4

(* BN_normalise keeps a bignum well formed with its size: the new top is   *)
(* within 0 .. top.                                                        *)
LEMMA NormaliseGood ==
  ASSUME NEW b, Good(b)
  PROVE  GoodAs(BN_normalise(b).bn, b)
<1> DEFINE newTop == CHOOSE t \in 0 .. b.top :
                       /\ \A i \in t .. b.top - 1 : b.d[i] = 0
                       /\ t = 0 \/ b.d[t - 1] # 0
<1>1. b \in Bignums /\ b.top \in 0 .. b.dmax /\ b.dmax \in Nat
  BY DEF Good, Bignums, sanityCheckBignum
<1>2. newTop \in 0 .. b.top
  <2>1. \E t \in 0 .. b.top : /\ \A i \in t .. b.top - 1 : b.d[i] = 0
                              /\ t = 0 \/ b.d[t - 1] # 0
    BY <1>1, NormaliseTopExists
  <2>2. QED
    BY <2>1
<1> HIDE DEF newTop
<1>3. CASE ~sanityCheckBignum(b) \/ b.top = 0
  BY <1>3 DEF BN_normalise, GoodAs
<1>4. CASE sanityCheckBignum(b) /\ b.top # 0
  <2>1. BN_normalise(b).bn = [b EXCEPT !.top = newTop]
    BY <1>4 DEF BN_normalise, newTop
  <2>2. [b EXCEPT !.top = newTop] = Mk(b.d, b.dmax, newTop, b.neg, b.flags)
    BY <1>1, ExceptT
  <2>3. b.d \in [Index -> Word] /\ \A i \in Index : i >= b.dmax => b.d[i] = 0
    BY DEF Good, Bignums
  <2>4. newTop \in 0 .. b.dmax
    BY <1>1, <1>2
  <2>5. GoodAs(Mk(b.d, b.dmax, newTop, b.neg, b.flags), b)
    <3>1. b.neg \in BOOLEAN
      BY <1>1 DEF Bignums
    <3>2. QED
      BY <2>3, <2>4, <3>1, GoodUpdate
  <2>6. QED
    BY <2>1, <2>2, <2>5
<1>5. QED
  BY <1>3, <1>4
(* What the external arithmetic may leave in a register is well formed and *)
(* has the register's size.                                                *)
LEMMA ArithGood ==
  ASSUME NEW r \in Regs, Good(reg[r]), NEW c \in Contents(r)
  PROVE  GoodAs(c, reg[r])
<1>1. PICK dd \in {f \in [Index -> Word] : \A i \in Index : i >= reg[r].dmax => f[i] = 0},
           t \in 0 .. reg[r].dmax, n \in BOOLEAN :
         c = [d |-> dd, dmax |-> reg[r].dmax, top |-> t, neg |-> n, flags |-> reg[r].flags]
  BY DEF Contents
<1>2. c = Mk(dd, reg[r].dmax, t, n, reg[r].flags)
  BY <1>1 DEF Mk
<1>3. dd \in [Index -> Word] /\ \A i \in Index : i >= reg[r].dmax => dd[i] = 0
  BY <1>1
<1>4. GoodAs(Mk(dd, reg[r].dmax, t, n, reg[r].flags), reg[r])
  BY <1>3, GoodUpdate
<1>5. QED
  BY <1>2, <1>4

(* TypeOK says every register is well formed. *)
LEMMA TypeOKIsGood ==
  TypeOK <=> (reg \in [Regs -> Bignums] /\ \A r \in Regs : Good(reg[r]))
BY DEF TypeOK, Good

(* Replacing one register, or two, by well-formed bignums of their sizes   *)
(* keeps TypeOK and the sizes.                                             *)
LEMMA UpdateOne ==
  ASSUME TypeOK, NEW r \in Regs, NEW nb, GoodAs(nb, reg[r]),
         reg' = [reg EXCEPT ![r] = nb]
  PROVE  TypeOK' /\ SameSizes
<1>1. reg' \in [Regs -> Bignums] /\ \A q \in Regs : Good(reg'[q])
  BY TypeOKIsGood DEF GoodAs, Good
<1>2. SameSizes
  BY TypeOKIsGood DEF GoodAs, SameSizes
<1>3. QED
  BY <1>1, <1>2 DEF TypeOK, Good

LEMMA UpdateTwo ==
  ASSUME TypeOK, NEW r1 \in Regs, NEW r2 \in Regs, NEW n1, NEW n2,
         GoodAs(n1, reg[r1]), GoodAs(n2, reg[r2]),
         reg' = [reg EXCEPT ![r1] = n1, ![r2] = n2]
  PROVE  TypeOK' /\ SameSizes
<1>1. reg' \in [Regs -> Bignums] /\ \A q \in Regs : Good(reg'[q])
  BY TypeOKIsGood DEF GoodAs, Good
<1>2. SameSizes
  BY TypeOKIsGood DEF GoodAs, SameSizes
<1>3. QED
  BY <1>1, <1>2 DEF TypeOK, Good

(* Every step keeps every register well formed and of its size. *)
LEMMA RegStep ==
  ASSUME TypeOK, [RegNext]_reg
  PROVE  TypeOK' /\ SameSizes
<1>0. \A r \in Regs : Good(reg[r])
  BY TypeOKIsGood
<1>1. CASE Clear
  <2>1. PICK r \in Regs : reg' = [reg EXCEPT ![r] = BN_clear(reg[r])]
    BY <1>1 DEF Clear
  <2>2. GoodAs(BN_clear(reg[r]), reg[r])
    BY <1>0, ClearGood
  <2>3. QED
    BY <2>1, <2>2, UpdateOne
<1>2. CASE SetWord
  <2>1. PICK r \in Regs, w \in Word : reg' = [reg EXCEPT ![r] = BN_set_word(reg[r], w).bn]
    BY <1>2 DEF SetWord
  <2>2. GoodAs(BN_set_word(reg[r], w).bn, reg[r])
    BY <1>0, SetWordGood
  <2>3. QED
    BY <2>1, <2>2, UpdateOne
<1>3. CASE Copy
  <2>1. PICK dst \in Regs, src \in Regs :
          reg' = [reg EXCEPT ![dst] = BN_copy(reg[dst], reg[src]).bn]
    BY <1>3 DEF Copy
  <2>2. GoodAs(BN_copy(reg[dst], reg[src]).bn, reg[dst])
    BY <1>0, CopyGood
  <2>3. QED
    BY <2>1, <2>2, UpdateOne
<1>4. CASE Swap
  <2>1. PICK r1 \in Regs, r2 \in Regs :
          reg' = [reg EXCEPT ![r1] = BN_swap(reg[r1], reg[r2]).b1,
                             ![r2] = BN_swap(reg[r1], reg[r2]).b2]
    BY <1>4 DEF Swap
  <2>2. GoodAs(BN_swap(reg[r1], reg[r2]).b1, reg[r1])
          /\ GoodAs(BN_swap(reg[r1], reg[r2]).b2, reg[r2])
    BY <1>0, SwapGood
  <2>3. QED
    BY <2>1, <2>2, UpdateTwo
<1>5. CASE SetBit
  <2>1. PICK r \in Regs, n \in BitNos : reg' = [reg EXCEPT ![r] = BN_set_bit(reg[r], n).bn]
    BY <1>5 DEF SetBit
  <2>2. GoodAs(BN_set_bit(reg[r], n).bn, reg[r])
    BY <1>0, SetBitGood
  <2>3. QED
    BY <2>1, <2>2, UpdateOne
<1>6. CASE SetNegative
  <2>1. PICK r \in Regs, v \in BOOLEAN : reg' = [reg EXCEPT ![r] = BN_set_negative(reg[r], v)]
    BY <1>6 DEF SetNegative
  <2>2. GoodAs(BN_set_negative(reg[r], v), reg[r])
    BY <1>0, SetNegativeGood
  <2>3. QED
    BY <2>1, <2>2, UpdateOne
<1>7. CASE Normalise
  <2>1. PICK r \in Regs : reg' = [reg EXCEPT ![r] = BN_normalise(reg[r]).bn]
    BY <1>7 DEF Normalise
  <2>2. GoodAs(BN_normalise(reg[r]).bn, reg[r])
    BY <1>0, NormaliseGood
  <2>3. QED
    BY <2>1, <2>2, UpdateOne
<1>8. CASE Arith
  <2>0. PICK r \in Regs : \E c \in Contents(r) : reg' = [reg EXCEPT ![r] = c]
    BY <1>8 DEF Arith
  <2>1. PICK c \in Contents(r) : reg' = [reg EXCEPT ![r] = c]
    BY <2>0
  <2>2. GoodAs(c, reg[r])
    BY <1>0, ArithGood
  <2>3. QED
    BY <2>1, <2>2, UpdateOne
<1>9. CASE UNCHANGED reg
  BY <1>9 DEF TypeOK, SameSizes
<1>10. QED
  BY <1>1, <1>2, <1>3, <1>4, <1>5, <1>6, <1>7, <1>8, <1>9 DEF RegNext

(* Whatever sequence of BN_clear, BN_set_word, BN_copy, BN_swap,           *)
(* BN_set_bit, BN_set_negative, BN_normalise and external arithmetic is     *)
(* applied to a standard bignum and BIGNUM_EXT bignums, every one of them   *)
(* passes sanityCheckBignum and keeps its words at and above dmax zero,     *)
(* for every word size and every BIGNUM_ALLOC_WORDS* size.                  *)
(* The registers BN_init and BN_init_ext set up are well typed.            *)
LEMMA InitTypeOK == RegInit => TypeOK
<1> SUFFICES ASSUME RegInit PROVE TypeOK
  OBVIOUS
<1>1. \A r \in Regs : Good(reg[r])
  BY InitGood DEF RegInit
<1>2. reg \in [Regs -> Bignums]
  BY <1>1 DEF RegInit, Good
<1>3. QED
  BY <1>1, <1>2, TypeOKIsGood

THEOREM TypeCorrect == RegSpec => []TypeOK
<1>1. RegInit => TypeOK
  BY InitTypeOK
<1>2. TypeOK /\ [RegNext]_reg => TypeOK'
  BY RegStep
<1>3. QED
  BY <1>1, <1>2, PTL DEF RegSpec
(* SizesFixed of bignum_ops, for every word size and size class: no        *)
(* sequence of BN_clear, BN_set_word, BN_copy, BN_swap, BN_set_bit,        *)
(* BN_set_negative, BN_normalise and external arithmetic changes the dmax  *)
(* or the flags of any bignum; BN_swap in particular copies values through *)
(* tmp rather than exchanging the structs.                                 *)
THEOREM SizesNeverChange == RegSpec => SizesFixed
<1>1. TypeOK /\ [RegNext]_reg => [SameSizes]_reg
  <2>1. SUFFICES ASSUME TypeOK, [RegNext]_reg PROVE SameSizes
    OBVIOUS
  <2>2. QED
    BY <2>1, RegStep
<1>2. QED
  BY <1>1, TypeCorrect, PTL DEF SizesFixed, RegSpec

=============================================================================
