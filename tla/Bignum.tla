------------------------------- MODULE Bignum -------------------------------
(***************************************************************************)
(* The fixed-size BIGNUM of ctx_bn.c and its value operations.  A bignum is *)
(* a record of the struct's fields: d (the word array, indexed 0 ..         *)
(* MaxWords-1, entries at or above dmax unused), dmax, top, neg and flags.  *)
(* Each operation is an operator from its arguments to what it returns     *)
(* and what it leaves in its INOUT arguments; BignumRegs applies them to   *)
(* registers, and ReductionCtx uses them in the reduction contexts.        *)
(***************************************************************************)
EXTENDS Integers

CONSTANTS
  ByteBits,    \* bits per byte (8)
  WordBytes,   \* BN_BYTES: bytes per BN_ULONG
  AllocWords,  \* BIGNUM_ALLOC_WORDS
  ExtWords,    \* BIGNUM_ALLOC_WORDS_EXT
  Ext2Words    \* BIGNUM_ALLOC_WORDS_EXT2

ASSUME BignumAssumption ==
  /\ ByteBits \in Nat \ {0}
  /\ WordBytes \in Nat \ {0}
  /\ ByteBits * WordBytes < 128
  /\ AllocWords \in Nat \ {0}
  /\ ExtWords \in Nat \ {0}
  /\ Ext2Words \in Nat \ {0}

WordBits == ByteBits * WordBytes      \* BN_BITS2
Radix == 2 ^ WordBits
Word == 0 .. Radix - 1                \* BN_ULONG
MaxWords == IF AllocWords > ExtWords
              THEN IF AllocWords > Ext2Words THEN AllocWords ELSE Ext2Words
              ELSE IF ExtWords > Ext2Words THEN ExtWords ELSE Ext2Words
Index == 0 .. MaxWords - 1

(* BN_FLG_* *)
Flags == {"MALLOCED", "STATIC_DATA", "ALLOC_EXT", "ALLOC_EXT2"}

(* Returned by BN_get_word for a value wider than a word. *)
BN_NAN == "BN_NAN"

Bignums == [d : [Index -> Word], dmax : 0 .. MaxWords, top : 0 .. MaxWords,
            neg : BOOLEAN, flags : SUBSET Flags]

Zeros == [i \in Index |-> 0]

(* Reference semantics, not code: the magnitude d[0 .. top-1] denotes, and *)
(* bit n of a natural number.                                               *)
Mag(b) ==
  LET acc[k \in 0 .. b.top] ==
        IF k = 0 THEN 0 ELSE acc[k - 1] + b.d[k - 1] * Radix ^ (k - 1)
  IN  acc[b.top]
Bit(v, n) == (v \div 2 ^ n) % 2 = 1
BitLength(v) == CHOOSE k \in 0 .. MaxWords * WordBits :
                  v < 2 ^ k /\ (k = 0 \/ v >= 2 ^ (k - 1))
Normalised(b) == b.top = 0 \/ b.d[b.top - 1] # 0

(* Two facts of word arithmetic, true for every word size, that the proofs *)
(* rest on and that the provers have no theory of powers to derive: the     *)
(* radix is positive, and setting a clear bit below BN_BITS2 in a word      *)
(* (d |= 1 << bitIndex in BN_set_bit) keeps it a word.                      *)
ASSUME WordArithAssumption ==
  /\ Radix \in Nat \ {0}
  /\ \A w \in Word, n \in 0 .. WordBits - 1 : ~Bit(w, n) => w + 2 ^ n \in Word

-----------------------------------------------------------------------------
getBNMaxSize(b) ==
  IF "ALLOC_EXT" \in b.flags THEN ExtWords
  ELSE IF "ALLOC_EXT2" \in b.flags THEN Ext2Words ELSE AllocWords

sanityCheckBignum(b) ==
  /\ b.dmax \in 1 .. getBNMaxSize(b)
  /\ b.top \in 0 .. b.dmax

IsStatic(b) == "STATIC_DATA" \in b.flags

(* BN_init, and BN_init_ext for a BIGNUM_EXT or BIGNUM_EXT2. *)
BN_init == [d |-> Zeros, dmax |-> AllocWords, top |-> 0, neg |-> FALSE,
            flags |-> {}]
BN_init_ext(isExt2Bignum) ==
  IF isExt2Bignum
    THEN [BN_init EXCEPT !.dmax = Ext2Words, !.flags = {"ALLOC_EXT2"}]
    ELSE [BN_init EXCEPT !.dmax = ExtWords, !.flags = {"ALLOC_EXT"}]

(* BN_value_one: the static constant 1. *)
BN_value_one == [d |-> [Zeros EXCEPT ![0] = 1], dmax |-> AllocWords, top |-> 1,
                 neg |-> FALSE, flags |-> {"STATIC_DATA"}]

(* BN_clear: zeroise all dmax words, unless the data is static. *)
BN_clear(b) ==
  IF ~sanityCheckBignum(b) \/ IsStatic(b) THEN b
  ELSE [b EXCEPT !.d = Zeros, !.top = 0, !.neg = FALSE]

(* Mutations of BN_copy: no room check; the sign not copied. *)
BN_copy_noRoom(dest, src) ==
  IF sanityCheckBignum(dest) /\ sanityCheckBignum(src)
    THEN [ok |-> TRUE,
          bn |-> [dest EXCEPT
                     !.d = [i \in Index |-> IF i < src.top THEN src.d[i]
                                                            ELSE dest.d[i]],
                     !.top = src.top, !.neg = src.neg]]
    ELSE [ok |-> FALSE, bn |-> dest]
BN_copy_noSign(dest, src) ==
  IF sanityCheckBignum(dest) /\ sanityCheckBignum(src) /\ dest.dmax >= src.top
    THEN [ok |-> TRUE,
          bn |-> [dest EXCEPT
                     !.d = [i \in Index |-> IF i < src.top THEN src.d[i]
                                                            ELSE dest.d[i]],
                     !.top = src.top]]
    ELSE [ok |-> FALSE, bn |-> dest]

(* BN_copy: copy top words and the sign; dmax and flags stay the dest's. *)
BN_copy(dest, src) ==
  IF sanityCheckBignum(dest) /\ sanityCheckBignum(src) /\ dest.dmax >= src.top
    THEN [ok |-> TRUE,
          bn |-> [dest EXCEPT
                     !.d = [i \in Index |-> IF i < src.top THEN src.d[i]
                                                            ELSE dest.d[i]],
                     !.top = src.top, !.neg = src.neg]]
    ELSE [ok |-> FALSE, bn |-> dest]

(* Mutation: BN_swap without tmp, copying bignum2 over bignum1 first. *)
BN_swap_noTmp(b1, b2) ==
  IF IsStatic(b1) THEN [ok |-> FALSE, b1 |-> b1, b2 |-> b2]
  ELSE LET c2 == BN_copy(b1, b2)
           c3 == BN_copy(b2, c2.bn)
       IN  IF ~c2.ok THEN [ok |-> FALSE, b1 |-> b1, b2 |-> b2]
           ELSE IF ~c3.ok THEN [ok |-> FALSE, b1 |-> c2.bn, b2 |-> b2]
           ELSE [ok |-> TRUE, b1 |-> c2.bn, b2 |-> c3.bn]

(* Mutation: BN_swap exchanging the whole structs, dmax and flags too. *)
BN_swap_structs(b1, b2) ==
  IF IsStatic(b1) THEN [ok |-> FALSE, b1 |-> b1, b2 |-> b2]
  ELSE [ok |-> TRUE, b1 |-> b2, b2 |-> b1]

(* BN_swap through a standard-size BIGNUM tmp: three BN_copy calls, each   *)
(* made only if the previous one succeeded.  The REQUIRES tests bignum1's  *)
(* flags twice and bignum2's never.  The ENSURES_V failure is invisible to *)
(* the caller (the function is void); ok records it.                       *)
BN_swap(b1, b2) ==
  IF IsStatic(b1) THEN [ok |-> FALSE, b1 |-> b1, b2 |-> b2]
  ELSE LET c1 == BN_copy(BN_init, b1)
           c2 == BN_copy(b1, b2)
           c3 == BN_copy(b2, c1.bn)
       IN  IF ~c1.ok THEN [ok |-> FALSE, b1 |-> b1, b2 |-> b2]
           ELSE IF ~c2.ok THEN [ok |-> FALSE, b1 |-> b1, b2 |-> b2]
           ELSE IF ~c3.ok THEN [ok |-> FALSE, b1 |-> c2.bn, b2 |-> b2]
           ELSE [ok |-> TRUE, b1 |-> c2.bn, b2 |-> c3.bn]

BN_get_word(b) ==
  IF ~sanityCheckBignum(b) \/ b.top > 1 THEN BN_NAN
  ELSE IF b.top < 1 THEN 0 ELSE b.d[0]

BN_set_word(b, word) ==
  IF ~sanityCheckBignum(b) \/ IsStatic(b) THEN [ok |-> FALSE, bn |-> b]
  ELSE [ok |-> TRUE,
        bn |-> [BN_clear(b) EXCEPT !.d[0] = word,
                                   !.top = IF word # 0 THEN 1 ELSE 0]]

(* BN_num_bits_word: after i passes of the loop value is word \div 2^i, so *)
(* the loop stops at the least i at which that is 0, or at 128; the        *)
(* ENSURES turns 128 into an error status (negative).                      *)
BN_num_bits_word(word) ==
  LET i == CHOOSE n \in 0 .. 128 :
             /\ n = 128 \/ word \div 2 ^ n = 0
             /\ \A k \in 0 .. n - 1 : word \div 2 ^ k # 0
  IN  IF i < 128 THEN i ELSE -1

(* An insane bignum makes the REQUIRES return an error status (negative), *)
(* and an error of BN_num_bits_word is passed on.                          *)
BN_num_bits(b) ==
  IF ~sanityCheckBignum(b) THEN -1
  ELSE IF b.top <= 0 THEN 0
  ELSE LET bits == BN_num_bits_word(b.d[b.top - 1])
       IN  IF bits < 0 THEN bits ELSE (b.top - 1) * WordBits + bits

(* Mutation: BN_set_bit extending top without zeroing the words it takes in. *)
BN_set_bit_noZero(b, bitNo) ==
  LET wordIndex == bitNo \div WordBits
      bitIndex == bitNo % WordBits
  IN  IF \/ ~sanityCheckBignum(b) \/ IsStatic(b)
         \/ bitNo < 0 \/ bitNo >= b.dmax * WordBits
        THEN [ok |-> FALSE, bn |-> b]
      ELSE IF b.top < wordIndex + 1 /\ wordIndex + 1 >= getBNMaxSize(b)
        THEN [ok |-> FALSE, bn |-> b]
      ELSE [ok |-> TRUE,
            bn |-> [b EXCEPT !.d[wordIndex] = IF Bit(b.d[wordIndex], bitIndex)
                                               THEN b.d[wordIndex]
                                               ELSE b.d[wordIndex] + 2 ^ bitIndex,
                             !.top = IF b.top < wordIndex + 1 THEN wordIndex + 1
                                                              ELSE b.top]]

(* d[wordIndex] |= 1 << bitIndex *)
OrBit(w, bitIndex) == IF Bit(w, bitIndex) THEN w ELSE w + 2 ^ bitIndex

(* BN_set_bit: when extending, zero d[top .. wordIndex]; the ENSURES then  *)
(* requires the loop index wordIndex + 1 to stay below getBNMaxSize.       *)
BN_set_bit(b, bitNo) ==
  LET wordIndex == bitNo \div WordBits
      bitIndex == bitNo % WordBits
      zeroed == [i \in Index |-> IF b.top <= i /\ i <= wordIndex THEN 0
                                                                   ELSE b.d[i]]
  IN  IF \/ ~sanityCheckBignum(b) \/ IsStatic(b)
         \/ bitNo < 0 \/ bitNo >= b.dmax * WordBits
        THEN [ok |-> FALSE, bn |-> b]
      ELSE IF b.top < wordIndex + 1 /\ wordIndex + 1 >= getBNMaxSize(b)
        THEN [ok |-> FALSE, bn |-> [b EXCEPT !.d = zeroed]]
      ELSE IF b.top < wordIndex + 1
        THEN [ok |-> TRUE,
              bn |-> [b EXCEPT !.d = [zeroed EXCEPT ![wordIndex] =
                                         OrBit(zeroed[wordIndex], bitIndex)],
                               !.top = wordIndex + 1]]
      ELSE [ok |-> TRUE,
            bn |-> [b EXCEPT !.d[wordIndex] = OrBit(b.d[wordIndex], bitIndex)]]

(* Mutation: the test against top off by one, reading the word at top. *)
BN_is_bit_set_pastTop(b, bitNo) ==
  IF ~sanityCheckBignum(b) \/ bitNo >= b.dmax * WordBits THEN FALSE
  ELSE IF bitNo < 0 THEN FALSE
  ELSE IF bitNo \div WordBits > b.top THEN FALSE
  ELSE Bit(b.d[bitNo \div WordBits], bitNo % WordBits)

BN_is_bit_set(b, bitNo) ==
  IF ~sanityCheckBignum(b) \/ bitNo >= b.dmax * WordBits THEN FALSE
  ELSE IF bitNo < 0 THEN FALSE
  ELSE IF bitNo \div WordBits >= b.top THEN FALSE
  ELSE Bit(b.d[bitNo \div WordBits], bitNo % WordBits)

(* BN_num_bytes, the macro BN_high_bit starts from. *)
BN_num_bytes(b) == (BN_num_bits(b) + ByteBits - 1) \div ByteBits

BN_high_bit(b) ==
  LET noBytes == BN_num_bytes(b) - 1
      highWord == b.d[noBytes \div WordBytes]
      highByte == highWord \div 2 ^ ((noBytes % WordBytes) * ByteBits)
  IN  IF ~sanityCheckBignum(b) \/ noBytes < 0 THEN FALSE
      ELSE Bit(highByte, ByteBits - 1)

BN_set_negative(b, value) == IF b.top = 0 THEN b ELSE [b EXCEPT !.neg = value]

(* Mutation: BN_normalise dropping at most one zero word (if for while). *)
BN_normalise_once(b) ==
  LET newTop == IF b.top > 0 /\ b.d[b.top - 1] = 0 THEN b.top - 1 ELSE b.top
  IN  [ok |-> TRUE, bn |-> [b EXCEPT !.top = newTop]]

(* BN_normalise: drop zero words below top, counting them against the      *)
(* bound getBNMaxSize; the ENSURES fails if the count reaches the bound.   *)
BN_normalise(b) ==
  LET newTop == CHOOSE t \in 0 .. b.top :
                  /\ \A i \in t .. b.top - 1 : b.d[i] = 0
                  /\ t = 0 \/ b.d[t - 1] # 0
  IN  IF ~sanityCheckBignum(b) THEN [ok |-> FALSE, bn |-> b]
      ELSE IF b.top = 0 THEN [ok |-> TRUE, bn |-> b]
      ELSE [ok |-> b.top - newTop < getBNMaxSize(b),
            bn |-> [b EXCEPT !.top = newTop]]

=============================================================================
