------------------------------- MODULE Filter ------------------------------
(***************************************************************************)
(* Samples as machine words: sr_filter_probes() of libsigrok/filter.c,     *)
(* which packs the enabled probes, and the words the C code reads samples  *)
(* into.  A sample is the set of its bits that are 1.  Bytes, ints and     *)
(* 64-bit words are scaled down together.                                  *)
(***************************************************************************)
EXTENDS Integers, Sequences

CONSTANTS ByteBits, IntBits, WordBits

FilterAssumption ==
    /\ ByteBits \in Nat \ {0} /\ IntBits \in Nat \ {0} /\ WordBits \in Nat
    /\ IntBits < WordBits

\* (1 << k) is an int: the sign bit is extended when it meets a uint64_t, and
\* a shift by the width or more, which C leaves undefined, is taken modulo the
\* width, as the processors do.
Mask(k) ==
    LET bit == k % IntBits
    IN IF bit = IntBits - 1 THEN bit .. WordBits - 1 ELSE {bit}

\* memcpy() fills unitsize bytes of a word that was not initialized.
Garbage(unitsize) == SUBSET (unitsize * ByteBits .. WordBits - 1)

\* Is bit k set, as the code tests it?
Tests(word, k) == word \cap Mask(k) # {}

\* The bits of the probes in the list (1-based) move to the low end.
Packed(sample, probelist, out_unitsize) ==
    (UNION {Mask(b - 1) : b \in {b \in DOMAIN probelist :
                                    Tests(sample, probelist[b] - 1)}})
    \cap (0 .. out_unitsize * ByteBits - 1)

\* With all probes enabled the data is copied, as it is.  (Too many probes for
\* the unit size are refused: the callers compute it from the list.)
FilterProbes(in_unitsize, out_unitsize, probelist, data, garbage) ==
    IF Len(probelist) = in_unitsize * ByteBits THEN data
    ELSE [i \in DOMAIN data |->
             Packed(data[i] \cup garbage, probelist, out_unitsize)]
=============================================================================
