----------------------------- MODULE MCAesPeriph -----------------------------
(* Three blocks, two keys, and two permutations as the block cipher, one of *)
(* them not its own inverse.  (b - a) mod 3 undoes itself, as exclusive or  *)
(* does.                                                                    *)
EXTENDS AesPeriph, Naturals, Sequences

MCBlock == 0 .. 2
MCKey   == {"k0", "k1"}

MCXor(a, b) == (b + 3 - a) % 3
MCInc(b)    == (b + 1) % 3

Permutation(k) == IF k = "k0" THEN <<1, 2, 0>> ELSE <<0, 2, 1>>
MCCipher(decrypt, k, b) ==
  IF decrypt THEN CHOOSE c \in MCBlock : Permutation(k)[c + 1] = b ELSE Permutation(k)[b + 1]
=============================================================================
