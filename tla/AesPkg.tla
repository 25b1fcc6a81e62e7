-------------------------------- MODULE AesPkg --------------------------------
(***************************************************************************)
(* The combinational AES-128 functions: the S-box tables and the GF(2^8)   *)
(* multiplications of aes_pkg.vh, and the round transforms and key         *)
(* schedule step of aes_core.v and aes_key_expand.v.  A byte is a number   *)
(* in 0..255, a 128-bit word a tuple of 16 bytes, byte 0 first.            *)
(***************************************************************************)
EXTENDS Integers, Sequences, TLC

Byte  == 0 .. 255
State == [1 .. 16 -> Byte]

tabulated(f) == f @@ << >>    \* f itself, which TLC then evaluates once everywhere

(* Bitwise exclusive or of bytes, from that of four bits: row a + 1,       *)
(* column b + 1 of a table (a tuple, which TLC evaluates once).            *)
NibbleXor ==
  LET bit(a, b, i) == (a \div i + b \div i) % 2
      xor(a, b) == bit(a, b, 1) + 2 * bit(a, b, 2) + 4 * bit(a, b, 4) + 8 * bit(a, b, 8)
  IN  [a \in 1 .. 16 |-> [b \in 1 .. 16 |-> xor(a - 1, b - 1)] \o << >>] \o << >>
a \oplus b ==
  16 * NibbleXor[(a \div 16) + 1][(b \div 16) + 1] + NibbleXor[(a % 16) + 1][(b % 16) + 1]

-----------------------------------------------------------------------------
(* S-boxes, as the code's tables. *)

sboxFwdTable == <<
  \h63, \h7c, \h77, \h7b, \hf2, \h6b, \h6f, \hc5, \h30, \h01, \h67, \h2b, \hfe, \hd7, \hab, \h76,
  \hca, \h82, \hc9, \h7d, \hfa, \h59, \h47, \hf0, \had, \hd4, \ha2, \haf, \h9c, \ha4, \h72, \hc0,
  \hb7, \hfd, \h93, \h26, \h36, \h3f, \hf7, \hcc, \h34, \ha5, \he5, \hf1, \h71, \hd8, \h31, \h15,
  \h04, \hc7, \h23, \hc3, \h18, \h96, \h05, \h9a, \h07, \h12, \h80, \he2, \heb, \h27, \hb2, \h75,
  \h09, \h83, \h2c, \h1a, \h1b, \h6e, \h5a, \ha0, \h52, \h3b, \hd6, \hb3, \h29, \he3, \h2f, \h84,
  \h53, \hd1, \h00, \hed, \h20, \hfc, \hb1, \h5b, \h6a, \hcb, \hbe, \h39, \h4a, \h4c, \h58, \hcf,
  \hd0, \hef, \haa, \hfb, \h43, \h4d, \h33, \h85, \h45, \hf9, \h02, \h7f, \h50, \h3c, \h9f, \ha8,
  \h51, \ha3, \h40, \h8f, \h92, \h9d, \h38, \hf5, \hbc, \hb6, \hda, \h21, \h10, \hff, \hf3, \hd2,
  \hcd, \h0c, \h13, \hec, \h5f, \h97, \h44, \h17, \hc4, \ha7, \h7e, \h3d, \h64, \h5d, \h19, \h73,
  \h60, \h81, \h4f, \hdc, \h22, \h2a, \h90, \h88, \h46, \hee, \hb8, \h14, \hde, \h5e, \h0b, \hdb,
  \he0, \h32, \h3a, \h0a, \h49, \h06, \h24, \h5c, \hc2, \hd3, \hac, \h62, \h91, \h95, \he4, \h79,
  \he7, \hc8, \h37, \h6d, \h8d, \hd5, \h4e, \ha9, \h6c, \h56, \hf4, \hea, \h65, \h7a, \hae, \h08,
  \hba, \h78, \h25, \h2e, \h1c, \ha6, \hb4, \hc6, \he8, \hdd, \h74, \h1f, \h4b, \hbd, \h8b, \h8a,
  \h70, \h3e, \hb5, \h66, \h48, \h03, \hf6, \h0e, \h61, \h35, \h57, \hb9, \h86, \hc1, \h1d, \h9e,
  \he1, \hf8, \h98, \h11, \h69, \hd9, \h8e, \h94, \h9b, \h1e, \h87, \he9, \hce, \h55, \h28, \hdf,
  \h8c, \ha1, \h89, \h0d, \hbf, \he6, \h42, \h68, \h41, \h99, \h2d, \h0f, \hb0, \h54, \hbb, \h16 >>

sboxInvTable == <<
  \h52, \h09, \h6a, \hd5, \h30, \h36, \ha5, \h38, \hbf, \h40, \ha3, \h9e, \h81, \hf3, \hd7, \hfb,
  \h7c, \he3, \h39, \h82, \h9b, \h2f, \hff, \h87, \h34, \h8e, \h43, \h44, \hc4, \hde, \he9, \hcb,
  \h54, \h7b, \h94, \h32, \ha6, \hc2, \h23, \h3d, \hee, \h4c, \h95, \h0b, \h42, \hfa, \hc3, \h4e,
  \h08, \h2e, \ha1, \h66, \h28, \hd9, \h24, \hb2, \h76, \h5b, \ha2, \h49, \h6d, \h8b, \hd1, \h25,
  \h72, \hf8, \hf6, \h64, \h86, \h68, \h98, \h16, \hd4, \ha4, \h5c, \hcc, \h5d, \h65, \hb6, \h92,
  \h6c, \h70, \h48, \h50, \hfd, \hed, \hb9, \hda, \h5e, \h15, \h46, \h57, \ha7, \h8d, \h9d, \h84,
  \h90, \hd8, \hab, \h00, \h8c, \hbc, \hd3, \h0a, \hf7, \he4, \h58, \h05, \hb8, \hb3, \h45, \h06,
  \hd0, \h2c, \h1e, \h8f, \hca, \h3f, \h0f, \h02, \hc1, \haf, \hbd, \h03, \h01, \h13, \h8a, \h6b,
  \h3a, \h91, \h11, \h41, \h4f, \h67, \hdc, \hea, \h97, \hf2, \hcf, \hce, \hf0, \hb4, \he6, \h73,
  \h96, \hac, \h74, \h22, \he7, \had, \h35, \h85, \he2, \hf9, \h37, \he8, \h1c, \h75, \hdf, \h6e,
  \h47, \hf1, \h1a, \h71, \h1d, \h29, \hc5, \h89, \h6f, \hb7, \h62, \h0e, \haa, \h18, \hbe, \h1b,
  \hfc, \h56, \h3e, \h4b, \hc6, \hd2, \h79, \h20, \h9a, \hdb, \hc0, \hfe, \h78, \hcd, \h5a, \hf4,
  \h1f, \hdd, \ha8, \h33, \h88, \h07, \hc7, \h31, \hb1, \h12, \h10, \h59, \h27, \h80, \hec, \h5f,
  \h60, \h51, \h7f, \ha9, \h19, \hb5, \h4a, \h0d, \h2d, \he5, \h7a, \h9f, \h93, \hc9, \h9c, \hef,
  \ha0, \he0, \h3b, \h4d, \hae, \h2a, \hf5, \hb0, \hc8, \heb, \hbb, \h3c, \h83, \h53, \h99, \h61,
  \h17, \h2b, \h04, \h7e, \hba, \h77, \hd6, \h26, \he1, \h69, \h14, \h63, \h55, \h21, \h0c, \h7d >>

aes_sbox_fwd(a) == sboxFwdTable[a + 1]
aes_sbox_inv(a) == sboxInvTable[a + 1]

-----------------------------------------------------------------------------
(* Multiplication by the constants of MixColumns and InvMixColumns. *)

aes_xtime(a) == IF a >= 128 THEN ((2 * a) % 256) \oplus 27 ELSE 2 * a

aes_gmul2(a)  == aes_xtime(a)
aes_gmul3(a)  == aes_xtime(a) \oplus a
xtime4(a)     == aes_xtime(aes_xtime(a))
xtime8(a)     == aes_xtime(xtime4(a))
aes_gmul9(a)  == xtime8(a) \oplus a

(* The operators named Bad... are faulty variants, never part of the model: *)
(* each is a plausible slip that one of the properties must catch.          *)
BadGmul11(a)  == xtime8(a) \oplus xtime4(a) \oplus a     \* the product with 13
aes_gmul11(a) == xtime8(a) \oplus aes_xtime(a) \oplus a
aes_gmul13(a) == xtime8(a) \oplus xtime4(a) \oplus a
aes_gmul14(a) == xtime8(a) \oplus xtime4(a) \oplus aes_xtime(a)

-----------------------------------------------------------------------------
(* Round transforms. *)

byte_at(s, i) == s[i + 1]
EachByte(f(_)) == <<f(0), f(1), f(2), f(3), f(4), f(5), f(6), f(7),
                    f(8), f(9), f(10), f(11), f(12), f(13), f(14), f(15)>>

XorState(s, t) == LET f(i) == byte_at(s, i) \oplus byte_at(t, i) IN EachByte(f)

aes_sub_bytes(s)     == LET f(i) == aes_sbox_fwd(byte_at(s, i)) IN EachByte(f)
aes_inv_sub_bytes(s) == LET f(i) == aes_sbox_inv(byte_at(s, i)) IN EachByte(f)

(* out_byte[i] = in_byte[fwd[i]], with the code's permutations.            *)
shiftRowsFrom    == <<0, 5, 10, 15, 4, 9, 14, 3, 8, 13, 2, 7, 12, 1, 6, 11>>
invShiftRowsFrom == <<0, 13, 10, 7, 4, 1, 14, 11, 8, 5, 2, 15, 12, 9, 6, 3>>

aes_shift_rows(s)     == LET f(i) == byte_at(s, shiftRowsFrom[i + 1]) IN EachByte(f)
aes_inv_shift_rows(s) == LET f(i) == byte_at(s, invShiftRowsFrom[i + 1]) IN EachByte(f)

(* One byte of a mixed column: its own byte first, then the three below it *)
(* in the column, cyclically.                                              *)
MixByte(a, b, c, d)    == aes_gmul2(a) \oplus aes_gmul3(b) \oplus c \oplus d
InvMixByte(a, b, c, d) ==
  aes_gmul14(a) \oplus aes_gmul11(b) \oplus aes_gmul13(c) \oplus aes_gmul9(d)

Below(i, n) == 4 * (i \div 4) + ((i + n) % 4)
aes_mix_columns(s) ==
  LET f(i) == MixByte(byte_at(s, i), byte_at(s, Below(i, 1)),
                   byte_at(s, Below(i, 2)), byte_at(s, Below(i, 3)))
  IN  EachByte(f)
aes_inv_mix_columns(s) ==
  LET f(i) == InvMixByte(byte_at(s, i), byte_at(s, Below(i, 1)),
                   byte_at(s, Below(i, 2)), byte_at(s, Below(i, 3)))
  IN  EachByte(f)

-----------------------------------------------------------------------------
(* Key schedule: the round key after prev, for round r of 1..10. *)

rcon_byte(r) == <<1, 2, 4, 8, 16, 32, 64, 128, 27, 54>>[r]

(* Word j of the next key is word j of the previous one xor the next word  *)
(* j-1; word 0 takes the rotated, substituted word 3 and the constant.     *)
NextRoundKey(prev, r) ==
  LET g(k)  == aes_sbox_fwd(byte_at(prev, 12 + ((k + 1) % 4)))
               \oplus (IF k = 0 THEN rcon_byte(r) ELSE 0)
      w0(k) == byte_at(prev, k) \oplus g(k)
      w1(k) == byte_at(prev, 4 + k) \oplus w0(k)
      w2(k) == byte_at(prev, 8 + k) \oplus w1(k)
      w3(k) == byte_at(prev, 12 + k) \oplus w2(k)
  IN  <<w0(0), w0(1), w0(2), w0(3), w1(0), w1(1), w1(2), w1(3),
        w2(0), w2(1), w2(2), w2(3), w3(0), w3(1), w3(2), w3(3)>>
=============================================================================
