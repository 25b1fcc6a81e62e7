----------------------------- MODULE AesReference -----------------------------
(***************************************************************************)
(* The reference model of AES-128 that the differential test computes its  *)
(* expectations with (diff_sim_main.cpp): every table from its definition  *)
(* in GF(2^8), the key schedule by words, the cipher and its inverse round *)
(* by round.  Nothing but the representation of bytes is shared with the   *)
(* functions of the design (AesPkg).                                       *)
(***************************************************************************)
EXTENDS AesPkg

xtime(a) == IF a >= 128 THEN (2 * a - 256) \oplus 27 ELSE 2 * a

gmul(a, b) ==
  LET shift_add[x \in Byte, y \in Byte] ==
        IF y = 0 THEN 0
        ELSE (IF y % 2 = 1 THEN x ELSE 0) \oplus shift_add[xtime(x), y \div 2]
  IN  shift_add[a, b]

x8(a)    == xtime(xtime(xtime(a)))
mul9(a)  == x8(a) \oplus a
mul11(a) == x8(a) \oplus xtime(a) \oplus a
mul13(a) == x8(a) \oplus xtime(xtime(a)) \oplus a
mul14(a) == x8(a) \oplus xtime(xtime(a)) \oplus xtime(a)

-----------------------------------------------------------------------------
(* Tables.  The affine map adds five bits of the inverse, and one of 63.   *)

inverse ==
  tabulated([a \in Byte |-> IF a = 0 THEN 0 ELSE CHOOSE b \in Byte : gmul(a, b) = 1])

bit_of(a, i) == (a \div 2^i) % 2
affine(b) ==
  LET bit(i) == (bit_of(b, i) + bit_of(b, (i + 4) % 8) + bit_of(b, (i + 5) % 8)
                 + bit_of(b, (i + 6) % 8) + bit_of(b, (i + 7) % 8) + bit_of(\h63, i)) % 2
  IN  bit(0) + 2 * bit(1) + 4 * bit(2) + 8 * bit(3)
      + 16 * bit(4) + 32 * bit(5) + 64 * bit(6) + 128 * bit(7)

sbox     == tabulated([a \in Byte |-> affine(inverse[a])])
inv_sbox == tabulated([s \in Byte |-> CHOOSE a \in Byte : sbox[a] = s])
rcon[i \in 1 .. 10] == IF i = 1 THEN 1 ELSE gmul(rcon[i - 1], 2)

-----------------------------------------------------------------------------
(* Key schedule: 44 words of four bytes, w[i] in place i + 1.              *)

next_word(w) ==
  LET i    == Len(w)
      last == w[i]
      temp == IF i % 4 # 0 THEN last    \* else RotWord, SubWord and the round constant
              ELSE <<sbox[last[2]] \oplus rcon[i \div 4], sbox[last[3]], sbox[last[4]],
                     sbox[last[1]]>>
      old  == w[i - 3]
  IN  <<old[1] \oplus temp[1], old[2] \oplus temp[2], old[3] \oplus temp[3], old[4] \oplus temp[4]>>

key_expansion(key) ==
  LET schedule[i \in 4 .. 44] ==    \* the first i words
        IF i = 4 THEN [j \in 1 .. 4 |-> <<key[4 * j - 3], key[4 * j - 2], key[4 * j - 1], key[4 * j]>>]
        ELSE LET w == schedule[i - 1] IN Append(w, next_word(w))
  IN  schedule[44]

round_key(w, round) == w[4 * round + 1] \o w[4 * round + 2] \o w[4 * round + 3] \o w[4 * round + 4]

-----------------------------------------------------------------------------
(* The layers of a round; byte r + 4c of a state is its row r, column c.   *)

Sc(s, r, c) == s[r + 4 * c + 1]

sub_bytes(s)     == LET f(i) == sbox[s[i + 1]] IN EachByte(f)
inv_sub_bytes(s) == LET f(i) == inv_sbox[s[i + 1]] IN EachByte(f)
shift_rows(s)    == LET f(i) == Sc(s, i % 4, ((i \div 4) + (i % 4)) % 4) IN EachByte(f)
inv_shift_rows(s) ==
  LET f(i) == Sc(s, i % 4, ((i \div 4) + 4 - (i % 4)) % 4) IN EachByte(f)
add_round_key(s, w, round) == XorState(s, round_key(w, round))

mixed_column(s, c) ==
  LET s0 == Sc(s, 0, c)  s1 == Sc(s, 1, c)  s2 == Sc(s, 2, c)  s3 == Sc(s, 3, c)
  IN  <<gmul(s0, 2) \oplus gmul(s1, 3) \oplus s2 \oplus s3,
        s0 \oplus gmul(s1, 2) \oplus gmul(s2, 3) \oplus s3,
        s0 \oplus s1 \oplus gmul(s2, 2) \oplus gmul(s3, 3),
        gmul(s0, 3) \oplus s1 \oplus s2 \oplus gmul(s3, 2)>>
mix_columns(s) ==
  mixed_column(s, 0) \o mixed_column(s, 1) \o mixed_column(s, 2) \o mixed_column(s, 3)

unmixed_column(s, c) ==
  LET s0 == Sc(s, 0, c)  s1 == Sc(s, 1, c)  s2 == Sc(s, 2, c)  s3 == Sc(s, 3, c)
  IN  <<mul14(s0) \oplus mul11(s1) \oplus mul13(s2) \oplus mul9(s3),
        mul9(s0)  \oplus mul14(s1) \oplus mul11(s2) \oplus mul13(s3),
        mul13(s0) \oplus mul9(s1)  \oplus mul14(s2) \oplus mul11(s3),
        mul11(s0) \oplus mul13(s1) \oplus mul9(s2)  \oplus mul14(s3)>>
inv_mix_columns(s) ==
  unmixed_column(s, 0) \o unmixed_column(s, 1) \o unmixed_column(s, 2) \o unmixed_column(s, 3)

-----------------------------------------------------------------------------
(* The rounds from the given one on, with the key schedule w.              *)
rounds(w) ==
  LET from[s \in State, round \in 1 .. 10] ==
        IF round = 10 THEN add_round_key(shift_rows(sub_bytes(s)), w, 10)
        ELSE from[add_round_key(mix_columns(shift_rows(sub_bytes(s))), w, round), round + 1]
  IN  from
inv_rounds(w) ==
  LET undo(s, round) == add_round_key(inv_sub_bytes(inv_shift_rows(s)), w, round)
      from[s \in State, round \in 0 .. 9] ==
        IF round = 0 THEN undo(s, 0) ELSE from[inv_mix_columns(undo(s, round)), round - 1]
  IN  from

encrypt_with(pt, w) == rounds(w)[add_round_key(pt, w, 0), 1]
decrypt_with(ct, w) == inv_rounds(w)[add_round_key(ct, w, 10), 9]
encrypt(pt, key) == encrypt_with(pt, key_expansion(key))
decrypt(ct, key) == decrypt_with(ct, key_expansion(key))

-----------------------------------------------------------------------------
(* The functions of the design are those of the reference, on a byte and   *)
(* on states made of it: in one place (the layers are linear), and, to     *)
(* tell the places apart, counted up from it.                              *)
ByteAgrees(b) ==
  /\ aes_sbox_fwd(b) = sbox[b] /\ aes_sbox_inv(b) = inv_sbox[b]
  /\ aes_gmul2(b) = gmul(b, 2) /\ aes_gmul3(b) = gmul(b, 3)
  /\ aes_gmul9(b) = gmul(b, 9) /\ aes_gmul11(b) = gmul(b, 11)
  /\ aes_gmul13(b) = gmul(b, 13) /\ aes_gmul14(b) = gmul(b, 14)

LayersAgree(b) ==
  /\ \A i \in 0 .. 15 :
       LET f(j) == IF j = i THEN b ELSE 0
           s == EachByte(f)
       IN  /\ aes_mix_columns(s) = mix_columns(s)
           /\ aes_inv_mix_columns(s) = inv_mix_columns(s)
           /\ inv_mix_columns(mix_columns(s)) = s
  /\ LET f(i) == (i + b) % 256
         s == EachByte(f)
     IN  /\ aes_shift_rows(s) = shift_rows(s) /\ aes_inv_shift_rows(s) = inv_shift_rows(s)
         /\ inv_shift_rows(shift_rows(s)) = s

-----------------------------------------------------------------------------
(* The published answers in the AES test programs: FIPS-197, appendices B, *)
(* C.1 and (the round keys of KeyC) A.1; SP 800-38A, F.2.1 (CBC) and F.5.1 *)
(* (CTR), whose key is KeyB.                                               *)
KeyB ==
  <<\h2b, \h7e, \h15, \h16, \h28, \hae, \hd2, \ha6,
    \hab, \hf7, \h15, \h88, \h09, \hcf, \h4f, \h3c>>
PlainB ==
  <<\h32, \h43, \hf6, \ha8, \h88, \h5a, \h30, \h8d,
    \h31, \h31, \h98, \ha2, \he0, \h37, \h07, \h34>>
CipherB ==
  <<\h39, \h25, \h84, \h1d, \h02, \hdc, \h09, \hfb,
    \hdc, \h11, \h85, \h97, \h19, \h6a, \h0b, \h32>>
KeyC == <<0, 1, 2, 3, 4, 5, 6, 7, 8, 9, 10, 11, 12, 13, 14, 15>>
PlainC ==
  <<\h00, \h11, \h22, \h33, \h44, \h55, \h66, \h77,
    \h88, \h99, \haa, \hbb, \hcc, \hdd, \hee, \hff>>
CipherC ==
  <<\h69, \hc4, \he0, \hd8, \h6a, \h7b, \h04, \h30,
    \hd8, \hcd, \hb7, \h80, \h70, \hb4, \hc5, \h5a>>
CounterIv ==
  <<\hf0, \hf1, \hf2, \hf3, \hf4, \hf5, \hf6, \hf7,
    \hf8, \hf9, \hfa, \hfb, \hfc, \hfd, \hfe, \hff>>
PlainNist == <<
  <<\h6b, \hc1, \hbe, \he2, \h2e, \h40, \h9f, \h96,
    \he9, \h3d, \h7e, \h11, \h73, \h93, \h17, \h2a>>,
  <<\hae, \h2d, \h8a, \h57, \h1e, \h03, \hac, \h9c,
    \h9e, \hb7, \h6f, \hac, \h45, \haf, \h8e, \h51>>,
  <<\h30, \hc8, \h1c, \h46, \ha3, \h5c, \he4, \h11,
    \he5, \hfb, \hc1, \h19, \h1a, \h0a, \h52, \hef>>,
  <<\hf6, \h9f, \h24, \h45, \hdf, \h4f, \h9b, \h17,
    \had, \h2b, \h41, \h7b, \he6, \h6c, \h37, \h10>>>>
CbcNist == <<
  <<\h76, \h49, \hab, \hac, \h81, \h19, \hb2, \h46,
    \hce, \he9, \h8e, \h9b, \h12, \he9, \h19, \h7d>>,
  <<\h50, \h86, \hcb, \h9b, \h50, \h72, \h19, \hee,
    \h95, \hdb, \h11, \h3a, \h91, \h76, \h78, \hb2>>,
  <<\h73, \hbe, \hd6, \hb8, \he3, \hc1, \h74, \h3b,
    \h71, \h16, \he6, \h9e, \h22, \h22, \h95, \h16>>,
  <<\h3f, \hf1, \hca, \ha1, \h68, \h1f, \hac, \h09,
    \h12, \h0e, \hca, \h30, \h75, \h86, \he1, \ha7>>>>
CtrNist == <<
  <<\h87, \h4d, \h61, \h91, \hb6, \h20, \he3, \h26,
    \h1b, \hef, \h68, \h64, \h99, \h0d, \hb6, \hce>>,
  <<\h98, \h06, \hf6, \h6b, \h79, \h70, \hfd, \hff,
    \h86, \h17, \h18, \h7b, \hb9, \hff, \hfd, \hff>>,
  <<\h5a, \he4, \hdf, \h3e, \hdb, \hd5, \hd3, \h5e,
    \h5b, \h4f, \h09, \h02, \h0d, \hb0, \h3e, \hab>>,
  <<\h1e, \h03, \h1d, \hda, \h2f, \hbe, \h03, \hd1,
    \h79, \h21, \h70, \ha0, \hf3, \h00, \h9c, \hee>>>>
RoundKeysC == <<
  <<\h00, \h01, \h02, \h03, \h04, \h05, \h06, \h07,
    \h08, \h09, \h0a, \h0b, \h0c, \h0d, \h0e, \h0f>>,
  <<\hd6, \haa, \h74, \hfd, \hd2, \haf, \h72, \hfa,
    \hda, \ha6, \h78, \hf1, \hd6, \hab, \h76, \hfe>>,
  <<\hb6, \h92, \hcf, \h0b, \h64, \h3d, \hbd, \hf1,
    \hbe, \h9b, \hc5, \h00, \h68, \h30, \hb3, \hfe>>,
  <<\hb6, \hff, \h74, \h4e, \hd2, \hc2, \hc9, \hbf,
    \h6c, \h59, \h0c, \hbf, \h04, \h69, \hbf, \h41>>,
  <<\h47, \hf7, \hf7, \hbc, \h95, \h35, \h3e, \h03,
    \hf9, \h6c, \h32, \hbc, \hfd, \h05, \h8d, \hfd>>,
  <<\h3c, \haa, \ha3, \he8, \ha9, \h9f, \h9d, \heb,
    \h50, \hf3, \haf, \h57, \had, \hf6, \h22, \haa>>,
  <<\h5e, \h39, \h0f, \h7d, \hf7, \ha6, \h92, \h96,
    \ha7, \h55, \h3d, \hc1, \h0a, \ha3, \h1f, \h6b>>,
  <<\h14, \hf9, \h70, \h1a, \he3, \h5f, \he2, \h8c,
    \h44, \h0a, \hdf, \h4d, \h4e, \ha9, \hc0, \h26>>,
  <<\h47, \h43, \h87, \h35, \ha4, \h1c, \h65, \hb9,
    \he0, \h16, \hba, \hf4, \hae, \hbf, \h7a, \hd2>>,
  <<\h54, \h99, \h32, \hd1, \hf0, \h85, \h57, \h68,
    \h10, \h93, \hed, \h9c, \hbe, \h2c, \h97, \h4e>>,
  <<\h13, \h11, \h1d, \h7f, \he3, \h94, \h4a, \h17,
    \hf3, \h07, \ha7, \h8b, \h4d, \h2b, \h30, \hc5>>>>
=============================================================================
