------------------------------ MODULE MCAesCore ------------------------------
(* The AES on real bytes, three ways: a walk over the bytes that compares   *)
(* the functions of the design with those of the reference model; the core  *)
(* driven at will with the operands of FIPS-197, appendices B (both         *)
(* directions) and C.1; the modes under the test programs (AesBench).       *)
EXTENDS AesCore, AesReference

VARIABLES
  test, byte,
  op, core_done, core_out, chain_state, mode_reg, encdec_reg, data_in_reg, iv_reg,
  data_out_reg, done_reg, taken, key_reg, data_reg, per_iv, status_done, irq_pulse,
  cleared, iv_use, dut, call, n, phase

benchVars == <<op, core_done, core_out, chain_state, mode_reg, encdec_reg, data_in_reg,
               iv_reg, data_out_reg, done_reg, taken, key_reg, data_reg, per_iv,
               status_done, irq_pulse, cleared, iv_use, dut, call, n, phase>>

MCInc(b) ==    \* 128-bit increment, the last byte the lowest
  LET f(i) == IF \A j \in i + 2 .. 16 : b[j] = 255 THEN (b[i + 1] + 1) % 256 ELSE b[i + 1]
  IN  EachByte(f)

Bench == INSTANCE AesBench WITH
  Block <- State, Key <- State, Cipher <- CipherOf, Xor <- XorState, Inc <- MCInc,
  ZeroKey <- Zero, ZeroBlock <- Zero, DataIn <- {}, Ivs <- {},
  Oracle <- encrypt, None <- NoBlock

MCInit ==
  /\ test \in {"bytes", "core", "programs"} /\ byte = 0
  /\ CoreInit /\ Bench!BenchInit
  /\ test # "programs" => dut = "aes"
MCNext ==
  \/ /\ test = "bytes" /\ byte' = (byte + 1) % 256
     /\ UNCHANGED <<test, coreVars, benchVars>>
  \/ test = "core" /\ CoreNext /\ UNCHANGED <<test, byte, benchVars>>
  \/ test = "programs" /\ Bench!BenchNext /\ UNCHANGED <<test, byte, coreVars>>
MCSpec == MCInit /\ [][MCNext]_<<test, byte, coreVars, benchVars>>

MCKeys == {KeyB, KeyC}
MCData == {PlainB, CipherB, CipherC}

(* An operation of the core gives the answer of the reference model, which *)
(* is the published one where there is one, and has expanded its key into  *)
(* the round keys of the reference.                                        *)
CoreAnswers ==
  done =>
    /\ data_out = IF job.decrypt THEN decrypt(job.data, job.key) ELSE encrypt(job.data, job.key)
    /\ \A v \in {<<KeyB, PlainB, CipherB>>,
                 <<KeyC, PlainC, CipherC>>} :
         job.key = v[1] => /\ job.data = v[2] /\ ~job.decrypt => data_out = v[3]
                           /\ job.data = v[3] /\ job.decrypt => data_out = v[2]

KeysAreExpanded ==
  ke_done =>
    /\ job.key = KeyC => \A r \in 0 .. 10 : rk[r] = RoundKeysC[r + 1]
    /\ LET w == key_expansion(job.key) IN \A r \in 0 .. 10 : rk[r] = round_key(w, r)

(* The design computes what FIPS-197 and SP 800-38A say: its tables and    *)
(* its arithmetic byte by byte, its core, and its modes under the test     *)
(* programs, against the reference model and the published answers.        *)
MatchesFips197 ==
  /\ test = "bytes" => ByteAgrees(byte) /\ LayersAgree(byte)
  /\ CoreAnswers /\ KeysAreExpanded
  /\ Bench!Answers
=============================================================================
