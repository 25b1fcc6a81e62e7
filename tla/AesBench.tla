------------------------------- MODULE AesBench -------------------------------
(***************************************************************************)
(* The test programs of the AES: of the peripheral (aes/dv/sim_main.cpp and*)
(* diff_sim_main.cpp, by register accesses) and of the chain in it         *)
(* (chain_sim_main.cpp, on its ports), with the answers they expect.  The  *)
(* calls are those of the programs, in any order.                          *)
(***************************************************************************)
EXTENDS AesPeriph, AesReference, Integers, Sequences

CONSTANT Oracle(_, _)    \* aes_ref::encrypt, the reference model

VARIABLES
  dut,      \* the unit under test, "aes" or "chain"
  call,     \* the running call
  n,        \* the block of the call in progress
  phase     \* what the program does next

Hold == UNCHANGED <<op, core_done, core_out, chain_state, mode_reg, encdec_reg, data_in_reg,
                    iv_reg, data_out_reg, done_reg, taken, key_reg, data_reg, per_iv,
                    status_done, irq_pulse, cleared, iv_use>>

-----------------------------------------------------------------------------
(* The calls: key, IV, blocks and expected blocks; "restart" is the call   *)
(* that interferes with its own block.                                     *)

Run(key, mode, encdec, iv, in, out, restart) ==
  [key |-> key, mode |-> mode, encdec |-> encdec, iv |-> iv, in |-> in, out |-> out,
   restart |-> restart]

EcbCalls ==
  {Run(KeyB, "ECB", FALSE, KeyC, <<PlainB>>, <<CipherB>>, FALSE),
   Run(KeyB, "ECB", TRUE,  KeyC, <<CipherB>>, <<PlainB>>, FALSE),
   Run(KeyC, "ECB", FALSE, KeyC, <<PlainC>>, <<CipherC>>, FALSE),
   Run(KeyC, "ECB", TRUE,  KeyC, <<CipherC>>, <<PlainC>>, FALSE)}
BusyCall == Run(KeyC, "ECB", FALSE, KeyC, <<PlainC>>, <<CipherC>>, TRUE)
CbcCall  == Run(KeyB, "CBC", FALSE, KeyC, PlainNist, CbcNist, FALSE)

(* The differential test takes its expectations from the reference model;  *)
(* DiffPairs stands for its random pairs of key and plaintext.             *)
AllOnes   == [i \in 1 .. 16 |-> 255]
DiffPairs == {<<CipherC, CipherB>>, <<PlainB, AllOnes>>, <<AllOnes, KeyC>>}
DiffCalls(key, pt) ==
  LET ct == Oracle(pt, key)
  IN  {Run(key, "ECB", FALSE, KeyC, <<pt>>, <<ct>>, FALSE),
       Run(key, "ECB", TRUE, KeyC, <<ct>>, <<pt>>, FALSE)}

ChainCalls ==
  {CbcCall,
   Run(KeyB, "CBC", TRUE, KeyC, CbcNist, PlainNist, FALSE),
   Run(KeyB, "CTR", FALSE, CounterIv, PlainNist, CtrNist, FALSE),
   Run(KeyB, "CTR", TRUE, CounterIv, CtrNist, PlainNist, FALSE)}

AesCalls == EcbCalls \union {BusyCall, CbcCall}
              \union UNION {DiffCalls(pair[1], pair[2]) : pair \in DiffPairs}

BenchInit ==
  /\ Init /\ dut \in {"aes", "chain"} /\ call = BusyCall /\ n = 1 /\ phase = "next"

Choose ==
  /\ phase = "next"
  /\ call' \in (IF dut = "aes" THEN AesCalls ELSE ChainCalls) /\ n' = 1
  /\ phase' = (IF dut = "aes" THEN "KEY" ELSE "LOAD")
  /\ Hold /\ UNCHANGED dut

After == IF n = Len(call.in) THEN "next" ELSE IF dut = "aes" THEN "DATA" ELSE "GO"

-----------------------------------------------------------------------------
(* Register accesses: in which phase, which write, and the phase after it. *)
(* DATA is changed and START written again before the block can end: these *)
(* calls take fewer clocks than the core (AesCore!FixedLatency).           *)

StartWrite ==
  [reg |-> "CTRL", start |-> TRUE, load |-> FALSE, encdec |-> call.encdec, mode |-> call.mode]
LoadWrite ==
  [reg |-> "CTRL", start |-> FALSE, load |-> TRUE, encdec |-> FALSE, mode |-> "ECB"]

Accesses ==
  {<<"KEY",     [reg |-> "KEY", key |-> call.key],  IF call.mode = "ECB" THEN "DATA" ELSE "IV">>,
   <<"IV",      [reg |-> "IV", block |-> call.iv],        "LOAD_IV">>,
   <<"LOAD_IV", LoadWrite,                                "DATA">>,
   <<"DATA",    [reg |-> "DATA", block |-> call.in[n]],   "START">>,
   <<"START",   StartWrite,                   IF call.restart THEN "CHANGE" ELSE "POLL">>,
   <<"CHANGE",  [reg |-> "DATA", block |-> AllOnes],      "AGAIN">>,
   <<"AGAIN",   StartWrite,                               "POLL">>,
   <<"POLL",    [reg |-> "none"],             IF status_done THEN "RESULT" ELSE "POLL">>,
   <<"RESULT",  [reg |-> "DONE"],                         After>>}

Access ==
  \E a \in Accesses :
    /\ phase = a[1] /\ Edge(a[2]) /\ phase' = a[3]
    /\ n' = (IF phase = "RESULT" /\ After # "next" THEN n + 1 ELSE n)
    /\ phase \in {"CHANGE", "AGAIN"} => op' # None
    /\ UNCHANGED <<dut, call>>

-----------------------------------------------------------------------------
(* The ports of the chain: each call holds its operands for one clock, and *)
(* the next start comes in the very cycle of done.                         *)

Ports ==
  /\ phase \in {"LOAD", "GO"} \/ (phase = "WAIT" /\ ~done_reg)
  /\ ChainEdge(phase = "LOAD", call.iv, phase = "GO",
               call.encdec, call.mode, call.key, call.in[n])
  /\ phase' = (IF phase = "LOAD" THEN "GO" ELSE "WAIT")
  /\ UNCHANGED <<key_reg, data_reg, per_iv, status_done, irq_pulse, cleared, iv_use,
                 dut, call, n>>

BlockTaken ==
  /\ phase = "WAIT" /\ done_reg
  /\ phase' = After /\ n' = (IF After = "next" THEN n ELSE n + 1)
  /\ Hold /\ UNCHANGED <<dut, call>>

BenchNext == Choose \/ Access \/ Ports \/ BlockTaken

-----------------------------------------------------------------------------
(* What the programs check.                                                *)
Answers ==
  /\ phase = "RESULT" \/ (phase = "WAIT" /\ done_reg) => data_out_reg = call.out[n]
  /\ phase \in {"CHANGE", "AGAIN"} => chain_busy
=============================================================================
