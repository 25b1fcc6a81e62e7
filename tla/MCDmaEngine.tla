----------------------------- MODULE MCDmaEngine -----------------------------
(* Words of one bit, two words per block: the four blocks are the numbers   *)
(* 0..3, and two permutations stand for the block cipher.  The engine with  *)
(* software that does as it likes, or one of its benches: which, is chosen  *)
(* at the start.                                                            *)
EXTENDS DmaBench

MCWord  == 0 .. 1
MCBlock == [1 .. 2 -> MCWord]
MCKey   == {"k0", "k1"}

Number(b)  == 2 * b[1] + b[2]
ToBlock(n) == <<n \div 2, n % 2>>

MCXor(a, b) == <<(a[1] + b[1]) % 2, (a[2] + b[2]) % 2>>
MCInc(b)    == ToBlock((Number(b) + 1) % 4)

Permutation(k) == IF k = "k0" THEN <<2, 0, 3, 1>> ELSE <<1, 3, 2, 0>>
MCCipher(decrypt, k, b) ==
  IF decrypt THEN ToBlock((CHOOSE n \in 1 .. 4 : Permutation(k)[n] = Number(b)) - 1)
  ELSE ToBlock(Permutation(k)[Number(b) + 1])

(* Memory of four words, two blocks; a block at word 1 overlaps both.       *)
MCSmallContents == {[n \in 0 .. 3 |-> <<1, 0, 1, 1>>[n + 1]]}

(* The IV registers keep their reset value; the chain's own IV does not.    *)
MCIvs0   == {}

VARIABLE half

benchVars == <<top, seen, call, calls, expects>>
MCVars == <<half, vars, benchVars>>

MCInit ==
  /\ half \in {"engine", "bench"}
  /\ IF half = "bench" THEN BenchInit
     ELSE /\ Init /\ top = "none" /\ seen = <<>> /\ call = <<>> /\ calls = 0
          /\ expects = <<>>

EngineStep == half = "engine" /\ Next /\ UNCHANGED <<half, benchVars>>
BenchStep  == half = "bench" /\ BenchNext /\ UNCHANGED half
MCNext == EngineStep \/ BenchStep

(* The clock runs and the block unit ends what it began.                    *)
MCSpec == MCInit /\ [][MCNext]_MCVars /\ WF_MCVars(MCNext) /\ []<>(op = None)

(* The registers, the engine, its chain and its memory agree on where the   *)
(* copy is; with a bench on the memory, on all but the bursts.              *)
AgreeInv ==
  /\ half = "engine" => EngineInv
  /\ half = "bench" => TypeOK /\ BusyIsWorking /\ StartIsTaken /\ DoneIsShown

(* With the memory to itself the engine implements DmaCopy.                 *)
ImplementsCopyInSoc ==
  (half = "engine" => Copy!Init) /\ [][half = "engine" => Copy!Next]_(Copy!vars)

(* The checks of the benches hold.                                          *)
BenchInv == half = "bench" => BenchPasses
=============================================================================
