-------------------------------- MODULE DmaRam --------------------------------
(***************************************************************************)
(* The DMA engine's private memory (dma_ram.v): an AXI4 slave for INCR     *)
(* bursts, one write burst and one read burst at a time.  RamEdge is one   *)
(* rising edge of clk, its arguments the wires of the port before the      *)
(* edge.  Addresses are word addresses: the index drops the upper address  *)
(* bits, so it is the address modulo the size.                             *)
(***************************************************************************)
EXTENDS Naturals

CONSTANTS
  SizeWords,   \* SIZE_WORDS
  Word,        \* data words
  ZeroWord

ASSUME RamAssumption == SizeWords \in Nat \ {0} /\ ZeroWord \in Word

VARIABLES
  mem, w_state, w_word_idx, s_bvalid,                          \* write path
  r_state, r_word_idx, r_beats_left, s_rvalid, s_rdata, s_rlast  \* read path

ramVars == <<mem, w_state, w_word_idx, s_bvalid,
             r_state, r_word_idx, r_beats_left, s_rvalid, s_rdata, s_rlast>>

Index   == 0 .. SizeWords - 1
WordIdx(a) == a % SizeWords

RamTypeOK(maxBeats) ==
  /\ mem \in [Index -> Word]
  /\ w_state \in {"IDLE", "BURST"} /\ w_word_idx \in Index /\ s_bvalid \in BOOLEAN
  /\ r_state \in {"IDLE", "BURST"} /\ r_word_idx \in Index /\ r_beats_left \in 0 .. maxBeats - 1
  /\ s_rvalid \in BOOLEAN /\ s_rdata \in Word /\ s_rlast \in BOOLEAN

RamInit(contents) ==
  /\ mem = contents
  /\ w_state = "IDLE" /\ w_word_idx = 0 /\ s_bvalid = FALSE
  /\ r_state = "IDLE" /\ r_word_idx = 0 /\ r_beats_left = 0
  /\ s_rvalid = FALSE /\ s_rdata = ZeroWord /\ s_rlast = FALSE

s_awready == w_state = "IDLE"
s_wready  == w_state = "BURST"
s_arready == r_state = "IDLE"

-----------------------------------------------------------------------------
(* Write path. *)

WIdleEdge(awvalid, awaddr) ==
  /\ w_state = "IDLE"
  /\ IF awvalid
     THEN w_word_idx' = WordIdx(awaddr) /\ w_state' = "BURST"
     ELSE UNCHANGED <<w_word_idx, w_state>>
  /\ UNCHANGED mem

WBurstEdge(wvalid, wdata, wlast) ==
  /\ w_state = "BURST"
  /\ IF wvalid
     THEN /\ mem' = [mem EXCEPT ![w_word_idx] = wdata]
          /\ w_word_idx' = WordIdx(w_word_idx + 1)
          /\ w_state' = (IF wlast THEN "IDLE" ELSE "BURST")
     ELSE UNCHANGED <<mem, w_word_idx, w_state>>

(* The last beat raises bvalid; taking the response, written later in the  *)
(* process, lowers it.                                                     *)
BEdge(wvalid, wlast, bready) ==
  s_bvalid' = IF s_bvalid /\ bready THEN FALSE
              ELSE s_bvalid \/ (w_state = "BURST" /\ wvalid /\ wlast)

-----------------------------------------------------------------------------
(* Read path: a beat is loaded when there is none, or when the present one *)
(* is taken; back in IDLE the last beat is dropped.                        *)
RIdleEdge(arvalid, araddr, arlen) ==
  /\ r_state = "IDLE"
  /\ s_rvalid' = FALSE
  /\ IF arvalid
     THEN r_word_idx' = WordIdx(araddr) /\ r_beats_left' = arlen /\ r_state' = "BURST"
     ELSE UNCHANGED <<r_word_idx, r_beats_left, r_state>>
  /\ UNCHANGED <<s_rdata, s_rlast>>

RBurstEdge(rready) ==
  /\ r_state = "BURST"
  /\ IF ~s_rvalid \/ rready
     THEN /\ s_rdata' = mem[r_word_idx] /\ s_rlast' = (r_beats_left = 0) /\ s_rvalid' = TRUE
          /\ IF r_beats_left = 0
             THEN r_state' = "IDLE" /\ UNCHANGED <<r_word_idx, r_beats_left>>
             ELSE /\ r_word_idx' = WordIdx(r_word_idx + 1)
                  /\ r_beats_left' = r_beats_left - 1 /\ UNCHANGED r_state
     ELSE UNCHANGED <<s_rdata, s_rlast, s_rvalid, r_state, r_word_idx, r_beats_left>>

RamEdge(awvalid, awaddr, wvalid, wdata, wlast, bready, arvalid, araddr, arlen, rready) ==
  /\ WIdleEdge(awvalid, awaddr) \/ WBurstEdge(wvalid, wdata, wlast)
  /\ BEdge(wvalid, wlast, bready)
  /\ RIdleEdge(arvalid, araddr, arlen) \/ RBurstEdge(rready)
=============================================================================
