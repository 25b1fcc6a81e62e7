------------------------------- MODULE JtagReset -------------------------------
(***************************************************************************)
(* The bridge with the reset of soc_top.v: resetn comes from outside, is   *)
(* asserted in both clock domains at once, and released in each by a       *)
(* synchronizer of two flops.  The registers behind it reset on a clock    *)
(* edge, and a debugger need not run tck while the system is reset.        *)
(* What the environment may do is chosen once, at the start.               *)
(***************************************************************************)
EXTENDS JtagBridge

Environments ==
  {"apart",      \* edges of the two clocks never coincide, and there is no reset
   "together",   \* edges may coincide, and there is no reset
   "held",       \* resets that last until both domains have seen an edge
   "short"}      \* resets of any length

VARIABLES
  environment,
  resetn, resetn_clk_meta, resetn_clk_sync, resetn_tck_meta, resetn_tck_sync,
  clkHasReset, tckHasReset,  \* history: the domain had an edge in reset since resetn fell
  asked                      \* history: a START was issued since resetn fell

clkSyncVars == <<resetn_clk_meta, resetn_clk_sync, clkHasReset>>
tckSyncVars == <<resetn_tck_meta, resetn_tck_sync, tckHasReset>>
resetVars   == <<environment, resetn, clkSyncVars, tckSyncVars, asked>>
vars        == <<bridgeVars, resetVars>>

(* Out of a first reset.                                                   *)
ResetInit ==
  /\ Init /\ environment \in Environments
  /\ resetn = TRUE /\ asked = FALSE
  /\ resetn_clk_meta = TRUE /\ resetn_clk_sync = TRUE /\ clkHasReset = TRUE
  /\ resetn_tck_meta = TRUE /\ resetn_tck_sync = TRUE /\ tckHasReset = TRUE

Assert ==
  /\ resetn /\ resetn' = FALSE /\ environment \in {"held", "short"}
  /\ resetn_clk_meta' = FALSE /\ resetn_clk_sync' = FALSE
  /\ resetn_tck_meta' = FALSE /\ resetn_tck_sync' = FALSE
  /\ clkHasReset' = FALSE /\ tckHasReset' = FALSE /\ asked' = FALSE
  /\ UNCHANGED <<environment, bridgeVars>>

Release ==
  /\ ~resetn /\ resetn' = TRUE
  /\ environment = "held" => clkHasReset /\ tckHasReset
  /\ UNCHANGED <<environment, bridgeVars, clkSyncVars, tckSyncVars, asked>>

SyncClk ==
  /\ resetn_clk_meta' = resetn /\ resetn_clk_sync' = (resetn /\ resetn_clk_meta)
  /\ clkHasReset' = (clkHasReset \/ ~resetn_clk_sync)
SyncTck ==
  /\ resetn_tck_meta' = resetn /\ resetn_tck_sync' = (resetn /\ resetn_tck_meta)
  /\ tckHasReset' = (tckHasReset \/ ~resetn_tck_sync)

(* The requester (jtag_dtm.v) keeps its payload in reset.                  *)
RequestOrReset ==
  IF resetn_tck_sync THEN Request
  ELSE start_pulse_tck' = FALSE /\ UNCHANGED <<rw_tck, addr_tck, wdata_tck>>

TckEdgeOrReset ==
  /\ SyncTck /\ RequestOrReset
  /\ TckSide(resetn_tck_sync, done_toggle_clk, resp_ok, rdata_reg)
  /\ asked' = (asked \/ start_pulse_tck')
  /\ UNCHANGED <<environment, clkVars, clkSyncVars, resetn>>

ClkEdgeOrReset ==
  /\ SyncClk
  /\ ClkSide(resetn_clk_sync, start_toggle_tck, addr_tck, wdata_tck, rw_tck)
  /\ UNCHANGED <<environment, requestVars, tckVars, tckSyncVars, resetn, asked>>

CoincidingEdges ==
  /\ environment = "together" /\ BothEdges
  /\ asked' = (asked \/ start_pulse_tck')
  /\ UNCHANGED <<environment, resetn, clkSyncVars, tckSyncVars>>

ResetNext == Assert \/ Release \/ TckEdgeOrReset \/ ClkEdgeOrReset \/ CoincidingEdges

ResetSpec == ResetInit /\ [][ResetNext]_vars

(* Both clocks run, and the bus answers what it is asked (XbarWrite,       *)
(* XbarRead: EveryWriteAnswered, EveryReadAnswered).                       *)
FairSpec == /\ ResetSpec /\ WF_vars(TckEdgeOrReset) /\ WF_vars(ClkEdgeOrReset)
            /\ WF_vars(ClkEdgeOrReset /\ state' # state)

-----------------------------------------------------------------------------
(* Properties. *)

WholeWord(old, new) == {old, new}    \* what Mix may be when a word crosses a clock edge

NoReset == environment \in {"apart", "together"}

(* A requester that sees BUSY down may start: nothing is on its way or on  *)
(* the bus any more.  BUSY is a comparison of two toggles (l.172-174 of    *)
(* jtag_axi_bridge.v), so this says that the toggles never get out of      *)
(* step, whatever the clock ratio and with coinciding edges.               *)
InFlightIsBusy == NoReset /\ InFlight => busy_tck

(* The transaction on the bus is the one the requester asked for, in       *)
(* address, data and direction, although the three cross the clock domains *)
(* without a synchronizer.                                                 *)
BusHasTheRequest ==
  NoReset /\ state # "IDLE" =>
    /\ bus_addr = addr_tck /\ bus_wdata = wdata_tck
    /\ rw_tck <=> state \in {"RD_GO", "RD_R"}

(* With BUSY down, the response seen in the tck domain is that of the last *)
(* transaction (l.34-39), as long as edges never coincide.                 *)
ResponseHasArrived ==
  environment = "apart" /\ ~busy_tck => rdata_sync2 = rdata_reg /\ resp_ok_sync2 = resp_ok

(* Both: address, data and response cross the clock domains whole.         *)
PayloadsArrive == BusHasTheRequest /\ ResponseHasArrived

(* Every start ends, coinciding edges and held resets included: BUSY falls *)
(* again, so a debugger's polling loop ends.  (A reset during which tck    *)
(* stands still can leave the toggles out of step, and BUSY up for good.)  *)
EveryStartEnds ==
  environment # "short" /\ start_pulse_tck ~> ~busy_tck /\ ~start_pulse_tck

(* However short the reset, no domain leaves it without having reset its   *)
(* registers.                                                              *)
EveryResetReachesBothDomains ==
  /\ resetn_clk_sync => clkHasReset
  /\ resetn_tck_sync => tckHasReset

(* After a reset both domains have seen, BUSY in the tck domain comes from *)
(* a START (l.172-174) ...                                                 *)
BusyIsAsked == environment = "held" /\ resetn_tck_sync /\ busy_tck => asked

(* ... and so does what the bus master does.                               *)
BusIsAsked == environment = "held" /\ resetn_clk_sync /\ state # "IDLE" => asked

(* The two sides of the handshake agree, and agree again after a reset.    *)
HandshakeInv ==
  TypeOK /\ InFlightIsBusy /\ EveryResetReachesBothDomains /\ BusyIsAsked /\ BusIsAsked
=============================================================================
