----------------------------- MODULE MCXbarWrite -----------------------------
(* Small instances of the write path: addresses that stand for each kind   *)
(* of target, two distinguishable payloads.                                *)
EXTENDS XbarWrite

CONSTANTS d1, d2

RamWord   == [region |-> 1,  mid |-> 0, page |-> 0, word |-> 0]
RomWord   == [region |-> 0,  mid |-> 0, page |-> 0, word |-> 0]
HoleA     == [region |-> 5,  mid |-> 0, page |-> 0, word |-> 0]
HoleB     == [region |-> 4,  mid |-> 0, page |-> 8, word |-> 0]

SomeAddr == {RamWord, RomWord, HoleA, HoleB}
TwoData  == {d1, d2}
RamIsSlow == RealSlaves \ {"RAM"}
=============================================================================
