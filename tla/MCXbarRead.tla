------------------------------ MODULE MCXbarRead ------------------------------
(* Small instances of the read path. *)
EXTENDS XbarRead

RamWord   == [region |-> 1, mid |-> 0, page |-> 0, word |-> 0]
RomWord   == [region |-> 0, mid |-> 0, page |-> 0, word |-> 0]
CsrWaddr  == [region |-> 4, mid |-> 0, page |-> 7, word |-> 0]
CsrRaddr  == [region |-> 4, mid |-> 0, page |-> 7, word |-> 1]
HoleA     == [region |-> 5, mid |-> 0, page |-> 0, word |-> 0]
HoleB     == [region |-> 4, mid |-> 0, page |-> 8, word |-> 0]

AllKinds == {RamWord, RomWord, CsrWaddr, CsrRaddr, HoleA, HoleB}
OneMiss  == {HoleA}
RomFast  == {"ROM"}
=============================================================================
