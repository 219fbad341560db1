--------------------------- MODULE MCWB_TBDevice ---------------------------
(***************************************************************************)
(* The bench master and a device on small instances: vector calls of up to *)
(* LENGTH words, a device that holds two words.                            *)
(***************************************************************************)
EXTENDS WB_TBDevice

CONSTANT LENGTH

ASSUME LengthAssumption == LENGTH \in Nat \ {0}

MCWords == {1, 2}
Buffers == [1 .. LENGTH -> MCWords]
(* The calls at one address, which are those the scope software makes.      *)
MCCalls == {readio(4), readz(4, LENGTH), idle(1), usleep(2), wait}
           \cup {writeio(8, w) : w \in MCWords} \cup {writez(8, v) : v \in Buffers}
(* The calls that move on from one address to the next.                    *)
MCBlocks == {readi(4, LENGTH)} \cup {writei(4, v) : v \in Buffers}
=============================================================================
