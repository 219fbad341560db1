---------------------------- MODULE MCTestBench ----------------------------
(***************************************************************************)
(* The benches on a small memory.  Of the twelve low bits of counter that   *)
(* bench/rtl/wbscopc_tb.v masks, four are kept, and of counter[11:8] two.    *)
(***************************************************************************)
EXTENDS TestBench

MCSamples == [t : BOOLEAN, n : 0 .. COUNTS - 1]
MCStream(w) == MCSamples
MCPattern(c) ==
    IF (c \div 4) % 4 = 0 \/ ((c \div 8) % 2 = 1 /\ (c \div 2) % 2 = 1)
    THEN c ELSE c - (c % 16)
MCWarmups == MEMLEN .. MEMLEN + 15
MCRequests == {}
=============================================================================
