------------------------------ MODULE MCWBScopC ------------------------------
(***************************************************************************)
(* The compressed scope on a small instance: any samples of two values,     *)
(* which it does nothing with but compare them, so that they may be        *)
(* exchanged.                                                              *)
(***************************************************************************)
EXTENDS WBScopCTrace, TLC

CONSTANT HOLDOFFS

MCStream(w) == SAMPLES
Exchanged == Permutations(SAMPLES)

Zero == [reset_n |-> FALSE, manual |-> FALSE, disable |-> FALSE, holdoff |-> 0]
Idle == [cyc |-> FALSE, stb |-> FALSE, we |-> FALSE,
         addr |-> "control", sel |-> TRUE, word |-> Zero]
Restarting ==
    {Idle} \cup {[Idle EXCEPT !.cyc = TRUE, !.stb = TRUE, !.we = TRUE, !.word.holdoff = h] :
                    h \in HOLDOFFS}
=============================================================================
