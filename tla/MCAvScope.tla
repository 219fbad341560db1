----------------------------- MODULE MCAvScope -----------------------------
(***************************************************************************)
(* The Avalon scope on small instances: a counter on i_data, and a master  *)
(* that restarts the scope and reads its memory.                           *)
(***************************************************************************)
EXTENDS AvScope

CONSTANTS NSAMPLES, HOLDOFFS

MCSamples == 0 .. NSAMPLES - 1
MCStream(w) == IF w = Unknown THEN {0} ELSE {(w + 1) % NSAMPLES}

Zero == [reset_n |-> FALSE, manual |-> FALSE, disable |-> FALSE, holdoff |-> 0]
Idle == [cyc |-> TRUE, stb |-> FALSE, we |-> FALSE,
         addr |-> "data", sel |-> TRUE, word |-> Zero]
Restarting ==
    {Idle, [Idle EXCEPT !.stb = TRUE]} \cup
    {[Idle EXCEPT !.stb = TRUE, !.we = TRUE, !.addr = "control", !.word.holdoff = h] :
        h \in HOLDOFFS}
=============================================================================
