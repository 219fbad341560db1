--------------------------- MODULE MCWBScopeAsync ---------------------------
(***************************************************************************)
(* The two-clock scope on small instances.                                 *)
(***************************************************************************)
EXTENDS WBScopeAsync

CONSTANT NSAMPLES, HOLDOFFS

MCSamples == 0 .. NSAMPLES - 1
MCStream(w) == IF w = Unknown THEN {0} ELSE {(w + 1) % NSAMPLES}

Zero == [reset_n |-> FALSE, manual |-> FALSE, disable |-> FALSE, holdoff |-> 0]
Idle == [cyc |-> FALSE, stb |-> FALSE, we |-> FALSE,
         addr |-> "control", sel |-> TRUE, word |-> Zero]
Write(w) == [Idle EXCEPT !.cyc = TRUE, !.stb = TRUE, !.we = TRUE, !.word = w]

(* A master that restarts the scope, and one that also works its trigger   *)
(* controls.                                                               *)
Restarting  == {Idle} \cup {Write([Zero EXCEPT !.holdoff = h]) : h \in HOLDOFFS}
Triggering  == {Idle, Write(Zero), Write([Zero EXCEPT !.reset_n = TRUE]),
                Write([Zero EXCEPT !.reset_n = TRUE, !.manual = TRUE, !.disable = TRUE])}
=============================================================================
