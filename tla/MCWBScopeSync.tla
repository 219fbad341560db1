--------------------------- MODULE MCWBScopeSync ---------------------------
(***************************************************************************)
(* The synchronous scope on small instances.  The samples are those of     *)
(* bench/rtl/wbscope_tb.v: a counter on i_data, here modulo NSAMPLES.      *)
(***************************************************************************)
EXTENDS WBScopeSync

CONSTANT NSAMPLES,      \* more than the words of the ring and the pipe
         HOLDOFFS       \* the holdoffs the master writes

MCSamples == 0 .. NSAMPLES - 1
MCStream(w) == IF w = Unknown THEN {0} ELSE {(w + 1) % NSAMPLES}

Zero == [reset_n |-> FALSE, manual |-> FALSE, disable |-> FALSE, holdoff |-> 0]
Idle == [cyc |-> FALSE, stb |-> FALSE, we |-> FALSE,
         addr |-> "control", sel |-> TRUE, word |-> Zero]
Write(w) == [Idle EXCEPT !.cyc = TRUE, !.stb = TRUE, !.we = TRUE, !.word = w]

(* Masters that only configure the scope: one restarts it with a holdoff,  *)
(* one works the trigger controls of the running scope as well.            *)
Restarts == {[Zero EXCEPT !.holdoff = h, !.manual = m] : h \in HOLDOFFS, m \in BOOLEAN}
Retunes  == {[Zero EXCEPT !.reset_n = TRUE, !.manual = m, !.disable = d] :
                m, d \in BOOLEAN}
Restarting  == {Idle} \cup {Write([Zero EXCEPT !.holdoff = h]) : h \in HOLDOFFS}
Configuring == {Idle} \cup {Write(w) : w \in Restarts \cup Retunes}
=============================================================================
