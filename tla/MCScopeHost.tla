----------------------------- MODULE MCScopeHost -----------------------------
(***************************************************************************)
(* The whole stack on small instances, with the counter of                 *)
(* bench/rtl/wbscope_tb.v on i_data.                                       *)
(***************************************************************************)
EXTENDS ScopeHost

CONSTANT NSAMPLES, HOLDOFFS

MCSamples == 0 .. NSAMPLES - 1
MCStream(w) == IF w = Unknown THEN {0} ELSE {(w + 1) % NSAMPLES}
MCSettings == {[reset_n |-> FALSE, manual |-> TRUE, disable |-> FALSE, holdoff |-> h] :
                  h \in HOLDOFFS}
MCRequests == {}
MCLength(w) == MEMLEN
MCUnread == [kind |-> "data", word |-> Unknown]
=============================================================================
