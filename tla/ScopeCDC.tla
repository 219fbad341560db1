------------------------------ MODULE ScopeCDC ------------------------------
(***************************************************************************)
(* The clock-domain crossings of the two-clock scope, rtl/wbscope.v with   *)
(* SYNCHRONOUS = 0: two flip-flops carry the reset request and the trigger *)
(* controls to the data clock, one and two carry the completion of the     *)
(* reset back, two carry the status flags back.                            *)
(*                                                                         *)
(* A flip-flop that samples a bit while the other clock changes it may     *)
(* settle on either value.  The operators take the bits the first flop of  *)
(* a synchroniser settles on ("seen") as parameters; Settled says which.   *)
(***************************************************************************)

VARIABLES
    q_iflags, r_iflags,     \* data clock: [reset, manual, disable]
    r_reset_complete,       \* data clock
    q_reset_complete, qq_reset_complete,    \* bus clock
    q_oflags, r_oflags      \* bus clock: [stopped, triggered, primed]

dataCDCVars == <<q_iflags, r_iflags, r_reset_complete>>
busCDCVars  == <<q_reset_complete, qq_reset_complete, q_oflags, r_oflags>>
cdcVars     == <<dataCDCVars, busCDCVars>>

IFlags == [reset : BOOLEAN, manual : BOOLEAN, disable : BOOLEAN]
OFlags == [stopped : BOOLEAN, triggered : BOOLEAN, primed : BOOLEAN]

CDCTypeOK ==
    /\ q_iflags \in IFlags /\ r_iflags \in IFlags
    /\ r_reset_complete \in BOOLEAN
    /\ q_reset_complete \in BOOLEAN /\ qq_reset_complete \in BOOLEAN
    /\ q_oflags \in OFlags /\ r_oflags \in OFlags

NoIFlags == [reset |-> FALSE, manual |-> FALSE, disable |-> FALSE]
NoOFlags == [stopped |-> FALSE, triggered |-> FALSE, primed |-> FALSE]

CDCInit ==
    /\ q_iflags = NoIFlags /\ r_iflags = NoIFlags
    /\ r_reset_complete = FALSE
    /\ q_reset_complete = FALSE /\ qq_reset_complete = FALSE
    /\ q_oflags = NoOFlags /\ r_oflags = NoOFlags

(* The first flops of a synchroniser see of every bit its value before or  *)
(* after a change on the same edge, each bit on its own.                   *)
Settled(old, new) ==
    {seen \in [DOMAIN old -> BOOLEAN] :
        \A bit \in DOMAIN old : seen[bit] \in {old[bit], new[bit]}}

(* A crossing got wrong, for the properties to find (see ScopeCapture).    *)
ControlsIn_BUG(seen) ==
    /\ q_iflags' = seen
    /\ r_iflags' = q_iflags
    /\ r_reset_complete' = q_iflags.reset

(* The synchronisers on i_data_clk.                                        *)
ControlsIn(seen) ==
    /\ q_iflags' = seen
    /\ r_iflags' = q_iflags
    /\ r_reset_complete' = r_iflags.reset

StatusBack_BUG(request, complete_seen, flags_seen) ==
    /\ q_reset_complete' = (~request /\ complete_seen)
    /\ qq_reset_complete' = (~request /\ q_reset_complete)
    /\ q_oflags' = IF request THEN NoOFlags ELSE flags_seen
    /\ r_oflags' = IF request THEN NoOFlags ELSE q_oflags

(* The synchronisers on i_wb_clk.  A pending reset clears the status.      *)
StatusBack(request, complete_seen, flags_seen) ==
    /\ q_reset_complete' = complete_seen
    /\ qq_reset_complete' = q_reset_complete
    /\ q_oflags' = IF request THEN NoOFlags ELSE flags_seen
    /\ r_oflags' = IF request THEN NoOFlags ELSE q_oflags
=============================================================================
