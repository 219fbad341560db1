------------------------------ MODULE AvScope ------------------------------
(***************************************************************************)
(* The Avalon scope, rtl/avscope.v, with SYNCHRONOUS = 1.  What it has in   *)
(* common with rtl/wbscope.v, line by line, is taken from ScopeCapture and  *)
(* ScopeBus: br_pre_wb_ack and br_wb_ack are br_pre_av_rdack and            *)
(* br_av_rdack.  A request is one of ScopeBus: a strobe is i_av_read, or    *)
(* i_av_write where "we" is set; there are neither cycles nor selects.      *)
(***************************************************************************)
EXTENDS OneClock

VARIABLES br_pre_av_wrack, br_av_wrack

vars == <<captureVars, historyVars, busVars, br_pre_av_wrack, br_av_wrack>>

Init ==
    /\ CaptureInit /\ BusInit
    /\ br_pre_av_wrack = FALSE /\ br_av_wrack = FALSE

-----------------------------------------------------------------------------
i_av_read(req)  == req.stb /\ ~req.we
i_av_write(req) == req.stb /\ req.we

(* A bus reset prevails over the completion of the last one.  The holdoff   *)
(* is written also while a reset is pending.                               *)
ConfigureAvalon(i_av_reset, req, reset_complete) ==
    LET written == write_to_control(req)
        restart == written /\ ~req.word.reset_n
    IN  /\ br_config' =
             [reset_n |-> /\ ~i_av_reset
                          /\ reset_complete \/ (br_config.reset_n /\ ~restart),
              manual  |-> IF written THEN req.word.manual ELSE br_config.manual,
              disable |-> IF written THEN req.word.disable ELSE br_config.disable]
        /\ br_holdoff' = IF restart THEN req.word.holdoff ELSE br_holdoff

StopAgain_BUG(reset, holdoff) ==
    dr_stopped' = (dr_triggered /\ ~reset /\ counter = holdoff)

(* The stop is made from the counter on every clock, and is not held.       *)
StopAgain(reset, holdoff) ==
    dr_stopped' = (dr_triggered /\ ~reset /\ counter >= holdoff)

(* Of a read, what a Wishbone core does; a bus reset drops what is under    *)
(* way.                                                                    *)
Acknowledge(i_av_reset, req, sample) ==
    /\ Respond([req EXCEPT !.stb = i_av_read(req) /\ ~i_av_reset, !.cyc = ~i_av_reset],
               dr_stopped, dr_triggered, dr_primed, sample)
    /\ br_pre_av_wrack' = (i_av_write(req) /\ ~i_av_reset)
    /\ br_av_wrack' = (br_pre_av_wrack /\ ~i_av_reset)

Tick(i_av_reset, req, ce, trig, sample) ==
    LET reset == bw_reset_request
    IN  /\ ConfigureAvalon(i_av_reset, req, reset)
        /\ AdvanceRead(req, dr_stopped)
        /\ Prefetch(req, waddr, mem[this_addr])
        /\ Acknowledge(i_av_reset, req, sample)
        /\ LevelInterrupt(i_av_reset \/ reset, dr_stopped)
        /\ CountInterrupts(dr_stopped)
        /\ TriggerFlag(reset, br_config.manual, br_config.disable, ce, trig)
        /\ CountHoldoff(reset, ce)
        /\ StopAgain(reset, br_holdoff)
        /\ FillRing(reset, ce)
        /\ StoreSample(ce, sample)
        /\ Remember(reset, br_config.manual, br_config.disable, ce, trig, sample)

Next == \E i_av_reset \in BOOLEAN, req \in Requests, ce \in Enables, trig \in BOOLEAN :
            \E sample \in Stream(data_pipe) : Tick(i_av_reset, req, ce, trig, sample)

Spec == Init /\ [][Next]_vars

-----------------------------------------------------------------------------
(* avscope.v:409, of the status flags: "none of these are strobe signals.   *)
(* They goes from low to high, and then stays high for many clocks."        *)
StaysStopped == [][dr_stopped /\ ~bw_reset_request => dr_stopped']_vars
=============================================================================
