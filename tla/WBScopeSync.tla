---------------------------- MODULE WBScopeSync ----------------------------
(***************************************************************************)
(* The Wishbone scope, rtl/wbscope.v, with SYNCHRONOUS = 1: the bus clock   *)
(* is the data clock, the controls and the status wires go straight        *)
(* across, and a reset request completes as soon as it is made.  Every     *)
(* register of the core changes in the one action, Tick.                   *)
(***************************************************************************)
EXTENDS OneClock

vars == <<captureVars, historyVars, busVars>>

Init == CaptureInit /\ BusInit

Tick(req, ce, trig, sample) ==
    /\ BusEdge(req, bw_reset_request, dr_stopped, dr_triggered, dr_primed, sample)
    /\ Prefetch(req, waddr, mem[this_addr])
    /\ DataEdge(bw_reset_request, br_config.manual, br_config.disable,
                br_holdoff, ce, trig, sample)

Next == \E req \in Requests, ce \in Enables, trig \in BOOLEAN :
            \E sample \in Stream(data_pipe) : Tick(req, ce, trig, sample)

Spec == Init /\ [][Next]_vars

(* The clock runs, and the samples keep coming: i_ce is high again and     *)
(* again.  Neither the trigger nor the master owes anything.               *)
Sampled == \E req \in Requests, trig \in BOOLEAN :
               \E sample \in Stream(data_pipe) : Tick(req, TRUE, trig, sample)

FairSpec == Spec /\ WF_vars(Next) /\ WF_vars(Sampled)

-----------------------------------------------------------------------------
TypeOK == CaptureTypeOK /\ BusTypeOK

(* doc/src/spec.tex:204: "If the holdoff is zero, the last sample in the   *)
(* buffer will be the sample containing the trigger.  Likewise if the      *)
(* holdoff is one less than the size of the memory, the first sample in    *)
(* the buffer will be the one containing the trigger."  It is so where     *)
(* i_ce is wired to 1.                                                     *)
StopsAfterHoldoff ==
    dr_stopped /\ ~bw_reset_request => h_since = br_holdoff + 1

(* The holdoff never changes under a running capture: it is replaced only  *)
(* on the clock that also requests a reset.                                *)
HoldoffNeedsReset == [][br_holdoff' # br_holdoff => bw_reset_request']_vars

(* One interrupt per stop, unless DISABLE is set and cleared meanwhile      *)
(* (rtl/wbscope.v:575-583).                                                *)
InterruptOnce == OneInterrupt(dr_stopped)

(* Every data read the stopped scope accepts is answered, one clock later, *)
(* with the word it had come to: raddr counts the reads, so the one just   *)
(* accepted asked for word raddr - 1 of the window.                        *)
ReadsAnswered ==
    [][/\ br_pre_wb_ack /\ read_address = "data"
       /\ dr_stopped /\ ~bw_reset_request
       => o_bus_data'.word =
            mem[RingAt(waddr, IF raddr = 0 THEN MEMLEN - 1 ELSE raddr - 1)]]_vars

(* A manual trigger that is left set ends the capture: the memory primes,  *)
(* the trigger is taken as soon as it has, and the holdoff runs out,       *)
(* whatever i_trigger does.                                                *)
ManualTriggerStops ==
    (br_config.manual /\ br_config.reset_n)
        ~> (dr_stopped \/ ~br_config.manual \/ ~br_config.reset_n)

(* A capture that was triggered stops, unless it is reset.                 *)
TriggeredStops == dr_triggered ~> (dr_stopped \/ ~dr_triggered)
=============================================================================
