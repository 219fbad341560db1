---------------------------- MODULE WBScopeAsync ----------------------------
(***************************************************************************)
(* The Wishbone scope, rtl/wbscope.v, with SYNCHRONOUS = 0: a bus clock    *)
(* and a data clock of which nothing is known.  A step is an edge of one   *)
(* of them, or of both at once; an edge of both is where a flip-flop of    *)
(* one domain samples a register of the other as it changes.               *)
(*                                                                         *)
(* What crosses without a synchroniser (the holdoff one way, the write     *)
(* address, the memory and the input the other way) can be seen as         *)
(* anything while it changes.                                              *)
(***************************************************************************)
EXTENDS ScopeBus, ScopeCDC

vars == <<captureVars, historyVars, busVars, cdcVars>>

Init == CaptureInit /\ BusInit /\ CDCInit

-----------------------------------------------------------------------------
bw_reset_complete == qq_reset_complete
dw_reset          == r_iflags.reset

Controls == [reset |-> bw_reset_request,
             manual |-> br_config.manual, disable |-> br_config.disable]
Status   == [stopped |-> dr_stopped, triggered |-> dr_triggered,
             primed |-> dr_primed]

(* What an edge sees of a register of the other domain that no             *)
(* synchroniser protects: its value, or anything if it changes just then.  *)
Seen(old, new, any) == IF new = old THEN {old} ELSE any

BusRegisters(req, sample) ==
    BusEdge(req, bw_reset_complete, r_oflags.stopped, r_oflags.triggered,
            r_oflags.primed, sample)

DataRegisters(ce, trig, sample, holdoff_seen) ==
    DataEdge(dw_reset, r_iflags.manual, r_iflags.disable, holdoff_seen,
             ce, trig, sample)

-----------------------------------------------------------------------------
(* An edge of i_wb_clk alone.                                              *)
BusTick(req, sample) ==
    /\ BusRegisters(req, sample)
    /\ Prefetch(req, waddr, mem[this_addr])
    /\ StatusBack(bw_reset_request, r_reset_complete, Status)
    /\ UNCHANGED <<captureVars, historyVars, dataCDCVars>>

(* An edge of i_data_clk alone.                                            *)
DataTick(ce, trig, sample) ==
    /\ DataRegisters(ce, trig, sample, br_holdoff)
    /\ ControlsIn(Controls)
    /\ UNCHANGED <<busVars, busCDCVars>>

(* Both edges at once.                                                     *)
BothTick(req, ce, trig, sample) ==
    /\ BusRegisters(req, sample)
    /\ \E holdoff_seen \in Seen(br_holdoff, br_holdoff', Holdoff) :
          DataRegisters(ce, trig, sample, holdoff_seen)
    /\ \E seen \in Settled(Controls, Controls') : ControlsIn(seen)
    /\ \E seen \in Settled(Status, Status'),
          complete \in {r_reset_complete, r_reset_complete'} :
          StatusBack(bw_reset_request, complete, seen)
    /\ \E address \in Seen(waddr, waddr', Address),
          word \in Seen(mem[this_addr], mem'[this_addr], Word) :
          Prefetch(req, address, word)

Next ==
    \/ \E req \in Requests, sample \in Stream(data_pipe) : BusTick(req, sample)
    \/ \E ce \in Enables, trig \in BOOLEAN, sample \in Stream(data_pipe) :
          DataTick(ce, trig, sample)
    \/ \E req \in Requests, ce \in Enables, trig \in BOOLEAN,
          sample \in Stream(data_pipe) : BothTick(req, ce, trig, sample)

Spec == Init /\ [][Next]_vars

(* Both clocks run, and the samples keep coming.  Nothing is said of the   *)
(* ratio of the two clocks.                                                *)
SomeBusEdge ==
    \E req \in Requests, sample \in Stream(data_pipe) :
        \/ BusTick(req, sample)
        \/ \E ce \in Enables, trig \in BOOLEAN : BothTick(req, ce, trig, sample)
SomeSample ==
    \E trig \in BOOLEAN, sample \in Stream(data_pipe) :
        \/ DataTick(TRUE, trig, sample)
        \/ \E req \in Requests : BothTick(req, TRUE, trig, sample)

FairSpec == Spec /\ WF_vars(SomeBusEdge) /\ WF_vars(SomeSample)

-----------------------------------------------------------------------------
TypeOK == CaptureTypeOK /\ BusTypeOK /\ CDCTypeOK

(* The reset handshake is a ring of ten states: the request, its two flops *)
(* on the data clock, and the two flops of the answer, each follow the one *)
(* before it, up and then down again.                                      *)
HandshakeRing == {<<FALSE, FALSE, FALSE, FALSE, FALSE>>,
                  <<TRUE,  FALSE, FALSE, FALSE, FALSE>>,
                  <<TRUE,  TRUE,  FALSE, FALSE, FALSE>>,
                  <<TRUE,  TRUE,  TRUE,  FALSE, FALSE>>,
                  <<TRUE,  TRUE,  TRUE,  TRUE,  FALSE>>,
                  <<TRUE,  TRUE,  TRUE,  TRUE,  TRUE>>,
                  <<FALSE, TRUE,  TRUE,  TRUE,  TRUE>>,
                  <<FALSE, FALSE, TRUE,  TRUE,  TRUE>>,
                  <<FALSE, FALSE, FALSE, TRUE,  TRUE>>,
                  <<FALSE, FALSE, FALSE, FALSE, TRUE>>}

(* The five registers of the reset handshake are always in one of these    *)
(* states (rtl/wbscope.v:273, an assertion of the code's own formal        *)
(* section, which runs without the metastability modelled here).           *)
Handshake == <<bw_reset_request, q_iflags.reset, dw_reset,
               q_reset_complete, qq_reset_complete>> \in HandshakeRing

(* Outside of a reset a status flag the bus sees is one the data clock has *)
(* now, and has not dropped in between (rtl/wbscope.v:473): the flags of   *)
(* an earlier capture never reach the bus.                                 *)
FlagsCoherent ==
    ~bw_reset_request =>
        \A flag \in {"stopped", "triggered", "primed"} :
            /\ r_oflags[flag] => q_oflags[flag]
            /\ q_oflags[flag] => Status[flag]

(* While the bus sees the scope stopped, the memory and the write address, *)
(* which it reads without a synchroniser, do not change.                   *)
ReadableWhenStopped ==
    [][r_oflags.stopped /\ ~bw_reset_request => UNCHANGED <<mem, waddr>>]_vars

(* One interrupt per stop the bus sees, unless DISABLE is set and cleared   *)
(* meanwhile (rtl/wbscope.v:575-583): the answer to a reset, which holds    *)
(* br_level_interrupt down and would have the interrupt stay or come back,  *)
(* has always left its synchroniser by then.                               *)
InterruptOnce == OneInterrupt(r_oflags.stopped)

Contract == INSTANCE CaptureWindow WITH
    LEN <- MEMLEN, HOLDOFFS <- Holdoff, WORDS <- Word, RETUNE <- TRUE,
    phase <- Phase(bw_reset_request \/ dw_reset),
    fill <- Fill(bw_reset_request \/ dw_reset),
    window <- Window(bw_reset_request \/ dw_reset), newest <- data_pipe,
    trigger <- h_trigger, since <- Since(bw_reset_request \/ dw_reset),
    holdoff <- br_holdoff

(* Across two clocks too the scope keeps the promise of CaptureWindow, for *)
(* a holdoff that may be changed under it.                                 *)
Captures == Contract!WindowSpec

(* A reset the bus requests completes.                                     *)
ResetCompletes == bw_reset_request ~> ~bw_reset_request

(* A manual trigger that is left set makes the bus see the scope stopped.  *)
ManualTriggerStops ==
    (br_config.manual /\ br_config.reset_n)
        ~> (r_oflags.stopped \/ ~br_config.manual \/ ~br_config.reset_n)
=============================================================================
