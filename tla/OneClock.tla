------------------------------ MODULE OneClock ------------------------------
(***************************************************************************)
(* What the scopes of one clock promise, rtl/wbscope.v and rtl/avscope.v    *)
(* with SYNCHRONOUS = 1, in terms of the registers they have in common: a   *)
(* reset of the capture is the reset request of the bus itself.             *)
(***************************************************************************)
EXTENDS ScopeBus

Contract == INSTANCE CaptureWindow WITH
    LEN <- MEMLEN, HOLDOFFS <- Holdoff, WORDS <- Word, RETUNE <- FALSE,
    phase <- Phase(bw_reset_request), fill <- Fill(bw_reset_request),
    window <- Window(bw_reset_request), newest <- data_pipe,
    trigger <- h_trigger, since <- Since(bw_reset_request), holdoff <- br_holdoff

(* The scope implements the promise of CaptureWindow: whatever the bus     *)
(* does, what it records is a sliding window that closes at the holdoff    *)
(* and is then left alone until the next reset.                            *)
Captures == Contract!WindowSpec

(* The sample that carried the trigger is where the holdoff puts it: with  *)
(* "since" samples stored from it on it is that many words from the end of *)
(* the stopped window, and that number is the holdoff and one more, or     *)
(* just the holdoff when i_ce was low on the clock of the stop.            *)
TriggerInPlace ==
    dr_stopped /\ ~bw_reset_request =>
        /\ dr_primed
        /\ h_since \in {br_holdoff, br_holdoff + 1}
        /\ h_since \in 1 .. MEMLEN => mem[RingAt(waddr, MEMLEN - h_since)] = h_trigger
=============================================================================
