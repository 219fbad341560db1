---------------------------- MODULE WBScopCTrace ----------------------------
(***************************************************************************)
(* The compressed scope and the software that decodes what it recorded.     *)
(***************************************************************************)
EXTENDS WBScopC, ScopeTrace

(* m_data of a scope that has stopped, and what becomes of it.             *)
stopped == dw_final_stop /\ ~reset
m_data == [i \in 1 .. MEMLEN |-> mem[RingAt(waddr, i - 1)]]
vcd == VcdRLE(m_data, br_holdoff)
alen == getaddresslen(TRUE, m_data)

(* The clocks of the VCD file: a run at the start takes none.              *)
clocks == vcdaddr(m_data, MEMLEN + 1)

(* The most there are of them, for the history to reach back to: behind the  *)
(* first value, every other word a run.                                    *)
MostClocks == 1 + ((MEMLEN - 1) \div 2) * (MAX_STEP + 2) + ((MEMLEN - 1) % 2)

ASSUME HistoryAssumption == MAXHISTORY >= MostClocks

(* The memory is the run length code of the last samples there were, and    *)
(* the last is the one that ended the holdoff: from its first value on the  *)
(* VCD file shows, clock by clock, what was on i_data, over resets of a     *)
(* running capture, runs cut at MAX_STEP and the trigger's forced write.    *)
DecodesToSamples ==
    stopped =>
        /\ dr_primed
        /\ clocks <= Len(h_samples)
        /\ \A t \in 0 .. clocks - 1 :
              Shown(vcd, t) = h_samples[Len(h_samples) - clocks + t + 1]

(* wbscopc_tb.cpp:170: "LAST VALUE IS A RUN".                               *)
EndsWithValue == stopped => ~m_data[MEMLEN].adr

(* The sample on i_data when the trigger was taken is a value of the memory *)
(* of its own, holdoff + 1 samples from the end, where it is still there.   *)
TriggerRecorded ==
    stopped /\ clocks >= br_holdoff + 2 =>
        \E line \in vcd : /\ line.time = clocks - br_holdoff - 2
                          /\ line.word = h_trigger

(* print(), which goes by the holdoff alone, marks one line: the one of the *)
(* sample that carried the trigger, which h_since samples followed and      *)
(* which stands alone there, as a value, at its own clock.  It marks none   *)
(* where the memory does not reach back to that sample.  A memory that      *)
(* starts in a run is left out: print() and getaddresslen() count that run  *)
(* differently.                                                            *)
marked == {line \in PrintsRLE(m_data, br_holdoff) : line.trigger}

PrintMarksTrigger ==
    stopped /\ ~m_data[1].adr =>
        IF h_since < clocks
        THEN \E line \in marked : /\ marked = {line}
                                  /\ line.addr = clocks - h_since - 1
                                  /\ line.word = h_trigger
        ELSE marked = {}

(* scopecls.cpp:248: "Add in a fake _trigger variable to the VCD file we    *)
(* are producing, so we can see when our trigger took place (assuming the   *)
(* holdoff is such that it is within the collect)".                         *)
VcdShowsTrigger ==
    stopped /\ offset(alen, br_holdoff) \in 0 .. clocks - 1 =>
        \E line \in vcd : line.trigger
=============================================================================
