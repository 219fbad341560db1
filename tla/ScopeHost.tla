------------------------------ MODULE ScopeHost ------------------------------
(***************************************************************************)
(* The whole stack with one clock: the software of SCOPE, the bus of WB_TB  *)
(* and the core of WBScopeSync.  The core runs whatever the software does;  *)
(* the software takes no time of its own.                                  *)
(***************************************************************************)
EXTENDS WBScopeSync, SCOPE

(* The user restarts the scope, which a word with RESET_n set does not; a   *)
(* status read shows the length of the memory.                             *)
ASSUME HostAssumption ==
    /\ Settings \subseteq {w \in ControlWord : ~w.reset_n}
    /\ VECTOR_READS \subseteq BOOLEAN
    /\ \A w \in Answer : w.kind = "status" => Length(w) = MEMLEN

allVars == <<vars, tbVars, scopeVars>>

(* The pins of the bus and of the core.  The core has one address bit, and  *)
(* never stalls.                                                           *)
req == [cyc |-> i_wb.cyc, stb |-> i_wb.stb, we |-> i_wb.we, sel |-> TRUE,
        addr |-> IF i_wb.addr % 2 = 0 THEN "control" ELSE "data", word |-> i_wb.data]
o_wb == [ack |-> br_wb_ack, stall |-> FALSE, data |-> o_bus_data,
         interrupt |-> Interrupt(dr_stopped)]

Software == SoftwareStep(o_wb) /\ UNCHANGED vars

Clock(ce) == \E trig \in BOOLEAN, sample \in Stream(data_pipe) :
    /\ Tick(req, ce, trig, sample)
    /\ Proceed(FALSE, o_wb')
    /\ UNCHANGED scopeVars

HostInit == Init /\ TBInit /\ SCOPEInit
HostNext == Software \/ \E ce \in Enables : Clock(ce)
HostSpec == HostInit /\ [][HostNext]_allVars

(* The clock runs, with i_ce high again and again, and the software runs on. *)
FairHostSpec == HostSpec /\ WF_allVars(HostNext) /\ SF_allVars(Clock(TRUE))

-----------------------------------------------------------------------------
HostTypeOK ==
    /\ at \in {"shell", "arming", "armed", "cleared", "waiting", "ready", "scoplen",
               "not ready", "decode_control", "rawread", "reading", "written"}
    /\ m_scoplen \in {0, MEMLEN} /\ m_holdoff \in Holdoff
    /\ Len(m_data) <= m_scoplen

(* What the software has read is the captured window from its oldest word  *)
(* on: once it has seen the scope stopped, by its status or by the          *)
(* interrupt, the capture it reads is complete, is the one last armed and   *)
(* stays put, and each answer is the next word of it, read one at a time or *)
(* as a vector, however the reads are spaced and however often the memory   *)
(* is read.                                                                *)
ReadsOldestFirst ==
    at \in {"scoplen", "rawread", "reading", "written"} =>
        /\ dr_stopped /\ dr_primed /\ ~bw_reset_request
        /\ \A i \in DOMAIN m_data : m_data[i].word = Window(FALSE)[i]

Trace == INSTANCE ScopeTrace

(* scopecls.cpp:168: "If the holdoff is zero, the triggered item is the very *)
(* last one."  The item that print() and writevcd() mark, the holdoff and    *)
(* one from the end, is the sample that carried the trigger, where that is  *)
(* still in the memory and i_ce did not cut the capture short.  print()      *)
(* leaves it out, and the mark with it, if it repeats the sample before.    *)
TriggerMarked ==
    at = "written" /\ m_holdoff < m_scoplen /\ h_since = br_holdoff + 1 =>
        LET data == [i \in DOMAIN m_data |-> m_data[i].word]
            Marks(lines) == \E line \in lines : line.trigger /\ line.word = h_trigger
        IN  /\ Item(m_scoplen - m_holdoff - 1).word = h_trigger
            /\ Marks(Trace!Vcd(data, m_holdoff))
            /\ \/ Marks(Trace!Prints(data, m_holdoff))
               \/ Trace!Skipped(data, m_scoplen - m_holdoff)

(* The core answers every call of the software in time, is silent when the  *)
(* bus is released (the asserts of wb_tb.h), and after the memory has been  *)
(* read the read address is back at its start.                             *)
EveryCallAnswered ==
    /\ ~m_bomb /\ pc # "abort"
    /\ at = "written" => raddr = 0

(* An interrupt waited for comes: neither clearing what was noticed before  *)
(* nor the clocks that takes can lose the only pulse of a capture.          *)
WaitReturns == (at = "waiting") ~> (at = "written" \/ ~br_config.manual)
=============================================================================
