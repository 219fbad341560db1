----------------------------- MODULE TestBench -----------------------------
(***************************************************************************)
(* The self-checking benches: main() of bench/cpp/wbscope_tb.cpp and of     *)
(* bench/cpp/wbscopc_tb.cpp, which differ in how they check what they read, *)
(* on the bus of WB_TB and on one of the two cores as bench/rtl/*.v feed    *)
(* it.  A sample is [t, n], the trigger bit and the data.                  *)
(***************************************************************************)
EXTENDS WBScopC, WB_TB, FiniteSetsExt

CONSTANTS
    SEL,            \* whether all of i_wb_sel is set (wb_tb.h leaves it out)
    COUNTS,         \* a bound: o_counter is taken modulo COUNTS
    Pattern(_),     \* what wbscopc_tb.v makes of o_counter
    WARMUPS         \* the clocks wbscopc_tb.cpp leaves the core to prime

VARIABLES
    core,           \* "wbscope" or "wbscopc"
    at,             \* what main() is waiting for, or "success", "failure"
    v,              \* the holdoff of the last status read
    trigger_time,
    m_tickcount,    \* up to MEMLEN + 1
    i_trigger, o_counter, o_data    \* of the Verilog bench

benchVars == <<core, at, v, trigger_time, m_tickcount>>
pinVars == <<i_trigger, o_counter, o_data>>
allVars == <<vars, tbVars, benchVars, pinVars>>

Plain == INSTANCE WBScopeSync

BenchInit ==
    /\ Init /\ TBInit
    /\ core \in {"wbscope", "wbscopc"} /\ at = "start"
    /\ v = 0 /\ trigger_time = 0 /\ m_tickcount = 0
    /\ i_trigger = FALSE /\ o_counter = 0
    /\ o_data = [t |-> FALSE, n |-> 0]

req == [cyc |-> i_wb.cyc, stb |-> i_wb.stb, we |-> i_wb.we, sel |-> SEL,
        addr |-> IF i_wb.addr % 2 = 0 THEN "control" ELSE "data", word |-> i_wb.data]
o_wb == [ack |-> br_wb_ack, stall |-> FALSE, data |-> o_bus_data,
         interrupt |-> Interrupt(IF core = "wbscope" THEN dr_stopped ELSE dw_final_stop)]

(* wbscope samples the counter, wbscopc the register made from it.         *)
i_data == IF core = "wbscope" THEN [t |-> i_trigger, n |-> o_counter] ELSE o_data

tick ==
    /\ UNCHANGED <<i_trigger, core, at, v, trigger_time>>
    /\ IF core = "wbscope"
       THEN Plain!Tick(req, TRUE, i_trigger, i_data) /\ UNCHANGED <<rleVars, h_samples>>
       ELSE Tick(req, TRUE, i_trigger, i_data)
    /\ o_counter' = (o_counter + 1) % COUNTS
    /\ o_data' = [t |-> i_trigger, n |-> Pattern(o_counter)]
    /\ m_tickcount' = IF m_tickcount <= MEMLEN THEN m_tickcount + 1 ELSE m_tickcount
    /\ Proceed(FALSE, o_wb')

-----------------------------------------------------------------------------
(* main(), from one call of the bus to the next.                           *)
WBSCOPE_STATUS == 0
WBSCOPE_DATA == 4
status == answers[1]

At(place) == pc = "ready" /\ at = place
Calls(c, place) == Invoke(c, o_wb) /\ at' = place
Fails == at' = "failure" /\ UNCHANGED tbVars
Keeping(kept) == UNCHANGED <<vars, core, m_tickcount, o_counter, o_data, kept>>

(* reset() is a clock off the bus: i_reset goes nowhere.                   *)
Reset ==
    /\ \/ At("start") /\ Calls(idle(1), "reset")
       \/ At("reset") /\ Calls(idle(2), "started")
    /\ Keeping(<<v, trigger_time, i_trigger>>)

ReadStatus ==
    /\ \/ At("started") /\ Calls(readio(WBSCOPE_STATUS), "first status")
       \/ At("priming") /\ Calls(readio(WBSCOPE_STATUS), "primed")
    /\ Keeping(<<v, trigger_time, i_trigger>>)

Prime ==
    /\ At("first status")
    /\ IF MEMLEN < m_tickcount /\ status.primed THEN Fails
       ELSE \E counts \in IF core = "wbscope" THEN {MEMLEN} ELSE WARMUPS :
               Calls(idle(counts), "priming")
    /\ Keeping(<<v, trigger_time, i_trigger>>)

(* trigger(): one clock with i_trigger high.                               *)
trigger ==
    /\ At("primed")
    /\ IF status.primed THEN Calls(idle(1), "trigger") /\ i_trigger' = TRUE
                        ELSE Fails /\ UNCHANGED i_trigger
    /\ Keeping(<<v, trigger_time>>)

Triggered ==
    /\ At("trigger") /\ Calls(readio(WBSCOPE_STATUS), "triggered")
    /\ i_trigger' = FALSE
    /\ trigger_time' = o_counter
    /\ Keeping(<<v>>)

(* The status is read until it shows the scope stopped; then the memory is. *)
WaitStopped ==
    /\ At("triggered") \/ At("stopped")
    /\ IF at = "triggered" /\ ~status.triggered THEN Fails
       ELSE IF status.stopped THEN Calls(readz(WBSCOPE_DATA, MEMLEN), "data")
       ELSE Calls(readio(WBSCOPE_STATUS), "stopped")
    /\ v' = status.holdoff
    /\ Keeping(<<trigger_time, i_trigger>>)

-----------------------------------------------------------------------------
buf(i) == answers[i + 1].word

(* wbscope_tb.cpp: the samples count up by one ...                         *)
Increments == \A i \in 1 .. MEMLEN - 1 : (buf(i).n - buf(i - 1).n) % COUNTS = 1

(* ... the trigger bit is at trigpt or before it, of which the code makes   *)
(* ((1<<ln) - v) & 0xffffe ...                                             *)
trigpt == 2 * ((MEMLEN - v) \div 2)
TriggerFound == trigpt \in 0 .. MEMLEN - 1 =>
                   buf(trigpt).t \/ trigpt = 0 \/ buf(trigpt - 1).t

(* ... and the first is as old as the holdoff says.                        *)
StartsRight == buf(0) = [t |-> FALSE, n |-> (trigger_time + v - MEMLEN) % COUNTS]

(* wbscopc_tb.cpp: the time of a word, the words that end the memory, and   *)
(* the last sample that carries the trigger bit.                           *)
addr(i) == MapThenSumSet(LAMBDA k : IF buf(k).adr THEN buf(k).val + 1 ELSE 1, 0 .. i - 1)
EndsInRun == buf(MEMLEN - 1).adr
Marked == {i \in 0 .. MEMLEN - 1 : ~buf(i).adr /\ buf(i).val.t}
TriggerAtHoldoff ==
    \E i \in Marked : /\ \A k \in Marked : k <= i
                      /\ addr(MEMLEN) - 1 - addr(i) = v

Good == IF core = "wbscope" THEN Increments /\ TriggerFound /\ StartsRight
                            ELSE ~EndsInRun /\ TriggerAtHoldoff

Check ==
    /\ At("data")
    /\ at' = IF Good THEN "success" ELSE "failure"
    /\ UNCHANGED tbVars
    /\ Keeping(<<v, trigger_time, i_trigger>>)

BenchNext ==
    \/ tick
    \/ Reset \/ ReadStatus \/ Prime \/ trigger \/ Triggered \/ WaitStopped \/ Check

BenchSpec == BenchInit /\ [][BenchNext]_allVars
FairBenchSpec == BenchSpec /\ WF_allVars(BenchNext)

-----------------------------------------------------------------------------
BenchTypeOK ==
    /\ Len(answers) <= MEMLEN
    /\ waddr \in Address /\ raddr \in Address /\ o_counter \in 0 .. COUNTS - 1

(* wbscope_tb.cpp:183, wbscopc_tb.cpp:192: "SUCCESS!!".  No check of either *)
(* bench fails, whenever the trigger comes: the core is primed and then     *)
(* triggered when the bench says so, and stops with the trigger the holdoff *)
(* from the end of what it recorded.                                       *)
NoFailure == at # "failure" /\ pc # "abort" /\ ~m_bomb

(* The bench ends: the scope stops by itself, and every call returns.       *)
Ends == <>(at = "success")
=============================================================================
