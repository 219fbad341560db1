----------------------------- MODULE WB_TBDevice -----------------------------
(***************************************************************************)
(* The bench master of WB_TB on a bus with some pipelined Wishbone device: *)
(* one that may stall, answer late, or never answer, but that keeps to the *)
(* bus: it answers what it accepted, in order, and forgets what is still    *)
(* out when the master ends the cycle.  It stands for any core a bench     *)
(* may be built on; TESTB::tick is one clock of it.                        *)
(***************************************************************************)
EXTENDS WB_TB

CONSTANTS
    Calls,      \* the calls the bench makes
    Words,      \* the words the device holds
    NoCall

(* The calls are made by the functions of WB_TB: those that use the bus ask *)
(* for at least a word, and those that write bring the words along.         *)
ASSUME CallsAssumption ==
    /\ NoCall \notin Calls
    /\ \A c \in Calls :
        /\ c \in [op : {"readio", "readv", "writeio", "writev", "idle", "usleep", "wait"},
                  a : Nat, len : Nat, inc : BOOLEAN, words : Seq(Words)]
        /\ c.op \in {"readio", "writeio"} => c.len = 1
        /\ c.op \in {"readv", "writev"} => c.len >= 1
        /\ Len(c.words) = IF c.op \in {"writeio", "writev"} THEN c.len ELSE 0

VARIABLES
    o_wb,       \* the pins of the device: [ack, stall, data, interrupt]
    pending,    \* the words of the requests it has accepted, not answered
    h_log,      \* history: the accesses it has made for the call
    h_late      \* history: the clocks it has kept the call waiting

deviceVars == <<o_wb, pending, h_log, h_late>>
benchVars == <<tbVars, deviceVars>>

Pins == [ack : BOOLEAN, stall : BOOLEAN, data : Words, interrupt : BOOLEAN]

DeviceInit ==
    /\ o_wb \in {o \in Pins : ~o.ack /\ ~o.interrupt}
    /\ pending = <<>>
    /\ h_log = <<>>
    /\ h_late = 0

(* What is in flight once the edge has taken a request, answered by w.      *)
InFlight(w) ==
    IF ~i_wb.cyc THEN <<>>
    ELSE IF taken(o_wb.stall) THEN Append(pending, w) ELSE pending

(* A clock on which the call gets no further: the bus is stalled, an answer *)
(* is due, or rand() withholds the strobe.  Counted up to BOMBCOUNT.        *)
Waiting(o) ==
    \/ o_wb.stall
    \/ pending # <<>> /\ ~o.ack
    \/ pc = "v_issue" /\ ~i_wb.stb
    \/ taken(o_wb.stall) /\ ~o.ack

(* A positive edge of the clock, in the device.                            *)
Device(o) ==
    \E w \in Words :
        LET word == IF i_wb.we THEN i_wb.data ELSE w
        IN  /\ o.ack => InFlight(w) # <<>> /\ o.data = Head(InFlight(w))
            /\ pending' = IF o.ack THEN Tail(InFlight(w)) ELSE InFlight(w)
            /\ h_log' = IF taken(o_wb.stall)
                        THEN Append(h_log, [we |-> i_wb.we, addr |-> i_wb.addr, word |-> word])
                        ELSE h_log
            /\ h_late' = IF Waiting(o) /\ h_late < BOMBCOUNT THEN h_late + 1 ELSE h_late

-----------------------------------------------------------------------------
OnBus == pc \notin {"ready", "abort", "idle", "sleep"}

Start(c) ==
    /\ Invoke(c, o_wb)
    /\ h_log' = IF OnBus' THEN <<>> ELSE h_log
    /\ h_late' = IF OnBus' THEN 0 ELSE h_late
    /\ UNCHANGED <<o_wb, pending>>

Clear == clear /\ UNCHANGED deviceVars

tick ==
    \E o \in Pins :
        /\ o_wb' = o
        /\ Device(o)
        /\ Proceed(o_wb.stall, o)

(* A failed assert ends the program.                                       *)
Aborted == pc = "abort" /\ UNCHANGED benchVars

Init == TBInit /\ DeviceInit
Next == (\E c \in Calls : Start(c)) \/ Clear \/ tick \/ Aborted
Spec == Init /\ [][Next]_benchVars

(* A call, once begun, runs on.                                            *)
FairSpec == Spec /\ WF_benchVars(tick)

-----------------------------------------------------------------------------
TypeOK ==
    /\ pc \in {"ready", "abort", "stall", "accept", "wait", "settle", "release",
               "v_idle", "v_issue", "v_collect", "x_stall", "x_accept",
               "x_collect", "idle", "sleep"}
    /\ i_wb.stb => i_wb.cyc
    /\ OnBus => errcount \in 0 .. BOMBCOUNT * (call.len + 1) + 2
    /\ OnBus => \A n \in {nacks, Len(answers), Len(pending)} : n <= call.len
    /\ failed => m_bomb
    /\ pc = "ready" => ~i_wb.cyc

(* The calls are those of a DEVBUS: one that does not report a failure has  *)
(* made each of its accesses once and in order, whatever stalls and delays *)
(* it met, and returns the words they read.                                *)
BusCalls == {c \in Calls : c.op \notin {"idle", "usleep", "wait"}}
Promise == INSTANCE DevBus WITH
    Calls <- BusCalls,
    call <- IF OnBus THEN call ELSE NoCall,
    served <- h_log,
    result <- IF OnBus \/ failed THEN <<>> ELSE answers,
    failed <- failed, bombed <- m_bomb
ImplementsDevBus == Promise!DevBusSpec

(* No call fails on a device that keeps up: the limits of wb_tb.h are not   *)
(* reached before the device, or the strobe, has been late that often.      *)
NoFalseAlarm == failed => h_late >= BOMBCOUNT - 2

(* A call returns or dies on an assert, even if the device never answers;   *)
(* only a wait for the interrupt may last.                                 *)
CallReturns == (pc # "ready") ~> (pc \in {"ready", "abort"} \/ call.op = "wait")
=============================================================================
