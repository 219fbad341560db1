---------------------------- MODULE ScopeCapture ----------------------------
(***************************************************************************)
(* The data-clock half of the Wishbone scope, rtl/wbscope.v: the trigger,  *)
(* the holdoff counter, the stop flag, the one-deep data pipe and the ring *)
(* memory it fills.  Every register below changes on the positive edge of  *)
(* i_data_clk only, and all of them change together: one operator,         *)
(* DataEdge, is that edge.  What the edge samples from outside (the reset  *)
(* and trigger controls, the holdoff, the clock enable, the trigger wire   *)
(* and the sample) are its parameters, so that the synchronous and the     *)
(* two-clock scope share it.                                               *)
(*                                                                         *)
(* Memory words hold samples.  A register the Verilog leaves uninitialised *)
(* holds Unknown, as it does in a Verilog simulation.                      *)
(***************************************************************************)
EXTENDS Naturals

CONSTANTS
    MEMLEN,         \* 1 << LGMEM, the number of words of the ring
    MAXHOLDOFF,     \* (1 << HOLDOFFBITS) - 1, the largest holdoff
    SAMPLES,        \* the values i_data takes
    Unknown,        \* the content of an uninitialised register
    Stream(_),      \* the samples that may follow one on i_data
    Enables         \* the levels of i_ce: {TRUE} where it is wired to 1

(* LGMEM >= 1 and HOLDOFFBITS > 1: the branch of dr_stopped for a holdoff  *)
(* of one bit is not modelled.                                             *)
ASSUME CaptureAssumption ==
    /\ MEMLEN \in Nat /\ MEMLEN >= 2
    /\ MAXHOLDOFF \in Nat /\ MAXHOLDOFF >= 3
    /\ Unknown \notin SAMPLES
    /\ \A w \in SAMPLES \cup {Unknown} : Stream(w) \subseteq SAMPLES
    /\ Enables \subseteq BOOLEAN

Address == 0 .. MEMLEN - 1
Holdoff == 0 .. MAXHOLDOFF
Word    == SAMPLES \cup {Unknown}

VARIABLES
    dr_triggered,   \* the trigger was accepted since the last reset
    dr_primed,      \* the ring has been filled once
    dr_stopped,     \* recording is over until the next reset
    counter,        \* samples since the trigger, HOLDOFFBITS wide
    waddr,          \* the next word of the ring to write: the oldest one
    data_pipe,      \* the sample before the current one
    mem             \* the ring

captureVars ==
    <<dr_triggered, dr_primed, dr_stopped, counter, waddr, data_pipe, mem>>

(* History variables: what no register holds, for the properties only.     *)
VARIABLES
    h_trigger,      \* the sample on i_data when the trigger was accepted
    h_since         \* the samples stored from that one on

historyVars == <<h_trigger, h_since>>

CaptureTypeOK ==
    /\ dr_triggered \in BOOLEAN
    /\ dr_primed \in BOOLEAN
    /\ dr_stopped \in BOOLEAN
    /\ counter \in Holdoff
    /\ waddr \in Address
    /\ data_pipe \in Word
    /\ mem \in [Address -> Word]
    /\ h_trigger \in Word
    /\ h_since \in 0 .. MAXHOLDOFF + 1

(* Operators whose name ends in _BUG are not part of the model: each is a  *)
(* way the operator after it could have been got wrong, and shows that a   *)
(* property of PROJECT.json can tell the difference.                       *)
NextAddress_BUG(a) == a + 1
NextCount_BUG(c) == c + 1

(* An address of LGMEM bits, and a counter of HOLDOFFBITS, wrap to zero.   *)
NextAddress(a) == IF a = MEMLEN - 1 THEN 0 ELSE a + 1
NextCount(c)   == IF c = MAXHOLDOFF THEN 0 ELSE c + 1

(* The word of the ring i places after address a.                          *)
RingAt(a, i) == IF a + i < MEMLEN THEN a + i ELSE a + i - MEMLEN

CaptureInit ==
    /\ dr_triggered = FALSE
    /\ dr_primed = FALSE
    /\ dr_stopped = FALSE
    /\ counter = 0
    /\ waddr = 0
    /\ data_pipe = Unknown
    /\ mem = [a \in Address |-> Unknown]
    /\ h_trigger = Unknown
    /\ h_since = 0

DwTrigger_BUG(manual, disable, trig) == dr_primed /\ (trig \/ manual) /\ ~disable

(* dw_trigger: the input trigger, unless disabled, or the manual one.      *)
DwTrigger(manual, disable, trig) ==
    dr_primed /\ ((trig /\ ~disable) \/ manual)

TriggerFlag(reset, manual, disable, ce, trig) ==
    dr_triggered' = (~reset /\ (dr_triggered \/ (ce /\ DwTrigger(manual, disable, trig))))

CountHoldoff_BUG(reset, ce) ==
    counter' = IF reset THEN 0
               ELSE IF ce /\ ~dr_triggered THEN NextCount(counter) ELSE counter

CountHoldoff(reset, ce) ==
    counter' = IF reset THEN 0
               ELSE IF ce /\ dr_triggered /\ ~dr_stopped THEN NextCount(counter)
               ELSE counter

StopFlag_BUG(reset, holdoff, ce) ==
    dr_stopped' = (dr_triggered /\ ~reset /\ (dr_stopped \/ counter > holdoff))

(* The stop is not qualified by i_ce: the test for it is commented out.    *)
StopFlag(reset, holdoff, ce) ==
    dr_stopped' = (/\ dr_triggered
                   /\ ~reset
                   /\ dr_stopped \/ counter >= holdoff)

FillRing_BUG(reset, ce) ==
    IF reset
    THEN waddr' = 0 /\ dr_primed' = FALSE
    ELSE IF ce /\ ~dr_stopped
    THEN waddr' = NextAddress(waddr) /\ dr_primed' = (dr_primed \/ waddr = MEMLEN - 2)
    ELSE UNCHANGED <<waddr, dr_primed>>

FillRing_STOP_BUG(reset, ce) ==
    IF reset
    THEN waddr' = 0 /\ dr_primed' = FALSE
    ELSE IF ce
    THEN waddr' = NextAddress(waddr) /\ dr_primed' = (dr_primed \/ waddr = MEMLEN - 1)
    ELSE UNCHANGED <<waddr, dr_primed>>

FillRing(reset, ce) ==
    IF reset
    THEN waddr' = 0 /\ dr_primed' = FALSE
    ELSE IF ce /\ ~dr_stopped
    THEN /\ waddr' = NextAddress(waddr)
         /\ dr_primed' = (dr_primed \/ waddr = MEMLEN - 1)
    ELSE UNCHANGED <<waddr, dr_primed>>

StoreSample_BUG(ce, sample) ==
    /\ data_pipe' = IF ce THEN sample ELSE data_pipe
    /\ mem' = IF ce /\ ~dr_stopped THEN [mem EXCEPT ![waddr] = sample] ELSE mem

(* The write is not qualified by the reset: while it lasts word 0 follows  *)
(* the input.                                                              *)
StoreSample(ce, sample) ==
    /\ data_pipe' = IF ce THEN sample ELSE data_pipe
    /\ mem' = IF ce /\ ~dr_stopped THEN [mem EXCEPT ![waddr] = data_pipe] ELSE mem

(* The history: which sample carried the trigger, and how many samples     *)
(* have been stored since, that one included, up to MAXHOLDOFF + 1: a scope *)
(* that stops never counts further.                                        *)
Remember(reset, manual, disable, ce, trig, sample) ==
    LET accepted == ce /\ ~dr_triggered /\ DwTrigger(manual, disable, trig)
        stored   == ce /\ dr_triggered /\ ~dr_stopped /\ h_since <= MAXHOLDOFF
    IN  /\ h_trigger' = IF reset THEN Unknown
                        ELSE IF accepted THEN sample ELSE h_trigger
        /\ h_since' = IF reset \/ accepted THEN 0
                      ELSE IF stored THEN h_since + 1 ELSE h_since

(* One positive edge of i_data_clk.                                        *)
DataEdge(reset, manual, disable, holdoff, ce, trig, sample) ==
    /\ TriggerFlag(reset, manual, disable, ce, trig)
    /\ CountHoldoff(reset, ce)
    /\ StopFlag(reset, holdoff, ce)
    /\ FillRing(reset, ce)
    /\ StoreSample(ce, sample)
    /\ Remember(reset, manual, disable, ce, trig, sample)

-----------------------------------------------------------------------------
(* The ring read from the oldest sample on: the window of CaptureWindow.    *)
(* Before the memory is primed only the words below waddr hold samples.    *)

Phase(reset) == CASE reset -> "reset"
                  [] ~reset /\ dr_stopped -> "stopped"
                  [] ~reset /\ ~dr_stopped /\ dr_triggered -> "triggered"
                  [] OTHER -> "collecting"

Fill(reset) == IF reset THEN 0 ELSE IF dr_primed THEN MEMLEN ELSE waddr

Window(reset) ==
    [i \in 1 .. Fill(reset) |-> mem[IF dr_primed THEN RingAt(waddr, i - 1) ELSE i - 1]]

Since(reset) == IF reset THEN 0 ELSE h_since

=============================================================================
