------------------------------ MODULE WBScopC ------------------------------
(***************************************************************************)
(* The compressed Wishbone scope, rtl/wbscopc.v, with SYNCHRONOUS = 1.  Its *)
(* bus half and its trigger are those of rtl/wbscope.v line by line, and    *)
(* are taken from ScopeBus and ScopeCapture: counter is holdoff_counter,   *)
(* data_pipe is qd_data.  A word of the ring is a value or the length of a  *)
(* run, of one sample less than it stands for, of the value before it.      *)
(***************************************************************************)
EXTENDS ScopeBus, Sequences

CONSTANTS
    STEPS,          \* 1 << STEP_BITS
    MAX_STEP,       \* the longest a run may get
    MAXHISTORY      \* a bound on the samples remembered for the properties

ASSUME StepAssumption ==
    /\ STEPS \in Nat /\ MAX_STEP \in 1 .. STEPS - 1
    /\ MAXHISTORY \in Nat \ {0}

VARIABLES
    dr_stop_pipe,   \* dr_stopped up to DLYSTOP enabled clocks ago
    dr_force_write, dr_force_inhibit, dr_run_timeout, new_data,
    ck_addr,        \* the samples since the last write
    imm, lst,       \* imm_adr and imm_val, lst_adr and lst_val
    record_ce, r_data,
    h_samples       \* history: the last samples before dr_stopped

rleVars == <<dr_stop_pipe, dr_force_write, dr_force_inhibit, dr_run_timeout,
             new_data, ck_addr, imm, lst, record_ce, r_data>>
vars == <<captureVars, historyVars, busVars, rleVars, h_samples>>

DLYSTOP == 5
Value(w)  == [adr |-> FALSE, val |-> w]
RunOf(n)  == [adr |-> TRUE, val |-> n]
MemWord == [adr : {FALSE}, val : SAMPLES \cup {Unknown}]
           \cup [adr : {TRUE}, val : 0 .. STEPS - 1]

TypeOK ==
    /\ dr_stop_pipe \in [1 .. DLYSTOP -> BOOLEAN]
    /\ ck_addr \in 0 .. STEPS - 1
    /\ imm \in MemWord /\ lst \in MemWord /\ r_data \in MemWord
    /\ mem \in [Address -> MemWord \cup {Unknown}]
    /\ waddr \in Address /\ counter \in Holdoff /\ data_pipe \in Word
    /\ raddr \in Address /\ br_holdoff \in Holdoff

(* What has no initial value in the Verilog is set by the reset the core   *)
(* starts with.                                                            *)
Init ==
    /\ CaptureInit /\ BusInit
    /\ dr_stop_pipe = [i \in 1 .. DLYSTOP |-> FALSE]
    /\ dr_force_write = FALSE /\ dr_force_inhibit = FALSE
    /\ dr_run_timeout = TRUE /\ new_data = TRUE /\ ck_addr = 0
    /\ imm = RunOf(0) /\ lst = RunOf(0)
    /\ record_ce = FALSE /\ r_data = RunOf(0)
    /\ h_samples = <<>>

-----------------------------------------------------------------------------
reset == bw_reset_request
dw_trigger(trig) == DwTrigger(br_config.manual, br_config.disable, trig)
dw_final_stop == dr_stop_pipe[DLYSTOP]

StopAfterHoldoff_BUG(ce) ==
    dr_stopped' = (/\ dr_triggered /\ ~reset
                   /\ dr_stopped \/ (ce /\ counter > br_holdoff))

(* Unlike that of wbscope.v, the stop waits for i_ce.                      *)
StopAfterHoldoff(ce) ==
    dr_stopped' = (/\ dr_triggered /\ ~reset
                   /\ dr_stopped \/ (ce /\ counter >= br_holdoff))

StopPipe_BUG(ce) ==
    dr_stop_pipe' = IF reset THEN [i \in 1 .. DLYSTOP |-> FALSE]
                    ELSE IF ce /\ ~dr_stopped
                    THEN [i \in 1 .. DLYSTOP |->
                             IF i = 1 THEN dr_stopped ELSE dr_stop_pipe[i - 1]]
                    ELSE dr_stop_pipe

StopPipe(ce) ==
    dr_stop_pipe' = IF reset THEN [i \in 1 .. DLYSTOP |-> FALSE]
                    ELSE IF ce
                    THEN [i \in 1 .. DLYSTOP |->
                             IF i = 1 THEN dr_stopped ELSE dr_stop_pipe[i - 1]]
                    ELSE dr_stop_pipe

ForceWrite_BUG(ce, trig) ==
    IF reset THEN dr_force_write' = TRUE /\ dr_force_inhibit' = FALSE
    ELSE IF ce
    THEN /\ dr_force_inhibit' = dr_force_write
         /\ dr_force_write' = (\/ dr_run_timeout /\ ~dr_force_write /\ ~dr_force_inhibit
                               \/ ~dr_primed)
    ELSE UNCHANGED <<dr_force_write, dr_force_inhibit>>

(* A value is written at least every MAX_STEP samples, with the trigger,    *)
(* and on every clock until the memory is primed.                          *)
ForceWrite(ce, trig) ==
    IF reset THEN dr_force_write' = TRUE /\ dr_force_inhibit' = FALSE
    ELSE IF ce
    THEN /\ dr_force_inhibit' = dr_force_write
         /\ dr_force_write' = (\/ dr_run_timeout /\ ~dr_force_write /\ ~dr_force_inhibit
                               \/ dw_trigger(trig) /\ ~dr_triggered
                               \/ ~dr_primed)
    ELSE UNCHANGED <<dr_force_write, dr_force_inhibit>>

writing_BUG == new_data \/ dr_force_write

writing == new_data \/ dr_force_write \/ dr_stopped

CountRun(ce) ==
    IF reset THEN ck_addr' = 0 /\ dr_run_timeout' = TRUE
    ELSE IF ce
    THEN /\ ck_addr' = IF writing THEN 0 ELSE (ck_addr + 1) % STEPS
         /\ dr_run_timeout' = (ck_addr >= MAX_STEP - 1)
    ELSE UNCHANGED <<ck_addr, dr_run_timeout>>

NewData(ce, sample) ==
    /\ new_data' = (reset \/ IF ce THEN sample # data_pipe ELSE new_data)
    /\ data_pipe' = IF ce THEN sample ELSE data_pipe

(* The word to write, and the one before it: of a series of growing runs    *)
(* only the last is to reach the memory.                                   *)
Compress(ce) ==
    IF reset THEN imm' = RunOf(0) /\ lst' = RunOf(0)
    ELSE IF ce
    THEN /\ imm' = IF writing THEN Value(data_pipe) ELSE RunOf(ck_addr)
         /\ lst' = imm
    ELSE UNCHANGED <<imm, lst>>

recordable == ~lst.adr \/ ~imm.adr

Record_BUG(ce) ==
    /\ record_ce' = (ce /\ recordable /\ ~dr_stop_pipe[2])
    /\ r_data' = IF recordable THEN lst ELSE Value(data_pipe)

(* Neither is qualified by the reset: a word may follow it.                *)
Record(ce) ==
    /\ record_ce' = (ce /\ recordable /\ ~dr_stop_pipe[3])
    /\ r_data' = IF recordable THEN lst ELSE Value(data_pipe)

WriteMem ==
    /\ IF reset THEN waddr' = 0 /\ dr_primed' = FALSE
       ELSE IF record_ce
       THEN waddr' = NextAddress(waddr) /\ dr_primed' = (dr_primed \/ waddr = MEMLEN - 1)
       ELSE UNCHANGED <<waddr, dr_primed>>
    /\ mem' = IF record_ce THEN [mem EXCEPT ![waddr] = r_data] ELSE mem

(* The samples from the one in the pipe at the end of a reset to the one    *)
(* that sets dr_stopped.                                                   *)
RememberSample(ce, sample) ==
    h_samples' =
        IF reset THEN <<data_pipe'>>
        ELSE IF ce /\ ~dr_stopped
        THEN LET longer == Append(h_samples, sample)
             IN  IF Len(longer) > MAXHISTORY THEN Tail(longer) ELSE longer
        ELSE h_samples

Tick(req, ce, trig, sample) ==
    /\ BusEdge(req, reset, dw_final_stop, dr_triggered, dr_primed, Value(data_pipe))
    /\ Prefetch(req, waddr, mem[this_addr])
    /\ TriggerFlag(reset, br_config.manual, br_config.disable, ce, trig)
    /\ CountHoldoff(reset, ce)
    /\ StopAfterHoldoff(ce) /\ StopPipe(ce)
    /\ ForceWrite(ce, trig) /\ CountRun(ce) /\ NewData(ce, sample)
    /\ Compress(ce) /\ Record(ce) /\ WriteMem
    /\ Remember(reset, br_config.manual, br_config.disable, ce, trig, sample)
    /\ RememberSample(ce, sample)

(* On a clock without i_ce neither i_trigger nor i_data is looked at.      *)
Next == \E req \in Requests :
    \/ \E trig \in BOOLEAN, sample \in Stream(data_pipe) : Tick(req, TRUE, trig, sample)
    \/ FALSE \in Enables /\ Tick(req, FALSE, FALSE, data_pipe)

Spec == Init /\ [][Next]_vars
=============================================================================
