--------------------------- MODULE WBScopC_proofs ---------------------------
(***************************************************************************)
(* The compressed scope for every memory length, every holdoff, every       *)
(* length of its runs, every stream of samples and every master.           *)
(***************************************************************************)
EXTENDS WBScopCTrace, ScopeBus_proofs,
        FiniteSetTheorems, WellFoundedInduction, SequenceTheorems

(* The word written last, and the one before it in the ring, and so on.     *)
newest == mem[RingAt(waddr, MEMLEN - 1)]

(* A stop goes down its pipe, one enabled clock at a time, until a reset    *)
(* empties it, ...                                                         *)
PipeInv ==
    /\ dr_stopped \in BOOLEAN
    /\ dr_stopped => dr_triggered
    /\ dr_stop_pipe[1] => dr_stopped
    /\ \A i \in 1 .. DLYSTOP - 1 : dr_stop_pipe[i + 1] => dr_stop_pipe[i]

(* ... and ahead of it, one place at a time, goes the value written with    *)
(* it: through the two words of the compressor, into the record stage and  *)
(* from there, on the next clock and with nothing behind it, to memory.    *)
LastInv ==
    /\ dr_stop_pipe[1] => ~imm.adr
    /\ dr_stop_pipe[2] => ~lst.adr
    /\ dr_stop_pipe[3] => IF record_ce THEN ~r_data.adr ELSE ~newest.adr
    /\ dr_stop_pipe[4] => ~record_ce

ScopCInv == TypeOK /\ PipeInv /\ LastInv

-----------------------------------------------------------------------------
LEMMA Widths ==
    /\ 0 \in 0 .. STEPS - 1 /\ \A n \in 0 .. STEPS - 1 : (n + 1) % STEPS \in 0 .. STEPS - 1
    /\ \A n \in 0 .. STEPS - 1 : RunOf(n) \in MemWord
    /\ \A w \in Word : Value(w) \in MemWord
<1>1. STEPS \in Nat /\ STEPS >= 2
  BY StepAssumption
<1>2. 0 \in 0 .. STEPS - 1 /\ \A n \in 0 .. STEPS - 1 : (n + 1) % STEPS \in 0 .. STEPS - 1
  BY <1>1
<1>3. \A n \in 0 .. STEPS - 1 : RunOf(n) \in MemWord
  BY DEF RunOf, MemWord
<1>4. \A w \in Word : Value(w) \in MemWord
  BY DEF Value, MemWord, Word
<1> QED BY <1>2, <1>3, <1>4

LEMMA ScopCInitial == Init => ScopCInv
<1> SUFFICES ASSUME Init PROVE ScopCInv
  OBVIOUS
<1>1. CaptureTypeOK /\ CaptureInv /\ BusTypeOK
  BY CaptureInitial, BusInitial DEF Init
<1>2. dr_stop_pipe = [i \in 1 .. DLYSTOP |-> FALSE]
  BY DEF Init
<1>3. imm = RunOf(0) /\ lst = RunOf(0) /\ r_data = RunOf(0) /\ ck_addr = 0
  BY DEF Init
<1>4. mem \in [Address -> MemWord \cup {Unknown}]
  BY DEF Init, CaptureInit
<1>5. TypeOK
  BY <1>1, <1>2, <1>3, <1>4, Widths DEF TypeOK, CaptureTypeOK, BusTypeOK
<1>6. \A i \in 1 .. DLYSTOP : ~dr_stop_pipe[i]
  BY <1>2
<1>7. dr_stopped = FALSE /\ 1 \in 1 .. DLYSTOP /\ 2 \in 1 .. DLYSTOP
      /\ 3 \in 1 .. DLYSTOP /\ 4 \in 1 .. DLYSTOP
      /\ \A i \in 1 .. DLYSTOP - 1 : i + 1 \in 1 .. DLYSTOP
  BY DEF Init, CaptureInit, DLYSTOP
<1> QED BY <1>5, <1>6, <1>7 DEF ScopCInv, PipeInv, LastInv

(* A clock, with what it samples.                                          *)
Ticks(req, ce, trig, sample) ==
    /\ req \in Requests /\ ce \in BOOLEAN /\ trig \in BOOLEAN /\ sample \in Word
    /\ Tick(req, ce, trig, sample)

LEMMA NextTicks ==
    ASSUME TypeOK, Next
    PROVE  \E req, ce, trig, sample : Ticks(req, ce, trig, sample)
<1>1. data_pipe \in Word
  BY DEF TypeOK
<1>2. \A sample \in Stream(data_pipe) : sample \in Word
  BY <1>1, CaptureAssumption DEF Word
<1>3. PICK req \in Requests :
        \/ \E trig \in BOOLEAN, sample \in Stream(data_pipe) : Tick(req, TRUE, trig, sample)
        \/ FALSE \in Enables /\ Tick(req, FALSE, FALSE, data_pipe)
  BY DEF Next
<1>4. CASE \E trig \in BOOLEAN, sample \in Stream(data_pipe) : Tick(req, TRUE, trig, sample)
  BY <1>2, <1>4 DEF Ticks
<1>5. CASE Tick(req, FALSE, FALSE, data_pipe)
  BY <1>1, <1>5 DEF Ticks
<1> QED BY <1>3, <1>4, <1>5

(* The types of the bus half, of the trigger and of the coder are kept.     *)
LEMMA ScopCTypes ==
    ASSUME TypeOK, PipeInv, NEW req, NEW ce, NEW trig, NEW sample,
           Ticks(req, ce, trig, sample)
    PROVE  TypeOK'
<1>1. /\ req \in Requests /\ ce \in BOOLEAN /\ sample \in Word
      /\ BusEdge(req, reset, dw_final_stop, dr_triggered, dr_primed, Value(data_pipe))
      /\ CountHoldoff(reset, ce) /\ StopPipe(ce) /\ CountRun(ce)
      /\ NewData(ce, sample) /\ Compress(ce) /\ Record(ce) /\ WriteMem
  BY DEF Ticks, Tick
<1>2. dr_stop_pipe' \in [1 .. DLYSTOP -> BOOLEAN]
  <2>1. reset => dr_stop_pipe' = [i \in 1 .. DLYSTOP |-> FALSE]
    BY <1>1 DEF StopPipe
  <2>2. ~reset /\ ce =>
          dr_stop_pipe' = [i \in 1 .. DLYSTOP |->
                             IF i = 1 THEN dr_stopped ELSE dr_stop_pipe[i - 1]]
    BY <1>1 DEF StopPipe
  <2>3. ~reset /\ ~ce => dr_stop_pipe' = dr_stop_pipe
    BY <1>1 DEF StopPipe
  <2>4. \A i \in 1 .. DLYSTOP : i # 1 => i - 1 \in 1 .. DLYSTOP
    BY DEF DLYSTOP
  <2>5. \A i \in 1 .. DLYSTOP :
            (IF i = 1 THEN dr_stopped ELSE dr_stop_pipe[i - 1]) \in BOOLEAN
    BY <2>4 DEF TypeOK, PipeInv
  <2>6. ~reset /\ ce => dr_stop_pipe' \in [1 .. DLYSTOP -> BOOLEAN]
    BY <2>2, <2>5
  <2>7. reset => dr_stop_pipe' \in [1 .. DLYSTOP -> BOOLEAN]
    BY <2>1
  <2> QED BY <2>3, <2>6, <2>7 DEF TypeOK
<1>3. ck_addr' \in 0 .. STEPS - 1
  BY <1>1, Widths DEF CountRun, TypeOK
<1>4. imm' \in MemWord /\ lst' \in MemWord
  BY <1>1, Widths DEF Compress, TypeOK
<1>5. r_data' \in MemWord
  BY <1>1, Widths DEF Record, TypeOK
<1>6. mem' \in [Address -> MemWord \cup {Unknown}] /\ waddr' \in Address
  <2>1. mem' = mem \/ mem' = [mem EXCEPT ![waddr] = r_data]
    BY <1>1 DEF WriteMem
  <2>2. waddr' \in {0, waddr, NextAddress(waddr)}
    BY <1>1 DEF WriteMem
  <2>3. 0 \in Address
    BY CaptureAssumption, SMT DEF Address
  <2> QED BY <2>1, <2>2, <2>3, RingAddresses DEF TypeOK
<1>7. counter' \in Holdoff
  BY <1>1, CaptureAssumption, SMT DEF CountHoldoff, TypeOK, NextCount, Holdoff
<1>8. data_pipe' \in Word
  BY <1>1 DEF NewData, TypeOK
<1>9. raddr' \in Address
  <2>1. raddr' \in {0, raddr, NextAddress(raddr)}
    BY <1>1 DEF BusEdge, AdvanceRead
  <2>2. 0 \in Address
    BY CaptureAssumption, SMT DEF Address
  <2> QED BY <2>1, <2>2, RingAddresses DEF TypeOK
<1>10. br_holdoff' \in Holdoff
  BY <1>1, RequestType DEF BusEdge, Configure, TypeOK
<1> QED BY <1>2, <1>3, <1>4, <1>5, <1>6, <1>7, <1>8, <1>9, <1>10 DEF TypeOK
(* The stop goes down its pipe.                                            *)
LEMMA PipeStep ==
    ASSUME TypeOK, PipeInv, NEW req, NEW ce, NEW trig, NEW sample,
           Ticks(req, ce, trig, sample)
    PROVE  /\ PipeInv'
           /\ reset => \A i \in 1 .. DLYSTOP : ~dr_stop_pipe'[i]
           /\ ~reset /\ ce => /\ dr_stop_pipe'[1] = dr_stopped
                             /\ \A i \in 1 .. DLYSTOP - 1 :
                                    dr_stop_pipe'[i + 1] = dr_stop_pipe[i]
           /\ ~ce => \A i \in 1 .. DLYSTOP : dr_stop_pipe'[i] => dr_stop_pipe[i]
<1>1. /\ TriggerFlag(reset, br_config.manual, br_config.disable, ce, trig)
      /\ StopAfterHoldoff(ce) /\ StopPipe(ce)
  BY DEF Ticks, Tick
<1>2. reset => \A i \in 1 .. DLYSTOP : ~dr_stop_pipe'[i]
  BY <1>1 DEF StopPipe
<1>3. \A i \in 1 .. DLYSTOP - 1 : i + 1 \in 1 .. DLYSTOP /\ i + 1 # 1 /\ i + 1 - 1 = i
  BY DEF DLYSTOP
<1>4. 1 \in 1 .. DLYSTOP
  BY DEF DLYSTOP
<1>5. ~reset /\ ce => /\ dr_stop_pipe'[1] = dr_stopped
                     /\ \A i \in 1 .. DLYSTOP - 1 : dr_stop_pipe'[i + 1] = dr_stop_pipe[i]
  <2>1. ~reset /\ ce =>
          dr_stop_pipe' = [i \in 1 .. DLYSTOP |->
                             IF i = 1 THEN dr_stopped ELSE dr_stop_pipe[i - 1]]
    BY <1>1 DEF StopPipe
  <2> QED BY <1>3, <1>4, <2>1
<1>6. ~reset /\ ~ce => dr_stop_pipe' = dr_stop_pipe
  BY <1>1 DEF StopPipe
<1>7. /\ dr_stopped' \in BOOLEAN
      /\ dr_stopped' => dr_triggered'
      /\ ~reset /\ dr_stopped => dr_stopped'
  BY <1>1 DEF TriggerFlag, StopAfterHoldoff, PipeInv
<1>8. PipeInv'
  <2>1. CASE reset
    BY <1>2, <1>3, <1>4, <1>7, <2>1 DEF PipeInv
  <2>2. CASE ~reset /\ ~ce
    BY <1>6, <1>7, <2>2 DEF PipeInv
  <2>3. CASE ~reset /\ ce
    <3>1. dr_stop_pipe'[1] => dr_stopped'
      BY <1>5, <1>7, <2>3
    <3>2. ASSUME NEW i \in 1 .. DLYSTOP - 1, dr_stop_pipe'[i + 1]
          PROVE  dr_stop_pipe'[i]
      <4>1. dr_stop_pipe[i]
        BY <1>5, <2>3, <3>2
      <4>2. CASE i = 1
        <5>1. dr_stopped
          BY <4>1, <4>2 DEF PipeInv
        <5> QED BY <1>5, <2>3, <4>2, <5>1
      <4>3. CASE i # 1
        <5>1. i - 1 \in 1 .. DLYSTOP - 1 /\ (i - 1) + 1 = i
          BY <4>3 DEF DLYSTOP
        <5>2. dr_stop_pipe[i - 1]
          BY <4>1, <5>1 DEF PipeInv
        <5>3. dr_stop_pipe'[(i - 1) + 1] = dr_stop_pipe[i - 1]
          BY <1>5, <2>3, <5>1
        <5> QED BY <5>1, <5>2, <5>3
      <4> QED BY <4>2, <4>3
    <3> QED BY <1>7, <3>1, <3>2 DEF PipeInv
  <2> QED BY <2>1, <2>2, <2>3
<1>9. ~ce => \A i \in 1 .. DLYSTOP : dr_stop_pipe'[i] => dr_stop_pipe[i]
  BY <1>2, <1>6
<1> QED BY <1>2, <1>5, <1>8, <1>9

(* The ring shows the word just written as the last one, and a clock that   *)
(* writes none leaves it.                                                  *)
LEMMA NewestStep ==
    ASSUME TypeOK, WriteMem, ~reset
    PROVE  newest' = IF record_ce THEN r_data ELSE newest
<1>1. waddr \in Address /\ MEMLEN \in Nat /\ MEMLEN >= 2
  BY CaptureAssumption DEF TypeOK
<1>2. CASE record_ce
  <2>1. waddr' = NextAddress(waddr) /\ mem' = [mem EXCEPT ![waddr] = r_data]
    BY <1>2 DEF WriteMem
  <2>2. RingAt(waddr', MEMLEN - 1) = waddr
    BY <1>1, <2>1, SMT DEF RingAt, NextAddress, Address
  <2>3. mem'[waddr] = r_data
    BY <1>1, <2>1 DEF TypeOK
  <2> QED BY <1>2, <2>2, <2>3 DEF newest
<1>3. CASE ~record_ce
  BY <1>3 DEF WriteMem, newest
<1> QED BY <1>2, <1>3

(* The value written with the stop keeps ahead of it.                      *)
LEMMA LastStep ==
    ASSUME ScopCInv, NEW req, NEW ce, NEW trig, NEW sample,
           Ticks(req, ce, trig, sample)
    PROVE  LastInv'
<1>1. Compress(ce) /\ Record(ce) /\ WriteMem
  BY DEF Ticks, Tick
<1>2. TypeOK /\ PipeInv /\ LastInv
  BY DEF ScopCInv
<1>3. 1 \in 1 .. DLYSTOP /\ 2 \in 1 .. DLYSTOP /\ 3 \in 1 .. DLYSTOP /\ 4 \in 1 .. DLYSTOP
  BY DEF DLYSTOP
<1>4. CASE reset
  BY <1>2, <1>3, <1>4, PipeStep DEF LastInv
<1>5. CASE ~reset
  <2>1. newest' = IF record_ce THEN r_data ELSE newest
    BY <1>1, <1>2, <1>5, NewestStep
  <2>2. dr_stop_pipe[3] => ~record_ce' /\ ~newest'.adr
    BY <1>1, <1>2, <2>1 DEF Record, LastInv
  <2>3. CASE ~ce
    <3>1. imm' = imm /\ lst' = lst
      BY <1>1, <1>5, <2>3 DEF Compress
    <3>2. \A i \in 1 .. DLYSTOP : dr_stop_pipe'[i] => dr_stop_pipe[i]
      BY <1>2, <2>3, PipeStep
    <3>3. dr_stop_pipe[4] => dr_stop_pipe[3]
      BY <1>2 DEF PipeInv, DLYSTOP
    <3> QED BY <1>2, <1>3, <2>2, <3>1, <3>2, <3>3 DEF LastInv
  <2>4. CASE ce
    <3>1. /\ dr_stop_pipe'[1] = dr_stopped /\ dr_stop_pipe'[2] = dr_stop_pipe[1]
          /\ dr_stop_pipe'[3] = dr_stop_pipe[2] /\ dr_stop_pipe'[4] = dr_stop_pipe[3]
      <4>1. 1 \in 1 .. DLYSTOP - 1 /\ 2 \in 1 .. DLYSTOP - 1 /\ 3 \in 1 .. DLYSTOP - 1
            /\ 1 + 1 = 2 /\ 2 + 1 = 3 /\ 3 + 1 = 4
        BY DEF DLYSTOP
      <4>2. /\ dr_stop_pipe'[1] = dr_stopped
            /\ \A i \in 1 .. DLYSTOP - 1 : dr_stop_pipe'[i + 1] = dr_stop_pipe[i]
        BY <1>2, <1>5, <2>4, PipeStep
      <4> QED BY <4>1, <4>2
    <3>2. dr_stop_pipe'[1] => ~imm'.adr
      BY <1>1, <1>5, <2>4, <3>1 DEF Compress, writing, Value
    <3>3. dr_stop_pipe'[2] => ~lst'.adr
      BY <1>1, <1>2, <1>5, <2>4, <3>1 DEF Compress, LastInv
    <3>4. dr_stop_pipe[2] /\ ~dr_stop_pipe[3] => record_ce' /\ r_data' = lst /\ ~lst.adr
      BY <1>1, <1>2, <2>4 DEF Record, recordable, LastInv
    <3>5. dr_stop_pipe'[3] => IF record_ce' THEN ~r_data'.adr ELSE ~newest'.adr
      BY <2>2, <3>1, <3>4
    <3>6. dr_stop_pipe'[4] => ~record_ce'
      BY <2>2, <3>1
    <3> QED BY <3>2, <3>3, <3>5, <3>6 DEF LastInv
  <2> QED BY <2>3, <2>4
<1> QED BY <1>4, <1>5

LEMMA ScopCStep == ScopCInv /\ [Next]_vars => ScopCInv'
<1>1. ASSUME ScopCInv, Next PROVE ScopCInv'
  <2>1. TypeOK /\ PipeInv
    BY <1>1 DEF ScopCInv
  <2>2. PICK req, ce, trig, sample : Ticks(req, ce, trig, sample)
    BY <1>1, <2>1, NextTicks
  <2>3. TypeOK'
    BY <2>1, <2>2, ScopCTypes
  <2>4. PipeInv'
    BY <2>1, <2>2, PipeStep
  <2>5. LastInv'
    BY <1>1, <2>2, LastStep
  <2> QED BY <2>3, <2>4, <2>5 DEF ScopCInv
<1>2. ASSUME ScopCInv, UNCHANGED vars PROVE ScopCInv'
  BY <1>2 DEF ScopCInv, TypeOK, PipeInv, LastInv, newest, vars, captureVars, busVars, rleVars
<1> QED BY <1>1, <1>2

LEMMA ScopCAlways == Spec => []ScopCInv
BY ScopCInitial, ScopCStep, PTL DEF Spec

-----------------------------------------------------------------------------
(* Every register of the coder keeps its width, and the run counter never   *)
(* passes the largest run a word of memory can hold.                       *)
THEOREM ScopCTypeAlways == Spec => []TypeOK
<1>1. ScopCInv => TypeOK
  BY DEF ScopCInv
<1> QED BY <1>1, ScopCAlways, PTL

LEMMA EndsWithValueKnown == ScopCInv => EndsWithValue
<1> SUFFICES ASSUME ScopCInv, stopped PROVE ~m_data[MEMLEN].adr
  BY DEF EndsWithValue
<1>1. dr_stop_pipe[4] /\ dr_stop_pipe[3]
  <2>1. 4 \in 1 .. DLYSTOP - 1 /\ 3 \in 1 .. DLYSTOP - 1
        /\ 4 + 1 = DLYSTOP /\ 3 + 1 = 4
    BY DEF DLYSTOP
  <2>2. dr_stop_pipe[DLYSTOP]
    BY DEF stopped, dw_final_stop
  <2> QED BY <2>1, <2>2 DEF ScopCInv, PipeInv
<1>2. ~newest.adr
  BY <1>1 DEF ScopCInv, LastInv
<1>3. m_data[MEMLEN] = newest
  BY CaptureAssumption DEF m_data, newest
<1> QED BY <1>2, <1>3

(* bench/cpp/wbscopc_tb.cpp:170: whatever was recorded, however long the    *)
(* runs and wherever i_ce paused, the memory of a stopped scope ends in a   *)
(* value: the one the stop has written (rtl/wbscopc.v) is in memory, with   *)
(* nothing behind it, before the stop is through its pipe.                 *)
THEOREM EndsWithValueAlways == Spec => []EndsWithValue
BY EndsWithValueKnown, ScopCAlways, PTL

(* rtl/wbscopc.v:643-651: one interrupt per stop, unless DISABLE is set and  *)
(* cleared meanwhile.                                                      *)
InterruptOnce == OneInterrupt(dw_final_stop)

(* The reset that lets go of the delayed copy of the stop empties the pipe  *)
(* of the stop, down to the stage the interrupt is made of, on that edge.   *)
THEOREM ScopCInterruptOnce == Spec => []InterruptOnce
<1> DEFINE Inv == InterruptInv(dw_final_stop)
<1>1. Init => Inv
  <2>1. Init => ~dw_final_stop
    BY DEF Init, dw_final_stop, DLYSTOP
  <2> QED BY <2>1, InterruptInitial DEF Init
<1>2. ASSUME ScopCInv, Inv, [Next]_vars PROVE Inv'
  <2>1. CASE UNCHANGED vars
    BY <1>2, <2>1 DEF InterruptInv, dw_final_stop, vars, busVars, rleVars
  <2>2. CASE Next
    <3>1. PICK req, ce, trig, sample : Ticks(req, ce, trig, sample)
      BY <1>2, <2>2, NextTicks DEF ScopCInv
    <3>2. LevelInterrupt(reset, dw_final_stop) /\ CountInterrupts(dw_final_stop)
      BY <3>1 DEF Ticks, Tick, BusEdge
    <3>3. reset => \A i \in 1 .. DLYSTOP : ~dr_stop_pipe'[i]
      BY <1>2, <3>1, PipeStep DEF ScopCInv
    <3>4. reset \/ bw_reset_request => ~dw_final_stop'
      BY <3>3 DEF dw_final_stop, DLYSTOP, reset
    <3> QED BY <1>2, <3>2, <3>4, InterruptStep DEF InterruptInv
  <2> QED BY <1>2, <2>1, <2>2
<1>3. Inv => InterruptOnce
  BY InvOneInterrupt DEF InterruptOnce
<1> QED BY <1>1, <1>2, <1>3, ScopCAlways, PTL DEF Spec

(* When the interrupt says that the memory can be read (rtl/wbscopc.v:643),  *)
(* nothing of what was on its way through the pipelines is written to it    *)
(* any more, and its start stays where it is until a reset.                *)
StoppedMemory ==
    [][dw_final_stop => UNCHANGED mem /\ (~reset => UNCHANGED waddr)]_vars

(* The pipe of the stop is long enough for the last word to be in memory.   *)
THEOREM ScopCStoppedMemory == Spec => StoppedMemory
<1> DEFINE Still == dw_final_stop => UNCHANGED mem /\ (~reset => UNCHANGED waddr)
<1>1. ASSUME ScopCInv, Next PROVE Still
  <2>1. PICK req, ce, trig, sample : Ticks(req, ce, trig, sample)
    BY <1>1, NextTicks DEF ScopCInv
  <2>2. dw_final_stop => ~record_ce
    <3>1. 4 \in 1 .. DLYSTOP - 1 /\ 4 + 1 = DLYSTOP
      BY DEF DLYSTOP
    <3> QED BY <1>1, <3>1 DEF dw_final_stop, ScopCInv, PipeInv, LastInv
  <2> QED BY <2>1, <2>2 DEF Ticks, Tick, WriteMem
<1>2. ScopCInv /\ [Next]_vars => [Still]_vars
  BY <1>1
<1> QED BY <1>2, ScopCAlways, PTL DEF Spec, StoppedMemory

-----------------------------------------------------------------------------
(* How long a run may get.  The count passes MAX_STEP only on the clock of  *)
(* a forced write: the time-out that calls for it is raised a sample ahead, *)
(* and is held off only behind a forced write, when there is no run yet.    *)
CountInv ==
    /\ ck_addr > MAX_STEP => dr_force_write
    /\ ck_addr = MAX_STEP => dr_force_write \/ dr_run_timeout
    /\ dr_force_inhibit => ck_addr = 0

Bounded(w) == w.adr => w.val <= MAX_STEP

RunsInv ==
    /\ CountInv
    /\ Bounded(imm) /\ Bounded(lst) /\ Bounded(r_data)
    /\ \A a \in Address : mem[a] = Unknown \/ Bounded(mem[a])

(* A clock on which no value is written counts no run past MAX_STEP.        *)
LEMMA CountStep ==
    ASSUME TypeOK, CountInv, NEW req, NEW ce, NEW trig, NEW sample,
           Ticks(req, ce, trig, sample)
    PROVE  CountInv' /\ (~writing => ck_addr <= MAX_STEP)
<1>1. ForceWrite(ce, trig) /\ CountRun(ce)
  BY DEF Ticks, Tick
<1>2. /\ ck_addr \in Nat /\ ck_addr < STEPS /\ STEPS \in Nat
      /\ MAX_STEP \in Nat /\ MAX_STEP >= 1 /\ MAX_STEP < STEPS
  BY StepAssumption DEF TypeOK
<1>3. ~writing => ~dr_force_write
  BY DEF writing
<1>4. ~dr_force_write => ck_addr <= MAX_STEP
  BY <1>2 DEF CountInv
<1>5. CountInv'
  <2>1. CASE reset
    <3>1. ck_addr' = 0 /\ dr_force_inhibit' = FALSE
      BY <1>1, <2>1 DEF ForceWrite, CountRun
    <3>2. ~(0 > MAX_STEP) /\ 0 # MAX_STEP
      BY <1>2
    <3> QED BY <3>1, <3>2 DEF CountInv
  <2>2. CASE ~reset /\ ~ce
    BY <1>1, <2>2 DEF ForceWrite, CountRun, CountInv
  <2>3. CASE ~reset /\ ce /\ writing
    <3>1. ck_addr' = 0
      BY <1>1, <2>3 DEF CountRun
    <3>2. ~(0 > MAX_STEP) /\ 0 # MAX_STEP
      BY <1>2
    <3> QED BY <3>1, <3>2 DEF CountInv
  <2>4. CASE ~reset /\ ce /\ ~writing
    <3>1. /\ ck_addr' = (ck_addr + 1) % STEPS
          /\ dr_run_timeout' = (ck_addr >= MAX_STEP - 1)
      BY <1>1, <2>4 DEF CountRun
    <3>2. ~dr_force_write /\ ~dr_force_inhibit'
      BY <1>1, <1>3, <2>4 DEF ForceWrite
    <3>3. CASE ck_addr = MAX_STEP
      <4>1. dr_run_timeout /\ ~dr_force_inhibit
        BY <1>2, <3>2, <3>3 DEF CountInv
      <4>2. dr_force_write'
        BY <1>1, <2>4, <3>2, <4>1 DEF ForceWrite
      <4> QED BY <3>2, <4>2 DEF CountInv
    <3>4. CASE ck_addr < MAX_STEP
      <4>1. ck_addr' = ck_addr + 1
        BY <1>2, <3>1, <3>4
      <4>2. ~(ck_addr' > MAX_STEP)
        BY <1>2, <3>4, <4>1
      <4>3. ck_addr' = MAX_STEP => ck_addr >= MAX_STEP - 1
        BY <1>2, <4>1
      <4>4. ck_addr' = MAX_STEP => dr_run_timeout'
        BY <3>1, <4>3
      <4> QED BY <3>2, <4>2, <4>4 DEF CountInv
    <3>5. ck_addr = MAX_STEP \/ ck_addr < MAX_STEP
      BY <1>2, <1>4, <3>2
    <3> QED BY <3>3, <3>4, <3>5
  <2> QED BY <2>1, <2>2, <2>3, <2>4
<1> QED BY <1>3, <1>4, <1>5

LEMMA RunsStep ==
    ASSUME TypeOK, RunsInv, NEW req, NEW ce, NEW trig, NEW sample,
           Ticks(req, ce, trig, sample)
    PROVE  RunsInv'
<1>1. Compress(ce) /\ Record(ce) /\ WriteMem
  BY DEF Ticks, Tick
<1>2. CountInv' /\ (~writing => ck_addr <= MAX_STEP)
  BY CountStep DEF RunsInv
<1>3. (\A w : Bounded(Value(w))) /\ Bounded(RunOf(0))
  BY StepAssumption, SMT DEF Bounded, Value, RunOf
<1>4. ~writing => Bounded(RunOf(ck_addr))
  BY <1>2 DEF Bounded, RunOf
<1>5. Bounded(imm)' /\ Bounded(lst)' /\ Bounded(r_data)'
  <2>1. \/ imm' = RunOf(0)
        \/ imm' = Value(data_pipe)
        \/ imm' = RunOf(ck_addr) /\ ~writing
        \/ imm' = imm
    BY <1>1 DEF Compress
  <2>2. lst' \in {RunOf(0), imm, lst}
    BY <1>1 DEF Compress
  <2>3. r_data' \in {lst, Value(data_pipe)}
    BY <1>1 DEF Record
  <2>4. /\ imm' = RunOf(0) => Bounded(imm)'
        /\ imm' = Value(data_pipe) => Bounded(imm)'
    BY <1>3 DEF Bounded
  <2> QED BY <1>3, <1>4, <2>1, <2>2, <2>3 DEF RunsInv, Bounded
<1>6. \A a \in Address : mem'[a] = Unknown \/ Bounded(mem[a])'
  <2>1. mem' = mem \/ mem' = [mem EXCEPT ![waddr] = r_data]
    BY <1>1 DEF WriteMem
  <2> QED BY <2>1 DEF TypeOK, RunsInv, Bounded
<1> QED BY <1>2, <1>5, <1>6 DEF RunsInv

LEMMA RunsInitial == Init => RunsInv
<1> SUFFICES ASSUME Init PROVE RunsInv
  OBVIOUS
<1>1. CountInv
  BY StepAssumption, SMT DEF Init, CountInv
<1>2. Bounded(RunOf(0))
  BY StepAssumption, SMT DEF Bounded, RunOf
<1>3. imm = RunOf(0) /\ lst = RunOf(0) /\ r_data = RunOf(0)
      /\ mem = [a \in Address |-> Unknown]
  BY DEF Init, CaptureInit
<1> QED BY <1>1, <1>2, <1>3 DEF RunsInv

LEMMA RunsKept == ASSUME TypeOK, RunsInv, [Next]_vars PROVE RunsInv'
<1>1. CASE Next
  BY <1>1, NextTicks, RunsStep
<1>2. CASE UNCHANGED vars
  BY <1>2 DEF RunsInv, CountInv, Bounded, vars, captureVars, rleVars
<1> QED BY <1>1, <1>2

(* wbscopc.v:350: "Should the address difference get to our maximum value,  *)
(* we let it saturate rather than overflow."  No run in the memory, or on    *)
(* its way there, is longer than MAX_STEP, the largest count of its width   *)
(* included, where the counter does wrap.                                  *)
RunsBounded == \A a \in Address : mem[a] = Unknown \/ Bounded(mem[a])

(* No run is longer than MAX_STEP: the counter saturates (wbscopc.v:350).   *)
THEOREM RunsBoundedAlways == Spec => []RunsBounded
<1>1. Init => RunsInv
  BY RunsInitial
<1>2. ASSUME TypeOK, RunsInv, [Next]_vars PROVE RunsInv'
  BY <1>2, RunsKept
<1>3. RunsInv => RunsBounded
  BY DEF RunsInv, RunsBounded
<1> QED BY <1>1, <1>2, <1>3, ScopCTypeAlways, PTL DEF Spec

(* A set of numbers that is not empty has a least one.                     *)
LEMMA Least ==
    ASSUME NEW S \in SUBSET Nat, S # {}
    PROVE  \E m \in S : \A k \in S : m <= k
<1> DEFINE Below(n) == 0 .. n
           T == {Below(n) : n \in S}
           R == StrictSubsetOrdering(Nat)
<1>1. T \subseteq FiniteSubsetsOf(Nat) /\ T # {}
  <2>1. ASSUME NEW n \in S PROVE Below(n) \subseteq Nat /\ IsFiniteSet(Below(n))
    BY FS_Interval
  <2> QED BY <2>1 DEF FiniteSubsetsOf
<1>2. \E x \in T : \A y \in T : ~(<<y, x>> \in R)
  <2>1. IsWellFoundedOn(R, FiniteSubsetsOf(Nat))
    BY FS_StrictSubsetOrderingWellFounded
  <2> HIDE DEF R, T
  <2> QED BY <1>1, <2>1, WFMin
<1>3. PICK m \in S : \A y \in T : ~(<<y, Below(m)>> \in R)
  BY <1>2
<1>4. ASSUME NEW k \in S PROVE m <= k
  <2> SUFFICES ASSUME k < m PROVE FALSE
    OBVIOUS
  <2>1. Below(k) \subseteq Below(m) /\ Below(k) # Below(m)
    <3>1. m \in Below(m) /\ m \notin Below(k)
      OBVIOUS
    <3> QED BY <3>1
  <2>2. Below(k) \in SUBSET Nat /\ Below(m) \in SUBSET Nat
    OBVIOUS
  <2>3. <<Below(k), Below(m)>> \in R
    <3> HIDE DEF Below
    <3> QED BY <2>1, <2>2 DEF StrictSubsetOrdering
  <2> QED BY <1>3, <2>3
<1> QED BY <1>3, <1>4

-----------------------------------------------------------------------------
(*****************************************************************************)
(* What the memory stands for.  Every word of the ring, and every word on   *)
(* its way there through the record stage and the compressor, stands for a  *)
(* stretch of the history h_samples, and the stretches follow each other    *)
(* without a gap, from the oldest word to the sample taken last.            *)
(*****************************************************************************)

(* Sample a of the history, counted from its end, and whether the history   *)
(* still reaches back to it, or has been cut.                              *)
Ago(h, a) == h[Len(h) + 1 - a]
Held(h, a) == a <= Len(h) \/ Len(h) = MAXHISTORY

(* A word that stands for the samples from `start' samples ago on, down to  *)
(* `end', which is not one of them, says what the history does.            *)
Right(h, w, end, start) ==
    IF w.adr THEN start < Len(h) => \A a \in end + 1 .. start : Ago(h, a) = Ago(h, start + 1)
             ELSE start <= Len(h) => w.val = Ago(h, start)

(* A history, and the same with d samples more (none or one).              *)
Longer(h, h2, d) ==
    /\ h \in Seq(Word) /\ h2 \in Seq(Word) /\ d \in {0, 1}
    /\ Len(h) \in 1 .. MAXHISTORY /\ Len(h2) \in 1 .. MAXHISTORY
    /\ Len(h2) <= Len(h) + d
    /\ Len(h2) = Len(h) + d \/ Len(h2) = MAXHISTORY
    /\ \A a \in 1 .. Len(h) : a + d <= Len(h2) => Ago(h2, a + d) = Ago(h, a)

(* The words of a ring, oldest first, from the F-th on: A gives how long     *)
(* ago each of them starts, and where the last one ends.                    *)
Coded(h, r, A, F) ==
    /\ A \in [0 .. MEMLEN -> Nat] /\ F \in 0 .. MEMLEN
    /\ \A i \in F .. MEMLEN - 1 :
          /\ r[i] \in MemWord /\ Bounded(r[i])
          /\ A[i] = A[i + 1] + width(r[i])
          /\ Held(h, A[i])
          /\ Right(h, r[i], A[i + 1], A[i])
    /\ \A i \in F .. MEMLEN - 2 : r[i].adr => ~r[i + 1].adr

(* A word stands for at least one sample, a value for exactly one.          *)
LEMMA WidthType ==
    ASSUME NEW w \in MemWord
    PROVE  /\ width(w) \in Nat /\ width(w) >= 1
           /\ ~w.adr => width(w) = 1
           /\ w.adr => w.val \in Nat /\ width(w) = w.val + 1
<1>1. width(w) = IF w.adr THEN w.val + 1 ELSE 1
  BY DEF width, adr
<1>2. w.adr => w.val \in Nat
  <2>1. CASE w \in [adr : {FALSE}, val : SAMPLES \cup {Unknown}]
    <3>1. w.adr = FALSE
      BY <2>1
    <3> QED BY <3>1
  <2>2. CASE w \in [adr : {TRUE}, val : 0 .. STEPS - 1]
    <3>1. w.val \in 0 .. STEPS - 1
      BY <2>2
    <3> QED BY <3>1, StepAssumption
  <2> QED BY <2>1, <2>2 DEF MemWord
<1>3. CASE w.adr
  BY <1>1, <1>2, <1>3
<1>4. CASE ~w.adr
  BY <1>1, <1>4
<1> QED BY <1>3, <1>4

(* What is written to the history is not written over.                      *)
LEMMA Remembered ==
    ASSUME NEW h \in Seq(Word), Len(h) \in 1 .. MAXHISTORY, NEW x \in Word, NEW h2,
           h2 = LET longer == Append(h, x)
                IN  IF Len(longer) > MAXHISTORY THEN Tail(longer) ELSE longer
    PROVE  Longer(h, h2, 1) /\ Ago(h2, 1) = x
<1> DEFINE g == Append(h, x)
<1>1. /\ g \in Seq(Word) /\ g # <<>> /\ Len(g) = Len(h) + 1
      /\ \A i \in 1 .. Len(h) : g[i] = h[i]
      /\ g[Len(h) + 1] = x
  BY AppendProperties
<1>2. MAXHISTORY \in Nat /\ Len(h) \in Nat
  BY StepAssumption
<1> HIDE DEF g
<1>3. CASE Len(g) > MAXHISTORY
  <2>1. h2 = Tail(g) /\ Len(h) = MAXHISTORY
    BY <1>1, <1>2, <1>3 DEF g
  <2>2. /\ Tail(g) \in Seq(Word) /\ Len(Tail(g)) = Len(g) - 1
        /\ \A i \in 1 .. Len(Tail(g)) : Tail(g)[i] = g[i + 1]
    BY <1>1, HeadTailProperties
  <2>3. h2 \in Seq(Word) /\ Len(h2) = Len(h) /\ \A i \in 1 .. Len(h) : h2[i] = g[i + 1]
    BY <1>1, <1>2, <2>1, <2>2
  <2>4. ASSUME NEW a \in 1 .. Len(h), a + 1 <= Len(h2)
        PROVE  Ago(h2, a + 1) = Ago(h, a)
    <3>1. Len(h) - a \in 1 .. Len(h) /\ Len(h) + 1 - a \in 1 .. Len(h)
          /\ Len(h) + 1 - (a + 1) = Len(h) - a /\ Len(h) - a + 1 = Len(h) + 1 - a
      BY <1>2, <2>3, <2>4
    <3>2. Ago(h2, a + 1) = h2[Len(h) - a]
      BY <2>3, <3>1 DEF Ago
    <3>3. h2[Len(h) - a] = g[Len(h) - a + 1]
      BY <2>3, <3>1
    <3>4. g[Len(h) - a + 1] = h[Len(h) + 1 - a]
      BY <1>1, <3>1
    <3> QED BY <3>2, <3>3, <3>4 DEF Ago
  <2>5. Ago(h2, 1) = x
    BY <1>1, <1>2, <2>3 DEF Ago
  <2> QED BY <1>2, <2>1, <2>3, <2>4, <2>5 DEF Longer
<1>4. CASE ~(Len(g) > MAXHISTORY)
  <2>1. h2 = g
    BY <1>4 DEF g
  <2>2. ASSUME NEW a \in 1 .. Len(h), a + 1 <= Len(h2)
        PROVE  Ago(h2, a + 1) = Ago(h, a)
    <3>1. Len(h) + 1 - a \in 1 .. Len(h) /\ Len(g) + 1 - (a + 1) = Len(h) + 1 - a
      BY <1>1, <1>2
    <3> QED BY <1>1, <2>1, <3>1 DEF Ago
  <2>3. Ago(h2, 1) = x
    BY <1>1, <1>2, <2>1 DEF Ago
  <2> QED BY <1>1, <1>2, <1>4, <2>1, <2>2, <2>3 DEF Longer
<1> QED BY <1>3, <1>4

(* A word that says what a history does says it of a longer one.            *)
LEMMA RightLonger ==
    ASSUME NEW h, NEW h2, NEW d, Longer(h, h2, d),
           NEW w, NEW end \in Nat, NEW start \in Nat, start >= 1,
           Right(h, w, end, start)
    PROVE  Right(h2, w, end + d, start + d)
<1>1. /\ d \in {0, 1} /\ Len(h) \in Nat /\ Len(h2) \in Nat /\ Len(h2) <= Len(h) + d
      /\ \A a \in 1 .. Len(h) : a + d <= Len(h2) => Ago(h2, a + d) = Ago(h, a)
  BY StepAssumption DEF Longer
<1>2. CASE w.adr
  <2> SUFFICES ASSUME start + d < Len(h2), NEW a \in end + d + 1 .. start + d
               PROVE  Ago(h2, a) = Ago(h2, start + d + 1)
    BY <1>2 DEF Right
  <2>1. start < Len(h) /\ start + 1 \in 1 .. Len(h) /\ (start + 1) + d <= Len(h2)
        /\ (start + 1) + d = start + d + 1
    BY <1>1
  <2>2. a - d \in end + 1 .. start /\ a - d \in 1 .. Len(h) /\ (a - d) + d <= Len(h2)
        /\ (a - d) + d = a
    BY <1>1, <2>1
  <2>3. Ago(h, a - d) = Ago(h, start + 1)
    BY <1>2, <2>1, <2>2 DEF Right
  <2>4. Ago(h2, (start + 1) + d) = Ago(h, start + 1)
    BY <1>1, <2>1
  <2>5. Ago(h2, (a - d) + d) = Ago(h, a - d)
    BY <1>1, <2>2
  <2> QED BY <2>1, <2>2, <2>3, <2>4, <2>5
<1>3. CASE ~w.adr
  <2> SUFFICES ASSUME start + d <= Len(h2)
               PROVE  w.val = Ago(h2, start + d)
    BY <1>3 DEF Right
  <2>1. start \in 1 .. Len(h)
    BY <1>1
  <2>2. w.val = Ago(h, start)
    BY <1>3, <2>1 DEF Right
  <2> QED BY <1>1, <2>1, <2>2
<1> QED BY <1>2, <1>3

(* What a history reaches back to, a longer one does, one sample further.   *)
LEMMA HeldLonger ==
    ASSUME NEW h, NEW h2, NEW d, Longer(h, h2, d), NEW a \in Nat, Held(h, a)
    PROVE  Held(h2, a + d)
BY StepAssumption DEF Longer, Held

(* The history grows: every word is one sample further back.               *)
LEMMA CodedLonger ==
    ASSUME NEW h, NEW h2, NEW d, Longer(h, h2, d), NEW r, NEW A, NEW F, Coded(h, r, A, F)
    PROVE  Coded(h2, r, [i \in 0 .. MEMLEN |-> A[i] + d], F)
<1> DEFINE B == [i \in 0 .. MEMLEN |-> A[i] + d]
<1>1. d \in Nat /\ MEMLEN \in Nat /\ F \in 0 .. MEMLEN
  BY CaptureAssumption DEF Longer, Coded
<1>2. A \in [0 .. MEMLEN -> Nat] /\ B \in [0 .. MEMLEN -> Nat]
  BY <1>1 DEF Coded
<1>3. ASSUME NEW i \in F .. MEMLEN - 1
      PROVE  /\ r[i] \in MemWord /\ Bounded(r[i]) /\ B[i] = B[i + 1] + width(r[i])
             /\ Held(h2, B[i]) /\ Right(h2, r[i], B[i + 1], B[i])
  <2>1. i \in 0 .. MEMLEN /\ i + 1 \in 0 .. MEMLEN
    BY <1>1
  <2>2. B[i] = A[i] + d /\ B[i + 1] = A[i + 1] + d
    BY <2>1
  <2>3. A[i] \in Nat /\ A[i + 1] \in Nat
    BY <1>2, <2>1
  <2>4. r[i] \in MemWord /\ Bounded(r[i]) /\ A[i] = A[i + 1] + width(r[i]) /\ Held(h, A[i])
        /\ Right(h, r[i], A[i + 1], A[i])
    BY DEF Coded
  <2>5. width(r[i]) \in Nat /\ width(r[i]) >= 1
    BY <2>4, WidthType
  <2>6. B[i] = B[i + 1] + width(r[i])
    BY <1>1, <2>2, <2>3, <2>4, <2>5
  <2>7. A[i] >= 1
    BY <2>3, <2>4, <2>5
  <2>8. Held(h2, A[i] + d)
    BY <2>3, <2>4, HeldLonger
  <2>9. Right(h2, r[i], A[i + 1] + d, A[i] + d)
    BY <2>3, <2>4, <2>7, RightLonger
  <2> QED BY <2>2, <2>4, <2>6, <2>8, <2>9
<1>4. \A i \in F .. MEMLEN - 2 : r[i].adr => ~r[i + 1].adr
  BY DEF Coded
<1> HIDE DEF B
<1>5. Coded(h2, r, B, F)
  BY <1>1, <1>2, <1>3, <1>4 DEF Coded
<1> QED BY <1>5 DEF B

(* One word more goes into the ring, and the oldest is lost.               *)
Pushed(r, w) == [i \in Address |-> IF i = MEMLEN - 1 THEN w ELSE r[i + 1]]
Moved(A, e) == [i \in 0 .. MEMLEN |-> IF i = MEMLEN THEN e ELSE A[i + 1]]
Less(F) == IF F = 0 THEN 0 ELSE F - 1

(* A word pushed into the ring that says what the history does, next to the *)
(* words before it, and is not a run behind a run, keeps the ring coded.    *)
LEMMA CodedPushed ==
    ASSUME NEW h, NEW r, NEW A, NEW F, Coded(h, r, A, F),
           NEW w \in MemWord, Bounded(w), NEW e \in Nat,
           A[MEMLEN] = e + width(w), Held(h, A[MEMLEN]), Right(h, w, e, A[MEMLEN]),
           F < MEMLEN /\ r[MEMLEN - 1].adr => ~w.adr
    PROVE  Coded(h, Pushed(r, w), Moved(A, e), Less(F))
<1> DEFINE B == Moved(A, e)
           q == Pushed(r, w)
           G == Less(F)
<1>1. MEMLEN \in Nat /\ MEMLEN >= 2 /\ F \in 0 .. MEMLEN /\ A \in [0 .. MEMLEN -> Nat]
  BY CaptureAssumption DEF Coded
<1>2. G \in 0 .. MEMLEN - 1 /\ \A i \in G .. MEMLEN - 2 : i + 1 \in F .. MEMLEN - 1
  BY <1>1 DEF Less
<1>3. B \in [0 .. MEMLEN -> Nat] /\ B[MEMLEN] = e
  <2>1. \A i \in 0 .. MEMLEN : i # MEMLEN => A[i + 1] \in Nat
    BY <1>1
  <2> QED BY <1>1, <2>1 DEF Moved
<1>4. \A i \in 0 .. MEMLEN - 1 : B[i] = A[i + 1]
  BY <1>1 DEF Moved
<1>5. q[MEMLEN - 1] = w /\ \A i \in 0 .. MEMLEN - 2 : q[i] = r[i + 1]
  <2>1. MEMLEN - 1 \in Address /\ \A i \in 0 .. MEMLEN - 2 : i \in Address /\ i # MEMLEN - 1
    BY <1>1 DEF Address
  <2> QED BY <2>1 DEF Pushed
<1> HIDE DEF B, q, G
<1>6. ASSUME NEW i \in G .. MEMLEN - 1
      PROVE  /\ q[i] \in MemWord /\ Bounded(q[i]) /\ B[i] = B[i + 1] + width(q[i])
             /\ Held(h, B[i]) /\ Right(h, q[i], B[i + 1], B[i])
  <2>1. CASE i = MEMLEN - 1
    <3>1. B[i] = A[MEMLEN] /\ B[i + 1] = e /\ q[i] = w
      <4>1. i \in 0 .. MEMLEN - 1 /\ i + 1 = MEMLEN
        BY <1>1, <2>1
      <4> QED BY <1>3, <1>4, <1>5, <2>1, <4>1
    <3> QED BY <3>1
  <2>2. CASE i # MEMLEN - 1
    <3>1. i \in G .. MEMLEN - 2 /\ i \in 0 .. MEMLEN - 2 /\ i + 1 \in 0 .. MEMLEN - 1
          /\ i \in 0 .. MEMLEN - 1
      BY <1>1, <1>2, <2>2
    <3>2. i + 1 \in F .. MEMLEN - 1
      BY <1>2, <3>1
    <3>3. B[i] = A[i + 1] /\ B[i + 1] = A[(i + 1) + 1] /\ q[i] = r[i + 1]
      BY <1>4, <1>5, <3>1
    <3>4. /\ r[i + 1] \in MemWord /\ Bounded(r[i + 1]) /\ A[i + 1] = A[(i + 1) + 1] + width(r[i + 1])
          /\ Held(h, A[i + 1]) /\ Right(h, r[i + 1], A[(i + 1) + 1], A[i + 1])
      BY <3>2 DEF Coded
    <3> QED BY <3>3, <3>4
  <2> QED BY <2>1, <2>2
<1>7. ASSUME NEW i \in G .. MEMLEN - 2, q[i].adr
      PROVE  ~q[i + 1].adr
  <2>1. i \in 0 .. MEMLEN - 2 /\ i + 1 \in F .. MEMLEN - 1 /\ q[i] = r[i + 1]
    <3>1. i \in 0 .. MEMLEN - 2
      BY <1>1, <1>2
    <3> QED BY <1>2, <1>5, <3>1
  <2>2. CASE i + 1 = MEMLEN - 1
    <3>1. F < MEMLEN
      BY <1>1, <2>1, <2>2
    <3> QED BY <1>5, <1>7, <2>1, <2>2, <3>1
  <2>3. CASE i + 1 # MEMLEN - 1
    <3>1. i + 1 \in F .. MEMLEN - 2 /\ i + 1 \in 0 .. MEMLEN - 2
      BY <1>1, <2>1, <2>3
    <3>2. q[i + 1] = r[(i + 1) + 1]
      BY <1>5, <3>1
    <3> QED BY <1>7, <2>1, <3>1, <3>2 DEF Coded
  <2> QED BY <2>2, <2>3
<1>8. G \in 0 .. MEMLEN
  BY <1>1, <1>2
<1>9. Coded(h, q, B, G)
  BY <1>3, <1>6, <1>7, <1>8 DEF Coded
<1> QED BY <1>9 DEF B, q, G

ring == [i \in Address |-> mem[RingAt(waddr, i)]]

(* The ring as a reader sees it takes the word of the record stage in.      *)
LEMMA RingStep ==
    ASSUME TypeOK, WriteMem, ~reset
    PROVE  ring' = IF record_ce THEN Pushed(ring, r_data) ELSE ring
<1>1. waddr \in Address /\ MEMLEN \in Nat /\ MEMLEN >= 2 /\ mem \in [Address -> MemWord \cup {Unknown}]
  BY CaptureAssumption DEF TypeOK
<1>2. CASE record_ce
  <2>1. waddr' = NextAddress(waddr) /\ mem' = [mem EXCEPT ![waddr] = r_data]
    BY <1>2, ~reset DEF WriteMem
  <2>2. ASSUME NEW i \in Address
        PROVE  mem'[RingAt(waddr', i)] = IF i = MEMLEN - 1 THEN r_data ELSE ring[i + 1]
    <3>1. CASE i = MEMLEN - 1
      <4>1. RingAt(waddr', i) = waddr
        BY <1>1, <2>1, <3>1, SMT DEF RingAt, NextAddress, Address
      <4> QED BY <1>1, <2>1, <3>1, <4>1
    <3>2. CASE i # MEMLEN - 1
      <4>1. i + 1 \in Address
        BY <1>1, <3>2 DEF Address
      <4>2. RingAt(waddr', i) = RingAt(waddr, i + 1) /\ RingAt(waddr, i + 1) # waddr
        BY <1>1, <2>1, <3>2, SMT DEF RingAt, NextAddress, Address
      <4>3. RingAt(waddr, i + 1) \in Address
        BY <1>1, <4>1, RingAddresses
      <4>4. ring[i + 1] = mem[RingAt(waddr, i + 1)]
        BY <4>1 DEF ring
      <4> QED BY <1>1, <2>1, <3>2, <4>2, <4>3, <4>4
    <3> QED BY <3>1, <3>2
  <2>3. ring' = [i \in Address |-> mem'[RingAt(waddr', i)]]
    BY DEF ring, RingAt
  <2>4. ring' = [i \in Address |-> IF i = MEMLEN - 1 THEN r_data ELSE ring[i + 1]]
    BY <2>2, <2>3
  <2> QED BY <1>2, <2>4 DEF Pushed
<1>3. CASE ~record_ce
  BY <1>3, ~reset DEF WriteMem, ring
<1> QED BY <1>2, <1>3

(* How long ago the words of the compressor end and start: the one to       *)
(* write, the one before it, which a longer run may replace, and the one    *)
(* in the record stage.  What comes after the stop stands for nothing.      *)
immEnd == IF dr_stop_pipe[1] THEN 0 ELSE 1
immStart == IF dr_stop_pipe[2] THEN 0 ELSE immEnd + width(imm)
lstStart == IF dr_stop_pipe[3] THEN 0
            ELSE IF recordable THEN immStart + width(lst) ELSE immStart
memEnd == IF record_ce THEN lstStart + width(r_data) ELSE lstStart

(* What the compressor knows of its input: the sample in the pipe is the    *)
(* last of the history, and the run it counts is that of the word to write. *)
InputInv ==
    /\ h_samples \in Seq(Word) /\ Len(h_samples) \in 1 .. MAXHISTORY
    /\ ~dr_stop_pipe[1] => Ago(h_samples, 1) = data_pipe
    /\ ~dr_stop_pipe[1] /\ ~new_data /\ Len(h_samples) >= 2 => Ago(h_samples, 2) = data_pipe
    /\ ~imm.adr => ck_addr = 0
    /\ imm.adr /\ ~writing => ck_addr = imm.val + 1

CoderInv ==
    /\ ~dr_stop_pipe[2] => Right(h_samples, imm, immEnd, immStart)
    /\ recordable /\ ~dr_stop_pipe[3] => Right(h_samples, lst, immStart, lstStart)
    /\ record_ce => Right(h_samples, r_data, lstStart, memEnd)

(* How many samples a clock adds to the history.                            *)
more(ce) == IF ce /\ ~dr_stopped THEN 1 ELSE 0

(* A clock adds the sample on i_data to the history, up to the stop.        *)
LEMMA HistoryStep ==
    ASSUME TypeOK, InputInv, NEW req, NEW ce, NEW trig, NEW sample,
           Ticks(req, ce, trig, sample), ~reset
    PROVE  /\ Longer(h_samples, h_samples', more(ce))
           /\ ce /\ ~dr_stopped => Ago(h_samples', 1) = sample
           /\ ~(ce /\ ~dr_stopped) => h_samples' = h_samples
<1>1. RememberSample(ce, sample) /\ sample \in Word
  BY DEF Ticks, Tick
<1>2. h_samples \in Seq(Word) /\ Len(h_samples) \in 1 .. MAXHISTORY
  BY DEF InputInv
<1>3. CASE ce /\ ~dr_stopped
  <2>1. h_samples' = LET longer == Append(h_samples, sample)
                     IN  IF Len(longer) > MAXHISTORY THEN Tail(longer) ELSE longer
    BY <1>1, <1>3, ~reset DEF RememberSample
  <2>2. Longer(h_samples, h_samples', 1) /\ Ago(h_samples', 1) = sample
    BY <1>1, <1>2, <2>1, Remembered
  <2> QED BY <1>3, <2>2 DEF more
<1>4. CASE ~(ce /\ ~dr_stopped)
  <2>1. h_samples' = h_samples
    BY <1>1, <1>4, ~reset DEF RememberSample
  <2>2. \A a \in 1 .. Len(h_samples) : a + 0 = a
    BY <1>2
  <2>3. Longer(h_samples, h_samples', 0)
    BY <1>2, <2>1, <2>2, StepAssumption DEF Longer
  <2> QED BY <1>4, <2>1, <2>3 DEF more
<1> QED BY <1>3, <1>4

(* What a clock out of reset does to the compressor.                        *)
LEMMA CoderEnabled ==
    ASSUME ScopCInv, NEW req, NEW trig, NEW sample,
           Ticks(req, TRUE, trig, sample), ~reset
    PROVE  /\ imm' = IF writing THEN Value(data_pipe) ELSE RunOf(ck_addr)
           /\ lst' = imm
           /\ record_ce' <=> recordable /\ ~dr_stop_pipe[3]
           /\ recordable => r_data' = lst
           /\ dr_stop_pipe'[1] <=> dr_stopped
           /\ dr_stop_pipe'[2] <=> dr_stop_pipe[1]
           /\ dr_stop_pipe'[3] <=> dr_stop_pipe[2]
           /\ data_pipe' = sample /\ (new_data' <=> sample # data_pipe)
           /\ ck_addr' = IF writing THEN 0 ELSE (ck_addr + 1) % STEPS
<1>1. Compress(TRUE) /\ Record(TRUE) /\ NewData(TRUE, sample) /\ CountRun(TRUE)
  BY DEF Ticks, Tick
<1>2. 1 \in 1 .. DLYSTOP - 1 /\ 2 \in 1 .. DLYSTOP - 1 /\ 1 + 1 = 2 /\ 2 + 1 = 3
  BY DEF DLYSTOP
<1>3. /\ dr_stop_pipe'[1] = dr_stopped
      /\ \A i \in 1 .. DLYSTOP - 1 : dr_stop_pipe'[i + 1] = dr_stop_pipe[i]
  BY PipeStep, ~reset DEF ScopCInv
<1>4. dr_stop_pipe'[2] = dr_stop_pipe[1] /\ dr_stop_pipe'[3] = dr_stop_pipe[2]
  BY <1>2, <1>3
<1>5. /\ imm' = IF writing THEN Value(data_pipe) ELSE RunOf(ck_addr)
      /\ lst' = imm
  BY <1>1, ~reset DEF Compress
<1>6. (record_ce' <=> recordable /\ ~dr_stop_pipe[3]) /\ (recordable => r_data' = lst)
  BY <1>1 DEF Record
<1>7. data_pipe' = sample /\ (new_data' <=> sample # data_pipe)
  BY <1>1, ~reset DEF NewData
<1>8. ck_addr' = IF writing THEN 0 ELSE (ck_addr + 1) % STEPS
  BY <1>1, ~reset DEF CountRun
<1> QED BY <1>3, <1>4, <1>5, <1>6, <1>7, <1>8

(* Without i_ce the compressor stands still and no word is recorded.        *)
LEMMA CoderPaused ==
    ASSUME ScopCInv, NEW req, NEW trig, NEW sample,
           Ticks(req, FALSE, trig, sample), ~reset
    PROVE  /\ imm' = imm /\ lst' = lst /\ ~record_ce' /\ dr_stop_pipe' = dr_stop_pipe
           /\ data_pipe' = data_pipe /\ (new_data' <=> new_data) /\ ck_addr' = ck_addr
           /\ dr_force_write' = dr_force_write
           /\ (dr_triggered' <=> dr_triggered) /\ (dr_stopped' <=> dr_stopped)
           /\ counter' = counter
<1>1. /\ Compress(FALSE) /\ Record(FALSE) /\ NewData(FALSE, sample) /\ CountRun(FALSE)
      /\ StopPipe(FALSE) /\ ForceWrite(FALSE, trig) /\ StopAfterHoldoff(FALSE)
      /\ TriggerFlag(reset, br_config.manual, br_config.disable, FALSE, trig)
      /\ CountHoldoff(reset, FALSE)
  BY DEF Ticks, Tick
<1>2. imm' = imm /\ lst' = lst /\ dr_stop_pipe' = dr_stop_pipe /\ dr_force_write' = dr_force_write
      /\ ck_addr' = ck_addr
  BY <1>1, ~reset DEF Compress, StopPipe, ForceWrite, CountRun
<1>3. ~record_ce' /\ data_pipe' = data_pipe
  BY <1>1 DEF Record, NewData
<1>4. new_data' <=> (reset \/ new_data)
  BY <1>1 DEF NewData
<1>5. (dr_triggered' <=> dr_triggered) /\ (dr_stopped' <=> dr_stopped) /\ counter' = counter
  BY <1>1, ~reset DEF TriggerFlag, StopAfterHoldoff, CountHoldoff, ScopCInv, PipeInv
<1> QED BY <1>2, <1>3, <1>4, <1>5, ~reset

(* The stop goes down its pipe behind a value.                              *)
LEMMA PipeOrder ==
    ASSUME ScopCInv
    PROVE  /\ dr_stop_pipe[1] => dr_stopped /\ ~imm.adr
           /\ dr_stop_pipe[2] => dr_stop_pipe[1] /\ ~lst.adr
           /\ dr_stop_pipe[3] => dr_stop_pipe[2]
<1>1. 1 \in 1 .. DLYSTOP - 1 /\ 2 \in 1 .. DLYSTOP - 1 /\ 1 + 1 = 2 /\ 2 + 1 = 3
  BY DEF DLYSTOP
<1> QED BY <1>1 DEF ScopCInv, PipeInv, LastInv

(* The words on their way follow each other, the newest first.              *)
LEMMA EndsType ==
    ASSUME ScopCInv
    PROVE  /\ immEnd \in {0, 1} /\ immStart \in Nat /\ lstStart \in Nat /\ memEnd \in Nat
           /\ immStart <= lstStart /\ lstStart <= memEnd
           /\ ~dr_stop_pipe[2] => immStart >= 1 /\ immStart = immEnd + width(imm)
           /\ ~dr_stop_pipe[3] /\ recordable => lstStart >= 1 /\ lstStart = immStart + width(lst)
           /\ record_ce => memEnd >= 1 /\ memEnd = lstStart + width(r_data)
<1>1. /\ width(imm) \in Nat /\ width(imm) >= 1 /\ width(lst) \in Nat /\ width(lst) >= 1
      /\ width(r_data) \in Nat /\ width(r_data) >= 1
  BY WidthType DEF TypeOK, ScopCInv
<1>2. immEnd \in {0, 1}
  BY DEF immEnd
<1>3. immStart \in Nat /\ (~dr_stop_pipe[2] => immStart >= 1 /\ immStart = immEnd + width(imm))
  BY <1>1, <1>2 DEF immStart
<1>4. /\ lstStart \in Nat
      /\ ~dr_stop_pipe[3] /\ recordable => lstStart >= 1 /\ lstStart = immStart + width(lst)
  BY <1>1, <1>3 DEF lstStart
<1>5. immStart <= lstStart
  <2>1. dr_stop_pipe[3] => immStart = 0
    BY PipeOrder DEF immStart
  <2> QED BY <1>1, <1>3, <2>1 DEF lstStart
<1>6. memEnd \in Nat /\ lstStart <= memEnd /\ (record_ce => memEnd >= 1 /\ memEnd = lstStart + width(r_data))
  BY <1>1, <1>4 DEF memEnd
<1> QED BY <1>2, <1>3, <1>4, <1>5, <1>6

(* A clock moves every end back by the samples it adds, and every word on by *)
(* one stage.                                                              *)
LEMMA EndsStep ==
    ASSUME ScopCInv, InputInv, NEW req, NEW ce \in BOOLEAN, NEW trig, NEW sample,
           Ticks(req, ce, trig, sample), ~reset
    PROVE  /\ memEnd' = lstStart + more(ce)
           /\ ce => /\ lstStart' = immStart + more(ce)
                    /\ recordable' => immStart' = immEnd + more(ce)
           /\ ce /\ writing => /\ immEnd' = more(ce)
                               /\ ~dr_stop_pipe[1] => immStart' = 1 + more(ce)
           /\ ce /\ ~writing => /\ ~dr_stopped /\ immEnd' = 1 /\ immEnd = 1
                                /\ immStart' = ck_addr + 2
                                /\ imm.adr => immStart = ck_addr + 1
           /\ ~ce => immEnd' = immEnd /\ immStart' = immStart /\ lstStart' = lstStart
<1> DEFINE d == more(ce)
<1>1. TypeOK
  BY DEF ScopCInv
<1>2. CASE ~ce
  <2>1. imm' = imm /\ lst' = lst /\ ~record_ce' /\ dr_stop_pipe' = dr_stop_pipe
    BY <1>2, CoderPaused
  <2>2. immEnd' = immEnd
    BY <2>1 DEF immEnd
  <2>3. immStart' = immStart
    BY <2>1, <2>2 DEF immStart, width, adr
  <2>4. lstStart' = lstStart
    BY <2>1, <2>3 DEF lstStart, recordable, width, adr
  <2>5. memEnd' = lstStart'
    BY <2>1 DEF memEnd
  <2>6. d = 0 /\ lstStart \in Nat
    BY <1>2, EndsType DEF more
  <2> QED BY <1>2, <2>2, <2>3, <2>4, <2>5, <2>6
<1>3. CASE ce
  <2>1. /\ imm' = IF writing THEN Value(data_pipe) ELSE RunOf(ck_addr)
        /\ lst' = imm
        /\ record_ce' <=> recordable /\ ~dr_stop_pipe[3]
        /\ recordable => r_data' = lst
        /\ dr_stop_pipe'[1] <=> dr_stopped
        /\ dr_stop_pipe'[2] <=> dr_stop_pipe[1]
        /\ dr_stop_pipe'[3] <=> dr_stop_pipe[2]
    BY <1>3, CoderEnabled
  <2>2. d = IF dr_stopped THEN 0 ELSE 1
    BY <1>3 DEF more
  <2>3. immEnd' = d
    BY <2>1, <2>2 DEF immEnd
  <2>4. /\ dr_stop_pipe[1] => immEnd = 0 /\ d = 0
        /\ ~dr_stop_pipe[1] => immEnd = 1
        /\ dr_stop_pipe[2] => immStart = 0 /\ d = 0
        /\ dr_stop_pipe[3] => lstStart = 0 /\ d = 0 /\ immStart = 0
    BY <2>2, PipeOrder DEF immEnd, immStart, lstStart
  <2>5. /\ immEnd \in {0, 1} /\ immStart \in Nat /\ lstStart \in Nat /\ d \in {0, 1}
        /\ ~dr_stop_pipe[2] => immStart = immEnd + width(imm)
        /\ ~dr_stop_pipe[3] /\ recordable => lstStart = immStart + width(lst)
        /\ ~dr_stop_pipe[3] /\ ~recordable => lstStart = immStart
    BY <2>2, EndsType DEF lstStart
  <2>6. width(imm) \in Nat /\ width(lst) \in Nat
    BY <1>1, WidthType DEF TypeOK
  <2>7. ASSUME writing
        PROVE  /\ ~dr_stop_pipe[1] => immStart' = 1 + d
               /\ immStart' = immEnd + d /\ lstStart' = immStart + d
    <3>1. imm'.adr = FALSE /\ width(imm') = 1 /\ recordable'
      BY <2>1, <2>7 DEF Value, width, adr, recordable
    <3>2. immStart' = IF dr_stop_pipe[1] THEN 0 ELSE d + 1
      BY <2>1, <2>3, <3>1 DEF immStart
    <3>3. immStart' = immEnd + d
      BY <2>4, <2>5, <3>2
    <3>4. lstStart' = IF dr_stop_pipe[2] THEN 0 ELSE immStart' + width(imm)
      BY <2>1, <3>1 DEF lstStart
    <3>5. lstStart' = immStart + d
      BY <2>4, <2>5, <2>6, <3>3, <3>4
    <3> QED BY <2>5, <3>2, <3>3, <3>5
  <2>8. ASSUME ~writing
        PROVE  /\ ~dr_stopped /\ d = 1 /\ immEnd = 1 /\ immStart' = ck_addr + 2
               /\ imm.adr => immStart = ck_addr + 1
               /\ recordable' => immStart' = immEnd + d
               /\ lstStart' = immStart + d
    <3>1. ~dr_stopped /\ d = 1
      BY <2>2, <2>8 DEF writing
    <3>2. ~dr_stop_pipe[1] /\ ~dr_stop_pipe[2] /\ ~dr_stop_pipe[3]
      BY <3>1, PipeOrder
    <3>3. imm'.adr = TRUE /\ width(imm') = ck_addr + 1
      BY <2>1, <2>8 DEF RunOf, width, adr
    <3>4. ck_addr \in Nat /\ immEnd = 1 /\ immStart = 1 + width(imm) /\ immEnd' = 1
      BY <1>1, <2>3, <2>4, <2>5, <3>1, <3>2, StepAssumption DEF TypeOK
    <3>5. immStart' = 1 + (ck_addr + 1)
      BY <2>1, <3>2, <3>3, <3>4 DEF immStart
    <3>6. recordable' <=> ~imm.adr
      BY <2>1, <3>3 DEF recordable
    <3>7. lstStart' = IF imm.adr THEN immStart' ELSE immStart' + width(imm)
      BY <2>1, <3>2, <3>6 DEF lstStart
    <3>8. CASE imm.adr
      <4>1. imm.val \in Nat /\ width(imm) = imm.val + 1
        BY <1>1, <3>8, WidthType DEF TypeOK
      <4>2. ck_addr = imm.val + 1
        BY <2>8, <3>8 DEF InputInv
      <4>3. immStart = ck_addr + 1
        BY <3>4, <4>1, <4>2
      <4> QED BY <3>1, <3>4, <3>5, <3>6, <3>7, <3>8, <4>3
    <3>9. CASE ~imm.adr
      <4>1. width(imm) = 1 /\ ck_addr = 0
        BY <1>1, <3>9, WidthType DEF TypeOK, InputInv
      <4> QED BY <3>1, <3>4, <3>5, <3>6, <3>7, <3>9, <4>1
    <3> QED BY <3>8, <3>9
  <2>9. lstStart' = immStart + d /\ (recordable' => immStart' = immEnd + d)
    BY <2>7, <2>8
  <2>10. memEnd' = lstStart + d
    <3>1. CASE record_ce'
      <4>1. recordable /\ ~dr_stop_pipe[3] /\ r_data' = lst
        BY <2>1, <3>1
      <4>2. width(r_data') = width(lst)
        BY <4>1 DEF width, adr
      <4>3. memEnd' = lstStart' + width(lst)
        BY <3>1, <4>2 DEF memEnd
      <4> QED BY <2>5, <2>6, <2>9, <4>1, <4>3
    <3>2. CASE ~record_ce'
      <4>1. memEnd' = lstStart'
        BY <3>2 DEF memEnd
      <4>2. lstStart = immStart
        BY <2>1, <2>4, <2>5, <3>2
      <4> QED BY <2>9, <4>1, <4>2
    <3> QED BY <3>1, <3>2
  <2> QED BY <1>3, <2>3, <2>7, <2>8, <2>9, <2>10
<1> QED BY <1>2, <1>3

(* The compressor goes on knowing the last samples.                         *)
LEMMA InputStep ==
    ASSUME ScopCInv, CountInv, InputInv, NEW req, NEW ce \in BOOLEAN, NEW trig, NEW sample,
           Ticks(req, ce, trig, sample), ~reset
    PROVE  InputInv'
<1>1. TypeOK
  BY DEF ScopCInv
<1>2. /\ Longer(h_samples, h_samples', more(ce))
      /\ ce /\ ~dr_stopped => Ago(h_samples', 1) = sample
      /\ ~(ce /\ ~dr_stopped) => h_samples' = h_samples
  BY <1>1, HistoryStep
<1>3. h_samples' \in Seq(Word) /\ Len(h_samples') \in 1 .. MAXHISTORY
  BY <1>2 DEF Longer
<1>4. CASE ~ce
  <2>1. h_samples' = h_samples
    BY <1>2, <1>4
  <2>2. /\ imm' = imm /\ dr_stop_pipe' = dr_stop_pipe /\ data_pipe' = data_pipe
        /\ (new_data' <=> new_data) /\ ck_addr' = ck_addr /\ dr_force_write' = dr_force_write
        /\ (dr_stopped' <=> dr_stopped)
    BY <1>4, CoderPaused
  <2>3. writing' <=> writing
    BY <2>2 DEF writing
  <2> QED BY <2>1, <2>2, <2>3 DEF InputInv
<1>5. CASE ce
  <2>1. /\ imm' = IF writing THEN Value(data_pipe) ELSE RunOf(ck_addr)
        /\ dr_stop_pipe'[1] <=> dr_stopped
        /\ data_pipe' = sample /\ (new_data' <=> sample # data_pipe)
        /\ ck_addr' = IF writing THEN 0 ELSE (ck_addr + 1) % STEPS
    BY <1>5, CoderEnabled
  <2>2. ~dr_stop_pipe'[1] => Ago(h_samples', 1) = data_pipe'
    BY <1>2, <1>5, <2>1
  <2>3. ASSUME ~dr_stop_pipe'[1], ~new_data', Len(h_samples') >= 2
        PROVE  Ago(h_samples', 2) = data_pipe'
    <3>1. more(ce) = 1 /\ ~dr_stop_pipe[1]
      BY <1>5, <2>1, <2>3, PipeOrder DEF more
    <3>2. 1 \in 1 .. Len(h_samples) /\ 1 + 1 = 2 /\ 2 <= Len(h_samples')
      BY <1>3, <2>3, StepAssumption DEF InputInv
    <3>3. Ago(h_samples', 2) = Ago(h_samples, 1)
      BY <1>2, <3>1, <3>2 DEF Longer
    <3> QED BY <2>1, <2>3, <3>1, <3>3 DEF InputInv
  <2>4. ~imm'.adr => ck_addr' = 0
    BY <2>1 DEF RunOf
  <2>5. ASSUME imm'.adr, ~writing'
        PROVE  ck_addr' = imm'.val + 1
    <3>1. ~writing /\ imm'.val = ck_addr /\ ck_addr' = (ck_addr + 1) % STEPS
      BY <2>1, <2>5 DEF Value, RunOf
    <3>2. /\ ck_addr \in Nat /\ STEPS \in Nat /\ MAX_STEP \in Nat
          /\ MAX_STEP >= 1 /\ MAX_STEP < STEPS
      BY <1>1, StepAssumption DEF TypeOK
    <3>3. ck_addr <= MAX_STEP
      BY <1>1, <3>1, CountStep
    <3>4. ~dr_force_write /\ ~dr_force_write'
      BY <2>5, <3>1 DEF writing
    <3>5. ck_addr # MAX_STEP
      <4> SUFFICES ASSUME ck_addr = MAX_STEP PROVE FALSE
        OBVIOUS
      <4>1. dr_run_timeout /\ ~dr_force_inhibit
        BY <3>2, <3>4 DEF CountInv
      <4>2. ForceWrite(TRUE, trig)
        BY <1>5 DEF Ticks, Tick
      <4> QED BY <3>4, <4>1, <4>2, ~reset DEF ForceWrite
    <3>6. (ck_addr + 1) % STEPS = ck_addr + 1
      BY <3>2, <3>3, <3>5
    <3> QED BY <3>1, <3>6
  <2> QED BY <1>3, <2>2, <2>3, <2>4, <2>5 DEF InputInv
<1> QED BY <1>4, <1>5

(* A clock leaves every word of the compressor saying what the history does. *)
LEMMA CoderStep ==
    ASSUME ScopCInv, InputInv, CoderInv, NEW req, NEW ce \in BOOLEAN, NEW trig, NEW sample,
           Ticks(req, ce, trig, sample), ~reset
    PROVE  CoderInv'
<1> DEFINE d == more(ce)
           h == h_samples
<1>1. TypeOK
  BY DEF ScopCInv
<1>2. Longer(h, h', d) /\ (~(ce /\ ~dr_stopped) => h' = h)
  BY <1>1, HistoryStep
<1>3. d \in {0, 1} /\ Len(h) \in Nat /\ Len(h) >= 1
      /\ Len(h') \in Nat /\ Len(h') <= Len(h) + d
  BY <1>2, StepAssumption DEF Longer
<1>4. /\ memEnd' = lstStart + d
      /\ ce => /\ lstStart' = immStart + d
               /\ recordable' => immStart' = immEnd + d
      /\ ce /\ writing => /\ immEnd' = d
                          /\ ~dr_stop_pipe[1] => immStart' = 1 + d
      /\ ce /\ ~writing => /\ ~dr_stopped /\ immEnd' = 1 /\ immEnd = 1
                           /\ immStart' = ck_addr + 2
                           /\ imm.adr => immStart = ck_addr + 1
      /\ ~ce => immEnd' = immEnd /\ immStart' = immStart /\ lstStart' = lstStart
  BY EndsStep
<1>5. /\ immEnd \in Nat /\ immStart \in Nat /\ lstStart \in Nat
      /\ ~dr_stop_pipe[2] => immStart >= 1
      /\ ~dr_stop_pipe[3] /\ recordable => lstStart >= 1
  BY EndsType
<1>6. CASE ~ce
  <2>1. imm' = imm /\ lst' = lst /\ ~record_ce' /\ dr_stop_pipe' = dr_stop_pipe
    BY <1>6, CoderPaused
  <2>2. h_samples' = h_samples
    BY <1>2, <1>6
  <2> QED BY <1>4, <1>6, <2>1, <2>2 DEF CoderInv, recordable, Right, Ago
<1>7. CASE ce
  <2>1. /\ imm' = IF writing THEN Value(data_pipe) ELSE RunOf(ck_addr)
        /\ lst' = imm
        /\ record_ce' <=> recordable /\ ~dr_stop_pipe[3]
        /\ recordable => r_data' = lst
        /\ dr_stop_pipe'[1] <=> dr_stopped
        /\ dr_stop_pipe'[2] <=> dr_stop_pipe[1]
        /\ dr_stop_pipe'[3] <=> dr_stop_pipe[2]
    BY <1>7, CoderEnabled
  <2>2. ASSUME record_ce'
        PROVE  Right(h', r_data', lstStart', memEnd')
    <3>1. Right(h, lst, immStart, lstStart) /\ r_data' = lst /\ lstStart >= 1
      BY <1>5, <2>1, <2>2 DEF CoderInv
    <3>2. Right(h', lst, immStart + d, lstStart + d)
      <4> HIDE DEF h, d
      <4> QED BY <1>2, <1>5, <3>1, RightLonger
    <3> QED BY <1>4, <1>7, <3>1, <3>2
  <2>3. ASSUME recordable', ~dr_stop_pipe'[3]
        PROVE  Right(h', lst', immStart', lstStart')
    <3>1. Right(h, imm, immEnd, immStart) /\ lst' = imm /\ immStart >= 1
      BY <1>5, <2>1, <2>3 DEF CoderInv
    <3>2. Right(h', imm, immEnd + d, immStart + d)
      <4> HIDE DEF h, d
      <4> QED BY <1>2, <1>5, <3>1, RightLonger
    <3> QED BY <1>4, <1>7, <2>3, <3>1, <3>2
  <2>4. ASSUME ~dr_stop_pipe'[2], writing
        PROVE  Right(h', imm', immEnd', immStart')
    <3>1. ~dr_stop_pipe[1] /\ immStart' = 1 + d /\ ~imm'.adr /\ imm'.val = data_pipe
      BY <1>4, <1>7, <2>1, <2>4 DEF Value
    <3>2. ASSUME 1 + d <= Len(h') PROVE Ago(h', 1 + d) = Ago(h, 1)
      BY <1>2, <1>3, <3>2 DEF Longer
    <3>3. Ago(h, 1) = data_pipe
      BY <3>1 DEF InputInv
    <3> QED BY <3>1, <3>2, <3>3 DEF Right
  <2>5. ASSUME ~dr_stop_pipe'[2], ~writing
        PROVE  Right(h', imm', immEnd', immStart')
    <3>1. /\ ~dr_stopped /\ immEnd' = 1 /\ immEnd = 1 /\ immStart' = ck_addr + 2 /\ d = 1
          /\ imm.adr => immStart = ck_addr + 1
      BY <1>4, <1>7, <2>5 DEF more
    <3>2. ~dr_stop_pipe[1] /\ ~dr_stop_pipe[2] /\ ~new_data
      BY <2>5, <3>1, PipeOrder DEF writing
    <3>3. imm'.adr
      BY <2>1, <2>5 DEF RunOf
    <3>4. ck_addr \in Nat
      BY <1>1, StepAssumption DEF TypeOK
    <3>5. ASSUME ck_addr + 2 < Len(h'), NEW a \in 2 .. ck_addr + 2
          PROVE  Ago(h', a) = Ago(h', ck_addr + 3)
      <4>1. Len(h) >= 2 /\ ck_addr + 2 <= Len(h)
        BY <1>3, <3>1, <3>4, <3>5
      <4>2. Ago(h, 1) = data_pipe /\ Ago(h, 2) = data_pipe
        BY <3>2, <4>1 DEF InputInv
      <4>3. \A b \in 1 .. ck_addr + 1 : Ago(h, b) = Ago(h, ck_addr + 2)
        <5>1. CASE imm.adr
          <6>1. Right(h, imm, 1, ck_addr + 1)
            BY <3>1, <3>2, <5>1 DEF CoderInv
          <6>2. \A b \in 2 .. ck_addr + 1 : Ago(h, b) = Ago(h, ck_addr + 2)
            BY <1>3, <3>4, <4>1, <5>1, <6>1 DEF Right
          <6>3. imm.val \in Nat
            BY <1>1, <5>1, WidthType DEF TypeOK
          <6>4. ck_addr >= 1
            BY <2>5, <5>1, <6>3 DEF InputInv
          <6>5. 2 \in 2 .. ck_addr + 1
            BY <3>4, <6>4
          <6> QED BY <3>4, <4>2, <6>2, <6>5
        <5>2. CASE ~imm.adr
          BY <4>2, <5>2 DEF InputInv
        <5> QED BY <5>1, <5>2
      <4>4. a - 1 \in 1 .. ck_addr + 1 /\ (a - 1) + 1 = a /\ (ck_addr + 2) + 1 = ck_addr + 3
            /\ a - 1 \in 1 .. Len(h) /\ ck_addr + 2 \in 1 .. Len(h)
            /\ a <= Len(h') /\ ck_addr + 3 <= Len(h')
        BY <1>3, <3>4, <3>5, <4>1
      <4>5. \A b \in 1 .. Len(h) : b + 1 <= Len(h') => Ago(h', b + 1) = Ago(h, b)
        BY <1>2, <3>1 DEF Longer
      <4>6. Ago(h', a) = Ago(h, a - 1)
        BY <4>4, <4>5
      <4>7. Ago(h', ck_addr + 3) = Ago(h, ck_addr + 2)
        BY <4>4, <4>5
      <4> QED BY <4>3, <4>4, <4>6, <4>7
    <3>6. 1 + 1 = 2 /\ (ck_addr + 2) + 1 = ck_addr + 3
      BY <3>4
    <3> QED BY <3>1, <3>3, <3>5, <3>6 DEF Right
  <2> QED BY <2>2, <2>3, <2>4, <2>5 DEF CoderInv
<1> QED BY <1>6, <1>7

(* Two runs never follow each other: of a series of growing runs the last   *)
(* alone is written.                                                       *)
AdjInv(F) ==
    /\ record_ce /\ r_data.adr /\ Held(h_samples, memEnd) => ~lst.adr
    /\ F < MEMLEN /\ ring[MEMLEN - 1].adr => IF record_ce THEN ~r_data.adr ELSE ~lst.adr

(* The oldest word of the ring that belongs to this capture, after a clock.  *)
(* What the reset leaves in the record stage does not.                     *)
NextFirst(F) == IF record_ce THEN IF Held(h_samples, memEnd) THEN Less(F) ELSE MEMLEN ELSE F

(* A run written to memory is followed by a value.                          *)
LEMMA AdjStep ==
    ASSUME ScopCInv, NEW req, NEW ce \in BOOLEAN, NEW trig, NEW sample,
           Ticks(req, ce, trig, sample), ~reset,
           NEW F \in 0 .. MEMLEN, AdjInv(F), NEW G, G = NextFirst(F)
    PROVE  AdjInv(G)'
<1>1. ring' = IF record_ce THEN Pushed(ring, r_data) ELSE ring
  BY RingStep DEF ScopCInv, Ticks, Tick
<1>2. MEMLEN - 1 \in Address
  BY CaptureAssumption DEF Address
<1>3. record_ce' /\ r_data'.adr => ~lst'.adr
  <2>1. CASE ce
    BY <2>1, CoderEnabled DEF recordable
  <2>2. CASE ~ce
    BY <2>2, CoderPaused
  <2> QED BY <2>1, <2>2
<1>4. ASSUME G < MEMLEN, ring'[MEMLEN - 1].adr
      PROVE  IF record_ce' THEN ~r_data'.adr ELSE ~lst'.adr
  <2>1. ~lst.adr
    <3>1. CASE record_ce
      <4>1. Held(h_samples, memEnd)
        BY <1>4, <3>1, CaptureAssumption DEF NextFirst
      <4>2. ring'[MEMLEN - 1] = r_data
        BY <1>1, <1>2, <3>1 DEF Pushed
      <4> QED BY <1>4, <3>1, <4>1, <4>2 DEF AdjInv
    <3>2. CASE ~record_ce
      BY <1>1, <1>4, <3>2 DEF AdjInv, NextFirst
    <3> QED BY <3>1, <3>2
  <2>2. CASE ce
    <3>1. dr_stop_pipe[3] => ~imm.adr
      BY PipeOrder
    <3> QED BY <2>1, <2>2, <3>1, CoderEnabled DEF recordable
  <2>3. CASE ~ce
    BY <2>1, <2>3, CoderPaused
  <2> QED BY <2>2, <2>3
<1> QED BY <1>3, <1>4 DEF AdjInv

-----------------------------------------------------------------------------
One(b) == IF b THEN 1 ELSE 0

(* Until the memory is primed: nothing but what the reset has left, then     *)
(* the first value, then values only.                                      *)
Empty(F) ==
    /\ imm.adr /\ lst.adr /\ new_data /\ F = MEMLEN
    /\ Len(h_samples) = 1 /\ waddr + One(record_ce) <= 1
First(F) ==
    /\ ~imm.adr /\ lst.adr /\ dr_force_write /\ F = MEMLEN
    /\ Held(h_samples, immStart) /\ ~record_ce /\ waddr <= 1
Filling(F) ==
    /\ ~imm.adr /\ ~lst.adr /\ dr_force_write
    /\ Held(h_samples, lstStart) /\ waddr <= 2 + MEMLEN - F
    /\ record_ce /\ ~Held(h_samples, memEnd) => waddr <= 1

(* How many words of the ring are not of this capture yet: no more than     *)
(* there are values on their way.                                          *)
FillInv(F) ==
    /\ ~dr_primed => Empty(F) \/ First(F) \/ Filling(F)
    /\ dr_primed => /\ Held(h_samples, memEnd)
                    /\ F <= One(record_ce) + One(~lst.adr) + One(~imm.adr)
    /\ dr_triggered => dr_primed /\ F <= One(record_ce) + One(~lst.adr)
    /\ dr_stopped => F <= One(record_ce)
    /\ dr_stop_pipe[1] => F = 0

(* What a clock does to the flags, and when a word fills the memory.        *)
LEMMA MemoryStep ==
    ASSUME ScopCInv, NEW req, NEW ce \in BOOLEAN, NEW trig, NEW sample,
           Ticks(req, ce, trig, sample), ~reset
    PROVE  /\ record_ce => /\ waddr' = NextAddress(waddr)
                           /\ dr_primed' <=> dr_primed \/ waddr = MEMLEN - 1
           /\ ~record_ce => waddr' = waddr /\ (dr_primed' <=> dr_primed)
           /\ dr_triggered' <=> dr_triggered \/ (ce /\ dw_trigger(trig))
           /\ dw_trigger(trig) => dr_primed
           /\ dr_stopped' <=> dr_triggered /\ (dr_stopped \/ (ce /\ counter >= br_holdoff))
           /\ ce /\ ~dr_primed => dr_force_write'
<1>1. /\ WriteMem /\ TriggerFlag(reset, br_config.manual, br_config.disable, ce, trig)
      /\ StopAfterHoldoff(ce) /\ ForceWrite(ce, trig)
  BY DEF Ticks, Tick
<1>2. /\ record_ce => /\ waddr' = NextAddress(waddr)
                      /\ dr_primed' <=> (dr_primed \/ waddr = MEMLEN - 1)
      /\ ~record_ce => waddr' = waddr /\ (dr_primed' <=> dr_primed)
  BY <1>1, ~reset DEF WriteMem
<1>3. dr_triggered' <=> dr_triggered \/ (ce /\ dw_trigger(trig))
  BY <1>1, ~reset DEF TriggerFlag, dw_trigger
<1>4. dr_stopped' <=> dr_triggered /\ (dr_stopped \/ (ce /\ counter >= br_holdoff))
  BY <1>1, ~reset DEF StopAfterHoldoff
<1>5. ce /\ ~dr_primed => dr_force_write'
  BY <1>1, ~reset DEF ForceWrite
<1>6. dw_trigger(trig) => dr_primed
  BY DEF dw_trigger, DwTrigger
<1> QED BY <1>2, <1>3, <1>4, <1>5, <1>6

(* A history that reaches back so far reaches back less far too.            *)
LEMMA HeldLess ==
    ASSUME NEW h, Len(h) \in Nat, NEW a \in Nat, NEW b \in Nat, b <= a, Held(h, a)
    PROVE  Held(h, b)
BY DEF Held

(* A primed memory.                                                        *)
LEMMA PrimedStep ==
    ASSUME ScopCInv, InputInv, NEW req, NEW ce \in BOOLEAN, NEW trig, NEW sample,
           Ticks(req, ce, trig, sample), ~reset,
           NEW F \in 0 .. MEMLEN, FillInv(F), NEW G, G = NextFirst(F), dr_primed
    PROVE  FillInv(G)'
<1> DEFINE d == more(ce)
           h == h_samples
           r == One(record_ce)
           l == One(~lst.adr)
           i == One(~imm.adr)
<1>1. Longer(h, h', d) /\ d \in Nat /\ Len(h) \in Nat
  BY HistoryStep, StepAssumption DEF ScopCInv, more, InputInv
<1>2. F \in Nat /\ MEMLEN \in Nat
  BY CaptureAssumption
<1>3. Held(h, memEnd) /\ F <= r + l + i /\ (dr_triggered => F <= r + l)
      /\ (dr_stopped => F <= r) /\ (dr_stop_pipe[1] => F = 0)
  BY DEF FillInv
<1>4. G = IF record_ce THEN Less(F) ELSE F
  BY <1>3 DEF NextFirst
<1>5. r = IF record_ce THEN 1 ELSE 0
  BY DEF One
<1>6. l \in {0, 1} /\ i \in {0, 1} /\ (l = 1 <=> ~lst.adr) /\ (i = 1 <=> ~imm.adr)
  BY DEF One
<1> HIDE DEF r, l, i
<1>7. /\ G \in Nat /\ G <= l + i /\ (dr_triggered => G <= l)
      /\ (dr_stopped => G = 0) /\ (dr_stop_pipe[1] => G = 0)
  BY <1>2, <1>3, <1>4, <1>5, <1>6 DEF Less
<1>8. Held(h', memEnd')
  <2>1. memEnd' = lstStart + d
    BY EndsStep
  <2>2. lstStart \in Nat /\ memEnd \in Nat /\ lstStart <= memEnd
    BY EndsType
  <2>3. Held(h, lstStart)
    BY <1>1, <1>3, <2>2, HeldLess
  <2> HIDE DEF d, h
  <2> QED BY <1>1, <2>1, <2>2, <2>3, HeldLonger
<1>9. dr_primed'
  BY MemoryStep
<1>10. /\ dr_triggered' => dr_triggered \/ ~dr_stopped
       /\ dr_stopped' => dr_triggered
       /\ dr_stopped => dr_triggered /\ dr_stopped'
  BY MemoryStep DEF ScopCInv, PipeInv
<1> DEFINE r2 == One(record_ce')
           l2 == One(~lst'.adr)
           i2 == One(~imm'.adr)
<1>11. /\ r2 \in {0, 1} /\ l2 \in {0, 1} /\ i2 \in {0, 1}
       /\ (r2 = 1 <=> record_ce') /\ (l2 = 1 <=> ~lst'.adr) /\ (i2 = 1 <=> ~imm'.adr)
  BY DEF One
<1> HIDE DEF r2, l2, i2
<1>12. /\ G <= r2 + l2 + i2 /\ (dr_triggered' => G <= r2 + l2) /\ (dr_stopped' => G <= r2)
       /\ (dr_stop_pipe'[1] => G = 0)
  <2>1. CASE ce
    <3>1. /\ lst' = imm
          /\ record_ce' <=> recordable /\ ~dr_stop_pipe[3]
          /\ dr_stop_pipe'[1] <=> dr_stopped
      BY <2>1, CoderEnabled
    <3>2. dr_stop_pipe[3] => dr_stop_pipe[1]
      BY PipeOrder
    <3>3. l2 = i
      BY <1>6, <1>11, <3>1
    <3>4. ~dr_stop_pipe[3] => (r2 = 1 <=> l = 1 \/ i = 1)
      BY <1>6, <1>11, <3>1 DEF recordable
    <3> QED BY <1>6, <1>7, <1>10, <1>11, <3>1, <3>2, <3>3, <3>4
  <2>2. CASE ~ce
    <3>1. imm' = imm /\ lst' = lst /\ dr_stop_pipe' = dr_stop_pipe
          /\ (dr_triggered' <=> dr_triggered) /\ (dr_stopped' <=> dr_stopped)
      BY <2>2, CoderPaused
    <3>2. l2 = l /\ i2 = i
      BY <3>1 DEF l, l2, i, i2
    <3> QED BY <1>6, <1>7, <1>11, <3>1, <3>2
  <2> QED BY <2>1, <2>2
<1>13. FillInv(G)' <=>
         /\ ~dr_primed' => (Empty(G) \/ First(G) \/ Filling(G))'
         /\ dr_primed' => Held(h', memEnd') /\ G <= r2 + l2 + i2
         /\ dr_triggered' => dr_primed' /\ G <= r2 + l2
         /\ dr_stopped' => G <= r2
         /\ dr_stop_pipe'[1] => G = 0
  BY DEF FillInv, r2, l2, i2, One
<1> QED BY <1>8, <1>9, <1>12, <1>13

(* A memory that is not primed.                                            *)
LEMMA UnprimedStep ==
    ASSUME MAXHISTORY >= 2,
           ScopCInv, InputInv, NEW req, NEW ce \in BOOLEAN, NEW trig, NEW sample,
           Ticks(req, ce, trig, sample), ~reset,
           NEW F \in 0 .. MEMLEN, FillInv(F), NEW G, G = NextFirst(F), ~dr_primed
    PROVE  FillInv(G)'
<1> DEFINE d == more(ce)
           h == h_samples
<1>1. Longer(h, h', d) /\ (~(ce /\ ~dr_stopped) => h' = h)
  BY HistoryStep DEF ScopCInv
<1>2. F \in Nat /\ F <= MEMLEN /\ MEMLEN \in Nat /\ MEMLEN >= 2 /\ waddr \in 0 .. MEMLEN - 1
  BY CaptureAssumption DEF ScopCInv, TypeOK, Address
<1>3. Len(h) \in Nat /\ Len(h) >= 1
  BY StepAssumption DEF InputInv
<1>4. ~dr_triggered /\ ~dr_stopped /\ ~dr_stop_pipe[1] /\ ~dr_stop_pipe[2] /\ ~dr_stop_pipe[3]
  <2>1. ~dr_triggered /\ ~dr_stopped
    BY DEF FillInv, ScopCInv, PipeInv
  <2> QED BY <2>1, PipeOrder
<1>5. ~dr_triggered' /\ ~dr_stopped' /\ ~dr_stop_pipe'[1]
  <2>1. ~dr_triggered' /\ ~dr_stopped'
    BY <1>4, MemoryStep
  <2>2. CASE ce
    BY <1>4, <2>1, <2>2, CoderEnabled
  <2>3. CASE ~ce
    BY <1>4, <2>1, <2>3, CoderPaused
  <2> QED BY <2>1, <2>2, <2>3
<1>6. /\ record_ce => /\ waddr' = NextAddress(waddr)
                      /\ dr_primed' <=> waddr = MEMLEN - 1
      /\ ~record_ce => waddr' = waddr /\ ~dr_primed'
      /\ ce => dr_force_write'
  BY MemoryStep
<1>7. /\ immEnd \in {0, 1} /\ immStart \in Nat /\ lstStart \in Nat /\ memEnd \in Nat
      /\ immStart <= lstStart /\ lstStart <= memEnd
      /\ record_ce => memEnd >= 2
      /\ d = IF ce THEN 1 ELSE 0
  <2>1. immStart >= 1 /\ (record_ce => memEnd = lstStart + width(r_data))
    BY <1>4, EndsType
  <2>2. width(r_data) \in Nat /\ width(r_data) >= 1
    BY WidthType DEF ScopCInv, TypeOK
  <2> QED BY <1>4, <2>1, <2>2, EndsType DEF more
<1>8. /\ memEnd' = lstStart + d
      /\ ce => lstStart' = immStart + d
      /\ ce /\ writing => immStart' = 1 + d
      /\ ~ce => immEnd' = immEnd /\ immStart' = immStart /\ lstStart' = lstStart
  BY <1>4, EndsStep
<1>9. ASSUME ce
      PROVE  /\ writing => ~imm'.adr
             /\ lst' = imm
             /\ record_ce' <=> recordable
  <2>1. /\ imm' = IF writing THEN Value(data_pipe) ELSE RunOf(ck_addr)
        /\ lst' = imm
        /\ record_ce' <=> recordable /\ ~dr_stop_pipe[3]
    BY <1>9, CoderEnabled
  <2> QED BY <1>4, <2>1 DEF Value
<1>10. ASSUME ~ce
       PROVE  /\ imm' = imm /\ lst' = lst /\ ~record_ce' /\ (new_data' <=> new_data)
              /\ dr_force_write' = dr_force_write
  BY <1>10, CoderPaused
<1>11. Empty(F) \/ First(F) \/ Filling(F)
  BY DEF FillInv
<1>12. ASSUME ~dr_primed', (Empty(G) \/ First(G) \/ Filling(G))'
       PROVE  FillInv(G)'
  BY <1>5, <1>12 DEF FillInv
<1>13. CASE Empty(F)
  <2>1. F = MEMLEN /\ Len(h) = 1 /\ imm.adr /\ lst.adr /\ new_data
        /\ waddr + One(record_ce) <= 1
    BY <1>13 DEF Empty
  <2>2. G = MEMLEN
    BY <1>7, <2>1, StepAssumption DEF NextFirst, Held
  <2>3. waddr' <= 1 /\ ~dr_primed'
    BY <1>2, <1>6, <2>1 DEF One, NextAddress
  <2>4. CASE ce
    <3>1. ~imm'.adr /\ lst'.adr /\ ~record_ce' /\ immStart' = 2 /\ dr_force_write'
      BY <1>6, <1>7, <1>8, <1>9, <2>1, <2>4 DEF writing, recordable
    <3>2. Held(h', 2)
      <4>1. Len(h') = Len(h) + d \/ Len(h') = MAXHISTORY
        BY <1>1 DEF Longer
      <4>2. Len(h') = 2 \/ Len(h') = MAXHISTORY
        BY <1>7, <2>1, <2>4, <4>1
      <4> QED BY <4>2 DEF Held
    <3>3. First(G)'
      BY <2>2, <2>3, <3>1, <3>2 DEF First
    <3> QED BY <1>12, <2>3, <3>3
  <2>5. CASE ~ce
    <3>1. waddr' + One(record_ce') <= 1
      BY <1>2, <1>6, <1>10, <2>1, <2>3, <2>5 DEF One, NextAddress
    <3>2. h_samples' = h_samples
      BY <1>1, <2>5
    <3>3. Empty(G)'
      BY <1>10, <2>1, <2>2, <2>5, <3>1, <3>2 DEF Empty
    <3> QED BY <1>12, <2>3, <3>3
  <2> QED BY <2>4, <2>5
<1>14. CASE First(F)
  <2>1. /\ ~imm.adr /\ lst.adr /\ dr_force_write /\ F = MEMLEN
        /\ Held(h, immStart) /\ ~record_ce /\ waddr <= 1
    BY <1>14 DEF First
  <2>2. G = MEMLEN /\ waddr' = waddr /\ ~dr_primed'
    BY <1>6, <2>1 DEF NextFirst
  <2>3. CASE ce
    <3>1. ~imm'.adr /\ ~lst'.adr /\ record_ce' /\ lstStart' = immStart + d /\ dr_force_write'
      BY <1>6, <1>8, <1>9, <2>1, <2>3 DEF writing, recordable
    <3>2. Held(h', immStart + d)
      <4> HIDE DEF h, d
      <4> QED BY <1>1, <1>7, <2>1, HeldLonger
    <3>3. waddr' <= 1 /\ waddr' <= 2 + MEMLEN - G
      BY <1>2, <2>1, <2>2
    <3>4. Held(h', lstStart')
      BY <3>1, <3>2
    <3>5. Filling(G)'
      BY <3>1, <3>3, <3>4 DEF Filling
    <3> QED BY <1>12, <2>2, <3>5
  <2>4. CASE ~ce
    <3>1. h_samples' = h_samples
      BY <1>1, <2>4
    <3>2. First(G)'
      BY <1>8, <1>10, <2>1, <2>2, <2>4, <3>1 DEF First
    <3> QED BY <1>12, <2>2, <3>2
  <2> QED BY <2>3, <2>4
<1>15. CASE Filling(F)
  <2>1. /\ ~imm.adr /\ ~lst.adr /\ dr_force_write /\ Held(h, lstStart)
        /\ waddr <= 2 + MEMLEN - F
        /\ record_ce /\ ~Held(h, memEnd) => waddr <= 1
    BY <1>15 DEF Filling
  <2>2. /\ G \in Nat
        /\ ~dr_primed' => waddr' <= 2 + MEMLEN - G
        /\ dr_primed' => G <= 2
    <3>1. CASE record_ce /\ Held(h, memEnd)
      <4>1. G = Less(F)
        BY <3>1 DEF NextFirst
      <4> QED BY <1>2, <1>6, <2>1, <3>1, <4>1 DEF Less, NextAddress
    <3>2. CASE record_ce /\ ~Held(h, memEnd)
      <4>1. G = MEMLEN /\ waddr <= 1
        BY <2>1, <3>2 DEF NextFirst
      <4> QED BY <1>2, <1>6, <3>2, <4>1 DEF NextAddress
    <3>3. CASE ~record_ce
      <4>1. G = F
        BY <3>3 DEF NextFirst
      <4> QED BY <1>2, <1>6, <2>1, <3>3, <4>1
    <3> QED BY <3>1, <3>2, <3>3
  <2>3. ~imm'.adr /\ ~lst'.adr /\ dr_force_write'
    BY <1>6, <1>9, <1>10, <2>1 DEF writing
  <2>4. Held(h', lstStart') /\ Held(h', memEnd')
    <3>1. Held(h', lstStart + d)
      <4> HIDE DEF h, d
      <4> QED BY <1>1, <1>7, <2>1, HeldLonger
    <3>2. Held(h, immStart)
      BY <1>3, <1>7, <2>1, HeldLess
    <3>3. Held(h', immStart + d)
      <4> HIDE DEF h, d
      <4> QED BY <1>1, <1>7, <3>2, HeldLonger
    <3>4. ~ce => lstStart' = lstStart + d
      BY <1>7, <1>8
    <3> QED BY <1>8, <3>1, <3>3, <3>4
  <2>5. CASE ~dr_primed'
    <3>1. Filling(G)'
      BY <2>2, <2>3, <2>4, <2>5 DEF Filling
    <3> QED BY <1>12, <2>5, <3>1
  <2>6. CASE dr_primed'
    <3>1. One(record_ce') \in {0, 1} /\ One(~lst'.adr) = 1 /\ One(~imm'.adr) = 1
      BY <2>3 DEF One
    <3>2. G <= One(record_ce') + One(~lst'.adr) + One(~imm'.adr)
      BY <2>2, <2>6, <3>1
    <3> QED BY <1>5, <2>4, <2>6, <3>2 DEF FillInv
  <2> QED BY <2>5, <2>6
<1> QED BY <1>11, <1>13, <1>14, <1>15

(* How many samples ago the one with the trigger came in, and the counter    *)
(* that tells it until the stop: it counts the samples that followed.      *)
age == IF dr_stopped THEN br_holdoff + 2 ELSE counter + 1

CountdownInv ==
    /\ ~dr_triggered => counter = 0
    /\ dr_triggered /\ ~dr_stopped => counter <= br_holdoff
    /\ dr_triggered => h_since \in Nat /\ age = h_since + 1

IsTrigger(w) == ~w.adr /\ w.val = h_trigger

(* Where that sample is: in the pipe, to be written at once, in one of the   *)
(* words on their way to the memory, in the memory, or overwritten.         *)
TriggerPlace(A, F) ==
    \/ age = 1 /\ dr_force_write /\ data_pipe = h_trigger
    \/ age = immStart /\ IsTrigger(imm)
    \/ age = lstStart /\ IsTrigger(lst)
    \/ age = memEnd /\ record_ce /\ IsTrigger(r_data)
    \/ \E i \in F .. MEMLEN - 1 : A[i] = age /\ IsTrigger(ring[i])
    \/ F = 0 /\ A[0] < age

(* A clock makes the trigger's sample older by those it adds; the one that  *)
(* takes the trigger puts its sample in the pipe, to be written.            *)
LEMMA CountdownStep ==
    ASSUME ScopCInv, CountdownInv, NEW req, NEW ce \in BOOLEAN, NEW trig, NEW sample,
           Ticks(req, ce, trig, sample), ~reset, ~reset'
    PROVE  /\ CountdownInv'
           /\ dr_triggered => age' = age + more(ce) /\ h_trigger' = h_trigger
           /\ dr_triggered' /\ ~dr_triggered =>
                 age' = 1 /\ dr_force_write' /\ data_pipe' = sample /\ h_trigger' = sample
           /\ age \in Nat /\ age >= 1 /\ (dr_stopped => age >= 2)
<1>1. /\ BusEdge(req, reset, dw_final_stop, dr_triggered, dr_primed, Value(data_pipe))
      /\ CountHoldoff(reset, ce) /\ ForceWrite(ce, trig) /\ NewData(ce, sample)
      /\ Remember(reset, br_config.manual, br_config.disable, ce, trig, sample)
  BY DEF Ticks, Tick
<1>2. br_holdoff' = br_holdoff
  <2>1. Configure(req, reset)
    BY <1>1 DEF BusEdge
  <2>2. ~(write_to_control(req) /\ ~req.word.reset_n)
    <3>1. br_config'.reset_n
      BY ~reset' DEF reset, bw_reset_request
    <3> QED BY <2>1, <3>1, ~reset DEF Configure
  <2> QED BY <2>1, <2>2 DEF Configure
<1>3. /\ counter \in Nat /\ counter <= MAXHOLDOFF /\ MAXHOLDOFF \in Nat
      /\ br_holdoff \in Nat /\ br_holdoff <= MAXHOLDOFF
  BY CaptureAssumption DEF ScopCInv, TypeOK, Holdoff
<1>4. /\ dr_triggered' <=> dr_triggered \/ (ce /\ dw_trigger(trig))
      /\ dr_stopped' <=> dr_triggered /\ (dr_stopped \/ (ce /\ counter >= br_holdoff))
  BY MemoryStep
<1>5. counter' = IF ce /\ dr_triggered /\ ~dr_stopped THEN NextCount(counter) ELSE counter
  BY <1>1, ~reset DEF CountHoldoff
<1>6. dr_triggered /\ ~dr_stopped => counter <= br_holdoff
  BY DEF CountdownInv
<1>7. dr_triggered /\ ~dr_stopped /\ ~dr_stopped' /\ ce =>
        counter' = counter + 1 /\ counter < br_holdoff
  BY <1>3, <1>4, <1>5 DEF NextCount
<1>8. /\ ~dr_triggered' => counter' = 0
      /\ dr_triggered' /\ ~dr_stopped' => counter' <= br_holdoff'
  <2>1. ~dr_triggered' => counter' = 0
    BY <1>4, <1>5 DEF CountdownInv
  <2>2. ASSUME dr_triggered', ~dr_stopped' PROVE counter' <= br_holdoff
    <3>1. CASE dr_triggered
      <4>1. ~dr_stopped
        BY <1>4, <2>2, <3>1
      <4> QED BY <1>3, <1>5, <1>6, <1>7, <2>2, <3>1, <4>1
    <3>2. CASE ~dr_triggered
      BY <1>3, <1>5, <3>2 DEF CountdownInv
    <3> QED BY <3>1, <3>2
  <2> QED BY <1>2, <2>1, <2>2
<1>9. age \in Nat /\ age >= 1 /\ (dr_stopped => age >= 2)
  BY <1>3 DEF age
<1>10. ASSUME dr_triggered PROVE age' = age + more(ce) /\ h_trigger' = h_trigger
  <2>1. h_trigger' = h_trigger
    BY <1>1, <1>10, ~reset DEF Remember
  <2>2. age' = IF dr_stopped' THEN br_holdoff + 2 ELSE counter' + 1
    BY <1>2 DEF age
  <2>3. CASE dr_stopped
    BY <1>3, <1>4, <1>10, <2>1, <2>2, <2>3 DEF age, more
  <2>4. CASE ~dr_stopped /\ ~ce
    BY <1>3, <1>4, <1>5, <1>10, <2>1, <2>2, <2>4 DEF age, more
  <2>5. CASE ~dr_stopped /\ ce
    <3>1. age = counter + 1 /\ more(ce) = 1
      BY <2>5 DEF age, more
    <3>2. age' = counter + 2
      <4>1. CASE dr_stopped'
        <5>1. counter = br_holdoff
          BY <1>3, <1>4, <1>6, <1>10, <2>5, <4>1
        <5> QED BY <2>2, <4>1, <5>1
      <4>2. CASE ~dr_stopped'
        BY <1>3, <1>7, <1>10, <2>2, <2>5, <4>2
      <4> QED BY <4>1, <4>2
    <3> QED BY <1>3, <2>1, <3>1, <3>2
  <2> QED BY <2>3, <2>4, <2>5
<1>11. ASSUME dr_triggered', ~dr_triggered
       PROVE  age' = 1 /\ dr_force_write' /\ data_pipe' = sample /\ h_trigger' = sample
  <2>1. ce /\ dw_trigger(trig) /\ ~dr_stopped'
    BY <1>4, <1>11
  <2>2. counter' = 0
    BY <1>5, <1>11 DEF CountdownInv
  <2>3. age' = 1
    BY <2>1, <2>2 DEF age
  <2>4. dr_force_write' /\ data_pipe' = sample
    BY <1>1, <1>11, <2>1, ~reset DEF ForceWrite, NewData
  <2>5. h_trigger' = sample
    BY <1>1, <1>11, <2>1, ~reset DEF Remember, dw_trigger
  <2> QED BY <2>3, <2>4, <2>5
<1>12. ASSUME dr_triggered' PROVE h_since' \in Nat /\ age' = h_since' + 1
  <2>1. CASE ~dr_triggered
    <3>1. ce /\ dw_trigger(trig)
      BY <1>4, <1>12, <2>1
    <3>2. h_since' = 0
      BY <1>1, <2>1, <3>1, ~reset DEF Remember, dw_trigger
    <3> QED BY <1>11, <1>12, <2>1, <3>2
  <2>2. CASE dr_triggered
    <3>1. h_since \in Nat /\ age = h_since + 1 /\ age' = age + more(ce)
      BY <1>10, <2>2 DEF CountdownInv
    <3>2. ~dr_stopped => h_since <= MAXHOLDOFF
      <4>1. ~dr_stopped => age = counter + 1
        BY DEF age
      <4> QED BY <1>3, <3>1, <4>1
    <3>3. h_since' = h_since + more(ce)
      <4>1. h_since' = IF ce /\ ~dr_stopped /\ h_since <= MAXHOLDOFF
                       THEN h_since + 1 ELSE h_since
        BY <1>1, <2>2, ~reset DEF Remember
      <4>2. CASE ce /\ ~dr_stopped
        BY <3>2, <4>1, <4>2 DEF more
      <4>3. CASE ~(ce /\ ~dr_stopped)
        BY <3>1, <4>1, <4>3 DEF more
      <4> QED BY <4>2, <4>3
    <3>4. more(ce) \in Nat
      BY DEF more
    <3> QED BY <3>1, <3>3, <3>4
  <2> QED BY <2>1, <2>2
<1>13. CountdownInv'
  BY <1>8, <1>12 DEF CountdownInv
<1> QED BY <1>9, <1>10, <1>11, <1>13

(* How long ago the words of the ring start, after a clock.                 *)
NextStarts(A, ce) ==
    [i \in 0 .. MEMLEN |-> (IF record_ce THEN Moved(A, lstStart) ELSE A)[i] + more(ce)]

(* The ring after a clock: as it was, or with one word more, and as much    *)
(* further back as the clock adds to the history.                           *)
LEMMA CodedStep ==
    ASSUME ScopCInv, RunsInv, InputInv, CoderInv,
           NEW req, NEW ce \in BOOLEAN, NEW trig, NEW sample,
           Ticks(req, ce, trig, sample), ~reset,
           NEW F \in 0 .. MEMLEN, NEW A, Coded(h_samples, ring, A, F),
           A[MEMLEN] = memEnd, AdjInv(F),
           NEW G, G = NextFirst(F), NEW B, B = NextStarts(A, ce)
    PROVE  Coded(h_samples', ring', B, G) /\ B[MEMLEN] = memEnd'
<1>1. ring' = IF record_ce THEN Pushed(ring, r_data) ELSE ring
  BY RingStep DEF ScopCInv, Ticks, Tick
<1>2. Longer(h_samples, h_samples', more(ce)) /\ more(ce) \in Nat
  BY HistoryStep DEF ScopCInv, more
<1>3. /\ lstStart \in Nat /\ memEnd' = lstStart + more(ce)
      /\ record_ce => memEnd = lstStart + width(r_data)
      /\ ~record_ce => memEnd = lstStart
  BY EndsType, EndsStep DEF memEnd
<1>4. MEMLEN \in Nat /\ MEMLEN >= 2 /\ A \in [0 .. MEMLEN -> Nat]
  BY CaptureAssumption DEF Coded
<1>5. r_data \in MemWord /\ Bounded(r_data)
  BY DEF ScopCInv, TypeOK, RunsInv
<1>6. B[MEMLEN] = memEnd'
  <2>1. MEMLEN \in 0 .. MEMLEN
    BY <1>4
  <2>2. B[MEMLEN] = (IF record_ce THEN Moved(A, lstStart) ELSE A)[MEMLEN] + more(ce)
    BY <2>1 DEF NextStarts
  <2>3. Moved(A, lstStart)[MEMLEN] = lstStart
    BY <2>1 DEF Moved
  <2> QED BY <1>3, <2>2, <2>3
<1>7. CASE record_ce /\ Held(h_samples, memEnd)
  <2>1. Right(h_samples, r_data, lstStart, memEnd)
    BY <1>7 DEF CoderInv
  <2>2. F < MEMLEN /\ ring[MEMLEN - 1].adr => ~r_data.adr
    BY <1>7 DEF AdjInv
  <2>3. Coded(h_samples, Pushed(ring, r_data), Moved(A, lstStart), Less(F))
    BY <1>3, <1>5, <1>7, <2>1, <2>2, CodedPushed
  <2>4. Coded(h_samples', Pushed(ring, r_data),
              [i \in 0 .. MEMLEN |-> Moved(A, lstStart)[i] + more(ce)], Less(F))
    BY <1>2, <2>3, CodedLonger
  <2>5. G = Less(F) /\ B = [i \in 0 .. MEMLEN |-> Moved(A, lstStart)[i] + more(ce)]
    BY <1>7 DEF NextFirst, NextStarts
  <2> QED BY <1>1, <1>6, <1>7, <2>4, <2>5
<1>8. CASE record_ce /\ ~Held(h_samples, memEnd)
  <2>1. G = MEMLEN
    BY <1>8 DEF NextFirst
  <2>2. \A i \in 0 .. MEMLEN : Moved(A, lstStart)[i] \in Nat
    BY <1>3, <1>4 DEF Moved
  <2>3. B \in [0 .. MEMLEN -> Nat]
    BY <1>2, <1>8, <2>2 DEF NextStarts
  <2> QED BY <1>4, <1>6, <2>1, <2>3 DEF Coded
<1>9. CASE ~record_ce
  <2>1. G = F /\ B = [i \in 0 .. MEMLEN |-> A[i] + more(ce)]
    BY <1>9 DEF NextFirst, NextStarts
  <2>2. Coded(h_samples', ring, [i \in 0 .. MEMLEN |-> A[i] + more(ce)], F)
    BY <1>2, CodedLonger
  <2> QED BY <1>1, <1>6, <1>9, <2>1, <2>2
<1> QED BY <1>7, <1>8, <1>9

(* A clock moves the trigger's sample on by one stage, or leaves it.        *)
LEMMA TriggerStep ==
    ASSUME ScopCInv, InputInv, CountdownInv,
           NEW req, NEW ce \in BOOLEAN, NEW trig, NEW sample,
           Ticks(req, ce, trig, sample), ~reset, ~reset',
           NEW F \in 0 .. MEMLEN, NEW A, Coded(h_samples, ring, A, F),
           A[MEMLEN] = memEnd, FillInv(F),
           dr_triggered, TriggerPlace(A, F),
           NEW G, G = NextFirst(F), NEW B, B = NextStarts(A, ce)
    PROVE  TriggerPlace(B, G)'
<1> DEFINE d == more(ce)
<1>1. ring' = IF record_ce THEN Pushed(ring, r_data) ELSE ring
  BY RingStep DEF ScopCInv, Ticks, Tick
<1>2. MEMLEN \in Nat /\ MEMLEN >= 2 /\ A \in [0 .. MEMLEN -> Nat] /\ F \in Nat /\ F <= MEMLEN
  BY CaptureAssumption DEF Coded
<1>3. age' = age + d /\ h_trigger' = h_trigger /\ age \in Nat /\ age >= 1
      /\ (dr_stopped => age >= 2)
  BY CountdownStep
<1>4. d \in Nat /\ (~ce => d = 0)
  BY DEF more
<1>5. /\ lstStart \in Nat
      /\ ce => lstStart' = immStart + d
      /\ memEnd' = lstStart + d
      /\ ce /\ writing /\ ~dr_stop_pipe[1] => immStart' = 1 + d
      /\ ~ce => immStart' = immStart /\ lstStart' = lstStart
  BY EndsType, EndsStep
<1>6. G = IF record_ce THEN Less(F) ELSE F
  BY DEF NextFirst, FillInv
<1>7. \A i \in 0 .. MEMLEN :
          B[i] = (IF record_ce THEN Moved(A, lstStart) ELSE A)[i] + d
  BY DEF NextStarts
<1>8. record_ce =>
        /\ \A i \in 0 .. MEMLEN - 1 : B[i] = A[i + 1] + d
        /\ ring'[MEMLEN - 1] = r_data
        /\ \A i \in 0 .. MEMLEN - 2 : ring'[i] = ring[i + 1]
  <2>1. \A i \in 0 .. MEMLEN - 1 : i \in 0 .. MEMLEN /\ Moved(A, lstStart)[i] = A[i + 1]
    BY <1>2 DEF Moved
  <2>2. MEMLEN - 1 \in Address /\ \A i \in 0 .. MEMLEN - 2 : i \in Address /\ i # MEMLEN - 1
    BY <1>2 DEF Address
  <2> QED BY <1>1, <1>7, <2>1, <2>2 DEF Pushed
<1>9. ~record_ce => ring' = ring /\ \A i \in 0 .. MEMLEN : B[i] = A[i] + d
  BY <1>1, <1>7
<1>10. ASSUME NEW w, IsTrigger(w) PROVE ~w.adr /\ w.val = h_trigger'
  BY <1>3, <1>10 DEF IsTrigger
<1>11. TriggerPlace(B, G)' <=>
         \/ age' = 1 /\ dr_force_write' /\ data_pipe' = h_trigger'
         \/ age' = immStart' /\ ~imm'.adr /\ imm'.val = h_trigger'
         \/ age' = lstStart' /\ ~lst'.adr /\ lst'.val = h_trigger'
         \/ age' = memEnd' /\ record_ce' /\ ~r_data'.adr /\ r_data'.val = h_trigger'
         \/ \E i \in G .. MEMLEN - 1 : B[i] = age' /\ ~ring'[i].adr /\ ring'[i].val = h_trigger'
         \/ G = 0 /\ B[0] < age'
  BY DEF TriggerPlace, IsTrigger
<1> HIDE DEF d
<1>12. CASE age = 1 /\ dr_force_write /\ data_pipe = h_trigger
  <2>1. CASE ce
    <3>1. ~dr_stop_pipe[1] /\ writing
      BY <1>3, <1>12, PipeOrder DEF writing
    <3>2. imm' = Value(data_pipe)
      BY <2>1, <3>1, CoderEnabled
    <3> QED BY <1>3, <1>5, <1>11, <1>12, <2>1, <3>1, <3>2 DEF Value
  <2>2. CASE ~ce
    <3>1. dr_force_write' = dr_force_write /\ data_pipe' = data_pipe
      BY <2>2, CoderPaused
    <3> QED BY <1>3, <1>4, <1>11, <1>12, <2>2, <3>1
  <2> QED BY <2>1, <2>2
<1>13. CASE age = immStart /\ IsTrigger(imm)
  <2>1. CASE ce
    <3>1. lst' = imm
      BY <2>1, CoderEnabled
    <3> QED BY <1>3, <1>5, <1>10, <1>11, <1>13, <2>1, <3>1
  <2>2. CASE ~ce
    <3>1. imm' = imm
      BY <2>2, CoderPaused
    <3> QED BY <1>3, <1>4, <1>5, <1>10, <1>11, <1>13, <2>2, <3>1
  <2> QED BY <2>1, <2>2
<1>14. CASE age = lstStart /\ IsTrigger(lst)
  <2>1. CASE ce
    <3>1. ~dr_stop_pipe[3]
      BY <1>3, <1>14 DEF lstStart
    <3>2. recordable
      BY <1>14 DEF recordable, IsTrigger
    <3>3. record_ce' /\ r_data' = lst
      BY <2>1, <3>1, <3>2, CoderEnabled
    <3> QED BY <1>3, <1>5, <1>10, <1>11, <1>14, <3>3
  <2>2. CASE ~ce
    <3>1. lst' = lst
      BY <2>2, CoderPaused
    <3> QED BY <1>3, <1>4, <1>5, <1>10, <1>11, <1>14, <2>2, <3>1
  <2> QED BY <2>1, <2>2
<1>15. CASE age = memEnd /\ record_ce /\ IsTrigger(r_data)
  <2>1. MEMLEN - 1 \in 0 .. MEMLEN - 1 /\ (MEMLEN - 1) + 1 = MEMLEN
    BY <1>2
  <2>2. B[MEMLEN - 1] = age' /\ ring'[MEMLEN - 1] = r_data
    BY <1>3, <1>8, <1>15, <2>1
  <2>3. MEMLEN - 1 \in G .. MEMLEN - 1
    BY <1>2, <1>6, <1>15 DEF Less
  <2> QED BY <1>10, <1>11, <1>15, <2>2, <2>3
<1>16. CASE \E i \in F .. MEMLEN - 1 : A[i] = age /\ IsTrigger(ring[i])
  <2>1. PICK i \in F .. MEMLEN - 1 : A[i] = age /\ IsTrigger(ring[i])
    BY <1>16
  <2>2. i \in Nat /\ i <= MEMLEN - 1 /\ i >= F /\ i \in 0 .. MEMLEN
    BY <1>2
  <2>3. CASE ~record_ce
    <3>1. B[i] = age' /\ ring'[i] = ring[i] /\ i \in G .. MEMLEN - 1
      BY <1>3, <1>6, <1>9, <2>1, <2>2, <2>3
    <3> QED BY <1>10, <1>11, <2>1, <3>1
  <2>4. CASE record_ce /\ i > 0
    <3>1. i - 1 \in 0 .. MEMLEN - 2 /\ i - 1 \in 0 .. MEMLEN - 1 /\ (i - 1) + 1 = i
      BY <1>2, <2>2, <2>4
    <3>2. B[i - 1] = age' /\ ring'[i - 1] = ring[i]
      BY <1>3, <1>8, <2>1, <2>4, <3>1
    <3>3. i - 1 \in G .. MEMLEN - 1
      BY <1>2, <1>6, <2>2, <2>4 DEF Less
    <3> QED BY <1>10, <1>11, <2>1, <3>2, <3>3
  <2>5. CASE record_ce /\ i = 0
    <3>1. F = 0 /\ G = 0 /\ 0 \in 0 .. MEMLEN - 1 /\ 0 + 1 = 1
      BY <1>2, <1>6, <2>2, <2>5 DEF Less
    <3>2. B[0] = A[1] + d
      BY <1>8, <2>5, <3>1
    <3>3. A[0] = A[1] + width(ring[0]) /\ ring[0] \in MemWord
      BY <3>1 DEF Coded
    <3>4. width(ring[0]) \in Nat /\ width(ring[0]) >= 1
      BY <3>3, WidthType
    <3>5. A[1] \in Nat /\ A[0] = age
      BY <1>2, <2>1, <2>5
    <3>6. B[0] < age'
      BY <1>3, <1>4, <3>2, <3>3, <3>4, <3>5
    <3> QED BY <1>11, <3>1, <3>6
  <2> QED BY <2>2, <2>3, <2>4, <2>5
<1>17. CASE F = 0 /\ A[0] < age
  <2>1. G = 0
    BY <1>6, <1>17 DEF Less
  <2>2. A[0] \in Nat /\ A[1] \in Nat /\ 0 \in 0 .. MEMLEN /\ 0 \in 0 .. MEMLEN - 1 /\ 0 + 1 = 1
    BY <1>2
  <2>3. A[0] = A[1] + width(ring[0]) /\ ring[0] \in MemWord
    BY <1>17, <2>2 DEF Coded
  <2>4. width(ring[0]) \in Nat
    BY <2>3, WidthType
  <2>5. B[0] = A[1] + d \/ B[0] = A[0] + d
    BY <1>8, <1>9, <2>2
  <2>6. B[0] < age'
    BY <1>3, <1>4, <1>17, <2>2, <2>3, <2>4, <2>5
  <2> QED BY <1>11, <2>1, <2>6
<1> QED BY <1>12, <1>13, <1>14, <1>15, <1>16, <1>17 DEF TriggerPlace

(* All that is known of the capture, where the words of the ring start as A  *)
(* has it and those before the F-th are of another capture.                *)
Traced(A, F) ==
    /\ Coded(h_samples, ring, A, F) /\ A[MEMLEN] = memEnd
    /\ AdjInv(F) /\ FillInv(F)
    /\ dr_triggered => TriggerPlace(A, F)

TraceInv ==
    ~reset => /\ InputInv /\ CoderInv /\ CountdownInv
              /\ \E A, F : Traced(A, F)

(* A clock within a capture.                                                *)
LEMMA TracedStep ==
    ASSUME MAXHISTORY >= 2, ScopCInv, RunsInv, InputInv, CoderInv, CountdownInv,
           NEW A, NEW F, Traced(A, F),
           NEW req, NEW ce \in BOOLEAN, NEW trig, NEW sample,
           Ticks(req, ce, trig, sample), ~reset, ~reset'
    PROVE  TraceInv'
<1> DEFINE G == NextFirst(F)
           B == NextStarts(A, ce)
<1>1. F \in 0 .. MEMLEN /\ Coded(h_samples, ring, A, F) /\ A[MEMLEN] = memEnd
      /\ AdjInv(F) /\ FillInv(F)
  BY DEF Traced, Coded
<1>2. InputInv' /\ CoderInv' /\ CountdownInv'
  BY InputStep, CoderStep, CountdownStep DEF RunsInv
<1>3. PICK g : g = NextFirst(F)
  OBVIOUS
<1>4. PICK b : b = NextStarts(A, ce)
  OBVIOUS
<1>5. Coded(h_samples', ring', b, g) /\ b[MEMLEN] = memEnd'
  BY <1>1, <1>3, <1>4, CodedStep
<1>6. AdjInv(g)'
  BY <1>1, <1>3, AdjStep
<1>7. FillInv(g)'
  <2>1. CASE dr_primed
    BY <1>1, <1>3, <2>1, PrimedStep
  <2>2. CASE ~dr_primed
    BY <1>1, <1>3, <2>2, UnprimedStep
  <2> QED BY <2>1, <2>2
<1>8. ASSUME dr_triggered' PROVE TriggerPlace(b, g)'
  <2>1. CASE dr_triggered
    <3>1. TriggerPlace(A, F)
      BY <2>1 DEF Traced
    <3> QED BY <1>1, <1>3, <1>4, <2>1, <3>1, TriggerStep
  <2>2. CASE ~dr_triggered
    <3>1. age' = 1 /\ dr_force_write' /\ data_pipe' = sample /\ h_trigger' = sample
      BY <1>8, <2>2, CountdownStep
    <3> QED BY <3>1 DEF TriggerPlace
  <2> QED BY <2>1, <2>2
<1>9. Traced(b, g)'
  BY <1>5, <1>6, <1>7, <1>8 DEF Traced
<1>10. (\E a, f : Traced(a, f))'
  BY <1>9
<1> QED BY <1>2, <1>10 DEF TraceInv

(* A reset leaves a history of one sample, and no word of it.               *)
LEMMA TracedReset ==
    ASSUME MAXHISTORY >= 2, ScopCInv, NEW req, NEW ce \in BOOLEAN, NEW trig, NEW sample,
           Ticks(req, ce, trig, sample), reset
    PROVE  TraceInv'
<1>1. /\ TriggerFlag(reset, br_config.manual, br_config.disable, ce, trig)
      /\ CountHoldoff(reset, ce) /\ StopAfterHoldoff(ce)
      /\ CountRun(ce) /\ NewData(ce, sample)
      /\ Compress(ce) /\ WriteMem /\ RememberSample(ce, sample) /\ sample \in Word
  BY DEF Ticks, Tick
<1>2. /\ ~dr_triggered' /\ ~dr_stopped' /\ counter' = 0 /\ new_data'
      /\ imm' = RunOf(0) /\ lst' = RunOf(0) /\ waddr' = 0 /\ ~dr_primed'
      /\ h_samples' = <<data_pipe'>> /\ ck_addr' = 0
  BY <1>1, reset DEF TriggerFlag, CountHoldoff, StopAfterHoldoff, CountRun, NewData,
     Compress, WriteMem, RememberSample
<1>3. TypeOK'
  BY ScopCTypes DEF ScopCInv
<1>4. ~dr_stop_pipe'[1] /\ ~dr_stop_pipe'[2] /\ ~dr_stop_pipe'[3]
  <2>1. \A i \in 1 .. DLYSTOP : ~dr_stop_pipe'[i]
    BY reset, PipeStep DEF ScopCInv
  <2> QED BY <2>1 DEF DLYSTOP
<1>5. h_samples' \in Seq(Word) /\ Len(h_samples') = 1 /\ Ago(h_samples', 1) = data_pipe'
  <2>1. data_pipe' \in Word
    BY <1>3 DEF TypeOK
  <2> QED BY <1>2, <2>1 DEF Ago
<1>6. imm'.adr /\ lst'.adr /\ ~recordable' /\ writing' /\ width(imm') = 1
  BY <1>2 DEF RunOf, recordable, writing, width, adr
<1>7. immEnd' = 1 /\ immStart' = 2 /\ lstStart' = 2
  <2>1. immEnd' = 1
    BY <1>4 DEF immEnd
  <2>2. immStart' = 2
    BY <1>4, <1>6, <2>1 DEF immStart
  <2> QED BY <1>4, <1>6, <2>1, <2>2 DEF lstStart
<1>8. memEnd' \in Nat /\ (record_ce' => memEnd' >= 3)
  <2>1. width(r_data') \in Nat /\ width(r_data') >= 1
    BY <1>3, WidthType DEF TypeOK
  <2> QED BY <1>7, <2>1 DEF memEnd
<1>9. InputInv'
  BY <1>2, <1>5, <1>6, StepAssumption DEF InputInv
<1>10. record_ce' => ~Held(h_samples', memEnd')
  BY <1>5, <1>8, StepAssumption DEF Held
<1>11. CoderInv'
  <2>1. Right(h_samples', imm', immEnd', immStart')
    BY <1>5, <1>6, <1>7 DEF Right
  <2>2. record_ce' => Right(h_samples', r_data', lstStart', memEnd')
    BY <1>5, <1>8 DEF Right
  <2> QED BY <1>4, <1>6, <2>1, <2>2 DEF CoderInv
<1>12. CountdownInv'
  BY <1>2 DEF CountdownInv
<1>13. MEMLEN \in Nat /\ MEMLEN >= 2
  BY CaptureAssumption
<1>14. PICK A : A = [i \in 0 .. MEMLEN |-> memEnd']
  OBVIOUS
<1>15. Coded(h_samples', ring', A, MEMLEN) /\ A[MEMLEN] = memEnd'
  BY <1>8, <1>13, <1>14 DEF Coded
<1>16. AdjInv(MEMLEN)'
  BY <1>10, <1>13 DEF AdjInv
<1>17. FillInv(MEMLEN)'
  <2>1. One(record_ce') \in {0, 1}
    BY DEF One
  <2>2. Empty(MEMLEN)'
    BY <1>2, <1>5, <1>6, <2>1 DEF Empty
  <2> QED BY <1>2, <1>4, <2>2 DEF FillInv
<1>18. Traced(A, MEMLEN)'
  BY <1>2, <1>15, <1>16, <1>17 DEF Traced
<1>19. (\E a, f : Traced(a, f))'
  BY <1>18
<1> QED BY <1>9, <1>11, <1>12, <1>19 DEF TraceInv

(* Any step: within a capture, out of its reset, into one or none.          *)
LEMMA TraceStep ==
    ASSUME MAXHISTORY >= 2, ScopCInv, RunsInv, TraceInv, [Next]_vars
    PROVE  TraceInv'
<1>1. CASE Next
  <2>1. TypeOK
    BY DEF ScopCInv
  <2>2. PICK req, ce, trig, sample : Ticks(req, ce, trig, sample)
    BY <1>1, <2>1, NextTicks
  <2>3. ce \in BOOLEAN
    BY <2>2 DEF Ticks
  <2>4. CASE reset
    BY <2>2, <2>3, <2>4, TracedReset
  <2>5. CASE ~reset /\ ~reset'
    <3>1. PICK A, F : Traced(A, F)
      BY <2>5 DEF TraceInv
    <3>2. InputInv /\ CoderInv /\ CountdownInv
      BY <2>5 DEF TraceInv
    <3> QED BY <2>2, <2>3, <2>5, <3>1, <3>2, TracedStep
  <2>6. CASE reset'
    BY <2>6 DEF TraceInv
  <2> QED BY <2>4, <2>5, <2>6
<1>2. CASE UNCHANGED vars
  <2>1. /\ h_samples' = h_samples /\ imm' = imm /\ lst' = lst /\ r_data' = r_data
        /\ record_ce' = record_ce /\ dr_stop_pipe' = dr_stop_pipe /\ mem' = mem
        /\ waddr' = waddr /\ dr_primed' = dr_primed /\ dr_triggered' = dr_triggered
        /\ dr_stopped' = dr_stopped /\ counter' = counter /\ br_holdoff' = br_holdoff
        /\ br_config' = br_config /\ h_trigger' = h_trigger /\ data_pipe' = data_pipe
        /\ new_data' = new_data /\ dr_force_write' = dr_force_write /\ ck_addr' = ck_addr
        /\ h_since' = h_since
    BY <1>2 DEF vars, captureVars, historyVars, busVars, rleVars
  <2>2. reset' = reset /\ writing' = writing /\ recordable' = recordable /\ ring' = ring
    BY <2>1 DEF reset, bw_reset_request, writing, recordable, ring, RingAt
  <2>3. immEnd' = immEnd /\ immStart' = immStart /\ lstStart' = lstStart /\ memEnd' = memEnd
        /\ age' = age
    <3>1. immEnd' = immEnd /\ age' = age
      BY <2>1 DEF immEnd, age
    <3>2. immStart' = immStart
      BY <2>1, <3>1 DEF immStart, width, adr
    <3>3. lstStart' = lstStart
      BY <2>1, <2>2, <3>2 DEF lstStart, width, adr
    <3> QED BY <2>1, <3>1, <3>2, <3>3 DEF memEnd, width, adr
  <2>4. (InputInv' <=> InputInv) /\ (CoderInv' <=> CoderInv) /\ (CountdownInv' <=> CountdownInv)
    BY <2>1, <2>2, <2>3 DEF InputInv, CoderInv, CountdownInv
  <2>5. ASSUME NEW A, NEW F, Traced(A, F) PROVE Traced(A, F)'
    <3>1. AdjInv(F)'
      BY <2>1, <2>2, <2>3, <2>5 DEF Traced, AdjInv
    <3>2. FillInv(F)'
      BY <2>1, <2>2, <2>3, <2>5 DEF Traced, FillInv, Empty, First, Filling, One
    <3>3. dr_triggered' => TriggerPlace(A, F)'
      BY <2>1, <2>2, <2>3, <2>5 DEF Traced, TriggerPlace, IsTrigger
    <3> QED BY <2>1, <2>2, <2>3, <2>5, <3>1, <3>2, <3>3 DEF Traced
  <2> QED BY <2>2, <2>4, <2>5 DEF TraceInv
<1> QED BY <1>1, <1>2

DecodeInv == ScopCInv /\ RunsInv /\ TraceInv

(* A history that reaches back over the memory has two samples at least.    *)
LEMMA HistoryTwo == MAXHISTORY >= 2
<1> DEFINE q == (MEMLEN - 1) \div 2
           p == (MEMLEN - 1) % 2
<1>1. MEMLEN - 1 \in Nat /\ MEMLEN - 1 >= 1 /\ MAX_STEP + 2 \in Nat /\ MAX_STEP + 2 >= 1
      /\ MAXHISTORY \in Nat
  BY CaptureAssumption, StepAssumption
<1>2. q \in Nat /\ p \in Nat /\ MEMLEN - 1 = 2 * q + p /\ p <= 1
  BY <1>1
<1>3. MAXHISTORY >= 1 + q * (MAX_STEP + 2) + p
  BY HistoryAssumption DEF MostClocks
<1> HIDE DEF q, p
<1>4. q * (MAX_STEP + 2) \in Nat /\ (q >= 1 => q * (MAX_STEP + 2) >= 1)
  BY <1>1, <1>2
<1> QED BY <1>1, <1>2, <1>3, <1>4

(* The inductive invariant of the three theorems at the end.                *)
LEMMA TraceAlways == Spec => []DecodeInv
<1>1. Init => RunsInv
  BY RunsInitial
<1>2. Init => reset
  BY DEF Init, BusInit, reset, bw_reset_request
<1>3. Init => DecodeInv
  BY <1>1, <1>2, ScopCInitial DEF DecodeInv, TraceInv
<1>4. DecodeInv /\ [Next]_vars => DecodeInv'
  <2> SUFFICES ASSUME DecodeInv, [Next]_vars PROVE DecodeInv'
    OBVIOUS
  <2>1. ScopCInv'
    BY ScopCStep DEF DecodeInv
  <2>2. RunsInv'
    BY RunsKept DEF DecodeInv, ScopCInv
  <2>3. TraceInv'
    BY HistoryTwo, TraceStep DEF DecodeInv
  <2> QED BY <2>1, <2>2, <2>3 DEF DecodeInv
<1> QED BY <1>3, <1>4, PTL DEF Spec

(* The memory of a stopped scope, word by word: A gives how long before the  *)
(* stop a word ends, and the one before it where it starts.                *)
Complete(h, data, A) ==
    /\ data \in [1 .. MEMLEN -> MemWord] /\ A \in [0 .. MEMLEN -> Nat] /\ A[MEMLEN] = 0
    /\ \A i \in 1 .. MEMLEN :
          /\ A[i - 1] = A[i] + width(data[i])
          /\ Held(h, A[i - 1]) /\ Right(h, data[i], A[i], A[i - 1])
          /\ Bounded(data[i])
    /\ \A i \in 1 .. MEMLEN - 1 : data[i].adr => ~data[i + 1].adr
    /\ ~data[MEMLEN].adr

(* When the scope stops, all of the memory is of this capture, ends at the  *)
(* last sample, and has the trigger's where the holdoff says.               *)
LEMMA AtStop ==
    ASSUME DecodeInv, stopped
    PROVE  /\ dr_primed
           /\ \E A : /\ Complete(h_samples, m_data, A)
                     /\ \/ \E i \in 1 .. MEMLEN :
                              A[i - 1] = br_holdoff + 2 /\ IsTrigger(m_data[i])
                        \/ A[0] < br_holdoff + 2
           /\ h_since = br_holdoff + 1
<1>1. ScopCInv /\ RunsInv /\ TraceInv /\ TypeOK
  BY DEF DecodeInv, ScopCInv
<1>2. PICK A, F : Traced(A, F)
  BY <1>1 DEF stopped, TraceInv
<1>3. dr_stop_pipe[1] /\ dr_stop_pipe[2] /\ dr_stop_pipe[3] /\ ~record_ce /\ dr_stopped /\ dr_triggered
  <2>1. /\ 1 \in 1 .. DLYSTOP - 1 /\ 2 \in 1 .. DLYSTOP - 1 /\ 3 \in 1 .. DLYSTOP - 1
        /\ 4 \in 1 .. DLYSTOP - 1
        /\ 1 + 1 = 2 /\ 2 + 1 = 3 /\ 3 + 1 = 4 /\ 4 + 1 = DLYSTOP
    BY DEF DLYSTOP
  <2>2. dr_stop_pipe[4]
    BY <1>1, <2>1 DEF stopped, dw_final_stop, ScopCInv, PipeInv
  <2>3. dr_stop_pipe[3]
    BY <1>1, <2>1, <2>2 DEF ScopCInv, PipeInv
  <2> QED BY <1>1, <2>1, <2>2, <2>3, PipeOrder DEF ScopCInv, PipeInv, LastInv
<1>4. MEMLEN \in Nat /\ MEMLEN >= 2
  BY CaptureAssumption
<1>5. Coded(h_samples, ring, A, F) /\ A[MEMLEN] = memEnd /\ F = 0 /\ dr_primed
      /\ TriggerPlace(A, F)
  BY <1>2, <1>3 DEF Traced, FillInv
<1>6. immStart = 0 /\ lstStart = 0 /\ memEnd = 0 /\ age = br_holdoff + 2 /\ br_holdoff \in Nat
  BY <1>1, <1>3 DEF immStart, lstStart, memEnd, age, TypeOK, Holdoff
<1>7. m_data = [i \in 1 .. MEMLEN |-> ring[i - 1]]
  <2>1. \A i \in 1 .. MEMLEN : i - 1 \in Address
    BY <1>4 DEF Address
  <2> QED BY <2>1 DEF m_data, ring
<1>8. ASSUME NEW i \in 1 .. MEMLEN
      PROVE  /\ m_data[i] = ring[i - 1] /\ m_data[i] \in MemWord
             /\ A[i - 1] = A[i] + width(m_data[i])
             /\ Held(h_samples, A[i - 1]) /\ Right(h_samples, m_data[i], A[i], A[i - 1])
             /\ Bounded(m_data[i])
  <2>1. i - 1 \in F .. MEMLEN - 1 /\ (i - 1) + 1 = i /\ i - 1 \in Address
    BY <1>4, <1>5 DEF Address
  <2>2. m_data[i] = ring[i - 1]
    BY <1>7
  <2>3. /\ ring[i - 1] \in MemWord /\ Bounded(ring[i - 1])
        /\ A[i - 1] = A[i] + width(ring[i - 1])
        /\ Held(h_samples, A[i - 1]) /\ Right(h_samples, ring[i - 1], A[i], A[i - 1])
    BY <1>5, <2>1 DEF Coded
  <2> QED BY <2>2, <2>3
<1>9. ~m_data[MEMLEN].adr
  BY <1>1, EndsWithValueKnown DEF EndsWithValue
<1>10. ASSUME NEW i \in 1 .. MEMLEN - 1, m_data[i].adr PROVE ~m_data[i + 1].adr
  <2>1. i - 1 \in F .. MEMLEN - 2 /\ i \in 1 .. MEMLEN /\ i + 1 \in 1 .. MEMLEN
        /\ (i - 1) + 1 = i /\ (i + 1) - 1 = i
    BY <1>4, <1>5
  <2>2. m_data[i] = ring[i - 1] /\ m_data[i + 1] = ring[i]
    BY <1>8, <2>1
  <2> QED BY <1>5, <1>10, <2>1, <2>2 DEF Coded
<1>11. Complete(h_samples, m_data, A)
  <2>1. m_data \in [1 .. MEMLEN -> MemWord]
    BY <1>7, <1>8
  <2> QED BY <1>5, <1>6, <1>8, <1>9, <1>10, <2>1 DEF Complete, Coded
<1>12. \/ \E i \in 1 .. MEMLEN : A[i - 1] = br_holdoff + 2 /\ IsTrigger(m_data[i])
       \/ A[0] < br_holdoff + 2
  <2>1. \/ \E k \in F .. MEMLEN - 1 : A[k] = age /\ IsTrigger(ring[k])
        \/ A[0] < age
    BY <1>3, <1>5, <1>6 DEF TriggerPlace
  <2>2. ASSUME NEW k \in F .. MEMLEN - 1, A[k] = age, IsTrigger(ring[k])
        PROVE  \E i \in 1 .. MEMLEN : A[i - 1] = br_holdoff + 2 /\ IsTrigger(m_data[i])
    <3>1. k + 1 \in 1 .. MEMLEN /\ (k + 1) - 1 = k
      BY <1>4, <1>5
    <3>2. m_data[k + 1] = ring[k]
      BY <1>8, <3>1
    <3> QED BY <1>6, <2>2, <3>1, <3>2
  <2> QED BY <1>6, <2>1, <2>2
<1>13. h_since = br_holdoff + 1
  <2>1. h_since \in Nat /\ age = h_since + 1
    BY <1>1, <1>3 DEF stopped, TraceInv, CountdownInv
  <2> QED BY <1>6, <2>1
<1> QED BY <1>5, <1>11, <1>12, <1>13

-----------------------------------------------------------------------------
(*****************************************************************************)
(* What the decoder of ScopeTrace makes of such a memory.                   *)
(*****************************************************************************)

(* The longest a memory without two runs in a row, which ends in a value,    *)
(* can be: k words of it.                                                  *)
Longest(k) == (k \div 2) * (MAX_STEP + 2) + (k % 2)

(* A word more, and two.                                                    *)
LEMMA LongestStep ==
    /\ Longest(0) = 0 /\ Longest(1) = 1
    /\ \A k \in Nat : /\ Longest(k) \in Nat
                      /\ Longest(k + 1) >= Longest(k) + 1
                      /\ Longest(k + 2) = Longest(k) + MAX_STEP + 2
<1>1. MAX_STEP \in Nat /\ MAX_STEP >= 1
  BY StepAssumption
<1>2. Longest(0) = 0 /\ Longest(1) = 1
  BY <1>1 DEF Longest
<1>3. ASSUME NEW k \in Nat
      PROVE  /\ Longest(k) \in Nat
             /\ Longest(k + 1) >= Longest(k) + 1
             /\ Longest(k + 2) = Longest(k) + MAX_STEP + 2
  <2> DEFINE q == k \div 2
             C == MAX_STEP + 2
  <2>1. q \in Nat /\ C \in Nat /\ C >= 3
    BY <1>1
  <2>2. (k + 2) \div 2 = q + 1 /\ (k + 2) % 2 = k % 2 /\ k % 2 \in {0, 1}
    OBVIOUS
  <2>3. IF k % 2 = 0 THEN (k + 1) \div 2 = q /\ (k + 1) % 2 = 1
                     ELSE (k + 1) \div 2 = q + 1 /\ (k + 1) % 2 = 0
    OBVIOUS
  <2>4. /\ Longest(k) = q * C + (k % 2)
        /\ Longest(k + 2) = (q + 1) * C + (k % 2)
        /\ Longest(k + 1) = IF k % 2 = 0 THEN q * C + 1 ELSE (q + 1) * C
    BY <2>1, <2>2, <2>3 DEF Longest
  <2> HIDE DEF q, C
  <2>5. (q + 1) * C = q * C + C /\ q * C \in Nat
    BY <2>1
  <2>6. C = MAX_STEP + 2
    BY DEF C
  <2> QED BY <1>1, <2>1, <2>2, <2>4, <2>5, <2>6
<1> QED BY <1>2, <1>3

(* What the host reads back is a sequence of MEMLEN words.                  *)
LEMMA MemoryIsSeq ==
    ASSUME NEW data \in [1 .. MEMLEN -> MemWord]
    PROVE  data \in Seq(MemWord) /\ Len(data) = MEMLEN /\ DOMAIN data = 1 .. MEMLEN
<1>1. MEMLEN \in Nat
  BY CaptureAssumption
<1>2. DOMAIN data = 1 .. MEMLEN
  OBVIOUS
<1>3. data \in Seq(MemWord)
  BY <1>1
<1>4. Len(data) \in Nat /\ DOMAIN data = 1 .. Len(data)
  BY <1>3, LenProperties
<1>5. Len(data) = MEMLEN
  BY <1>1, <1>2, <1>4
<1> QED BY <1>2, <1>3, <1>5

(* The clock of every word, as its distance from the end of the capture.    *)
LEMMA ClockOfWord ==
    ASSUME NEW h, NEW data, NEW A, Complete(h, data, A), NEW start \in Nat
    PROVE  /\ addrv(data, start)[1] = 0
           /\ \A i \in 2 .. MEMLEN + 1 :
                 addrv(data, start)[i] =
                    (IF data[1].adr THEN start ELSE 1) + A[1] - A[i - 1]
<1> DEFINE first == IF data[1].adr THEN start ELSE 1
           step(f, i) == IF i = 1 THEN 0
                         ELSE f[i - 1] + IF i = 2 /\ adr(data[1]) THEN start
                                         ELSE width(data[i - 1])
           goal == [i \in 1 .. MEMLEN + 1 |-> IF i = 1 THEN 0 ELSE first + A[1] - A[i - 1]]
           at == CHOOSE f : f = [i \in 1 .. MEMLEN + 1 |-> step(f, i)]
<1>0. /\ MEMLEN \in Nat /\ MEMLEN >= 2
      /\ data \in [1 .. MEMLEN -> MemWord] /\ A \in [0 .. MEMLEN -> Nat]
      /\ \A i \in 1 .. MEMLEN : A[i - 1] = A[i] + width(data[i])
  BY CaptureAssumption DEF Complete
<1>1. Len(data) = MEMLEN
  BY <1>0, MemoryIsSeq
<1>2. addrv(data, start) = at
  BY <1>1 DEF addrv
<1>3. /\ first \in Nat /\ (~data[1].adr => first = width(data[1]))
      /\ 1 \in 1 .. MEMLEN /\ data[1] \in MemWord
  BY <1>0, WidthType
<1> HIDE DEF first
<1>4. ASSUME NEW i \in 1 .. MEMLEN + 1 PROVE goal[i] = step(goal, i)
  <2>1. CASE i = 1
    BY <2>1
  <2>2. CASE i = 2
    <3>1. 1 \in 1 .. MEMLEN + 1 /\ 2 - 1 = 1 /\ A[1] \in Nat
      BY <1>0, <2>2
    <3>2. goal[i] = first + A[1] - A[1] /\ goal[1] = 0
      BY <2>2, <3>1
    <3>3. goal[i] = first
      BY <1>3, <3>1, <3>2
    <3>4. step(goal, i) = 0 + IF adr(data[1]) THEN start ELSE width(data[1])
      BY <2>2, <3>1, <3>2
    <3> QED BY <1>3, <3>3, <3>4, WidthType DEF adr, first
  <2>3. CASE i > 2
    <3>1. i - 1 \in 1 .. MEMLEN + 1 /\ i - 1 # 1 /\ i - 1 \in 1 .. MEMLEN
          /\ i - 2 \in 0 .. MEMLEN /\ i - 1 \in 0 .. MEMLEN /\ (i - 1) - 1 = i - 2
      BY <1>0, <2>3
    <3>2. A[i - 2] = A[i - 1] + width(data[i - 1])
      <4>1. A[(i - 1) - 1] = A[i - 1] + width(data[i - 1])
        BY <1>0, <3>1
      <4> QED BY <3>1, <4>1
    <3>3. A[i - 2] \in Nat /\ A[i - 1] \in Nat /\ A[1] \in Nat
      BY <1>0, <3>1
    <3>4. goal[i] = first + A[1] - A[i - 1] /\ goal[i - 1] = first + A[1] - A[i - 2]
      BY <2>3, <3>1
    <3>5. step(goal, i) = goal[i - 1] + width(data[i - 1])
      BY <2>3
    <3>6. width(data[i - 1]) \in Nat
      BY <1>0, <3>1, WidthType
    <3> QED BY <1>3, <3>2, <3>3, <3>4, <3>5, <3>6
  <2> QED BY <2>1, <2>2, <2>3
<1>5. goal = [i \in 1 .. MEMLEN + 1 |-> step(goal, i)]
  BY <1>4
<1>6. at = [i \in 1 .. MEMLEN + 1 |-> step(at, i)]
  <2> HIDE DEF goal, step
  <2> QED BY <1>5
<1> HIDE DEF at
<1>7. ASSUME NEW i \in 1 .. MEMLEN + 1, at[i] # goal[i] PROVE FALSE
  <2> DEFINE Wrong == {k \in 1 .. MEMLEN + 1 : at[k] # goal[k]}
  <2>1. Wrong \in SUBSET Nat /\ Wrong # {}
    <3> HIDE DEF goal
    <3>1. i \in Wrong
      BY <1>7
    <3>2. Wrong \subseteq 1 .. MEMLEN + 1 /\ 1 .. MEMLEN + 1 \subseteq Nat
      BY <1>0
    <3> HIDE DEF Wrong
    <3> QED BY <3>1, <3>2
  <2>2. PICK m \in Wrong : \A k \in Wrong : m <= k
    <3> HIDE DEF Wrong
    <3> QED BY <2>1, Least
  <2>3. m \in 1 .. MEMLEN + 1 /\ at[m] # goal[m]
    OBVIOUS
  <2>4. CASE m = 1
    BY <1>4, <1>6, <2>3, <2>4
  <2>5. CASE m # 1
    <3>1. m - 1 \in 1 .. MEMLEN + 1 /\ ~(m <= m - 1)
      BY <1>0, <2>3, <2>5
    <3>2. at[m - 1] = goal[m - 1]
      BY <2>2, <3>1
    <3>3. step(at, m) = step(goal, m)
      BY <3>2
    <3>4. at[m] = step(at, m)
      BY <1>6, <2>3
    <3> HIDE DEF step, goal
    <3> QED BY <1>4, <2>3, <3>3, <3>4
  <2> QED BY <2>4, <2>5
<1>8. at = goal
  <2>1. DOMAIN at = 1 .. MEMLEN + 1 /\ at = [i \in 1 .. MEMLEN + 1 |-> at[i]]
    <3> HIDE DEF step
    <3> QED BY <1>6
  <2> HIDE DEF goal
  <2>2. goal = [i \in 1 .. MEMLEN + 1 |-> goal[i]]
    BY DEF goal
  <2> QED BY <1>7, <2>1, <2>2
<1>9. ASSUME NEW i \in 2 .. MEMLEN + 1
      PROVE  goal[i] = first + A[1] - A[i - 1]
  <2>1. i \in 1 .. MEMLEN + 1 /\ i # 1
    BY <1>0
  <2> QED BY <2>1
<1>10. goal[1] = 0
  <2>1. 1 \in 1 .. MEMLEN + 1
    BY <1>0
  <2> QED BY <2>1
<1> HIDE DEF goal
<1> QED BY <1>2, <1>8, <1>9, <1>10 DEF first

(* The whole of it is no longer than that, from any of its words on.        *)
LEMMA SpanBound ==
    ASSUME NEW h, NEW data, NEW A, Complete(h, data, A)
    PROVE  /\ \A k \in 0 .. MEMLEN : A[MEMLEN - k] <= Longest(k)
           /\ \A i \in 1 .. MEMLEN : A[i - 1] >= A[i] + 1
<1>1. MEMLEN \in Nat /\ MEMLEN >= 2 /\ MAX_STEP \in Nat /\ A \in [0 .. MEMLEN -> Nat]
      /\ data \in [1 .. MEMLEN -> MemWord] /\ A[MEMLEN] = 0
  BY CaptureAssumption, StepAssumption DEF Complete
<1>2. ASSUME NEW i \in 1 .. MEMLEN
      PROVE  /\ A[i - 1] \in Nat /\ A[i] \in Nat /\ A[i - 1] >= A[i] + 1
             /\ ~data[i].adr => A[i - 1] = A[i] + 1
             /\ data[i].adr => A[i - 1] <= A[i] + MAX_STEP + 1
  <2>1. i - 1 \in 0 .. MEMLEN /\ i \in 0 .. MEMLEN
    BY <1>1
  <2>2. A[i - 1] \in Nat /\ A[i] \in Nat
    BY <1>1, <2>1
  <2>3. A[i - 1] = A[i] + width(data[i]) /\ Bounded(data[i]) /\ data[i] \in MemWord
    BY <1>1 DEF Complete
  <2>4. /\ width(data[i]) \in Nat /\ width(data[i]) >= 1
        /\ ~data[i].adr => width(data[i]) = 1
        /\ data[i].adr => width(data[i]) <= MAX_STEP + 1
    BY <1>1, <2>3, WidthType DEF Bounded
  <2>5. A[i - 1] = A[i] + width(data[i])
    BY <2>3
  <2>6. A[i - 1] >= A[i] + 1
    BY <2>2, <2>4, <2>5
  <2>7. ~data[i].adr => A[i - 1] = A[i] + 1
    BY <2>4, <2>5
  <2>8. data[i].adr => A[i - 1] <= A[i] + MAX_STEP + 1
    BY <1>1, <2>2, <2>4, <2>5
  <2> QED BY <2>2, <2>6, <2>7, <2>8
<1>3. ASSUME NEW k \in 0 .. MEMLEN, ~(A[MEMLEN - k] <= Longest(k)) PROVE FALSE
  <2> DEFINE Over == {j \in 0 .. MEMLEN : ~(A[MEMLEN - j] <= Longest(j))}
  <2>1. k \in Over /\ Over \in SUBSET Nat
    BY <1>3
  <2>2. PICK m \in Over : \A j \in Over : m <= j
    <3> HIDE DEF Over
    <3> QED BY <2>1, Least
  <2>3. m \in 0 .. MEMLEN /\ ~(A[MEMLEN - m] <= Longest(m))
    OBVIOUS
  <2>4. ASSUME NEW j \in 0 .. MEMLEN, j < m PROVE A[MEMLEN - j] <= Longest(j)
    BY <2>2, <2>3, <2>4
  <2> HIDE DEF Over
  <2>5. CASE m = 0
    <3>1. MEMLEN - m = MEMLEN
      BY <1>1, <2>5
    <3> QED BY <1>1, <2>3, <2>5, <3>1, LongestStep
  <2>6. CASE m >= 1 /\ ~data[MEMLEN - m + 1].adr
    <3>1. MEMLEN - m + 1 \in 1 .. MEMLEN /\ (MEMLEN - m + 1) - 1 = MEMLEN - m
          /\ MEMLEN - (m - 1) = MEMLEN - m + 1 /\ m - 1 \in 0 .. MEMLEN /\ m - 1 < m
          /\ m - 1 \in Nat /\ (m - 1) + 1 = m
      BY <1>1, <2>3, <2>6
    <3>2. A[MEMLEN - m] = A[MEMLEN - m + 1] + 1 /\ A[MEMLEN - m + 1] \in Nat
      BY <1>2, <2>6, <3>1
    <3>3. A[MEMLEN - m + 1] <= Longest(m - 1)
      BY <2>4, <3>1
    <3>4. Longest(m) >= Longest(m - 1) + 1 /\ Longest(m - 1) \in Nat /\ Longest(m) \in Nat
      <4>1. Longest((m - 1) + 1) >= Longest(m - 1) + 1 /\ Longest(m - 1) \in Nat
        BY <3>1, LongestStep
      <4>2. Longest(m) \in Nat
        BY <2>3, LongestStep
      <4> QED BY <3>1, <4>1, <4>2
    <3> QED BY <2>3, <3>2, <3>3, <3>4
  <2>7. CASE m >= 1 /\ data[MEMLEN - m + 1].adr
    <3>1. m >= 2
      <4> SUFFICES ASSUME m = 1 PROVE FALSE
        BY <2>3, <2>7
      <4>1. MEMLEN - m + 1 = MEMLEN
        BY <1>1
      <4> QED BY <2>7, <4>1 DEF Complete
    <3> DEFINE i == MEMLEN - m + 1
    <3>2. /\ i \in 1 .. MEMLEN /\ i + 1 \in 1 .. MEMLEN /\ i \in 1 .. MEMLEN - 1
          /\ i - 1 = MEMLEN - m /\ (i + 1) - 1 = i /\ i + 1 = MEMLEN - (m - 2)
          /\ m - 2 \in 0 .. MEMLEN /\ m - 2 < m /\ m - 2 \in Nat /\ (m - 2) + 2 = m
      BY <1>1, <2>3, <3>1
    <3> HIDE DEF i
    <3>3. data[i].adr
      BY <2>7 DEF i
    <3>4. ~data[i + 1].adr
      BY <3>2, <3>3 DEF Complete
    <3>5. A[i - 1] <= A[i] + MAX_STEP + 1 /\ A[i] \in Nat /\ A[i - 1] \in Nat
      BY <1>2, <3>2, <3>3
    <3>6. A[(i + 1) - 1] = A[i + 1] + 1 /\ A[i + 1] \in Nat
      BY <1>2, <3>2, <3>4
    <3>7. A[MEMLEN - (m - 2)] <= Longest(m - 2)
      BY <2>4, <3>2
    <3>8. Longest((m - 2) + 2) = Longest(m - 2) + MAX_STEP + 2 /\ Longest(m - 2) \in Nat
      BY <3>2, LongestStep
    <3>9. Longest(m) = Longest(m - 2) + MAX_STEP + 2
      BY <3>2, <3>8
    <3>10. A[i] = A[i + 1] + 1 /\ A[i + 1] <= Longest(m - 2)
      BY <3>2, <3>6, <3>7
    <3>11. A[MEMLEN - m] = A[i - 1]
      BY <3>2
    <3>12. A[i - 1] <= Longest(m)
      <4>1. ASSUME NEW p \in Nat, NEW q \in Nat, NEW r \in Nat, NEW l \in Nat, NEW n,
                   p <= q + MAX_STEP + 1, q = r + 1, r <= l, n = l + MAX_STEP + 2
            PROVE  p <= n
        BY <1>1, <4>1
      <4> QED BY <3>5, <3>6, <3>8, <3>9, <3>10, <4>1
    <3> QED BY <2>3, <3>11, <3>12
  <2> QED BY <2>3, <2>5, <2>6, <2>7
<1> QED BY <1>2, <1>3

(* The first value that a decoder shows of it is that of the sample so many  *)
(* clocks before the stop, and the history reaches back to it.              *)
Clocks(data, A) == IF data[1].adr THEN A[1] ELSE A[0]

(* The clock at which the decoder puts each value, and that the history     *)
(* reaches back to the first.                                               *)
LEMMA ClocksBound ==
    ASSUME NEW h, Len(h) \in Nat, NEW data, NEW A, Complete(h, data, A)
    PROVE  /\ Clocks(data, A) \in Nat /\ Clocks(data, A) >= 1 /\ Clocks(data, A) <= Len(h)
           /\ Clocks(data, A) <= A[0]
           /\ addrv(data, 0)[MEMLEN + 1] = Clocks(data, A)
           /\ \A i \in 1 .. MEMLEN : ~data[i].adr => addrv(data, 0)[i] = Clocks(data, A) - A[i - 1]
<1> DEFINE C == Clocks(data, A)
<1>1. MEMLEN \in Nat /\ MEMLEN >= 2 /\ A \in [0 .. MEMLEN -> Nat] /\ A[MEMLEN] = 0
      /\ data \in [1 .. MEMLEN -> MemWord] /\ ~data[MEMLEN].adr
  BY CaptureAssumption DEF Complete
<1>2. 0 \in 0 .. MEMLEN /\ 1 \in 0 .. MEMLEN /\ 1 \in 1 .. MEMLEN /\ 1 - 1 = 0
  BY <1>1
<1>3. A[0] \in Nat /\ A[1] \in Nat /\ A[0] >= A[1] + 1
  <2>1. A[1 - 1] >= A[1] + 1
    BY <1>2, SpanBound
  <2> QED BY <1>1, <1>2, <2>1
<1>4. ~data[1].adr => A[0] = A[1] + 1
  <2>1. A[1 - 1] = A[1] + width(data[1]) /\ data[1] \in MemWord
    BY <1>1, <1>2 DEF Complete
  <2> QED BY <1>2, <2>1, WidthType
<1>5. C \in Nat /\ C <= A[0] /\ C <= A[1] + 1
  BY <1>3, <1>4 DEF Clocks
<1>6. C >= 1
  <2>1. ~data[1].adr => C >= 1
    BY <1>3 DEF Clocks
  <2>2. ASSUME data[1].adr PROVE C >= 1
    <3>1. 2 \in 1 .. MEMLEN /\ 2 - 1 = 1 /\ 2 \in 0 .. MEMLEN
      BY <1>1
    <3>2. A[2 - 1] >= A[2] + 1 /\ A[2] \in Nat
      BY <1>1, <3>1, SpanBound
    <3> QED BY <1>3, <2>2, <3>1, <3>2 DEF Clocks
  <2> QED BY <2>1, <2>2
<1>7. C <= MAXHISTORY
  <2>1. MEMLEN - 1 \in 0 .. MEMLEN /\ MEMLEN - (MEMLEN - 1) = 1 /\ MEMLEN - 1 \in Nat
    BY <1>1
  <2>2. A[1] <= Longest(MEMLEN - 1)
    BY <2>1, SpanBound
  <2>3. MAXHISTORY >= 1 + (((MEMLEN - 1) \div 2) * (MAX_STEP + 2)) + ((MEMLEN - 1) % 2)
    BY HistoryAssumption DEF MostClocks
  <2>4. Longest(MEMLEN - 1) \in Nat
    BY <2>1, LongestStep
  <2>5. MAXHISTORY >= 1 + Longest(MEMLEN - 1)
    <3> DEFINE x == ((MEMLEN - 1) \div 2) * (MAX_STEP + 2)
               y == (MEMLEN - 1) % 2
    <3>1. Longest(MEMLEN - 1) = x + y
      BY DEF Longest
    <3>2. (MEMLEN - 1) \div 2 \in Nat /\ MAX_STEP + 2 \in Nat
      BY <2>1, StepAssumption
    <3>3. x \in Nat /\ y \in Nat /\ MAXHISTORY \in Nat
      BY <2>1, <3>2, StepAssumption
    <3>4. MAXHISTORY >= 1 + x + y
      BY <2>3
    <3> HIDE DEF x, y
    <3> QED BY <3>1, <3>3, <3>4
  <2> QED BY <1>3, <1>5, <2>2, <2>4, <2>5, StepAssumption
<1>8. C <= Len(h)
  <2>1. Held(h, A[1 - 1])
    BY <1>2 DEF Complete
  <2> QED BY <1>2, <1>3, <1>5, <1>7, <2>1 DEF Held
<1> HIDE DEF C
<1> DEFINE first == IF data[1].adr THEN 0 ELSE 1
<1>9. /\ addrv(data, 0)[1] = 0
      /\ \A i \in 2 .. MEMLEN + 1 : addrv(data, 0)[i] = first + A[1] - A[i - 1]
  <2>1. 0 \in Nat
    OBVIOUS
  <2> QED BY <2>1, ClockOfWord
<1>10. C = first + A[1] /\ first \in Nat
  BY <1>3, <1>4 DEF C, Clocks
<1>11. addrv(data, 0)[MEMLEN + 1] = C
  <2>1. MEMLEN + 1 \in 2 .. MEMLEN + 1 /\ (MEMLEN + 1) - 1 = MEMLEN
    BY <1>1
  <2>2. addrv(data, 0)[MEMLEN + 1] = first + A[1] - A[MEMLEN]
    BY <1>9, <2>1
  <2> QED BY <1>1, <1>5, <1>10, <2>2
<1>12. ASSUME NEW i \in 1 .. MEMLEN, ~data[i].adr
       PROVE  addrv(data, 0)[i] = C - A[i - 1]
  <2>1. CASE i = 1
    <3>1. C = A[0] /\ i - 1 = 0
      BY <1>12, <2>1 DEF C, Clocks
    <3> QED BY <1>3, <1>9, <2>1, <3>1
  <2>2. CASE i # 1
    <3>1. i \in 2 .. MEMLEN + 1
      BY <1>1, <2>2
    <3>2. addrv(data, 0)[i] = first + A[1] - A[i - 1]
      BY <1>9, <3>1
    <3>3. A[i - 1] \in Nat
      BY <1>1
    <3> HIDE DEF first
    <3> QED BY <1>3, <1>10, <3>2, <3>3
  <2> QED BY <2>1, <2>2
<1> QED BY <1>5, <1>6, <1>8, <1>11, <1>12 DEF C

(* The values of the memory, as words of it.                               *)
Values == {i \in 1 .. MEMLEN : ~m_data[i].adr}

(* The lines of the VCD file are the values, each at its distance from the  *)
(* stop.                                                                    *)
LEMMA VcdLines ==
    ASSUME DecodeInv, NEW A, Complete(h_samples, m_data, A), Len(h_samples) \in Nat
    PROVE  /\ clocks = Clocks(m_data, A)
           /\ \A i \in Values : \E line \in vcd :
                 line.time = clocks - A[i - 1] /\ line.word = m_data[i].val
           /\ \A line \in vcd : \E i \in Values :
                 line.time = clocks - A[i - 1] /\ line.word = m_data[i].val
<1>1. clocks = Clocks(m_data, A)
  BY ClocksBound DEF clocks, vcdaddr
<1>2. DOMAIN m_data = 1 .. MEMLEN
  BY DEF m_data
<1>3. \A i \in Values : vcdaddr(m_data, i) = clocks - A[i - 1]
  BY <1>1, ClocksBound DEF vcdaddr, Values
<1> DEFINE Line(i) == [time |-> vcdaddr(m_data, i), word |-> m_data[i].val,
                       trigger |-> vcdaddr(m_data, i) - alen = offset(alen, br_holdoff)]
<1>4. vcd = {Line(i) : i \in Values}
  BY <1>2 DEF vcd, VcdRLE, Values, adr, alen
<1>5. \A i \in Values : Line(i).time = clocks - A[i - 1] /\ Line(i).word = m_data[i].val
  BY <1>3
<1> HIDE DEF Line
<1> QED BY <1>1, <1>4, <1>5

(* There is a value at time zero.                                          *)
LEMMA FirstValue ==
    ASSUME DecodeInv, NEW A, Complete(h_samples, m_data, A), Len(h_samples) \in Nat
    PROVE  \E f \in Values : A[f - 1] = clocks
<1>1. MEMLEN \in Nat /\ MEMLEN >= 2
      /\ \A i \in 1 .. MEMLEN - 1 : m_data[i].adr => ~m_data[i + 1].adr
  BY CaptureAssumption DEF Complete
<1>2. clocks = Clocks(m_data, A)
  BY VcdLines
<1>3. CASE ~m_data[1].adr
  <2>1. 1 \in Values /\ 1 - 1 = 0
    BY <1>1, <1>3 DEF Values
  <2> QED BY <1>2, <1>3, <2>1 DEF Clocks
<1>4. CASE m_data[1].adr
  <2>1. 1 \in 1 .. MEMLEN - 1 /\ 2 \in 1 .. MEMLEN /\ 1 + 1 = 2 /\ 2 - 1 = 1
    BY <1>1
  <2>2. 2 \in Values
    BY <1>1, <1>4, <2>1 DEF Values
  <2> QED BY <1>2, <1>4, <2>1, <2>2 DEF Clocks
<1> QED BY <1>3, <1>4

(* What the VCD file shows at a time is the last value there is until then.  *)
LEMMA ShownValue ==
    ASSUME DecodeInv, NEW A, Complete(h_samples, m_data, A), Len(h_samples) \in Nat,
           NEW t \in 0 .. clocks - 1
    PROVE  \E k \in Values :
              /\ Shown(vcd, t) = m_data[k].val
              /\ clocks - A[k - 1] <= t
              /\ \A i \in Values : clocks - A[i - 1] <= t => A[i - 1] >= A[k - 1]
<1>1. MEMLEN \in Nat /\ A \in [0 .. MEMLEN -> Nat]
  BY CaptureAssumption DEF Complete
<1>2. clocks \in Nat
  BY ClocksBound, VcdLines
<1>3. \A i \in Values : A[i - 1] \in Nat
  BY <1>1 DEF Values
<1>4. PICK f \in Values : A[f - 1] = clocks
  BY FirstValue
<1> DEFINE Back == {t - (clocks - A[i - 1]) : i \in {j \in Values : clocks - A[j - 1] <= t}}
<1>5. t \in Nat
  OBVIOUS
<1>6. Back \in SUBSET Nat /\ Back # {}
  <2>1. \A i \in Values : clocks - A[i - 1] <= t => t - (clocks - A[i - 1]) \in Nat
    BY <1>2, <1>3, <1>5
  <2>2. t - (clocks - A[f - 1]) \in Back
    <3>1. clocks - A[f - 1] <= t
      BY <1>2, <1>4, <1>5
    <3> QED BY <3>1
  <2>3. Back \in SUBSET Nat
    BY <2>1
  <2> QED BY <2>2, <2>3
<1>7. PICK b \in Back : \A c \in Back : b <= c
  <2> HIDE DEF Back
  <2> QED BY <1>6, Least
<1>8. PICK l \in Values : clocks - A[l - 1] <= t /\ b = t - (clocks - A[l - 1])
  BY <1>7
<1>9. \A i \in Values : clocks - A[i - 1] <= t => A[i - 1] >= A[l - 1]
  <2> SUFFICES ASSUME NEW i \in Values, clocks - A[i - 1] <= t PROVE A[i - 1] >= A[l - 1]
    OBVIOUS
  <2>1. t - (clocks - A[i - 1]) \in Back
    OBVIOUS
  <2>2. b <= t - (clocks - A[i - 1])
    BY <1>7, <2>1
  <2>3. A[i - 1] \in Nat /\ A[l - 1] \in Nat
    BY <1>3
  <2> HIDE DEF Back
  <2> QED BY <1>2, <1>5, <1>8, <2>2, <2>3
<1> HIDE DEF Back
<1> DEFINE P(s) == s <= t /\ \A line \in vcd : line.time <= t => line.time <= s
           Times == {line.time : line \in vcd}
           at == CHOOSE s \in Times : P(s)
<1>10. clocks - A[l - 1] \in Times /\ P(clocks - A[l - 1])
  <2>1. clocks - A[l - 1] \in Times
    <3>1. PICK line \in vcd : line.time = clocks - A[l - 1]
      BY VcdLines
    <3> QED BY <3>1
  <2>2. ASSUME NEW line \in vcd, line.time <= t PROVE line.time <= clocks - A[l - 1]
    <3>1. PICK i \in Values : line.time = clocks - A[i - 1]
      BY VcdLines
    <3>2. A[i - 1] >= A[l - 1]
      BY <1>9, <2>2, <3>1
    <3> QED BY <1>2, <1>3, <3>1, <3>2
  <2> QED BY <1>8, <2>1, <2>2
<1>11. at \in Times /\ P(at)
  <2> HIDE DEF Times, P
  <2> QED BY <1>10
<1> HIDE DEF at
<1>12. Shown(vcd, t) = (CHOOSE line \in vcd : line.time = at).word
  BY DEF Shown, at
<1>13. PICK line \in vcd : line.time = at /\ Shown(vcd, t) = line.word
  <2>1. \E line \in vcd : line.time = at
    BY <1>11
  <2> QED BY <1>12, <2>1
<1>14. PICK k \in Values : line.time = clocks - A[k - 1] /\ line.word = m_data[k].val
  BY VcdLines
<1>15. ASSUME NEW i \in Values, clocks - A[i - 1] <= t PROVE A[i - 1] >= A[k - 1]
  <2>1. PICK other \in vcd : other.time = clocks - A[i - 1]
    BY VcdLines
  <2>2. clocks - A[i - 1] <= clocks - A[k - 1]
    BY <1>11, <1>13, <1>14, <1>15, <2>1
  <2> QED BY <1>2, <1>3, <2>2
<1>16. clocks - A[k - 1] <= t
  BY <1>11, <1>13, <1>14
<1> QED BY <1>13, <1>14, <1>15, <1>16

(* It is the sample that came in then: the value itself, or one of the run    *)
(* behind it.                                                              *)
LEMMA ShownSample ==
    ASSUME DecodeInv, NEW A, Complete(h_samples, m_data, A), Len(h_samples) \in Nat,
           NEW t \in 0 .. clocks - 1
    PROVE  Shown(vcd, t) = h_samples[Len(h_samples) - clocks + t + 1]
<1> DEFINE h == h_samples
           a == clocks - t
<1>1. /\ MEMLEN \in Nat /\ MEMLEN >= 2 /\ A \in [0 .. MEMLEN -> Nat] /\ A[MEMLEN] = 0
      /\ m_data \in [1 .. MEMLEN -> MemWord] /\ ~m_data[MEMLEN].adr
      /\ \A i \in 1 .. MEMLEN - 1 : m_data[i].adr => ~m_data[i + 1].adr
      /\ \A i \in 1 .. MEMLEN : /\ A[i - 1] = A[i] + width(m_data[i])
                                /\ Held(h, A[i - 1]) /\ Right(h, m_data[i], A[i], A[i - 1])
  BY CaptureAssumption DEF Complete
<1>2. clocks \in Nat /\ clocks <= Len(h) /\ t \in Nat /\ t < clocks
  BY ClocksBound, VcdLines
<1>3. PICK k \in Values :
              /\ Shown(vcd, t) = m_data[k].val
              /\ clocks - A[k - 1] <= t
              /\ \A i \in Values : clocks - A[i - 1] <= t => A[i - 1] >= A[k - 1]
  BY ShownValue
<1>4. k \in 1 .. MEMLEN /\ ~m_data[k].adr /\ k - 1 \in 0 .. MEMLEN /\ k \in 0 .. MEMLEN
  BY <1>1 DEF Values
<1>5. A[k - 1] \in Nat /\ A[k] \in Nat /\ A[k - 1] = A[k] + 1
  BY <1>1, <1>4, WidthType
<1>6. h_samples[Len(h_samples) - clocks + t + 1] = Ago(h, a)
  <2>1. Len(h_samples) - clocks + t + 1 = Len(h) + 1 - a
    BY <1>2
  <2> QED BY <2>1 DEF Ago
<1>7. a \in Nat /\ a >= 1 /\ a <= A[k - 1]
  BY <1>2, <1>3, <1>5
<1>8. A[k - 1] <= clocks
  <2>1. PICK f \in Values : A[f - 1] = clocks
    BY FirstValue
  <2>2. clocks - A[f - 1] <= t
    BY <1>2, <2>1
  <2> QED BY <1>3, <2>1, <2>2
<1>9. m_data[k].val = Ago(h, A[k - 1])
  BY <1>1, <1>2, <1>4, <1>5, <1>8 DEF Right
<1>10. CASE A[k] < a
  <2>1. a = A[k - 1]
    BY <1>5, <1>7, <1>10
  <2> QED BY <1>3, <1>6, <1>9, <2>1
<1>11. CASE ~(A[k] < a)
  <2>1. k \in 1 .. MEMLEN - 1 /\ k + 1 \in 1 .. MEMLEN /\ (k + 1) - 1 = k /\ k + 1 \in 0 .. MEMLEN
    <3>1. k # MEMLEN
      BY <1>1, <1>5, <1>7, <1>11
    <3> QED BY <1>1, <1>4, <3>1
  <2>2. m_data[k + 1].adr
    <3> SUFFICES ASSUME ~m_data[k + 1].adr PROVE FALSE
      OBVIOUS
    <3>1. k + 1 \in Values
      BY <2>1 DEF Values
    <3>2. clocks - A[(k + 1) - 1] <= t
      BY <1>2, <1>5, <1>7, <1>11, <2>1
    <3>3. A[(k + 1) - 1] >= A[k - 1]
      BY <1>3, <3>1, <3>2
    <3> QED BY <1>5, <2>1, <3>3
  <2>3. k + 1 \in 1 .. MEMLEN - 1 /\ (k + 1) + 1 \in 1 .. MEMLEN /\ ((k + 1) + 1) - 1 = k + 1
    <3>1. k + 1 # MEMLEN
      BY <1>1, <2>2
    <3> QED BY <1>1, <2>1, <3>1
  <2>4. A[k + 1] \in Nat
    BY <1>1, <2>1
  <2>5. A[k + 1] < a
    <3> SUFFICES ASSUME ~(A[k + 1] < a) PROVE FALSE
      OBVIOUS
    <3>1. (k + 1) + 1 \in Values
      BY <1>1, <2>2, <2>3 DEF Values
    <3>2. clocks - A[((k + 1) + 1) - 1] <= t
      BY <1>2, <1>7, <2>3, <2>4
    <3>3. A[((k + 1) + 1) - 1] >= A[k - 1]
      BY <1>3, <3>1, <3>2
    <3>4. A[k] = A[k + 1] + width(m_data[k + 1]) /\ width(m_data[k + 1]) \in Nat
      BY <1>1, <2>1, WidthType
    <3> QED BY <1>5, <2>3, <2>4, <3>3, <3>4
  <2>6. Right(h, m_data[k + 1], A[k + 1], A[k])
    BY <1>1, <2>1
  <2>7. A[k] < Len(h)
    BY <1>2, <1>5, <1>8
  <2>8. Ago(h, a) = Ago(h, A[k] + 1)
    <3>1. a \in A[k + 1] + 1 .. A[k]
      BY <1>5, <1>7, <1>11, <2>4, <2>5
    <3> QED BY <2>2, <2>6, <2>7, <3>1 DEF Right
  <2> QED BY <1>3, <1>5, <1>6, <1>9, <2>8
<1> QED BY <1>10, <1>11

-----------------------------------------------------------------------------
(* The history of a stopped scope is a sequence.                            *)
LEMMA StoppedHistory ==
    ASSUME DecodeInv, stopped
    PROVE  Len(h_samples) \in Nat
BY StepAssumption DEF DecodeInv, TraceInv, stopped, InputInv

(* sw/scopecls.cpp (writevcd) on what rtl/wbscopc.v recorded: from the first  *)
(* value of the memory on to the stop, the VCD file shows at every clock     *)
(* the sample that was on i_data: whatever the resets of a running capture,  *)
(* the pauses of i_ce, the runs cut at MAX_STEP and the forced writes.      *)
THEOREM DecodesToSamplesAlways == Spec => []DecodesToSamples
<1>1. DecodeInv => DecodesToSamples
  <2> SUFFICES ASSUME DecodeInv, stopped
               PROVE  /\ dr_primed
                      /\ clocks <= Len(h_samples)
                      /\ \A t \in 0 .. clocks - 1 :
                            Shown(vcd, t) = h_samples[Len(h_samples) - clocks + t + 1]
    BY DEF DecodesToSamples
  <2>1. Len(h_samples) \in Nat
    BY StoppedHistory
  <2>2. PICK A : Complete(h_samples, m_data, A)
    BY AtStop
  <2>3. clocks <= Len(h_samples)
    BY <2>1, <2>2, ClocksBound, VcdLines
  <2> QED BY <2>1, <2>2, <2>3, AtStop, ShownSample
<1> QED BY <1>1, TraceAlways, PTL

(* The forced write with the trigger (rtl/wbscopc.v): the sample on i_data    *)
(* when the trigger was taken is a value of its own, holdoff + 1 samples     *)
(* before the last one, or older than all of the memory.                    *)
THEOREM TriggerRecordedAlways == Spec => []TriggerRecorded
<1>1. DecodeInv => TriggerRecorded
  <2> SUFFICES ASSUME DecodeInv, stopped, clocks >= br_holdoff + 2
               PROVE  \E line \in vcd : /\ line.time = clocks - br_holdoff - 2
                                        /\ line.word = h_trigger
    BY DEF TriggerRecorded
  <2>1. Len(h_samples) \in Nat
    BY StoppedHistory
  <2>2. PICK A : /\ Complete(h_samples, m_data, A)
                 /\ \/ \E i \in 1 .. MEMLEN :
                          A[i - 1] = br_holdoff + 2 /\ IsTrigger(m_data[i])
                    \/ A[0] < br_holdoff + 2
    BY AtStop
  <2>3. clocks \in Nat /\ clocks <= A[0] /\ br_holdoff \in Nat /\ A[0] \in Nat
    <3>1. 0 \in 0 .. MEMLEN
      BY CaptureAssumption
    <3>2. br_holdoff \in Nat
      BY DEF DecodeInv, ScopCInv, TypeOK, Holdoff
    <3>3. A[0] \in Nat
      BY <2>2, <3>1 DEF Complete
    <3>4. clocks = Clocks(m_data, A)
      BY <2>1, <2>2, VcdLines
    <3>5. Clocks(m_data, A) \in Nat /\ Clocks(m_data, A) <= A[0]
      BY <2>1, <2>2, ClocksBound
    <3> QED BY <3>2, <3>3, <3>4, <3>5
  <2>4. PICK i \in 1 .. MEMLEN : A[i - 1] = br_holdoff + 2 /\ IsTrigger(m_data[i])
    BY <2>2, <2>3
  <2>5. i \in Values /\ m_data[i].val = h_trigger
    BY <2>4 DEF Values, IsTrigger
  <2>6. PICK line \in vcd : line.time = clocks - A[i - 1] /\ line.word = m_data[i].val
    BY <2>1, <2>2, <2>5, VcdLines
  <2>7. line.time = clocks - br_holdoff - 2
    BY <2>3, <2>4, <2>6
  <2> QED BY <2>5, <2>6, <2>7
<1> QED BY <1>1, TraceAlways, PTL

-----------------------------------------------------------------------------
(* Of two words of a memory the earlier ends the longer ago.                *)
LEMMA Earlier ==
    ASSUME NEW h, NEW data, NEW A, Complete(h, data, A),
           NEW i \in 0 .. MEMLEN, NEW k \in 0 .. MEMLEN, i < k
    PROVE  A[k] < A[i]
<1> DEFINE Wrong == {j \in 0 .. MEMLEN : i < j /\ ~(A[j] < A[i])}
<1>1. MEMLEN \in Nat /\ A \in [0 .. MEMLEN -> Nat]
      /\ \A j \in 1 .. MEMLEN : A[j - 1] >= A[j] + 1
  BY CaptureAssumption, SpanBound DEF Complete
<1>2. SUFFICES ASSUME ~(A[k] < A[i]) PROVE FALSE
  OBVIOUS
<1>3. k \in Wrong /\ Wrong \in SUBSET Nat
  BY <1>1, <1>2
<1>4. PICK m \in Wrong : \A j \in Wrong : m <= j
  <2> HIDE DEF Wrong
  <2> QED BY <1>3, Least
<1>5. m \in 0 .. MEMLEN /\ i < m /\ ~(A[m] < A[i])
  OBVIOUS
<1>6. m \in 1 .. MEMLEN /\ m - 1 \in 0 .. MEMLEN /\ m - 1 < m
  BY <1>1, <1>5
<1>7. A[m - 1] \in Nat /\ A[m] \in Nat /\ A[i] \in Nat /\ A[m - 1] >= A[m] + 1
  BY <1>1, <1>5, <1>6
<1>8. CASE m - 1 = i
  BY <1>5, <1>7, <1>8
<1>9. CASE m - 1 # i
  <2>1. i < m - 1
    BY <1>5, <1>6, <1>9
  <2>2. m - 1 \notin Wrong
    <3> HIDE DEF Wrong
    <3> QED BY <1>3, <1>4, <1>6
  <2>3. A[m - 1] < A[i]
    BY <1>6, <2>1, <2>2
  <2> QED BY <1>5, <1>7, <2>3
<1> QED BY <1>8, <1>9

(* What print() writes for the value at i.                                  *)
PrintLine(i) == [addr |-> printaddr(m_data, i), word |-> m_data[i].val,
                 trigger |-> printaddr(m_data, i) + 1 = offset(alen, br_holdoff)]

(* Of a memory that starts with a value, print() puts each value at its     *)
(* distance from the stop, and marks those that are as far from it as the   *)
(* sample that carried the trigger.                                        *)
LEMMA PrintLines ==
    ASSUME DecodeInv, stopped, ~m_data[1].adr,
           NEW A, Complete(h_samples, m_data, A)
    PROVE  /\ clocks = A[0] /\ clocks \in Nat /\ h_since \in Nat
           /\ marked = {PrintLine(i) : i \in {k \in Values : PrintLine(k).trigger}}
           /\ \A i \in Values : PrintLine(i).addr = clocks - A[i - 1]
           /\ \A i \in Values : PrintLine(i).trigger <=> A[i - 1] = h_since + 1
<1>1. Len(h_samples) \in Nat /\ h_since = br_holdoff + 1
  BY StoppedHistory, AtStop
<1>2. MEMLEN \in Nat /\ MEMLEN >= 2 /\ A \in [0 .. MEMLEN -> Nat] /\ A[MEMLEN] = 0
      /\ m_data \in [1 .. MEMLEN -> MemWord]
  BY CaptureAssumption DEF Complete
<1>3. br_holdoff \in Nat
  BY DEF DecodeInv, ScopCInv, TypeOK, Holdoff
<1>4. width(m_data[1]) = 1 /\ A[0] = A[1] + 1 /\ A[0] \in Nat /\ A[1] \in Nat
  <2>1. 1 \in 1 .. MEMLEN /\ 1 - 1 = 0 /\ 0 \in 0 .. MEMLEN /\ 1 \in 0 .. MEMLEN
    BY <1>2
  <2>2. A[0] = A[1] + width(m_data[1]) /\ m_data[1] \in MemWord
    BY <2>1 DEF Complete
  <2>3. width(m_data[1]) = 1
    BY <2>2, WidthType
  <2> QED BY <1>2, <2>1, <2>2, <2>3
<1>5. clocks = A[0]
  BY <1>1, VcdLines DEF Clocks
<1>6. Len(m_data) = MEMLEN /\ DOMAIN m_data = 1 .. MEMLEN
  BY <1>2, MemoryIsSeq
<1>7. alen = clocks
  <2>1. MEMLEN + 1 \in 2 .. MEMLEN + 1 /\ (MEMLEN + 1) - 1 = MEMLEN /\ 1 \in Nat
    BY <1>2
  <2>2. addrv(m_data, 1)[MEMLEN + 1] = 1 + A[1] - A[MEMLEN]
    BY <2>1, ClockOfWord
  <2> QED BY <1>2, <1>4, <1>5, <1>6, <2>2 DEF alen, getaddresslen
<1>8. ASSUME NEW i \in Values
      PROVE  A[i - 1] \in Nat /\ printaddr(m_data, i) = clocks - A[i - 1]
  <2>1. i \in 1 .. MEMLEN /\ i - 1 \in 0 .. MEMLEN
    BY <1>2 DEF Values
  <2>2. A[i - 1] \in Nat
    BY <1>2, <2>1
  <2>3. CASE i = 1
    <3>1. addrv(m_data, 1)[1] = 0 /\ 1 - 1 = 0
      BY ClockOfWord
    <3> QED BY <1>4, <1>5, <2>2, <2>3, <3>1 DEF printaddr
  <2>4. CASE i # 1
    <3>1. i \in 2 .. MEMLEN + 1
      BY <1>2, <2>1, <2>4
    <3>2. addrv(m_data, 1)[i] = 1 + A[1] - A[i - 1]
      BY <3>1, ClockOfWord
    <3> QED BY <1>4, <1>5, <2>2, <3>2 DEF printaddr
  <2> QED BY <2>3, <2>4
<1>9. ASSUME NEW i \in Values
      PROVE  printaddr(m_data, i) + 1 = offset(alen, br_holdoff) <=> A[i - 1] = h_since + 1
  <2>1. offset(alen, br_holdoff) = clocks - br_holdoff - 1
    BY <1>7 DEF offset
  <2>2. printaddr(m_data, i) = clocks - A[i - 1] /\ A[i - 1] \in Nat
    BY <1>8
  <2>3. ASSUME NEW c \in Nat, NEW o \in Nat, NEW a \in Nat
        PROVE  c - a + 1 = c - o - 1 <=> a = o + 2
    BY <2>3
  <2>4. A[i - 1] = h_since + 1 <=> A[i - 1] = br_holdoff + 2
    BY <1>1, <1>3
  <2>5. clocks \in Nat
    BY <1>4, <1>5
  <2> QED BY <1>3, <2>1, <2>2, <2>3, <2>4, <2>5
<1>10. PrintsRLE(m_data, br_holdoff) = {PrintLine(i) : i \in Values}
  BY <1>6 DEF PrintsRLE, PrintLine, Values, adr, alen
<1>11. marked = {PrintLine(i) : i \in {k \in Values : PrintLine(k).trigger}}
  BY <1>10 DEF marked
<1>12. \A i \in Values : /\ PrintLine(i).addr = clocks - A[i - 1]
                         /\ PrintLine(i).trigger <=> A[i - 1] = h_since + 1
  BY <1>8, <1>9 DEF PrintLine
<1> QED BY <1>1, <1>3, <1>4, <1>5, <1>11, <1>12

(* sw/scopecls.cpp (print): the one line it marks is that of the sample that *)
(* carried the trigger, as many from the end as came in after it, unless    *)
(* the memory starts in a run; and it marks none where that sample has been *)
(* overwritten.  No two values are equally far from the stop.              *)
THEOREM PrintMarksTriggerAlways == Spec => []PrintMarksTrigger
<1>1. DecodeInv => PrintMarksTrigger
  <2> SUFFICES ASSUME DecodeInv, stopped, ~m_data[1].adr
               PROVE  IF h_since < clocks
                      THEN \E line \in marked : /\ marked = {line}
                                                /\ line.addr = clocks - h_since - 1
                                                /\ line.word = h_trigger
                      ELSE marked = {}
    BY DEF PrintMarksTrigger
  <2>1. PICK A : /\ Complete(h_samples, m_data, A)
                 /\ \/ \E i \in 1 .. MEMLEN :
                          A[i - 1] = br_holdoff + 2 /\ IsTrigger(m_data[i])
                    \/ A[0] < br_holdoff + 2
    BY AtStop
  <2>2. /\ clocks = A[0] /\ clocks \in Nat /\ h_since \in Nat
        /\ marked = {PrintLine(i) : i \in {k \in Values : PrintLine(k).trigger}}
        /\ \A i \in Values : PrintLine(i).addr = clocks - A[i - 1]
        /\ \A i \in Values : PrintLine(i).trigger <=> A[i - 1] = h_since + 1
    BY <2>1, PrintLines
  <2>3. br_holdoff + 2 = h_since + 1
    <3>1. br_holdoff \in Nat /\ h_since = br_holdoff + 1
      BY AtStop DEF DecodeInv, ScopCInv, TypeOK, Holdoff
    <3> QED BY <3>1
  <2>4. MEMLEN \in Nat /\ MEMLEN >= 2 /\ A \in [0 .. MEMLEN -> Nat]
    BY <2>1, CaptureAssumption DEF Complete
  <2>5. ASSUME NEW i \in Values
        PROVE  i \in 1 .. MEMLEN /\ i - 1 \in 0 .. MEMLEN /\ A[i - 1] \in Nat
    BY <2>4 DEF Values
  <2>6. CASE h_since < clocks
    <3>1. PICK i \in 1 .. MEMLEN : A[i - 1] = h_since + 1 /\ IsTrigger(m_data[i])
      BY <2>1, <2>2, <2>3, <2>6
    <3>2. i \in Values /\ m_data[i].val = h_trigger
      BY <3>1 DEF Values, IsTrigger
    <3>3. PrintLine(i) \in marked
      BY <2>2, <3>1, <3>2
    <3>4. PrintLine(i).addr = clocks - h_since - 1
      <4>1. PrintLine(i).addr = clocks - (h_since + 1)
        BY <2>2, <3>1, <3>2
      <4> QED BY <2>2, <4>1
    <3>5. PrintLine(i).word = h_trigger
      BY <3>2 DEF PrintLine
    <3>6. ASSUME NEW line \in marked PROVE line = PrintLine(i)
      <4>1. PICK k \in Values : PrintLine(k).trigger /\ line = PrintLine(k)
        BY <2>2
      <4>2. A[k - 1] = A[i - 1]
        BY <2>2, <3>1, <4>1
      <4>3. i \in 1 .. MEMLEN /\ k \in 1 .. MEMLEN
            /\ i - 1 \in 0 .. MEMLEN /\ k - 1 \in 0 .. MEMLEN
        BY <2>5, <3>2
      <4>4. ~(i - 1 < k - 1)
        BY <2>1, <2>5, <3>2, <4>2, <4>3, Earlier
      <4>5. ~(k - 1 < i - 1)
        BY <2>1, <2>5, <3>2, <4>2, <4>3, Earlier
      <4>6. k = i
        BY <2>4, <4>3, <4>4, <4>5
      <4> QED BY <4>1, <4>6
    <3>7. marked = {PrintLine(i)}
      BY <3>3, <3>6
    <3> QED BY <2>6, <3>3, <3>4, <3>5, <3>7
  <2>7. CASE ~(h_since < clocks)
    <3>1. ASSUME NEW i \in Values, PrintLine(i).trigger PROVE FALSE
      <4>1. A[i - 1] = h_since + 1
        BY <2>2, <3>1
      <4>2. A[i - 1] <= A[0]
        <5>1. CASE i = 1
          <6>1. i - 1 = 0
            BY <5>1
          <6> QED BY <2>5, <6>1
        <5>2. CASE i # 1
          <6>1. 0 < i - 1 /\ 0 \in 0 .. MEMLEN
            BY <2>4, <2>5, <5>2
          <6>2. A[i - 1] < A[0]
            BY <2>1, <2>5, <6>1, Earlier
          <6> QED BY <2>2, <2>5, <6>2
        <5> QED BY <5>1, <5>2
      <4> QED BY <2>2, <2>7, <4>1, <4>2
    <3>2. marked = {}
      BY <2>2, <3>1
    <3> QED BY <2>7, <3>2
  <2> QED BY <2>6, <2>7
<1> QED BY <1>1, TraceAlways, PTL
=============================================================================
