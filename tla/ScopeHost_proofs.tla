-------------------------- MODULE ScopeHost_proofs --------------------------
(***************************************************************************)
(* The synchronous scope for every memory length, every holdoff, every     *)
(* stream of samples and every master; and then with the software as its    *)
(* master, for every length the software reads.                            *)
(***************************************************************************)
EXTENDS ScopeHost, OneClock_proofs, SequenceTheorems

(* The bus changes the holdoff only with a reset request.                  *)
LEMMA HoldoffChange ==
    ASSUME NEW rq, NEW ce, NEW trig, NEW sample, Tick(rq, ce, trig, sample),
           br_holdoff' # br_holdoff
    PROVE  bw_reset_request'
BY DEF Tick, BusEdge, Configure, bw_reset_request

(* Every tick is a clock of OneClock_proofs, and keeps the types.          *)
LEMMA TickEdge ==
    ASSUME OneClockInv, NEW rq, WellFormed(rq), NEW ce \in Enables, NEW trig \in BOOLEAN,
           NEW sample \in Stream(data_pipe), Tick(rq, ce, trig, sample)
    PROVE  BusTypeOK' /\ HoldoffHeld /\ Edge(ce, trig, sample)
<1>1. /\ sample \in SAMPLES /\ bw_reset_request \in BOOLEAN
      /\ waddr \in Address /\ mem[this_addr] \in Word
  BY EdgeTypes DEF OneClockInv
<1>2. CaptureTypeOK /\ BusTypeOK
  BY DEF OneClockInv
<1>3. dr_stopped \in BOOLEAN /\ dr_triggered \in BOOLEAN /\ dr_primed \in BOOLEAN
  BY <1>2 DEF CaptureTypeOK
<1>4. /\ BusEdge(rq, bw_reset_request, dr_stopped, dr_triggered, dr_primed, sample)
      /\ Prefetch(rq, waddr, mem[this_addr])
  BY DEF Tick
<1>5. BusTypeOK'
  BY <1>1, <1>2, <1>3, <1>4, BusEdgeType
<1>6. HoldoffHeld
  BY HoldoffChange DEF HoldoffHeld
<1> QED BY <1>5, <1>6 DEF Tick, Edge

(* OneClockInv is inductive.                                               *)
LEMMA SyncInductive == OneClockInv /\ [Next]_vars => OneClockInv'
<1>1. ASSUME OneClockInv, Next PROVE OneClockInv'
  BY <1>1, TickEdge, RequestWellFormed, EdgeInv DEF Next
<1>2. ASSUME OneClockInv, UNCHANGED vars PROVE OneClockInv'
  BY <1>2, StillRefines DEF vars
<1> QED BY <1>1, <1>2

THEOREM SyncInvariant == Spec => []OneClockInv
<1>1. Init => OneClockInv
  BY OneClockInitial DEF Init
<1> QED BY <1>1, SyncInductive, PTL DEF Spec

(* Every register of the synchronous scope keeps its width.                *)
THEOREM SyncTypeCorrect == Spec => []TypeOK
<1>1. OneClockInv => TypeOK
  BY DEF OneClockInv, TypeOK
<1> QED BY <1>1, SyncInvariant, PTL

(* In a stopped scope the trigger sample is where the holdoff puts it, for *)
(* any memory and any holdoff, and whatever i_ce did.                      *)
THEOREM SyncTriggerInPlace == Spec => []TriggerInPlace
BY InvTriggerInPlace, SyncInvariant, PTL

(* The holdoff is never replaced under a running synchronous capture.      *)
THEOREM SyncHoldoffNeedsReset == Spec => HoldoffNeedsReset
<1>1. [Next]_vars => [br_holdoff' # br_holdoff => bw_reset_request']_vars
  BY HoldoffChange DEF Next
<1> QED BY <1>1, PTL DEF Spec, HoldoffNeedsReset

(* One interrupt per stop (rtl/wbscope.v:575-583): it is up for one clock,  *)
(* from the one on which the scope stops or on which DISABLE is cleared     *)
(* under a stop, and not again until the scope is reset or DISABLE set. The *)
(* reset that lets go of the delayed copy takes the stop on the same edge.  *)
THEOREM SyncInterruptOnce == Spec => []InterruptOnce
<1> DEFINE Inv == InterruptInv(dr_stopped)
<1>1. Init => Inv
  BY InterruptInitial DEF Init, CaptureInit
<1>2. ASSUME Inv, [Next]_vars PROVE Inv'
  <2>1. CASE UNCHANGED vars
    BY <1>2, <2>1 DEF InterruptInv, vars, captureVars, historyVars, busVars
  <2>2. ASSUME NEW rq \in Requests, NEW ce \in Enables, NEW trig \in BOOLEAN,
               NEW sample \in Stream(data_pipe), Tick(rq, ce, trig, sample)
        PROVE  Inv'
    <3>1. /\ LevelInterrupt(bw_reset_request, dr_stopped) /\ CountInterrupts(dr_stopped)
          /\ bw_reset_request => ~dr_stopped'
      BY <2>2 DEF Tick, BusEdge, DataEdge, StopFlag
    <3> QED BY <1>2, <3>1, InterruptStep DEF InterruptInv
  <2> QED BY <1>2, <2>1, <2>2 DEF Next
<1>3. Inv => InterruptOnce
  BY InvOneInterrupt DEF InterruptOnce
<1> QED BY <1>1, <1>2, <1>3, PTL DEF Spec

(* Where i_ce is wired to 1, the sample the documentation promises is the   *)
(* last one: the one the holdoff counts to (rtl/wbscope.v:351).            *)
THEOREM SyncEveryClock ==
    ASSUME Enables = {TRUE} PROVE Spec => []StopsAfterHoldoff
<1>1. ASSUME Init PROVE StopsAfterHoldoff
  BY <1>1 DEF Init, CaptureInit, StopsAfterHoldoff
<1>2. ASSUME OneClockInv, StopsAfterHoldoff, [Next]_vars PROVE StopsAfterHoldoff'
  <2>1. CASE UNCHANGED vars
    BY <1>2, <2>1 DEF StopsAfterHoldoff, vars, captureVars, historyVars, busVars,
                      bw_reset_request
  <2>2. ASSUME NEW rq \in Requests, NEW ce \in Enables, NEW trig \in BOOLEAN,
               NEW sample \in Stream(data_pipe), Tick(rq, ce, trig, sample),
               dr_stopped', ~bw_reset_request'
        PROVE  h_since' = br_holdoff' + 1
    <3>1. ce = TRUE /\ br_holdoff' = br_holdoff
      BY <2>2, HoldoffChange
    <3>2. DataEdge(bw_reset_request, br_config.manual, br_config.disable,
                   br_holdoff, ce, trig, sample)
      BY <2>2 DEF Tick
    <3>3. ~bw_reset_request /\ dr_triggered
      BY <2>2, <3>2 DEF DataEdge, StopFlag
    <3>4. CASE dr_stopped
      <4>1. h_since' = h_since
        BY <3>2, <3>3, <3>4 DEF DataEdge, Remember
      <4> QED BY <1>2, <3>1, <3>3, <3>4, <4>1 DEF StopsAfterHoldoff
    <3>5. CASE ~dr_stopped
      <4>1. counter >= br_holdoff
        BY <2>2, <3>2, <3>3, <3>5 DEF DataEdge, StopFlag
      <4>2. counter <= br_holdoff /\ h_since = counter
        BY <1>2, <3>3, <3>5 DEF OneClockInv, HoldoffInv, CaptureInv
      <4>3. h_since' = h_since + 1
        BY <1>2, <3>1, <3>2, <3>3, <3>5, HistoryOpen
        DEF DataEdge, Remember, OneClockInv
      <4>4. counter \in Nat /\ br_holdoff \in Nat
        BY <1>2, CaptureAssumption, SMT
        DEF OneClockInv, CaptureTypeOK, BusTypeOK, Holdoff
      <4> QED BY <3>1, <4>1, <4>2, <4>3, <4>4, SMT
    <3> QED BY <3>4, <3>5
  <2> QED BY <1>2, <2>1, <2>2 DEF Next, StopsAfterHoldoff
<1> QED BY <1>1, <1>2, SyncInvariant, PTL DEF Spec

-----------------------------------------------------------------------------
(* For any memory, holdoff, stream of samples and master, what the scope   *)
(* records is the window CaptureWindow promises: each tick is a step of it. *)
THEOREM SyncCaptures == Spec => Captures
<1>1. Init => Contract!WindowInit
  BY RefinesInitial DEF Init
<1>2. OneClockInv /\ OneClockInv' /\ [Next]_vars
        => [Contract!WindowNext]_Contract!windowVars
  <2>1. ASSUME OneClockInv, OneClockInv', Next
        PROVE  [Contract!WindowNext]_Contract!windowVars
    BY <2>1, TickEdge, RequestWellFormed, EdgeRefines DEF Next
  <2>2. ASSUME OneClockInv, UNCHANGED vars PROVE UNCHANGED Contract!windowVars
    BY <2>2, StillRefines DEF vars
  <2> QED BY <2>1, <2>2
<1>3. Spec => Contract!WindowInit /\ [][Contract!WindowNext]_Contract!windowVars
  BY <1>1, <1>2, SyncInvariant, PTL DEF Spec
<1> QED BY <1>3 DEF Captures, Contract!WindowSpec

-----------------------------------------------------------------------------
(* The software on the scope.  It reads a scope of more than four words;    *)
(* the core takes two clocks to answer, and a vector read two for a word.   *)
Readable ==
    /\ MEMLEN > 4 /\ BOMBCOUNT >= 3
    /\ TRUE \in VECTOR_READS => ~RANDOM_STROBE

(* The capture is over, and the pre-fetch points at the next word to read.  *)
Over == dr_stopped /\ ~bw_reset_request
Fetched == this_addr = RingAt(waddr, raddr)

(* The words of a capture, from the oldest on, and the first n of them.     *)
Nth(n) == mem[RingAt(waddr, n)]
Holds(s, n) == Len(s) = n /\ \A i \in 1 .. n : s[i].word = Nth(i - 1)

(* The read address once n words have been read.                           *)
Come(n) == IF n = MEMLEN THEN 0 ELSE n

Quiet == ~bw_reset_request /\ raddr = 0
Fresh == bw_reset_request \/ raddr = 0

(* The pins of the master.                                                 *)
PinsType == i_wb \in [cyc : BOOLEAN, stb : BOOLEAN, we : BOOLEAN, addr : Nat,
                      data : Settings \cup {NoWord}]
OffBus == ~i_wb.cyc /\ ~i_wb.stb /\ ~br_pre_wb_ack
Writes == i_wb.cyc /\ i_wb.we /\ i_wb.addr = 0 /\ i_wb.data \in Settings
Reads(a) == i_wb.cyc /\ ~i_wb.we /\ i_wb.addr = a
Asked == i_wb.stb /\ ~br_pre_wb_ack
Taken(reg) == ~i_wb.stb /\ br_pre_wb_ack /\ read_address = reg

HostType ==
    /\ PinsType
    /\ m_vector_read \in VECTOR_READS
    /\ m_scoplen \in {0, MEMLEN} /\ m_holdoff \in Holdoff
    /\ m_data \in Seq(Answer) /\ answers \in Seq(Answer)
    /\ errcount \in Nat /\ cnt \in Nat
    /\ ~m_bomb

-----------------------------------------------------------------------------
(* What holds where the software is between two calls, or a call ends.      *)
AtShell == at = "shell" /\ OffBus /\ Fresh /\ m_data = <<>>

AtRest ==
    /\ at \in {"arming", "armed", "cleared", "not ready"}
    /\ OffBus /\ Quiet /\ m_data = <<>>
    /\ at = "cleared" => (m_interrupt => dr_stopped)

Noticed == at = "waiting" /\ OffBus /\ Quiet /\ m_data = <<>> /\ dr_stopped

(* The status is asked for, ...                                            *)
AskingStatus ==
    /\ at \in {"ready", "scoplen", "decode_control"}
    /\ m_data = <<>>
    /\ at = "ready" => m_scoplen = 0
    /\ at = "scoplen" => Over

(* ... and known: a stop it shows is of this capture, and a clock ago.      *)
StatusRead ==
    /\ AskingStatus /\ OffBus /\ Quiet
    /\ Len(answers) = 1 /\ v.kind = "status" /\ v.holdoff = br_holdoff
    /\ v.stopped => Over /\ Fetched
    /\ at = "scoplen" => v.stopped

(* The memory is read.                                                     *)
Reading(n) ==
    /\ Over /\ Fetched
    /\ m_scoplen = MEMLEN /\ m_holdoff = br_holdoff
    /\ Holds(m_data, n) /\ n \in 0 .. MEMLEN - 1
    /\ m_vector_read => n = 0

BeforeRead ==
    /\ at = "rawread" /\ OffBus
    /\ Reading(Len(m_data)) /\ raddr = Len(m_data)

WordRead ==
    /\ at = "reading" /\ ~m_vector_read /\ OffBus
    /\ Reading(Len(m_data)) /\ raddr = Come(Len(m_data) + 1)
    /\ Len(answers) = 1 /\ v.word = Nth(Len(m_data))

VectorRead ==
    /\ at = "reading" /\ m_vector_read /\ OffBus
    /\ Reading(0) /\ raddr = 0
    /\ Holds(answers, MEMLEN)

Written ==
    /\ at = "written" /\ OffBus /\ Over /\ raddr = 0
    /\ m_scoplen = MEMLEN /\ m_holdoff = br_holdoff
    /\ Holds(m_data, MEMLEN)

Returned == (at = "arming" /\ AtRest) \/ StatusRead \/ WordRead \/ VectorRead
Between == AtShell \/ AtRest \/ Noticed \/ BeforeRead \/ Written \/ Returned

-----------------------------------------------------------------------------
(* What holds before each TICK of a call.                                  *)
Arming == at = "arming" /\ call.op = "writeio" /\ Writes /\ m_data = <<>>
ArmAccept == Arming /\ Asked /\ errcount = 0
ArmWait   == Arming /\ Taken("control") /\ raddr = 0 /\ errcount = 1
ArmSettle == Arming /\ ~i_wb.stb /\ ~br_pre_wb_ack /\ Quiet /\ errcount = 2

Status == AskingStatus /\ call.op = "readio" /\ Reads(0)
StatusAccept == Status /\ Asked /\ Fresh /\ errcount = 0
StatusWait   == Status /\ Taken("control") /\ Quiet /\ errcount = 1

OneWord ==
    /\ at = "reading" /\ ~m_vector_read /\ call.op = "readio"
    /\ Reads(1) /\ Reading(Len(m_data))
WordAccept == OneWord /\ Asked /\ raddr = Len(m_data) /\ errcount = 0
WordWait ==
    /\ OneWord /\ Taken("data") /\ errcount = 1
    /\ raddr = Come(Len(m_data) + 1) /\ nxt_mem = Nth(Len(m_data))

Vector ==
    /\ at = "reading" /\ m_vector_read
    /\ call.op = "readv" /\ call.len = MEMLEN /\ ~call.inc
    /\ Reads(1) /\ Reading(0)
    /\ IF br_pre_wb_ack
       THEN /\ read_address = "data" /\ cnt > 0 /\ nxt_mem = Nth(cnt - 1)
            /\ Holds(answers, cnt - 1)
       ELSE Holds(answers, cnt)
    /\ raddr = Come(cnt)
VectorIssue ==
    /\ Vector /\ cnt < MEMLEN
    /\ i_wb.stb => errcount <= 2 * cnt
    /\ ~i_wb.stb => errcount < 2 * cnt
VectorCollect ==
    /\ Vector /\ cnt = MEMLEN /\ ~i_wb.stb /\ br_pre_wb_ack
    /\ errcount <= 2 * cnt

Sleeping ==
    /\ at = "waiting" /\ call.op = "wait"
    /\ OffBus /\ Quiet /\ m_data = <<>>
    /\ m_interrupt => dr_stopped

StageInv ==
    \/ pc = "ready" /\ Between
    \/ pc = "release" /\ Returned /\ call.op # "wait"
    \/ pc = "accept" /\ (ArmAccept \/ StatusAccept \/ WordAccept)
    \/ pc = "wait" /\ (ArmWait \/ StatusWait \/ WordWait)
    \/ pc = "settle" /\ ArmSettle
    \/ pc = "v_issue" /\ VectorIssue
    \/ pc = "v_collect" /\ VectorCollect
    \/ pc = "sleep" /\ Sleeping

HostInv == OneClockInv /\ HostType /\ StageInv

-----------------------------------------------------------------------------
(* A clock of the core under the software, and one of the call with it.     *)
CoreClock == \E ce \in Enables, trig \in BOOLEAN, sample \in Stream(data_pipe) :
                 Tick(req, ce, trig, sample)
HostClock == CoreClock /\ Proceed(FALSE, o_wb') /\ UNCHANGED scopeVars

Writing == i_wb.stb /\ i_wb.we /\ i_wb.addr % 2 = 0
ReadingData == i_wb.stb /\ ~i_wb.we /\ i_wb.addr % 2 # 0
WritesRestart == i_wb.stb /\ i_wb.we => i_wb.data \in Settings

LEMMA PinsFields ==
    ASSUME PinsType
    PROVE  /\ i_wb.cyc \in BOOLEAN /\ i_wb.stb \in BOOLEAN /\ i_wb.we \in BOOLEAN
           /\ i_wb.addr \in Nat /\ i_wb.data \in Settings \cup {NoWord}
BY DEF PinsType

LEMMA RequestFields ==
    /\ req.cyc = i_wb.cyc /\ req.stb = i_wb.stb /\ req.we = i_wb.we /\ req.sel = TRUE
    /\ req.addr = IF i_wb.addr % 2 = 0 THEN "control" ELSE "data"
    /\ req.word = i_wb.data
    /\ write_to_control(req) <=> Writing
    /\ read_from_data(req) <=> ReadingData
<1>1. /\ req.cyc = i_wb.cyc /\ req.stb = i_wb.stb /\ req.we = i_wb.we /\ req.sel = TRUE
      /\ req.addr = IF i_wb.addr % 2 = 0 THEN "control" ELSE "data"
      /\ req.word = i_wb.data
  BY DEF req
<1> QED BY <1>1 DEF write_to_control, read_from_data, Writing, ReadingData

LEMMA SettingFields ==
    ASSUME NEW w \in Settings
    PROVE  /\ w.reset_n = FALSE /\ w.manual \in BOOLEAN /\ w.disable \in BOOLEAN
           /\ w.holdoff \in Holdoff
<1>1. w \in ControlWord /\ ~w.reset_n
  BY HostAssumption
<1> QED BY <1>1 DEF ControlWord

(* One clock of the core, with the pins as the master drives them.         *)
LEMMA CoreTick ==
    ASSUME OneClockInv, PinsType, WritesRestart, CoreClock
    PROVE  /\ OneClockInv'
           /\ bw_reset_request' <=> ~bw_reset_request /\ Writing
           /\ ~Writing => br_holdoff' = br_holdoff
           /\ raddr' = IF bw_reset_request \/ Writing THEN 0
                       ELSE IF ReadingData /\ dr_stopped THEN NextAddress(raddr)
                       ELSE raddr
           /\ this_addr' = IF ReadingData THEN NextAddress(RingAt(raddr, waddr))
                           ELSE RingAt(raddr, waddr)
           /\ nxt_mem' = mem[this_addr]
           /\ read_address' = IF i_wb.addr % 2 = 0 THEN "control" ELSE "data"
           /\ br_pre_wb_ack' = i_wb.stb
           /\ o_bus_data' \in Answer
           /\ read_address = "control" =>
                o_bus_data' = StatusWord(dr_stopped, dr_triggered, dr_primed)
           /\ read_address = "data" /\ dr_stopped =>
                o_bus_data' = [kind |-> "data", word |-> nxt_mem]
           /\ o_wb'.ack <=> br_pre_wb_ack /\ i_wb.cyc
           /\ ~o_wb'.stall /\ o_wb'.data = o_bus_data'
           /\ o_wb'.interrupt => dr_stopped'
           /\ Over => dr_stopped' /\ waddr' = waddr /\ mem' = mem
<1>1. PICK ce \in Enables, trig \in BOOLEAN, sample \in Stream(data_pipe) :
        Tick(req, ce, trig, sample)
  BY DEF CoreClock
<1>2. WellFormed(req)
  BY RequestFields, PinsFields, SettingFields
  DEF WellFormed, Writing, WritesRestart
<1>3. BusTypeOK' /\ HoldoffHeld /\ Edge(ce, trig, sample)
  BY <1>1, <1>2, TickEdge
<1>4. OneClockInv'
  BY <1>1, <1>3, EdgeInv
<1>5. /\ BusEdge(req, bw_reset_request, dr_stopped, dr_triggered, dr_primed, sample)
      /\ Prefetch(req, waddr, mem[this_addr])
  BY <1>1 DEF Tick
<1>6. bw_reset_request' <=> ~bw_reset_request /\ Writing
  <2>1. br_config'.reset_n <=>
          \/ bw_reset_request
          \/ br_config.reset_n /\ ~(Writing /\ ~i_wb.data.reset_n)
    BY <1>5, RequestFields DEF BusEdge, Configure
  <2>2. Writing => ~i_wb.data.reset_n
    BY SettingFields DEF Writing, WritesRestart
  <2> QED BY <2>1, <2>2 DEF bw_reset_request
<1>7. ~Writing => br_holdoff' = br_holdoff
  BY <1>5, RequestFields DEF BusEdge, Configure
<1>8. raddr' = IF bw_reset_request \/ Writing THEN 0
               ELSE IF ReadingData /\ dr_stopped THEN NextAddress(raddr) ELSE raddr
  BY <1>5, RequestFields DEF BusEdge, AdvanceRead
<1>9. /\ this_addr' = IF ReadingData THEN NextAddress(RingAt(raddr, waddr))
                      ELSE RingAt(raddr, waddr)
      /\ nxt_mem' = mem[this_addr]
  BY <1>5, RequestFields DEF Prefetch
<1>10. /\ read_address' = IF i_wb.addr % 2 = 0 THEN "control" ELSE "data"
       /\ br_pre_wb_ack' = i_wb.stb
       /\ br_wb_ack' = (br_pre_wb_ack /\ i_wb.cyc)
       /\ read_address = "control" =>
            o_bus_data' = StatusWord(dr_stopped, dr_triggered, dr_primed)
       /\ read_address = "data" /\ dr_stopped =>
            o_bus_data' = [kind |-> "data", word |-> nxt_mem]
  BY <1>5, RequestFields DEF BusEdge, Respond
<1>11. o_bus_data' \in Answer
  BY <1>3 DEF BusTypeOK
<1>12. /\ o_wb'.ack = br_wb_ack' /\ ~o_wb'.stall /\ o_wb'.data = o_bus_data'
       /\ o_wb'.interrupt => dr_stopped'
  BY DEF o_wb, Interrupt
<1>13. Over => dr_stopped' /\ waddr' = waddr /\ mem' = mem
  BY <1>1 DEF Over, Tick, DataEdge, StopFlag, FillRing, StoreSample, OneClockInv, CaptureInv
<1> QED BY <1>4, <1>6, <1>7, <1>8, <1>9, <1>10, <1>11, <1>12, <1>13

(* A capture that is over stays, and a read moves on to its next word.      *)
LEMMA OverClock ==
    ASSUME OneClockInv, PinsType, WritesRestart, CoreClock, Over, ~Writing
    PROVE  /\ Over' /\ Fetched' /\ br_holdoff' = br_holdoff
           /\ waddr' = waddr /\ mem' = mem
           /\ raddr' = IF ReadingData THEN NextAddress(raddr) ELSE raddr
           /\ Fetched => nxt_mem' = Nth(raddr)
           /\ \A n : Nth(n)' = Nth(n)
<1>1. raddr \in Address /\ waddr \in Address
  BY DEF OneClockInv, BusTypeOK, CaptureTypeOK
<1>2. /\ Over' /\ br_holdoff' = br_holdoff /\ waddr' = waddr /\ mem' = mem
      /\ raddr' = IF ReadingData THEN NextAddress(raddr) ELSE raddr
      /\ nxt_mem' = mem[this_addr]
  BY CoreTick DEF Over
<1>3. this_addr' = IF ReadingData THEN NextAddress(RingAt(raddr, waddr))
                   ELSE RingAt(raddr, waddr)
  BY CoreTick
<1>4. /\ NextAddress(RingAt(raddr, waddr)) = RingAt(waddr, NextAddress(raddr))
      /\ RingAt(raddr, waddr) = RingAt(waddr, raddr)
  BY <1>1, CaptureAssumption, SMT DEF Address, RingAt, NextAddress
<1>5. Fetched'
  BY <1>2, <1>3, <1>4 DEF Fetched
<1>6. Fetched => nxt_mem' = Nth(raddr)
  BY <1>2 DEF Fetched, Nth
<1>7. \A n : Nth(n)' = Nth(n)
  BY <1>2 DEF Nth
<1> QED BY <1>2, <1>5, <1>6, <1>7

(* A clock of a call is what WB_TB makes of it where it waits.              *)
LEMMA Dispatch ==
    ASSUME NEW o, Proceed(FALSE, o)
    PROVE  /\ Latch(o) /\ call' = call /\ pc # "ready"
           /\ pc \in {"accept", "wait"} /\ call.op = "readio" => AwaitData(o)
           /\ pc \in {"accept", "wait"} /\ call.op = "writeio" => AwaitAck(o)
           /\ pc = "settle" => Settle(o)
           /\ pc = "release" => Release(o)
           /\ pc = "v_issue" => IssueReadv(FALSE, o)
           /\ pc = "v_collect" => AwaitReadv(o)
           /\ pc = "sleep" => Sleep(o)
BY DEF Proceed, Stall, AwaitData, AwaitAck, Settle, Release, AwaitBus, IssueReadv,
       AwaitReadv, IssueWritev, AwaitWritev, Idle, Sleep

(* A clock leaves the software's own variables alone.                      *)
LEMMA SoftwareStill ==
    ASSUME HostClock
    PROVE  /\ CoreClock /\ Proceed(FALSE, o_wb')
           /\ at' = at /\ m_vector_read' = m_vector_read /\ m_scoplen' = m_scoplen
           /\ m_holdoff' = m_holdoff /\ m_data' = m_data
BY DEF HostClock, scopeVars

LEMMA TypeKept ==
    ASSUME HostType, HostClock, PinsType', answers' \in Seq(Answer),
           errcount' \in Nat, cnt' \in Nat, m_bomb' = m_bomb
    PROVE  HostType'
BY SoftwareStill DEF HostType

LEMMA ReleasedPins == i_wb' = Released => PinsType' /\ ~i_wb'.cyc /\ ~i_wb'.stb
BY DEF Released, PinsType

(* The strobe goes, and the rest of the request stays.                     *)
LEMMA DroppedStrobe ==
    ASSUME PinsType, i_wb' = [i_wb EXCEPT !.stb = FALSE]
    PROVE  /\ PinsType' /\ ~i_wb'.stb /\ i_wb'.cyc = i_wb.cyc /\ i_wb'.we = i_wb.we
           /\ i_wb'.addr = i_wb.addr /\ i_wb'.data = i_wb.data
BY DEF PinsType

-----------------------------------------------------------------------------
(* The restart: its request is taken, answered on the second clock, and     *)
(* has completed when the bus is released.                                 *)
LEMMA ArmAcceptTick ==
    ASSUME Readable, OneClockInv, HostType, HostClock, pc = "accept", ArmAccept
    PROVE  HostType' /\ pc' = "wait" /\ ArmWait'
<1>1. /\ i_wb.cyc /\ i_wb.stb /\ i_wb.we /\ i_wb.addr = 0 /\ i_wb.data \in Settings
      /\ ~br_pre_wb_ack /\ errcount = 0 /\ at = "arming" /\ call.op = "writeio"
      /\ m_data = <<>>
  BY DEF ArmAccept, Arming, Writes, Asked
<1>2. Writing /\ WritesRestart
  BY <1>1 DEF Writing, WritesRestart
<1>3. PinsType /\ CoreClock /\ Proceed(FALSE, o_wb')
  BY SoftwareStill DEF HostType
<1>4. /\ raddr' = 0 /\ read_address' = "control" /\ br_pre_wb_ack' = TRUE
      /\ ~o_wb'.ack
  BY <1>1, <1>2, <1>3, CoreTick
<1>5. AwaitAck(o_wb') /\ call' = call
  BY <1>1, <1>3, Dispatch
<1>6. /\ errcount' = 1 /\ pc' = "wait" /\ i_wb' = [i_wb EXCEPT !.stb = FALSE]
      /\ cnt' = cnt /\ answers' = answers /\ m_bomb' = m_bomb
  BY <1>1, <1>4, <1>5, BombAssumption, SMT DEF AwaitAck, Spin, NoBomb
<1>7. HostType'
  BY <1>3, <1>6, TypeKept, DroppedStrobe DEF HostType
<1>8. ArmWait'
  BY <1>1, <1>3, <1>4, <1>5, <1>6, DroppedStrobe, SoftwareStill
  DEF ArmWait, Arming, Writes, Taken
<1> QED BY <1>6, <1>7, <1>8

LEMMA ArmWaitTick ==
    ASSUME Readable, OneClockInv, HostType, HostClock, pc = "wait", ArmWait
    PROVE  HostType' /\ pc' = "settle" /\ ArmSettle'
<1>1. /\ i_wb.cyc /\ ~i_wb.stb /\ i_wb.we /\ i_wb.addr = 0 /\ i_wb.data \in Settings
      /\ br_pre_wb_ack /\ errcount = 1 /\ at = "arming" /\ call.op = "writeio"
      /\ m_data = <<>> /\ raddr = 0
  BY DEF ArmWait, Arming, Writes, Taken
<1>2. ~Writing /\ ~ReadingData /\ WritesRestart
  BY <1>1 DEF Writing, ReadingData, WritesRestart
<1>3. PinsType /\ CoreClock /\ Proceed(FALSE, o_wb')
  BY SoftwareStill DEF HostType
<1>4. raddr' = 0 /\ ~bw_reset_request' /\ br_pre_wb_ack' = i_wb.stb /\ o_wb'.ack
  BY <1>1, <1>2, <1>3, CoreTick
<1>5. AwaitAck(o_wb') /\ call' = call
  BY <1>1, <1>3, Dispatch
<1>6. /\ errcount' = 2 /\ pc' = "settle" /\ i_wb' = [i_wb EXCEPT !.stb = FALSE]
      /\ cnt' = cnt /\ answers' = answers /\ m_bomb' = m_bomb
  BY <1>1, <1>4, <1>5, BombAssumption, SMT DEF AwaitAck, Spin, NoBomb
<1>7. HostType'
  BY <1>3, <1>6, TypeKept, DroppedStrobe DEF HostType
<1>8. ArmSettle'
  BY <1>1, <1>3, <1>4, <1>5, <1>6, DroppedStrobe, SoftwareStill
  DEF ArmSettle, Arming, Writes, Quiet
<1> QED BY <1>6, <1>7, <1>8

LEMMA ArmSettleTick ==
    ASSUME Readable, OneClockInv, HostType, HostClock, pc = "settle", ArmSettle
    PROVE  HostType' /\ pc' = "release" /\ call'.op # "wait" /\ Returned'
<1>1. /\ ~i_wb.stb /\ errcount = 2 /\ at = "arming" /\ call.op = "writeio"
      /\ m_data = <<>> /\ Quiet
  BY DEF ArmSettle, Arming
<1>2. ~Writing /\ ~ReadingData /\ WritesRestart
  BY <1>1 DEF Writing, ReadingData, WritesRestart
<1>3. PinsType /\ CoreClock /\ Proceed(FALSE, o_wb')
  BY SoftwareStill DEF HostType
<1>4. raddr' = 0 /\ ~bw_reset_request' /\ br_pre_wb_ack' = i_wb.stb
  BY <1>1, <1>2, <1>3, CoreTick DEF Quiet
<1>5. Settle(o_wb') /\ call' = call
  BY <1>3, Dispatch
<1>6. ~(errcount >= BOMBCOUNT)
  BY <1>1, BombAssumption, SMT DEF Readable
<1>7. /\ errcount' = errcount /\ pc' = "release" /\ i_wb' = Released
      /\ cnt' = cnt /\ answers' = answers /\ ~m_bomb'
  BY <1>5, <1>6 DEF Settle, Bomb, HostType
<1>8. HostType'
  BY <1>3, <1>7, ReleasedPins, SoftwareStill DEF HostType
<1>9. OffBus' /\ Quiet' /\ at' = "arming" /\ m_data' = <<>>
  BY <1>1, <1>4, <1>7, ReleasedPins, SoftwareStill DEF OffBus, Quiet
<1> QED BY <1>1, <1>5, <1>7, <1>8, <1>9 DEF Returned, AtRest

-----------------------------------------------------------------------------
(* The read of the status.                                                 *)
LEMMA AskingKept ==
    ASSUME OneClockInv, HostType, HostClock, AskingStatus, WritesRestart, ~Writing
    PROVE  AskingStatus'
<1>1. PinsType /\ CoreClock
  BY SoftwareStill DEF HostType
<1>2. Over => Over'
  BY <1>1, OverClock
<1> QED BY <1>2, SoftwareStill DEF AskingStatus

LEMMA StatusAcceptTick ==
    ASSUME Readable, OneClockInv, HostType, HostClock, pc = "accept", StatusAccept
    PROVE  HostType' /\ pc' = "wait" /\ StatusWait'
<1>1. /\ i_wb.cyc /\ i_wb.stb /\ ~i_wb.we /\ i_wb.addr = 0
      /\ ~br_pre_wb_ack /\ errcount = 0 /\ call.op = "readio" /\ AskingStatus /\ Fresh
  BY DEF StatusAccept, Status, Reads, Asked
<1>2. ~Writing /\ ~ReadingData /\ WritesRestart
  BY <1>1 DEF Writing, ReadingData, WritesRestart
<1>3. PinsType /\ CoreClock /\ Proceed(FALSE, o_wb')
  BY SoftwareStill DEF HostType
<1>4. /\ raddr' = 0 /\ ~bw_reset_request' /\ read_address' = "control"
      /\ br_pre_wb_ack' = i_wb.stb /\ ~o_wb'.ack
  BY <1>1, <1>2, <1>3, CoreTick DEF Fresh
<1>5. AwaitData(o_wb') /\ call' = call
  BY <1>1, <1>3, Dispatch
<1>6. /\ errcount' = 1 /\ pc' = "wait" /\ i_wb' = [i_wb EXCEPT !.stb = FALSE]
      /\ cnt' = cnt /\ answers' = answers /\ m_bomb' = m_bomb
  BY <1>1, <1>4, <1>5, BombAssumption, SMT DEF AwaitData, Spin, NoBomb
<1>7. HostType'
  BY <1>3, <1>6, TypeKept, DroppedStrobe DEF HostType
<1>8. AskingStatus'
  BY <1>1, <1>2, AskingKept
<1>9. StatusWait'
  BY <1>1, <1>3, <1>4, <1>5, <1>6, <1>8, DroppedStrobe
  DEF StatusWait, Status, Reads, Taken, Quiet
<1> QED BY <1>6, <1>7, <1>9

LEMMA StatusWaitTick ==
    ASSUME Readable, OneClockInv, HostType, HostClock, pc = "wait", StatusWait
    PROVE  HostType' /\ pc' = "release" /\ call'.op # "wait" /\ Returned'
<1>1. /\ i_wb.cyc /\ ~i_wb.stb /\ ~i_wb.we /\ i_wb.addr = 0 /\ br_pre_wb_ack
      /\ read_address = "control" /\ errcount = 1 /\ call.op = "readio"
      /\ AskingStatus /\ raddr = 0 /\ ~bw_reset_request
  BY DEF StatusWait, Status, Reads, Taken, Quiet
<1>2. ~Writing /\ ~ReadingData /\ WritesRestart
  BY <1>1 DEF Writing, ReadingData, WritesRestart
<1>3. PinsType /\ CoreClock /\ Proceed(FALSE, o_wb')
  BY SoftwareStill DEF HostType
<1>4. /\ raddr' = 0 /\ ~bw_reset_request' /\ br_pre_wb_ack' = i_wb.stb /\ o_wb'.ack
      /\ br_holdoff' = br_holdoff /\ o_bus_data' \in Answer
      /\ o_wb'.data = StatusWord(dr_stopped, dr_triggered, dr_primed)
      /\ o_wb'.data = o_bus_data'
  BY <1>1, <1>2, <1>3, CoreTick
<1>5. AwaitData(o_wb') /\ call' = call
  BY <1>1, <1>3, Dispatch
<1>6. errcount' = 2 /\ ~(errcount' >= BOMBCOUNT) /\ errcount' \in Nat
  BY <1>1, <1>5, BombAssumption, SMT DEF AwaitData, Spin, Readable
<1>7. pc' = "release"
  BY <1>4, <1>5 DEF AwaitData, Spin
<1>8. i_wb' = Released /\ cnt' = cnt /\ answers' = <<o_wb'.data>> /\ ~m_bomb'
  BY <1>4, <1>5, <1>6, <1>7 DEF AwaitData, Bomb, HostType
<1>9. Len(answers') = 1 /\ answers'[1] = o_wb'.data /\ answers' \in Seq(Answer)
  BY <1>4, <1>8
<1>10. HostType'
  BY <1>3, <1>6, <1>8, <1>9, ReleasedPins, SoftwareStill DEF HostType
<1>11. OffBus' /\ Quiet' /\ AskingStatus'
  BY <1>1, <1>2, <1>4, <1>8, ReleasedPins, AskingKept DEF OffBus, Quiet
<1>12. /\ v'.kind = "status" /\ v'.holdoff = br_holdoff' /\ v'.stopped = dr_stopped
  BY <1>4, <1>9 DEF StatusWord, v
<1>13. v'.stopped => Over' /\ Fetched'
  BY <1>1, <1>2, <1>3, <1>12, OverClock DEF Over
<1>14. at' = "scoplen" => v'.stopped
  BY <1>1, <1>12, SoftwareStill DEF AskingStatus, Over
<1>15. StatusRead'
  BY <1>9, <1>11, <1>12, <1>13, <1>14 DEF StatusRead
<1> QED BY <1>1, <1>5, <1>7, <1>10, <1>15 DEF Returned

-----------------------------------------------------------------------------
(* The read of one word of the memory.                                     *)
LEMMA ReadingKept ==
    ASSUME OneClockInv, HostType, HostClock, WritesRestart, ~Writing,
           NEW n, Reading(n)
    PROVE  /\ Reading(n)' /\ Over' /\ Fetched'
           /\ raddr' = IF ReadingData THEN NextAddress(raddr) ELSE raddr
           /\ nxt_mem' = Nth(raddr)
           /\ mem' = mem /\ waddr' = waddr
<1>1. PinsType /\ CoreClock
  BY SoftwareStill DEF HostType
<1>2. Over /\ Fetched /\ Holds(m_data, n)
  BY DEF Reading
<1>3. /\ Over' /\ Fetched' /\ br_holdoff' = br_holdoff
      /\ raddr' = IF ReadingData THEN NextAddress(raddr) ELSE raddr
      /\ nxt_mem' = Nth(raddr) /\ mem' = mem /\ waddr' = waddr
      /\ \A k : Nth(k)' = Nth(k)
  BY <1>1, <1>2, OverClock
<1>4. Holds(m_data, n)'
  BY <1>2, <1>3, SoftwareStill DEF Holds
<1> QED BY <1>3, <1>4, SoftwareStill DEF Reading

LEMMA ComeNext ==
    ASSUME NEW n \in 0 .. MEMLEN - 1
    PROVE  Come(n) = n /\ NextAddress(n) = Come(n + 1)
BY CaptureAssumption, SMT DEF Come, NextAddress

LEMMA WordAcceptTick ==
    ASSUME Readable, OneClockInv, HostType, HostClock, pc = "accept", WordAccept
    PROVE  HostType' /\ pc' = "wait" /\ WordWait'
<1>1. /\ i_wb.cyc /\ i_wb.stb /\ ~i_wb.we /\ i_wb.addr = 1 /\ ~br_pre_wb_ack
      /\ errcount = 0 /\ call.op = "readio" /\ at = "reading" /\ ~m_vector_read
      /\ Reading(Len(m_data)) /\ raddr = Len(m_data)
  BY DEF WordAccept, OneWord, Reads, Asked
<1>2. ~Writing /\ ReadingData /\ WritesRestart
  BY <1>1 DEF Writing, ReadingData, WritesRestart
<1>3. PinsType /\ CoreClock /\ Proceed(FALSE, o_wb')
  BY SoftwareStill DEF HostType
<1>4. read_address' = "data" /\ br_pre_wb_ack' = i_wb.stb /\ ~o_wb'.ack
  BY <1>1, <1>2, <1>3, CoreTick
<1>5. AwaitData(o_wb') /\ call' = call
  BY <1>1, <1>3, Dispatch
<1>6. /\ errcount' = 1 /\ pc' = "wait" /\ i_wb' = [i_wb EXCEPT !.stb = FALSE]
      /\ cnt' = cnt /\ answers' = answers /\ m_bomb' = m_bomb
  BY <1>1, <1>4, <1>5, BombAssumption, SMT DEF AwaitData, Spin, NoBomb
<1>7. HostType'
  BY <1>3, <1>6, TypeKept, DroppedStrobe DEF HostType
<1>8. PICK n : n = Len(m_data)
  OBVIOUS
<1>9. /\ Reading(n)' /\ raddr' = NextAddress(n) /\ nxt_mem' = Nth(n)
      /\ mem' = mem /\ waddr' = waddr /\ Len(m_data') = n
      /\ n \in 0 .. MEMLEN - 1
  BY <1>1, <1>2, <1>8, ReadingKept, SoftwareStill DEF Reading
<1>a. Reading(Len(m_data))'
  BY <1>9 DEF Reading
<1>b. raddr' = Come(Len(m_data') + 1)
  BY <1>9, ComeNext
<1>c. nxt_mem' = Nth(Len(m_data))'
  BY <1>9 DEF Nth
<1>10. WordWait'
  BY <1>1, <1>3, <1>4, <1>5, <1>6, <1>a, <1>b, <1>c, DroppedStrobe, SoftwareStill
  DEF WordWait, OneWord, Reads, Taken
<1> QED BY <1>6, <1>7, <1>10

LEMMA WordWaitTick ==
    ASSUME Readable, OneClockInv, HostType, HostClock, pc = "wait", WordWait
    PROVE  HostType' /\ pc' = "release" /\ call'.op # "wait" /\ Returned'
<1>1. /\ i_wb.cyc /\ ~i_wb.stb /\ ~i_wb.we /\ i_wb.addr = 1 /\ br_pre_wb_ack
      /\ read_address = "data" /\ errcount = 1 /\ call.op = "readio"
      /\ at = "reading" /\ ~m_vector_read /\ Reading(Len(m_data))
      /\ raddr = Come(Len(m_data) + 1) /\ nxt_mem = Nth(Len(m_data))
  BY DEF WordWait, OneWord, Reads, Taken
<1>2. ~Writing /\ ~ReadingData /\ WritesRestart
  BY <1>1 DEF Writing, ReadingData, WritesRestart
<1>3. PinsType /\ CoreClock /\ Proceed(FALSE, o_wb')
  BY SoftwareStill DEF HostType
<1>4. /\ br_pre_wb_ack' = i_wb.stb /\ o_wb'.ack /\ o_bus_data' \in Answer
      /\ o_wb'.data = o_bus_data'
      /\ dr_stopped => o_bus_data' = [kind |-> "data", word |-> nxt_mem]
  BY <1>1, <1>2, <1>3, CoreTick
<1>5. AwaitData(o_wb') /\ call' = call
  BY <1>1, <1>3, Dispatch
<1>6. errcount' = 2 /\ ~(errcount' >= BOMBCOUNT) /\ errcount' \in Nat
  BY <1>1, <1>5, BombAssumption, SMT DEF AwaitData, Spin, Readable
<1>7. pc' = "release"
  BY <1>4, <1>5 DEF AwaitData, Spin
<1>8. i_wb' = Released /\ cnt' = cnt /\ answers' = <<o_wb'.data>> /\ ~m_bomb'
  BY <1>4, <1>5, <1>6, <1>7 DEF AwaitData, Bomb, HostType
<1>9. Len(answers') = 1 /\ answers'[1] = o_wb'.data /\ answers' \in Seq(Answer)
  BY <1>4, <1>8
<1>10. HostType'
  BY <1>3, <1>6, <1>8, <1>9, ReleasedPins, SoftwareStill DEF HostType
<1>11. PICK n : n = Len(m_data)
  OBVIOUS
<1>12. /\ Reading(n)' /\ raddr' = raddr /\ mem' = mem /\ waddr' = waddr
       /\ Len(m_data') = n
  BY <1>1, <1>2, <1>11, ReadingKept, SoftwareStill DEF Reading
<1>13. Reading(Len(m_data))'
  BY <1>12
<1>14. v'.word = Nth(Len(m_data))'
  <2>1. dr_stopped
    BY <1>1 DEF Reading, Over
  <2>2. v'.word = Nth(n)
    BY <1>1, <1>4, <1>9, <1>11, <2>1 DEF v
  <2> QED BY <1>12, <2>2 DEF Nth
<1>15. raddr' = Come(Len(m_data') + 1)
  BY <1>1, <1>11, <1>12
<1>16. OffBus'
  BY <1>1, <1>4, <1>8, ReleasedPins DEF OffBus
<1>17. WordRead'
  BY <1>1, <1>9, <1>13, <1>14, <1>15, <1>16, SoftwareStill DEF WordRead
<1> QED BY <1>1, <1>5, <1>7, <1>10, <1>17 DEF Returned

-----------------------------------------------------------------------------
(* The clock off the bus that ends a call keeps what it returned.           *)
LEMMA ReturnedTick ==
    ASSUME Readable, OneClockInv, HostType, HostClock, pc = "release", Returned
    PROVE  HostType' /\ pc' = "ready" /\ Returned'
<1>1. OffBus
  BY DEF Returned, AtRest, StatusRead, WordRead, VectorRead
<1>2. ~i_wb.stb /\ ~br_pre_wb_ack
  BY <1>1 DEF OffBus
<1>3. ~Writing /\ ~ReadingData /\ WritesRestart
  BY <1>2 DEF Writing, ReadingData, WritesRestart
<1>4. PinsType /\ CoreClock /\ Proceed(FALSE, o_wb')
  BY SoftwareStill DEF HostType
<1>5. /\ ~o_wb'.ack /\ ~o_wb'.stall /\ br_pre_wb_ack' = i_wb.stb
      /\ br_holdoff' = br_holdoff
      /\ bw_reset_request' => bw_reset_request
      /\ raddr' = IF bw_reset_request \/ Writing THEN 0
                  ELSE IF ReadingData /\ dr_stopped THEN NextAddress(raddr) ELSE raddr
      /\ bw_reset_request' <=> ~bw_reset_request /\ Writing
  BY <1>2, <1>3, <1>4, CoreTick
<1>6. Release(o_wb') /\ call' = call
  BY <1>4, Dispatch
<1>7. /\ pc' = "ready" /\ i_wb' = i_wb /\ errcount' = errcount /\ cnt' = cnt
      /\ answers' = answers /\ m_bomb' = m_bomb
  BY <1>5, <1>6 DEF Release, Returning, NoBomb
<1>8. HostType'
  BY <1>4, <1>7, TypeKept DEF HostType, PinsType
<1>9. OffBus' /\ (Quiet => Quiet')
  <2>1. Quiet => Quiet'
    BY <1>3, <1>5 DEF Quiet
  <2> QED BY <1>1, <1>2, <1>5, <1>7, <2>1 DEF OffBus
<1>10. CASE at = "arming" /\ AtRest
  BY <1>7, <1>8, <1>9, <1>10, SoftwareStill DEF AtRest, Returned
<1>11. CASE StatusRead
  <2>1. AskingStatus'
    BY <1>3, <1>11, AskingKept DEF StatusRead
  <2>2. v' = v /\ Len(answers') = Len(answers)
    BY <1>7 DEF v
  <2>3. Over => Over' /\ Fetched'
    BY <1>3, <1>4, OverClock
  <2>5. /\ OffBus /\ Quiet /\ Len(answers) = 1 /\ v.kind = "status"
        /\ v.holdoff = br_holdoff
        /\ v.stopped => Over /\ Fetched
        /\ at = "scoplen" => v.stopped
    BY <1>11 DEF StatusRead
  <2>6. v'.stopped <=> v.stopped
    BY <2>2
  <2>7. v'.stopped => Over' /\ Fetched'
    BY <2>3, <2>5, <2>6
  <2>8. at' = "scoplen" => v'.stopped
    BY <2>5, <2>6, SoftwareStill
  <2>9. v'.kind = "status" /\ v'.holdoff = br_holdoff'
    BY <1>5, <2>2, <2>5
  <2>4. StatusRead'
    BY <1>9, <2>1, <2>2, <2>5, <2>7, <2>8, <2>9 DEF StatusRead
  <2> QED BY <1>7, <1>8, <2>4 DEF Returned
<1>12. CASE WordRead
  <2>1. PICK n : n = Len(m_data)
    OBVIOUS
  <2>2. /\ Reading(n)' /\ raddr' = raddr /\ mem' = mem /\ waddr' = waddr
        /\ Len(m_data') = n
    BY <1>3, <1>12, <2>1, ReadingKept, SoftwareStill DEF WordRead
  <2>3. v' = v /\ Len(answers') = Len(answers)
    BY <1>7 DEF v
  <2>4. Nth(Len(m_data))' = Nth(Len(m_data))
    BY <2>1, <2>2 DEF Nth
  <2>5. Reading(Len(m_data))' /\ raddr' = Come(Len(m_data') + 1)
    BY <1>12, <2>1, <2>2 DEF WordRead
  <2>6. v'.word = Nth(Len(m_data))'
    BY <1>12, <2>3, <2>4 DEF WordRead
  <2>7. WordRead'
    BY <1>9, <1>12, <2>3, <2>5, <2>6, SoftwareStill DEF WordRead
  <2> QED BY <1>7, <1>8, <2>7 DEF Returned
<1>13. CASE VectorRead
  <2>1. Reading(0)' /\ raddr' = raddr /\ mem' = mem /\ waddr' = waddr
    BY <1>3, <1>13, ReadingKept DEF VectorRead
  <2>2. Holds(answers, MEMLEN)'
    BY <1>7, <1>13, <2>1 DEF VectorRead, Holds, Nth
  <2>3. VectorRead'
    BY <1>9, <1>13, <2>1, <2>2, SoftwareStill DEF VectorRead
  <2> QED BY <1>7, <1>8, <2>3 DEF Returned
<1> QED BY <1>7, <1>8, <1>10, <1>11, <1>12, <1>13 DEF Returned

(* wait(): the interrupt comes with the stop.                              *)
LEMMA SleepingTick ==
    ASSUME Readable, OneClockInv, HostType, HostClock, pc = "sleep", Sleeping
    PROVE  HostType' /\ ((pc' = "sleep" /\ Sleeping') \/ (pc' = "ready" /\ Noticed'))
<1>1. /\ ~i_wb.stb /\ ~br_pre_wb_ack /\ ~i_wb.cyc /\ Quiet /\ m_data = <<>>
      /\ m_interrupt => dr_stopped
      /\ at = "waiting" /\ call.op = "wait"
  BY DEF Sleeping, OffBus
<1>2. ~Writing /\ ~ReadingData /\ WritesRestart
  BY <1>1 DEF Writing, ReadingData, WritesRestart
<1>3. PinsType /\ CoreClock /\ Proceed(FALSE, o_wb')
  BY SoftwareStill DEF HostType
<1>4. /\ br_pre_wb_ack' = i_wb.stb /\ raddr' = 0 /\ ~bw_reset_request'
      /\ o_wb'.interrupt => dr_stopped'
  BY <1>1, <1>2, <1>3, CoreTick DEF Quiet
<1>5. dr_stopped => dr_stopped'
  BY <1>1, <1>2, <1>3, OverClock DEF Over, Quiet
<1>6. Sleep(o_wb') /\ call' = call /\ Latch(o_wb')
  BY <1>3, Dispatch
<1>7. /\ i_wb' = i_wb /\ errcount' = errcount /\ cnt' = cnt
      /\ answers' = answers /\ m_bomb' = m_bomb
      /\ \/ pc' = "ready" /\ poll(o_wb')
         \/ pc' = "sleep"
      /\ m_interrupt' => poll(o_wb')
  BY <1>1, <1>6 DEF Sleep, NoBomb, Latch, poll
<1>8. HostType'
  BY <1>3, <1>7, TypeKept DEF HostType, PinsType
<1>9. poll(o_wb') => dr_stopped'
  BY <1>1, <1>4, <1>5 DEF poll
<1>10. OffBus' /\ Quiet' /\ at' = "waiting" /\ m_data' = <<>> /\ call'.op = "wait"
  BY <1>1, <1>4, <1>6, <1>7, SoftwareStill DEF OffBus, Quiet
<1> QED BY <1>7, <1>8, <1>9, <1>10 DEF Sleeping, Noticed

-----------------------------------------------------------------------------
(* The vector read.  A clock brings the answer to the request of the clock  *)
(* before the last.                                                        *)
LEMMA VectorClock ==
    ASSUME Readable, OneClockInv, HostType, HostClock, Vector, Got(o_wb'), cnt <= MEMLEN
    PROVE  /\ ~o_wb'.ack <=> ~br_pre_wb_ack
           /\ answers' \in Seq(Answer) /\ Len(answers') = cnt
           /\ \A i \in 1 .. cnt : answers'[i].word = Nth(i - 1)
           /\ Reading(0)' /\ mem' = mem /\ waddr' = waddr
           /\ br_pre_wb_ack' = i_wb.stb /\ read_address' = "data"
           /\ nxt_mem' = Nth(raddr)
           /\ raddr' = IF i_wb.stb THEN NextAddress(raddr) ELSE raddr
<1>1. /\ i_wb.cyc /\ ~i_wb.we /\ i_wb.addr = 1 /\ Reading(0)
      /\ br_pre_wb_ack => /\ read_address = "data" /\ cnt > 0
                          /\ nxt_mem = Nth(cnt - 1) /\ Holds(answers, cnt - 1)
      /\ ~br_pre_wb_ack => Holds(answers, cnt)
  BY DEF Vector, Reads
<1>2. ~Writing /\ (ReadingData <=> i_wb.stb) /\ WritesRestart
  BY <1>1 DEF Writing, ReadingData, WritesRestart
<1>3. PinsType /\ CoreClock /\ i_wb.stb \in BOOLEAN
  BY SoftwareStill, PinsFields DEF HostType
<1>4. /\ o_wb'.ack <=> br_pre_wb_ack /\ i_wb.cyc
      /\ o_bus_data' \in Answer /\ o_wb'.data = o_bus_data'
      /\ read_address = "data" /\ dr_stopped =>
           o_bus_data' = [kind |-> "data", word |-> nxt_mem]
      /\ br_pre_wb_ack' = i_wb.stb
      /\ read_address' = IF i_wb.addr % 2 = 0 THEN "control" ELSE "data"
  BY <1>2, <1>3, CoreTick
<1>5. /\ Reading(0)' /\ nxt_mem' = Nth(raddr) /\ mem' = mem /\ waddr' = waddr
      /\ raddr' = IF i_wb.stb THEN NextAddress(raddr) ELSE raddr
  BY <1>1, <1>2, ReadingKept
<1>6. read_address' = "data" /\ (o_wb'.ack <=> br_pre_wb_ack)
  BY <1>1, <1>4
<1>7. cnt \in Nat /\ answers \in Seq(Answer)
  BY DEF HostType
<1>8. /\ answers' \in Seq(Answer) /\ Len(answers') = cnt
      /\ \A i \in 1 .. cnt : answers'[i].word = Nth(i - 1)
  <2>1. CASE ~br_pre_wb_ack
    <3>1. answers' = answers
      BY <1>6, <2>1 DEF Got
    <3> QED BY <1>1, <1>7, <2>1, <3>1 DEF Holds
  <2>2. CASE br_pre_wb_ack
    <3>1. answers' = Append(answers, o_bus_data')
      BY <1>4, <1>6, <2>2 DEF Got
    <3>2. o_bus_data'.word = Nth(cnt - 1)
      BY <1>1, <1>4, <2>2 DEF Reading, Over
    <3>3. /\ Len(answers) = cnt - 1 /\ cnt > 0
          /\ \A i \in 1 .. cnt - 1 : answers[i].word = Nth(i - 1)
      BY <1>1, <2>2 DEF Holds
    <3>4. /\ answers' \in Seq(Answer) /\ Len(answers') = cnt
          /\ answers'[cnt] = o_bus_data'
          /\ \A i \in 1 .. cnt - 1 : answers'[i] = answers[i]
      BY <1>4, <1>7, <3>1, <3>3, SMT
    <3>5. ASSUME NEW i \in 1 .. cnt PROVE answers'[i].word = Nth(i - 1)
      <4>1. CASE i = cnt
        BY <3>2, <3>4, <4>1
      <4>2. CASE i # cnt
        <5>1. i \in 1 .. cnt - 1
          BY <1>7, <4>2, SMT
        <5> QED BY <3>3, <3>4, <5>1
      <4> QED BY <4>1, <4>2
    <3> QED BY <3>4, <3>5
  <2> QED BY <2>1, <2>2
<1> QED BY <1>4, <1>5, <1>6, <1>8

(* What a vector read waits for the bus is more than it takes.             *)
LEMMA BombsLate ==
    ASSUME Readable, call.len = MEMLEN, NEW n \in Nat, n <= 2 * MEMLEN
    PROVE  n < THISBOMBCOUNT
<1>1. MEMLEN \in Nat /\ BOMBCOUNT \in Nat /\ MEMLEN > 4 /\ BOMBCOUNT >= 3
  BY CaptureAssumption, BombAssumption DEF Readable
<1>2. BOMBCOUNT * MEMLEN >= 3 * MEMLEN
  BY <1>1, SMT
<1>3. 3 * MEMLEN > n
  BY <1>1, SMT
<1>4. BOMBCOUNT * MEMLEN \in Int /\ 3 * MEMLEN \in Int
  BY <1>1, SMT
<1> QED BY <1>2, <1>3, <1>4, SMT DEF THISBOMBCOUNT

LEMMA VectorIssueTick ==
    ASSUME Readable, OneClockInv, HostType, HostClock, pc = "v_issue", VectorIssue
    PROVE  HostType' /\ ((pc' = "v_issue" /\ VectorIssue') \/ (pc' = "v_collect" /\ VectorCollect'))
<1>1. /\ i_wb.cyc /\ ~i_wb.we /\ i_wb.addr = 1 /\ Reading(0) /\ raddr = Come(cnt)
      /\ at = "reading" /\ m_vector_read
      /\ call.op = "readv" /\ call.len = MEMLEN /\ ~call.inc
      /\ cnt < MEMLEN
      /\ i_wb.stb => errcount <= 2 * cnt
      /\ ~i_wb.stb => errcount < 2 * cnt
      /\ Vector
  BY DEF VectorIssue, Vector, Reads
<1>2. cnt \in Nat /\ errcount \in Nat /\ MEMLEN \in Nat /\ MEMLEN > 4
  BY CaptureAssumption DEF HostType, Readable
<1>3. PinsType /\ CoreClock /\ Proceed(FALSE, o_wb') /\ i_wb.stb \in BOOLEAN
  BY SoftwareStill, PinsFields DEF HostType
<1>4. IssueReadv(FALSE, o_wb') /\ call' = call
  BY <1>3, Dispatch
<1>5. Got(o_wb') /\ cnt' = cnt + (IF i_wb.stb THEN 1 ELSE 0)
  BY <1>4 DEF IssueReadv, taken
<1>6. cnt <= MEMLEN /\ cnt \in 0 .. MEMLEN - 1
  BY <1>1, <1>2, SMT
<1>7. /\ answers' \in Seq(Answer) /\ Len(answers') = cnt
      /\ \A i \in 1 .. cnt : answers'[i].word = Nth(i - 1)
      /\ Reading(0)' /\ mem' = mem /\ waddr' = waddr
      /\ br_pre_wb_ack' = i_wb.stb /\ read_address' = "data"
      /\ nxt_mem' = Nth(raddr)
      /\ raddr' = IF i_wb.stb THEN NextAddress(raddr) ELSE raddr
  BY <1>1, <1>5, <1>6, VectorClock
<1>8. raddr' = Come(cnt') /\ nxt_mem' = Nth(cnt)
  BY <1>1, <1>5, <1>6, <1>7, ComeNext
<1>9. errcount <= 2 * MEMLEN /\ errcount + 1 <= 2 * MEMLEN
  <2>1. errcount <= 2 * cnt
    BY <1>1, <1>2, SMT
  <2> QED BY <1>1, <1>2, <2>1, SMT
<1>10. errcount < THISBOMBCOUNT
  BY <1>1, <1>2, <1>9, BombsLate
<1>12. cnt' \in Nat /\ cnt' <= MEMLEN
  BY <1>1, <1>2, <1>5, SMT
<1>13. IF br_pre_wb_ack'
       THEN /\ read_address' = "data" /\ cnt' > 0 /\ nxt_mem' = Nth(cnt - 1)'
            /\ Holds(answers, cnt - 1)'
       ELSE Holds(answers, cnt)'
  <2>1. CASE i_wb.stb
    <3>1. cnt' - 1 = cnt /\ cnt' > 0
      BY <1>2, <1>5, <2>1, SMT
    <3>2. nxt_mem' = Nth(cnt - 1)'
      BY <1>7, <1>8, <3>1 DEF Nth
    <3>3. Holds(answers, cnt - 1)'
      BY <1>7, <3>1 DEF Holds, Nth
    <3> QED BY <1>7, <2>1, <3>1, <3>2, <3>3
  <2>2. CASE ~i_wb.stb
    <3>1. cnt' = cnt
      BY <1>2, <1>5, <2>2, SMT
    <3> QED BY <1>7, <2>2, <3>1 DEF Holds, Nth
  <2> QED BY <2>1, <2>2
<1>14. CASE cnt' < MEMLEN
  <2>1. /\ pc' = "v_issue" /\ errcount' = errcount + 1
        /\ Strobe([i_wb EXCEPT !.addr = i_wb.addr + 0]) /\ NoBomb
    BY <1>1, <1>4, <1>5, <1>10, <1>14 DEF IssueReadv, taken
  <2>2. ~RANDOM_STROBE
    BY <1>1, HostAssumption DEF Readable, HostType
  <2>3. PICK stb \in BOOLEAN : /\ stb \/ i_wb.stb
                               /\ i_wb' = [[i_wb EXCEPT !.addr = i_wb.addr + 0] EXCEPT !.stb = stb]
    BY <2>1, <2>2 DEF Strobe
  <2>4. /\ i_wb'.cyc = i_wb.cyc /\ i_wb'.we = i_wb.we /\ i_wb'.addr = 1
        /\ i_wb'.stb = stb /\ PinsType'
    <3>1. i_wb.addr + 0 = 1 /\ i_wb.addr = 1
      BY <1>1
    <3>2. i_wb' = [[i_wb EXCEPT !.addr = 1] EXCEPT !.stb = stb]
      BY <2>3, <3>1
    <3>3. i_wb \in [cyc : BOOLEAN, stb : BOOLEAN, we : BOOLEAN, addr : Nat,
                    data : Settings \cup {NoWord}]
      BY <1>3 DEF PinsType
    <3>4. /\ i_wb'.cyc = i_wb.cyc /\ i_wb'.we = i_wb.we /\ i_wb'.addr = 1
          /\ i_wb'.stb = stb
      BY <3>2, <3>3
    <3>5. PinsType'
      BY <3>2, <3>3 DEF PinsType
    <3> QED BY <3>4, <3>5
  <2>5. HostType'
    BY <1>2, <1>7, <1>12, <2>1, <2>4, TypeKept DEF NoBomb
  <2>6. Vector'
    BY <1>1, <1>4, <1>7, <1>8, <1>13, <2>4, SoftwareStill DEF Vector, Reads
  <2>7. i_wb'.stb => errcount' <= 2 * cnt'
    <3>1. errcount + 1 <= 2 * cnt'
      <4>1. CASE i_wb.stb
        BY <1>1, <1>2, <1>5, <4>1, SMT
      <4>2. CASE ~i_wb.stb
        BY <1>1, <1>2, <1>5, <4>2, SMT
      <4> QED BY <4>1, <4>2
    <3> QED BY <2>1, <3>1
  <2>8. ~i_wb'.stb => errcount' < 2 * cnt'
    <3>1. ~i_wb'.stb => i_wb.stb
      BY <2>3, <2>4
    <3>2. i_wb.stb => errcount + 1 < 2 * cnt'
      BY <1>1, <1>2, <1>5, SMT
    <3> QED BY <2>1, <3>1, <3>2
  <2> QED BY <1>14, <2>1, <2>5, <2>6, <2>7, <2>8 DEF VectorIssue
<1>15. CASE ~(cnt' < MEMLEN)
  <2>1. i_wb.stb /\ cnt' = MEMLEN /\ cnt < MEMLEN
    BY <1>1, <1>2, <1>5, <1>12, <1>15, SMT
  <2>2. CollectReadv(errcount, o_wb')
    BY <1>1, <1>4, <1>5, <1>15 DEF IssueReadv, taken
  <2>3. Len(answers') < call.len
    BY <1>1, <1>7, <2>1
  <2>4. /\ pc' = "v_collect" /\ errcount' = errcount + 1
        /\ i_wb' = [i_wb EXCEPT !.stb = FALSE] /\ NoBomb
    BY <1>10, <2>2, <2>3 DEF CollectReadv
  <2>5. HostType'
    BY <1>2, <1>3, <1>7, <1>12, <2>4, TypeKept, DroppedStrobe DEF NoBomb
  <2>6. Vector'
    BY <1>1, <1>3, <1>4, <1>7, <1>8, <1>13, <2>4, DroppedStrobe, SoftwareStill
    DEF Vector, Reads
  <2>7. errcount' <= 2 * cnt'
    BY <1>9, <2>1, <2>4
  <2>8. ~i_wb'.stb /\ br_pre_wb_ack'
    BY <1>3, <1>7, <2>1, <2>4, DroppedStrobe
  <2> QED BY <2>1, <2>4, <2>5, <2>6, <2>7, <2>8 DEF VectorCollect
<1> QED BY <1>14, <1>15

LEMMA VectorCollectTick ==
    ASSUME Readable, OneClockInv, HostType, HostClock, pc = "v_collect", VectorCollect
    PROVE  HostType' /\ pc' = "release" /\ call'.op # "wait" /\ Returned'
<1>1. /\ Reading(0) /\ raddr = Come(cnt) /\ at = "reading" /\ m_vector_read
      /\ call.op = "readv" /\ call.len = MEMLEN
      /\ cnt = MEMLEN /\ ~i_wb.stb /\ br_pre_wb_ack /\ errcount <= 2 * cnt /\ Vector
  BY DEF VectorCollect, Vector
<1>2. cnt \in Nat /\ errcount \in Nat /\ cnt <= MEMLEN
  BY <1>1, CaptureAssumption, SMT DEF HostType
<1>3. PinsType /\ CoreClock /\ Proceed(FALSE, o_wb')
  BY SoftwareStill DEF HostType
<1>4. AwaitReadv(o_wb') /\ call' = call
  BY <1>3, Dispatch
<1>5. Got(o_wb') /\ cnt' = cnt /\ CollectReadv(errcount, o_wb')
  BY <1>4 DEF AwaitReadv
<1>6. /\ ~o_wb'.ack <=> ~br_pre_wb_ack
      /\ answers' \in Seq(Answer) /\ Len(answers') = cnt
      /\ \A i \in 1 .. cnt : answers'[i].word = Nth(i - 1)
      /\ Reading(0)' /\ mem' = mem /\ waddr' = waddr
      /\ br_pre_wb_ack' = i_wb.stb
      /\ raddr' = IF i_wb.stb THEN NextAddress(raddr) ELSE raddr
  BY <1>1, <1>2, <1>5, VectorClock
<1>7. errcount < THISBOMBCOUNT
  BY <1>1, <1>2, BombsLate
<1>8. ~(Len(answers') < call.len)
  BY <1>1, <1>2, <1>6
<1>9. errcount' = errcount /\ FinishReadv(o_wb')
  BY <1>5, <1>8 DEF CollectReadv
<1>a. ~(errcount' >= THISBOMBCOUNT)
  <2>1. THISBOMBCOUNT \in Int
    BY <1>1, CaptureAssumption, BombAssumption, SMT DEF THISBOMBCOUNT
  <2> QED BY <1>2, <1>7, <1>9, <2>1, SMT
<1>b. pc' = "release" /\ i_wb' = Released /\ ~m_bomb'
  BY <1>1, <1>6, <1>9, <1>a DEF FinishReadv, Bomb, HostType
<1>c. HostType'
  BY <1>2, <1>3, <1>5, <1>6, <1>9, <1>b, ReleasedPins, SoftwareStill DEF HostType
<1>d. OffBus' /\ raddr' = 0
  BY <1>1, <1>6, <1>b, ReleasedPins DEF OffBus, Come
<1>e. Holds(answers, MEMLEN)'
  BY <1>1, <1>6 DEF Holds, Nth
<1>f. VectorRead'
  BY <1>1, <1>6, <1>d, <1>e, SoftwareStill DEF VectorRead
<1> QED BY <1>1, <1>4, <1>b, <1>c, <1>f DEF Returned

-----------------------------------------------------------------------------
(* Every clock keeps the invariant.                                        *)
LEMMA StageWrites == StageInv => WritesRestart
<1>1. OffBus => WritesRestart
  BY DEF OffBus, WritesRestart
<1>2. Between => OffBus
  BY DEF Between, Returned, AtShell, AtRest, Noticed, BeforeRead, Written, StatusRead,
         WordRead, VectorRead
<1>3. Writes => WritesRestart
  BY DEF Writes, WritesRestart
<1>4. \A a : Reads(a) => WritesRestart
  BY DEF Reads, WritesRestart
<1>5. Returned => Between
  BY DEF Between
<1> QED BY <1>1, <1>2, <1>3, <1>4, <1>5
        DEF StageInv, ArmAccept, ArmWait, ArmSettle, Arming, StatusAccept, StatusWait,
            Status, WordAccept, WordWait, OneWord, VectorIssue, VectorCollect, Vector,
            Sleeping

LEMMA HostClockInv ==
    ASSUME Readable, HostInv, HostClock PROVE HostInv'
<1>1. OneClockInv /\ HostType /\ StageInv
  BY DEF HostInv
<1>2. OneClockInv'
  BY <1>1, StageWrites, CoreTick, SoftwareStill DEF HostType
<1>3. pc # "ready"
  BY SoftwareStill, Dispatch
<1>4. CASE pc = "release" /\ Returned /\ call.op # "wait"
  BY <1>1, <1>2, <1>4, ReturnedTick DEF HostInv, StageInv, Between
<1>5. CASE pc = "accept" /\ (ArmAccept \/ StatusAccept \/ WordAccept)
  BY <1>1, <1>2, <1>5, ArmAcceptTick, StatusAcceptTick, WordAcceptTick
  DEF HostInv, StageInv
<1>6. CASE pc = "wait" /\ (ArmWait \/ StatusWait \/ WordWait)
  BY <1>1, <1>2, <1>6, ArmWaitTick, StatusWaitTick, WordWaitTick DEF HostInv, StageInv
<1>7. CASE pc = "settle" /\ ArmSettle
  BY <1>1, <1>2, <1>7, ArmSettleTick DEF HostInv, StageInv
<1>8. CASE pc = "v_issue" /\ VectorIssue
  BY <1>1, <1>2, <1>8, VectorIssueTick DEF HostInv, StageInv
<1>9. CASE pc = "v_collect" /\ VectorCollect
  BY <1>1, <1>2, <1>9, VectorCollectTick DEF HostInv, StageInv
<1>10. CASE pc = "sleep" /\ Sleeping
  BY <1>1, <1>2, <1>10, SleepingTick DEF HostInv, StageInv, Between
<1> QED BY <1>1, <1>3, <1>4, <1>5, <1>6, <1>7, <1>8, <1>9, <1>10 DEF StageInv

-----------------------------------------------------------------------------
(* The steps of the software.  The core stands still.                      *)
LEMMA CoreStill ==
    ASSUME UNCHANGED vars
    PROVE  /\ OneClockInv => OneClockInv'
           /\ br_holdoff' = br_holdoff /\ raddr' = raddr /\ mem' = mem /\ waddr' = waddr
           /\ this_addr' = this_addr /\ dr_stopped' = dr_stopped
           /\ br_pre_wb_ack' = br_pre_wb_ack /\ read_address' = read_address
           /\ nxt_mem' = nxt_mem /\ bw_reset_request' = bw_reset_request
           /\ (Over' <=> Over) /\ (Fetched' <=> Fetched)
           /\ (Quiet' <=> Quiet) /\ (Fresh' <=> Fresh)
<1>1. OneClockInv => OneClockInv'
  BY StillRefines DEF vars
<1>2. /\ br_holdoff' = br_holdoff /\ raddr' = raddr /\ mem' = mem /\ waddr' = waddr
      /\ this_addr' = this_addr /\ dr_stopped' = dr_stopped
      /\ br_pre_wb_ack' = br_pre_wb_ack /\ read_address' = read_address
      /\ nxt_mem' = nxt_mem /\ bw_reset_request' = bw_reset_request
  BY DEF vars, captureVars, busVars, bw_reset_request
<1>3. /\ (Over' <=> Over) /\ (Fetched' <=> Fetched)
      /\ (Quiet' <=> Quiet) /\ (Fresh' <=> Fresh)
  BY <1>2 DEF Over, Fetched, Quiet, Fresh
<1> QED BY <1>1, <1>2, <1>3

(* Where the software is tells what holds there.                           *)
LEMMA AtStage ==
    ASSUME StageInv, pc = "ready"
    PROVE  /\ OffBus
           /\ at = "shell" => AtShell
           /\ at \in {"arming", "armed", "cleared", "not ready"} => AtRest
           /\ at = "waiting" => Noticed
           /\ at \in {"ready", "scoplen", "decode_control"} => StatusRead
           /\ at = "rawread" => BeforeRead
           /\ at = "reading" => WordRead \/ VectorRead
           /\ at = "written" => Written
<1>1. Between
  BY DEF StageInv
<1>2. StatusRead => at \in {"ready", "scoplen", "decode_control"}
  BY DEF StatusRead, AskingStatus
<1>3. OffBus
  BY <1>1 DEF Between, Returned, AtShell, AtRest, Noticed, BeforeRead, Written, StatusRead,
              WordRead, VectorRead
<1>4. /\ AtShell => at = "shell"
      /\ AtRest => at \in {"arming", "armed", "cleared", "not ready"}
      /\ Noticed => at = "waiting" /\ (BeforeRead => at = "rawread")
      /\ WordRead \/ VectorRead => at = "reading"
      /\ Written => at = "written"
  BY DEF AtShell, AtRest, Noticed, BeforeRead, Written, WordRead, VectorRead
<1>5. BeforeRead => at = "rawread"
  BY DEF BeforeRead
<1>6. Noticed => at = "waiting"
  BY DEF Noticed
<1> QED BY <1>1, <1>2, <1>3, <1>4, <1>5, <1>6 DEF Between, Returned

(* A single call goes out at once, the core not stalling.                   *)
LEMMA SingleCall ==
    ASSUME NEW c, c.op \in {"readio", "writeio"}, NEW method, Calls(c, o_wb, method)
    PROVE  /\ pc = "ready" /\ at' = method /\ call' = c /\ cnt' = 0 /\ answers' = <<>>
           /\ m_bomb' = m_bomb /\ i_wb' = Addressed(c) /\ pc' = "accept" /\ errcount' = 0
<1>1. BeginSingle(c, o_wb) /\ at' = method
  BY DEF Calls, Invoke, BeginReadv, BeginWritev, BeginIdle, BeginSleep
<1>2. ~o_wb.stall
  BY DEF o_wb
<1> QED BY <1>1, <1>2 DEF BeginSingle, Begin

LEMMA WritePins ==
    ASSUME NEW w \in Settings, i_wb' = Addressed(writeio(WBSCOPE, w))
    PROVE  PinsType' /\ Writes' /\ i_wb'.stb
<1>1. /\ writeio(WBSCOPE, w).words = <<w>> /\ writeio(WBSCOPE, w).a = 0
      /\ <<w>> # <<>> /\ <<w>>[1] = w
  BY DEF writeio, Calling, WBSCOPE
<1>2. 0 \div 4 = 0
  OBVIOUS
<1>3. i_wb' = [cyc |-> TRUE, stb |-> TRUE, we |-> TRUE, addr |-> 0, data |-> w]
  BY <1>1, <1>2 DEF Addressed
<1> QED BY <1>3 DEF PinsType, Writes

LEMMA ReadPins ==
    ASSUME NEW a \in {0, 1}, i_wb' = Addressed(readio(4 * a))
    PROVE  PinsType' /\ Reads(a)' /\ i_wb'.stb
<1>1. readio(4 * a).words = <<>> /\ readio(4 * a).a = 4 * a
  BY DEF readio, Calling
<1>2. (4 * a) \div 4 = a
  <2>1. a = 0 \/ a = 1
    OBVIOUS
  <2> QED BY <2>1
<1>3. i_wb' = [cyc |-> TRUE, stb |-> TRUE, we |-> FALSE, addr |-> a, data |-> NoWord]
  BY <1>1, <1>2 DEF Addressed
<1>4. a \in Nat /\ NoWord \in Settings \cup {NoWord}
  OBVIOUS
<1>5. PinsType'
  <2>1. [cyc |-> TRUE, stb |-> TRUE, we |-> FALSE, addr |-> a, data |-> NoWord]
          \in [cyc : BOOLEAN, stb : BOOLEAN, we : BOOLEAN, addr : Nat,
               data : Settings \cup {NoWord}]
    BY <1>4
  <2> QED BY <1>3, <2>1 DEF PinsType
<1>6. i_wb'.cyc /\ ~i_wb'.we /\ i_wb'.addr = a /\ i_wb'.stb
  BY <1>3
<1> QED BY <1>5, <1>6 DEF Reads

(* The software's own steps between two calls: of the restart, ...          *)
LEMMA ArmStep ==
    ASSUME Readable, HostInv, UNCHANGED vars, Arm(o_wb) PROVE HostType' /\ StageInv'
<1>1. PICK w \in Settings : Calls(writeio(WBSCOPE, w), o_wb, "arming")
  BY DEF Arm
<1>2. writeio(WBSCOPE, w).op = "writeio"
  BY DEF writeio, Calling
<1>3. /\ pc = "ready" /\ at' = "arming" /\ call' = writeio(WBSCOPE, w)
      /\ cnt' = 0 /\ answers' = <<>> /\ m_bomb' = m_bomb
      /\ i_wb' = Addressed(writeio(WBSCOPE, w)) /\ pc' = "accept" /\ errcount' = 0
  BY <1>1, <1>2, SingleCall
<1>4. PinsType' /\ Writes' /\ i_wb'.stb
  BY <1>3, WritePins
<1>5. at = "shell" /\ UNCHANGED <<m_vector_read, m_scoplen, m_holdoff, m_data>>
  BY DEF Arm
<1>6. OffBus /\ AtShell /\ HostType
  BY <1>3, <1>5, AtStage DEF HostInv
<1>7. HostType'
  BY <1>3, <1>4, <1>5, <1>6 DEF HostType
<1>8. ~br_pre_wb_ack' /\ m_data' = <<>>
  BY <1>5, <1>6, CoreStill DEF OffBus, AtShell
<1>9. ArmAccept'
  BY <1>2, <1>3, <1>4, <1>8 DEF ArmAccept, Arming, Asked
<1> QED BY <1>3, <1>7, <1>9 DEF StageInv

LEMMA ArmedStep ==
    ASSUME Readable, HostInv, UNCHANGED vars, Armed PROVE HostType' /\ StageInv'
<1>1. /\ pc = "ready" /\ at = "arming" /\ UNCHANGED tbVars /\ at' \in {"shell", "armed"}
      /\ UNCHANGED <<m_vector_read, m_scoplen, m_holdoff, m_data>>
  BY DEF Armed, Answered
<1>2. /\ pc' = pc /\ i_wb' = i_wb /\ errcount' = errcount /\ cnt' = cnt
      /\ answers' = answers /\ m_bomb' = m_bomb
  BY <1>1 DEF tbVars
<1>3. AtRest /\ HostType
  BY <1>1, AtStage DEF HostInv
<1>4. HostType'
  BY <1>1, <1>2, <1>3 DEF HostType, PinsType
<1>5. OffBus' /\ Quiet' /\ m_data' = <<>>
  BY <1>1, <1>2, <1>3, CoreStill DEF AtRest, OffBus
<1>6. Quiet' => Fresh'
  BY DEF Quiet, Fresh
<1>7. AtShell' \/ AtRest'
  BY <1>1, <1>5, <1>6 DEF AtShell, AtRest
<1> QED BY <1>1, <1>2, <1>4, <1>7 DEF StageInv, Between

(* ... the interrupt, ...                                                  *)
LEMMA ClearInterruptStep ==
    ASSUME Readable, HostInv, UNCHANGED vars, ClearInterrupt PROVE HostType' /\ StageInv'
<1>1. /\ pc = "ready" /\ pc' = pc /\ at = "armed" /\ at' = "cleared"
      /\ i_wb' = i_wb /\ errcount' = errcount /\ cnt' = cnt
      /\ answers' = answers /\ m_bomb' = m_bomb /\ ~m_interrupt'
      /\ UNCHANGED <<m_vector_read, m_scoplen, m_holdoff, m_data>>
  BY DEF ClearInterrupt, clear
<1>2. AtRest /\ HostType
  BY <1>1, AtStage DEF HostInv
<1>3. HostType'
  BY <1>1, <1>2 DEF HostType, PinsType
<1>4. OffBus' /\ Quiet' /\ m_data' = <<>>
  BY <1>1, <1>2, CoreStill DEF AtRest, OffBus
<1>5. AtRest'
  BY <1>1, <1>4 DEF AtRest
<1> QED BY <1>1, <1>3, <1>5 DEF StageInv, Between

LEMMA WaitStep ==
    ASSUME Readable, HostInv, UNCHANGED vars, Wait(o_wb) PROVE HostType' /\ StageInv'
<1>1. /\ at = "cleared" /\ at' = "waiting" /\ Invoke(wait, o_wb)
      /\ UNCHANGED <<m_vector_read, m_scoplen, m_holdoff, m_data>>
  BY DEF Wait, Calls
<1>2. wait.op = "wait" /\ wait.len = 0
  BY DEF wait, Calling
<1>3. BeginSleep(wait, o_wb)
  BY <1>1, <1>2 DEF Invoke, BeginSingle, BeginReadv, BeginWritev, BeginIdle
<1>4. /\ pc = "ready" /\ call' = wait /\ cnt' = 0 /\ answers' = <<>>
      /\ m_bomb' = m_bomb /\ m_interrupt' = m_interrupt /\ i_wb' = i_wb /\ errcount' = 0
      /\ \/ pc' = "ready" /\ poll(o_wb)
         \/ pc' = "sleep"
  BY <1>2, <1>3 DEF BeginSleep, Begin
<1>5. AtRest /\ HostType
  BY <1>1, <1>4, AtStage DEF HostInv
<1>6. HostType'
  BY <1>1, <1>4, <1>5 DEF HostType, PinsType
<1>7. OffBus' /\ Quiet' /\ m_data' = <<>>
  BY <1>1, <1>4, <1>5, CoreStill DEF AtRest, OffBus
<1>8. /\ m_interrupt => dr_stopped
      /\ poll(o_wb) => dr_stopped
  BY <1>1, <1>5 DEF AtRest, poll, o_wb, Interrupt
<1>9. m_interrupt' => dr_stopped'
  BY <1>4, <1>8, CoreStill
<1>10. (pc' = "ready" /\ Noticed') \/ (pc' = "sleep" /\ Sleeping')
  BY <1>1, <1>2, <1>4, <1>7, <1>8, <1>9, CoreStill DEF Noticed, Sleeping
<1> QED BY <1>6, <1>10 DEF StageInv, Between

(* ... the status, ...                                                     *)
LEMMA StatusCall ==
    ASSUME Readable, HostInv, UNCHANGED vars, OffBus, Fresh,
           NEW method \in {"ready", "scoplen", "decode_control"},
           Calls(readio(WBSCOPE), o_wb, method),
           m_vector_read' \in VECTOR_READS, m_scoplen' \in {0, MEMLEN},
           m_holdoff' \in Holdoff, m_data' = <<>>,
           method = "ready" => m_scoplen' = 0,
           method = "scoplen" => Over
    PROVE  HostType' /\ StageInv'
<1>1. readio(WBSCOPE).op = "readio" /\ readio(WBSCOPE) = readio(4 * 0)
  BY DEF readio, Calling, WBSCOPE
<1>2. /\ pc = "ready" /\ at' = method /\ call' = readio(WBSCOPE)
      /\ cnt' = 0 /\ answers' = <<>> /\ m_bomb' = m_bomb
      /\ i_wb' = Addressed(readio(WBSCOPE)) /\ pc' = "accept" /\ errcount' = 0
  BY <1>1, SingleCall
<1>3. PinsType' /\ Reads(0)' /\ i_wb'.stb
  BY <1>1, <1>2, ReadPins
<1>4. HostType'
  BY <1>2, <1>3 DEF HostType, HostInv
<1>5. ~br_pre_wb_ack' /\ Fresh' /\ (Over => Over')
  BY CoreStill DEF OffBus
<1>6. AskingStatus'
  BY <1>2, <1>5 DEF AskingStatus
<1>7. StatusAccept'
  BY <1>1, <1>2, <1>3, <1>5, <1>6 DEF StatusAccept, Status, Asked
<1> QED BY <1>2, <1>4, <1>7 DEF StageInv

LEMMA MainStep ==
    ASSUME Readable, HostInv, UNCHANGED vars, Main(o_wb) PROVE HostType' /\ StageInv'
<1>1. at = "shell" /\ Calls(readio(WBSCOPE), o_wb, "ready") /\ New
  BY DEF Main
<1>2. pc = "ready"
  BY <1>1, SingleCall DEF readio, Calling
<1>3. OffBus /\ Fresh
  BY <1>1, <1>2, AtStage DEF HostInv, AtShell
<1>4. 0 \in Holdoff
  BY CaptureAssumption, SMT DEF Holdoff
<1> QED BY <1>1, <1>3, <1>4, StatusCall DEF New

LEMMA MainAfterInterruptStep ==
    ASSUME Readable, HostInv, UNCHANGED vars, MainAfterInterrupt(o_wb)
    PROVE  HostType' /\ StageInv'
<1>1. at = "waiting" /\ Calls(readio(WBSCOPE), o_wb, "scoplen") /\ New
  BY DEF MainAfterInterrupt
<1>2. pc = "ready"
  BY <1>1, SingleCall DEF readio, Calling
<1>3. OffBus /\ Fresh /\ Over
  BY <1>1, <1>2, AtStage DEF HostInv, Noticed, Quiet, Fresh, Over
<1>4. 0 \in Holdoff
  BY CaptureAssumption, SMT DEF Holdoff
<1> QED BY <1>1, <1>3, <1>4, StatusCall DEF New

(* What the status answers: the memory's length, and the holdoff in use.    *)
LEMMA StatusSays ==
    ASSUME HostType, StatusRead
    PROVE  /\ Length(v) = MEMLEN /\ v.holdoff = br_holdoff
           /\ v.stopped => Over /\ Fetched
<1>1. Len(answers) = 1 /\ v.kind = "status" /\ answers \in Seq(Answer)
  BY DEF StatusRead, HostType
<1>2. v \in Answer
  BY <1>1 DEF v
<1> QED BY <1>1, <1>2, HostAssumption DEF StatusRead

(* The first word is next.                                                 *)
LEMMA ReadingStarts ==
    ASSUME Readable, HostInv, UNCHANGED vars, pc = "ready", StatusRead, v.stopped,
           pc' = pc, i_wb' = i_wb, m_data' = m_data, m_vector_read' = m_vector_read,
           m_scoplen' = MEMLEN, m_holdoff' = v.holdoff, at' = "rawread"
    PROVE  BeforeRead'
<1>1. OffBus /\ Quiet /\ m_data = <<>>
  BY DEF StatusRead, AskingStatus
<1>2. Over /\ Fetched /\ v.holdoff = br_holdoff
  BY StatusSays DEF HostInv
<1>3. OffBus' /\ Over' /\ Fetched' /\ raddr' = 0 /\ m_holdoff' = br_holdoff'
  BY <1>1, <1>2, CoreStill DEF OffBus, Quiet
<1>4. Len(m_data') = 0 /\ 0 \in 0 .. MEMLEN - 1
  BY <1>1, CaptureAssumption, SMT
<1>5. Holds(m_data, 0)'
  BY <1>4, SMT DEF Holds
<1>6. Reading(Len(m_data))'
  BY <1>3, <1>4, <1>5 DEF Reading
<1> QED BY <1>3, <1>4, <1>6 DEF BeforeRead

LEMMA readyStep ==
    ASSUME Readable, HostInv, UNCHANGED vars, ready PROVE HostType' /\ StageInv'
<1>1. /\ pc = "ready" /\ at = "ready" /\ UNCHANGED tbVars
      /\ UNCHANGED <<m_vector_read, m_data>>
  BY DEF ready, Answered
<1>2. /\ pc' = pc /\ i_wb' = i_wb /\ errcount' = errcount /\ cnt' = cnt
      /\ answers' = answers /\ m_bomb' = m_bomb
  BY <1>1 DEF tbVars
<1>3. StatusRead /\ HostType
  BY <1>1, AtStage DEF HostInv
<1>4. m_scoplen = 0 /\ OffBus /\ Quiet /\ m_data = <<>>
  BY <1>1, <1>3 DEF StatusRead, AskingStatus
<1>5. m_scoplen' = MEMLEN /\ m_holdoff' = v.holdoff /\ v.holdoff = br_holdoff
  BY <1>3, <1>4, StatusSays DEF ready
<1>6. br_holdoff \in Holdoff
  BY DEF HostInv, OneClockInv, BusTypeOK
<1>7. HostType'
  BY <1>1, <1>2, <1>3, <1>5, <1>6 DEF HostType, PinsType
<1>8. CASE v.stopped /\ v.triggered
  <2>1. at' = "rawread"
    BY <1>5, <1>8, CaptureAssumption, SMT DEF ready, Rawread, Readable
  <2>2. BeforeRead'
    BY <1>1, <1>2, <1>3, <1>5, <1>8, <2>1, ReadingStarts
  <2> QED BY <1>1, <1>2, <1>7, <2>2 DEF StageInv, Between
<1>9. CASE ~(v.stopped /\ v.triggered)
  <2>1. at' = "not ready"
    BY <1>9 DEF ready
  <2>2. OffBus' /\ Quiet' /\ m_data' = <<>>
    BY <1>1, <1>2, <1>4, CoreStill DEF OffBus
  <2>3. AtRest'
    BY <2>1, <2>2 DEF AtRest
  <2> QED BY <1>1, <1>2, <1>7, <2>3 DEF StageInv, Between
<1> QED BY <1>8, <1>9

LEMMA scoplenStep ==
    ASSUME Readable, HostInv, UNCHANGED vars, scoplen PROVE HostType' /\ StageInv'
<1>1. /\ pc = "ready" /\ at = "scoplen" /\ UNCHANGED tbVars
      /\ UNCHANGED <<m_vector_read, m_data>>
  BY DEF scoplen, Answered
<1>2. /\ pc' = pc /\ i_wb' = i_wb /\ errcount' = errcount /\ cnt' = cnt
      /\ answers' = answers /\ m_bomb' = m_bomb
  BY <1>1 DEF tbVars
<1>3. StatusRead /\ HostType /\ v.stopped
  BY <1>1, AtStage DEF HostInv, StatusRead
<1>4. Length(v) = MEMLEN /\ MEMLEN # 1
  BY <1>3, StatusSays, CaptureAssumption
<1>5. m_scoplen' = MEMLEN /\ m_holdoff' = v.holdoff /\ v.holdoff = br_holdoff
  BY <1>3, <1>4, StatusSays DEF scoplen
<1>6. br_holdoff \in Holdoff
  BY DEF HostInv, OneClockInv, BusTypeOK
<1>7. HostType'
  BY <1>1, <1>2, <1>3, <1>5, <1>6 DEF HostType, PinsType
<1>8. at' = "rawread"
  BY <1>5, CaptureAssumption, SMT DEF scoplen, Rawread, Readable
<1>9. BeforeRead'
  BY <1>1, <1>2, <1>3, <1>5, <1>8, ReadingStarts
<1> QED BY <1>1, <1>2, <1>7, <1>9 DEF StageInv, Between

LEMMA decode_controlStep ==
    ASSUME Readable, HostInv, UNCHANGED vars, decode_control(o_wb)
    PROVE  HostType' /\ StageInv'
<1>1. UNCHANGED <<m_vector_read, m_scoplen, m_holdoff, m_data>>
  BY DEF decode_control
<1>2. CASE at = "not ready" /\ Calls(readio(WBSCOPE), o_wb, "decode_control")
  <2>1. pc = "ready"
    BY <1>2 DEF Calls, Invoke, BeginSingle, BeginReadv, BeginWritev, BeginIdle,
                BeginSleep, Begin
  <2>2. OffBus /\ Fresh /\ m_data = <<>>
    BY <1>2, <2>1, AtStage DEF HostInv, AtRest, Quiet, Fresh
  <2> QED BY <1>1, <1>2, <2>2, StatusCall DEF HostInv, HostType
<1>3. CASE Answered("decode_control") /\ at' = "shell"
  <2>1. /\ pc = "ready" /\ at = "decode_control"
        /\ pc' = pc /\ i_wb' = i_wb /\ errcount' = errcount /\ cnt' = cnt
        /\ answers' = answers /\ m_bomb' = m_bomb
    BY <1>3 DEF Answered, tbVars
  <2>2. OffBus /\ Quiet /\ m_data = <<>> /\ HostType
    BY <2>1, AtStage DEF HostInv, StatusRead, AskingStatus
  <2>3. HostType'
    BY <1>1, <2>1, <2>2 DEF HostType, PinsType
  <2>4. AtShell'
    BY <1>1, <1>3, <2>1, <2>2, CoreStill DEF AtShell, OffBus, Quiet, Fresh
  <2> QED BY <2>1, <2>3, <2>4 DEF StageInv, Between
<1> QED BY <1>2, <1>3 DEF decode_control

(* ... and the end.                                                        *)
LEMMA ExitStep ==
    ASSUME Readable, HostInv, UNCHANGED vars, Exit PROVE HostType' /\ StageInv'
<1>1. /\ at = "written" /\ at' = "shell" /\ m_scoplen' = 0 /\ m_holdoff' = 0
      /\ m_data' = <<>> /\ m_vector_read' = m_vector_read
      /\ pc' = pc /\ i_wb' = i_wb /\ errcount' = errcount /\ cnt' = cnt
      /\ answers' = answers /\ m_bomb' = m_bomb /\ call' = call
  BY DEF Exit, tbVars
<1>2. pc = "ready" /\ HostType
  BY <1>1 DEF HostInv, StageInv, Returned, AtRest, StatusRead, AskingStatus, WordRead,
              VectorRead, ArmAccept, ArmWait, ArmSettle, Arming, StatusAccept, StatusWait,
              Status, WordAccept, WordWait, OneWord, VectorIssue, VectorCollect, Vector,
              Sleeping
<1>3. OffBus /\ raddr = 0
  BY <1>1, <1>2, AtStage DEF HostInv, Written
<1>4. 0 \in Holdoff /\ <<>> \in Seq(Answer)
  BY CaptureAssumption, SMT DEF Holdoff
<1>5. HostType'
  BY <1>1, <1>2, <1>4 DEF HostType, PinsType
<1>6. AtShell'
  BY <1>1, <1>3, CoreStill DEF AtShell, OffBus, Fresh
<1> QED BY <1>1, <1>2, <1>5, <1>6 DEF StageInv, Between

(* ... and of the memory: the call, ...                                    *)
LEMMA ReadCallStep ==
    ASSUME Readable, HostInv, UNCHANGED vars, at = "rawread",
           Calls(IF m_vector_read THEN readz(WBSCOPEDATA, m_scoplen)
                 ELSE readio(WBSCOPEDATA), o_wb, "reading"),
           UNCHANGED <<m_vector_read, m_scoplen, m_holdoff, m_data>>
    PROVE  HostType' /\ StageInv'
<1>1. pc = "ready"
  BY DEF Calls, Invoke, BeginSingle, BeginReadv, BeginWritev, BeginIdle, BeginSleep, Begin
<1>2. BeforeRead /\ HostType
  BY <1>1, AtStage DEF HostInv
<1>3. PICK n : n = Len(m_data)
  OBVIOUS
<1>4. Reading(n) /\ OffBus /\ raddr = n /\ n \in 0 .. MEMLEN - 1 /\ m_scoplen = MEMLEN
  BY <1>2, <1>3 DEF BeforeRead, Reading
<1>5. Reading(n)' /\ Len(m_data') = n /\ raddr' = n /\ ~br_pre_wb_ack'
  BY <1>3, <1>4, CoreStill DEF Reading, Holds, Nth, OffBus
<1>6. CASE ~m_vector_read
  <2>1. /\ Calls(readio(WBSCOPEDATA), o_wb, "reading")
        /\ readio(WBSCOPEDATA).op = "readio" /\ readio(WBSCOPEDATA) = readio(4 * 1)
    BY <1>6 DEF readio, Calling, WBSCOPE, WBSCOPEDATA
  <2>2. /\ at' = "reading" /\ call' = readio(WBSCOPEDATA)
        /\ cnt' = 0 /\ answers' = <<>> /\ m_bomb' = m_bomb
        /\ i_wb' = Addressed(readio(WBSCOPEDATA)) /\ pc' = "accept" /\ errcount' = 0
    BY <2>1, SingleCall
  <2>3. PinsType' /\ Reads(1)' /\ i_wb'.stb
    BY <2>1, <2>2, ReadPins
  <2>4. HostType'
    BY <1>2, <2>2, <2>3 DEF HostType
  <2>5. WordAccept'
    BY <1>5, <1>6, <2>1, <2>2, <2>3 DEF WordAccept, OneWord, Asked
  <2> QED BY <2>2, <2>4, <2>5 DEF StageInv
<1>7. CASE m_vector_read
  <2> DEFINE c == readz(WBSCOPEDATA, MEMLEN)
  <2>1. /\ c.op = "readv" /\ c.len = MEMLEN /\ c.inc = FALSE /\ c.words = <<>> /\ c.a = 4
    BY DEF readz, Calling, WBSCOPE, WBSCOPEDATA
  <2>2. Invoke(c, o_wb) /\ at' = "reading"
    BY <1>4, <1>7 DEF Calls
  <2> HIDE DEF c
  <2>3. BeginReadv(c, o_wb)
    BY <2>1, <2>2 DEF Invoke, BeginSingle, BeginWritev, BeginIdle, BeginSleep
  <2>4. /\ call' = c /\ cnt' = 0 /\ answers' = <<>> /\ m_bomb' = m_bomb
        /\ pc' = "v_issue" /\ errcount' = 0 /\ Strobe(Addressed(c))
    BY <2>3 DEF BeginReadv, Begin, o_wb
  <2>5. ~RANDOM_STROBE /\ ~i_wb.stb /\ n = 0
    BY <1>2, <1>4, <1>7, HostAssumption DEF Readable, HostType, OffBus, Reading
  <2>6. PICK stb \in BOOLEAN : stb /\ i_wb' = [Addressed(c) EXCEPT !.stb = stb]
    BY <2>4, <2>5 DEF Strobe
  <2>7. 4 \div 4 = 1
    OBVIOUS
  <2>8. i_wb' = [cyc |-> TRUE, stb |-> TRUE, we |-> FALSE, addr |-> 1, data |-> NoWord]
    BY <2>1, <2>6, <2>7 DEF Addressed
  <2>9. i_wb'.cyc /\ ~i_wb'.we /\ i_wb'.addr = 1 /\ i_wb'.stb
    BY <2>8
  <2>10. PinsType'
    <3>1. [cyc |-> TRUE, stb |-> TRUE, we |-> FALSE, addr |-> 1, data |-> NoWord]
            \in [cyc : BOOLEAN, stb : BOOLEAN, we : BOOLEAN, addr : Nat,
                 data : Settings \cup {NoWord}]
      OBVIOUS
    <3> QED BY <2>8, <3>1 DEF PinsType
  <2>11. HostType'
    BY <1>2, <2>4, <2>10 DEF HostType
  <2>12. Holds(answers, cnt)' /\ raddr' = Come(cnt') /\ cnt' < MEMLEN
    BY <1>5, <2>4, <2>5, CaptureAssumption, SMT DEF Holds, Come
  <2>13. Vector'
    BY <1>5, <1>7, <2>1, <2>2, <2>4, <2>5, <2>9, <2>12 DEF Vector, Reads
  <2>14. errcount' <= 2 * cnt'
    BY <2>4
  <2> QED BY <2>4, <2>9, <2>11, <2>12, <2>13, <2>14 DEF VectorIssue, StageInv
<1> QED BY <1>6, <1>7

(* ... and what came of it: one word more, or all of them.                 *)
Gathered(n) ==
    /\ m_data \in Seq(Answer) /\ Len(m_data) = n
    /\ \A i \in 1 .. n : m_data[i].word = Nth(i - 1)

LEMMA OneMore ==
    ASSUME NEW S, NEW s \in Seq(S), NEW e \in S
    PROVE  /\ Append(s, e) \in Seq(S) /\ Len(Append(s, e)) = Len(s) + 1
           /\ Append(s, e)[Len(s) + 1] = e
           /\ \A i \in 1 .. Len(s) : Append(s, e)[i] = s[i]
BY AppendProperties

LEMMA Listed ==
    ASSUME NEW S, NEW n \in Nat, NEW f \in [1 .. n -> S]
    PROVE  f \in Seq(S) /\ Len(f) = n
<1>1. f \in Seq(S)
  BY SeqDef
<1>2. DOMAIN f = 1 .. n /\ DOMAIN f = 1 .. Len(f) /\ Len(f) \in Nat
  BY <1>1, LenProperties
<1> QED BY <1>1, <1>2, SMT

LEMMA FirstAnswer ==
    ASSUME NEW s \in Seq(Answer), Len(s) = 1 PROVE s[1] \in Answer
OBVIOUS

LEMMA WordGot ==
    ASSUME HostType, WordRead, m_data' = Append(m_data, v), mem' = mem, waddr' = waddr
    PROVE  \E n \in 1 .. MEMLEN :
               Gathered(n)' /\ raddr = Come(n) /\ (m_vector_read => n = MEMLEN)
<1>1. PICK k : k = Len(m_data)
  OBVIOUS
<1>2. /\ k \in 0 .. MEMLEN - 1 /\ \A i \in 1 .. k : m_data[i].word = Nth(i - 1)
      /\ Len(answers) = 1 /\ v.word = Nth(k) /\ raddr = Come(k + 1)
      /\ ~m_vector_read
  BY <1>1 DEF WordRead, Reading, Holds
<1>3. m_data \in Seq(Answer) /\ answers \in Seq(Answer) /\ MEMLEN \in Nat
  BY CaptureAssumption DEF HostType
<1>4. v \in Answer
  <2>1. answers[1] \in Answer
    BY <1>2, <1>3, FirstAnswer
  <2> QED BY <2>1 DEF v
<1>5. /\ m_data' \in Seq(Answer) /\ Len(m_data') = k + 1 /\ m_data'[k + 1] = v
      /\ \A i \in 1 .. k : m_data'[i] = m_data[i]
  BY <1>1, <1>3, <1>4, OneMore
<1>6. k + 1 \in 1 .. MEMLEN /\ (k + 1) - 1 = k
  BY <1>2, <1>3, SMT
<1>7. ASSUME NEW i \in 1 .. k + 1 PROVE m_data'[i].word = Nth(i - 1)
  <2>1. CASE i = k + 1
    BY <1>2, <1>5, <1>6, <2>1
  <2>2. CASE i # k + 1
    <3>1. i \in 1 .. k
      BY <1>2, <2>2, SMT
    <3> QED BY <1>2, <1>5, <3>1
  <2> QED BY <2>1, <2>2
<1>8. Gathered(k + 1)'
  BY <1>5, <1>7 DEF Gathered, Nth
<1> QED BY <1>2, <1>6, <1>8

LEMMA VectorGot ==
    ASSUME HostType, VectorRead, mem' = mem, waddr' = waddr,
           m_data' = [i \in 1 .. m_scoplen |->
                         IF i <= Len(answers) THEN answers[i] ELSE Unread]
    PROVE  \E n \in 1 .. MEMLEN :
               Gathered(n)' /\ raddr = Come(n) /\ (m_vector_read => n = MEMLEN)
<1>1. /\ Len(answers) = MEMLEN /\ \A i \in 1 .. MEMLEN : answers[i].word = Nth(i - 1)
      /\ raddr = 0 /\ m_scoplen = MEMLEN
  BY DEF VectorRead, Holds, Reading
<1>2. answers \in Seq(Answer) /\ MEMLEN \in Nat /\ MEMLEN >= 2
  BY CaptureAssumption DEF HostType
<1>3. m_data' = [i \in 1 .. MEMLEN |-> answers[i]]
  BY <1>1, <1>2
<1>4. \A i \in 1 .. MEMLEN : answers[i] \in Answer
  BY <1>1, <1>2
<1>5. m_data' \in Seq(Answer) /\ Len(m_data') = MEMLEN
  <2>1. m_data' \in [1 .. MEMLEN -> Answer]
    BY <1>3, <1>4
  <2> QED BY <1>2, <2>1, Listed
<1>6. \A i \in 1 .. MEMLEN : m_data'[i].word = Nth(i - 1)
  BY <1>1, <1>3
<1>7. MEMLEN \in 1 .. MEMLEN /\ raddr = Come(MEMLEN)
  BY <1>1, <1>2 DEF Come
<1>8. Gathered(MEMLEN)'
  BY <1>5, <1>6 DEF Gathered, Nth
<1> QED BY <1>7, <1>8

LEMMA ReadDoneStep ==
    ASSUME Readable, HostInv, UNCHANGED vars, Answered("reading"),
           m_data' = IF m_vector_read
                     THEN [i \in 1 .. m_scoplen |->
                              IF i <= Len(answers) THEN answers[i] ELSE Unread]
                     ELSE Append(m_data, v),
           at' = IF Len(m_data') = m_scoplen THEN "written" ELSE "rawread",
           UNCHANGED <<m_vector_read, m_scoplen, m_holdoff>>
    PROVE  HostType' /\ StageInv'
<1>1. /\ pc = "ready" /\ at = "reading"
      /\ pc' = pc /\ i_wb' = i_wb /\ errcount' = errcount /\ cnt' = cnt
      /\ answers' = answers /\ m_bomb' = m_bomb
  BY DEF Answered, tbVars
<1>2. (WordRead \/ VectorRead) /\ HostType
  BY <1>1, AtStage DEF HostInv
<1>3. /\ OffBus /\ Over /\ Fetched /\ m_scoplen = MEMLEN /\ m_holdoff = br_holdoff
      /\ m_data \in Seq(Answer) /\ answers \in Seq(Answer) /\ MEMLEN \in Nat
  BY <1>2, CaptureAssumption DEF WordRead, VectorRead, Reading, HostType
<1>4. /\ OffBus' /\ Over' /\ Fetched' /\ m_scoplen' = MEMLEN
      /\ m_holdoff' = br_holdoff' /\ raddr' = raddr
  BY <1>1, <1>3, CoreStill DEF OffBus
<1>5. PICK n \in 1 .. MEMLEN :
        Gathered(n)' /\ raddr = Come(n) /\ (m_vector_read => n = MEMLEN)
  <2>1. WordRead => ~m_vector_read
    BY DEF WordRead
  <2>2. VectorRead => m_vector_read
    BY DEF VectorRead
  <2> QED BY <1>2, <2>1, <2>2, WordGot, VectorGot, CoreStill
<1>d. /\ m_data' \in Seq(Answer) /\ Len(m_data') = n
      /\ \A i \in 1 .. n : m_data'[i].word = Nth(i - 1)'
  BY <1>5 DEF Gathered
<1>6. HostType'
  BY <1>1, <1>2, <1>d DEF HostType, PinsType
<1>7. Holds(m_data, n)'
  BY <1>d DEF Holds
<1>8. CASE n = MEMLEN
  <2>1. at' = "written" /\ raddr' = 0
    BY <1>3, <1>4, <1>5, <1>8, <1>d DEF Come
  <2>2. Written'
    BY <1>4, <1>7, <1>8, <2>1 DEF Written
  <2> QED BY <1>1, <1>6, <2>2 DEF StageInv, Between
<1>9. CASE n # MEMLEN
  <2>1. at' = "rawread" /\ raddr' = n /\ n \in 0 .. MEMLEN - 1 /\ ~m_vector_read
    <3>1. at' = "rawread" /\ raddr' = n /\ ~m_vector_read
      BY <1>3, <1>4, <1>5, <1>9, <1>d DEF Come
    <3>2. n \in 0 .. MEMLEN - 1
      BY <1>3, <1>9, SMT
    <3> QED BY <3>1, <3>2
  <2>2. Reading(n)' /\ Len(m_data') = n
    BY <1>4, <1>5, <1>7, <1>d, <2>1 DEF Reading
  <2>3. BeforeRead'
    BY <1>4, <2>1, <2>2 DEF BeforeRead
  <2> QED BY <1>1, <1>6, <2>3 DEF StageInv, Between
<1> QED BY <1>8, <1>9

-----------------------------------------------------------------------------
LEMMA SoftwareStepInv ==
    ASSUME Readable, HostInv, Software PROVE HostInv'
<1>1. UNCHANGED vars /\ SoftwareStep(o_wb)
  BY DEF Software
<1>2. OneClockInv'
  BY <1>1, CoreStill DEF HostInv
<1>3. HostType' /\ StageInv'
  <2>1. CASE Arm(o_wb) \/ Armed \/ ClearInterrupt \/ Wait(o_wb)
    BY <1>1, <2>1, ArmStep, ArmedStep, ClearInterruptStep, WaitStep
  <2>2. CASE Main(o_wb) \/ MainAfterInterrupt(o_wb)
    BY <1>1, <2>2, MainStep, MainAfterInterruptStep
  <2>3. CASE ready \/ scoplen \/ decode_control(o_wb) \/ Exit
    BY <1>1, <2>3, readyStep, scoplenStep, decode_controlStep, ExitStep
  <2>4. CASE rawread(o_wb)
    BY <1>1, <2>4, ReadCallStep, ReadDoneStep DEF rawread
  <2> QED BY <1>1, <2>1, <2>2, <2>3, <2>4 DEF SoftwareStep
<1> QED BY <1>2, <1>3 DEF HostInv

LEMMA HostInitial == HostInit => HostInv
<1> SUFFICES ASSUME HostInit PROVE HostInv
  OBVIOUS
<1>1. OneClockInv
  BY OneClockInitial DEF HostInit, Init
<1>2. PinsType /\ OffBus
  BY DEF HostInit, Init, BusInit, TBInit, Released, PinsType, OffBus
<1>3. 0 \in Holdoff /\ <<>> \in Seq(Answer)
  BY CaptureAssumption, SMT DEF Holdoff
<1>4. HostType
  BY <1>2, <1>3 DEF HostInit, TBInit, SCOPEInit, HostType
<1>5. AtShell
  BY <1>2 DEF HostInit, Init, BusInit, SCOPEInit, AtShell, Fresh, bw_reset_request
<1>6. pc = "ready"
  BY DEF HostInit, TBInit
<1> QED BY <1>1, <1>4, <1>5, <1>6 DEF HostInv, StageInv, Between

LEMMA HostStep == Readable /\ HostInv /\ [HostNext]_allVars => HostInv'
<1>1. ASSUME Readable, HostInv, Software PROVE HostInv'
  BY <1>1, SoftwareStepInv
<1>2. ASSUME Readable, HostInv, NEW ce \in Enables, Clock(ce) PROVE HostInv'
  <2>1. HostClock
    BY <1>2 DEF Clock, HostClock, CoreClock
  <2> QED BY <1>2, <2>1, HostClockInv
<1>3. ASSUME HostInv, UNCHANGED allVars PROVE HostInv'
  <2>1. UNCHANGED vars /\ UNCHANGED tbVars /\ UNCHANGED scopeVars
    BY <1>3 DEF allVars
  <2>2. /\ pc' = pc /\ call' = call /\ i_wb' = i_wb /\ errcount' = errcount /\ cnt' = cnt
        /\ answers' = answers /\ m_bomb' = m_bomb /\ m_interrupt' = m_interrupt
        /\ at' = at /\ m_vector_read' = m_vector_read /\ m_scoplen' = m_scoplen
        /\ m_holdoff' = m_holdoff /\ m_data' = m_data
    BY <2>1 DEF tbVars, scopeVars
  <2>3. OneClockInv'
    BY <1>3, <2>1, CoreStill DEF HostInv
  <2>4. HostType'
    BY <1>3, <2>2 DEF HostInv, HostType, PinsType
  <2>5. StageInv'
    <3>1. (OffBus => OffBus') /\ (Asked => Asked') /\ (Writes => Writes')
      BY <2>1, <2>2, CoreStill DEF OffBus, Asked, Writes
    <3>2. (AtShell => AtShell') /\ (Noticed => Noticed')
      BY <2>1, <2>2, <3>1, CoreStill DEF AtShell, Noticed
    <3>3. AtRest => AtRest'
      BY <2>1, <2>2, <3>1, CoreStill DEF AtRest
    <3>4. AskingStatus => AskingStatus'
      BY <2>1, <2>2, CoreStill DEF AskingStatus
    <3>5. StatusRead => StatusRead'
      BY <2>1, <2>2, <3>1, <3>4, CoreStill DEF StatusRead, v
    <3>6. PICK n : n = Len(m_data)
      OBVIOUS
    <3>7. (Reading(n) => Reading(n)') /\ (Reading(0) => Reading(0)') /\ Len(m_data') = n
      BY <2>1, <2>2, <3>6, CoreStill DEF Reading, Holds, Nth
    <3>8. (BeforeRead => BeforeRead') /\ (WordRead => WordRead')
      BY <2>1, <2>2, <3>1, <3>6, <3>7, CoreStill DEF BeforeRead, WordRead, Nth, v
    <3>9. (VectorRead => VectorRead') /\ (Written => Written')
      BY <2>1, <2>2, <3>1, <3>7, CoreStill DEF VectorRead, Written, Holds, Nth
    <3>10. (Returned => Returned') /\ (Between => Between')
      BY <2>2, <3>2, <3>3, <3>5, <3>8, <3>9 DEF Returned, Between
    <3>11. (ArmAccept => ArmAccept') /\ (ArmWait => ArmWait') /\ (ArmSettle => ArmSettle')
      BY <2>1, <2>2, <3>1, CoreStill DEF ArmAccept, ArmWait, ArmSettle, Arming, Taken
    <3>12. (StatusAccept => StatusAccept') /\ (StatusWait => StatusWait')
      BY <2>1, <2>2, <3>1, <3>4, CoreStill DEF StatusAccept, StatusWait, Status, Reads, Taken
    <3>13. (WordAccept => WordAccept') /\ (WordWait => WordWait')
      BY <2>1, <2>2, <3>1, <3>6, <3>7, CoreStill
      DEF WordAccept, WordWait, OneWord, Reads, Taken, Nth
    <3>14. Vector => Vector'
      BY <2>1, <2>2, <3>7, CoreStill DEF Vector, Reads, Holds, Nth
    <3>15. (VectorIssue => VectorIssue') /\ (VectorCollect => VectorCollect')
      BY <2>1, <2>2, <3>14, CoreStill DEF VectorIssue, VectorCollect
    <3>16. Sleeping => Sleeping'
      BY <2>1, <2>2, <3>1, CoreStill DEF Sleeping
    <3> QED BY <1>3, <2>2, <3>10, <3>11, <3>12, <3>13, <3>15, <3>16
            DEF StageInv, HostInv
  <2> QED BY <2>3, <2>4, <2>5 DEF HostInv
<1> QED BY <1>1, <1>2, <1>3 DEF HostNext

(* The invariant of the software on the one-clock scope.                    *)
THEOREM HostAlways == ASSUME Readable PROVE HostSpec => []HostInv
BY HostInitial, HostStep, PTL DEF HostSpec

-----------------------------------------------------------------------------
(* Where the software has data, it is of a capture that is over.            *)
LEMMA DataStages ==
    ASSUME StageInv
    PROVE  /\ at \in {"shell", "arming", "armed", "cleared", "waiting", "ready", "scoplen",
                      "not ready", "decode_control", "rawread", "reading", "written"}
           /\ at \in {"scoplen", "rawread", "reading", "written"} => Over
           /\ m_data = <<>> \/ (\E n \in 0 .. MEMLEN : Holds(m_data, n) /\ m_scoplen = MEMLEN)
           /\ at = "written" => Written
           /\ pc # "abort"
<1>1. \A n : Reading(n) => /\ Over /\ m_scoplen = MEMLEN /\ Holds(m_data, n)
                           /\ n \in 0 .. MEMLEN
  BY CaptureAssumption, SMT DEF Reading
<1> DEFINE Good ==
      /\ at \in {"shell", "arming", "armed", "cleared", "waiting", "ready", "scoplen",
                 "not ready", "decode_control", "rawread", "reading", "written"}
      /\ at \in {"scoplen", "rawread", "reading", "written"} => Over
      /\ m_data = <<>> \/ (\E n \in 0 .. MEMLEN : Holds(m_data, n) /\ m_scoplen = MEMLEN)
      /\ at = "written" => Written
<1>2. (AtShell => Good) /\ (AtRest => Good) /\ (Noticed => Good) /\ (Sleeping => Good)
  BY DEF AtShell, AtRest, Noticed, Sleeping
<1>3. AskingStatus => Good
  BY DEF AskingStatus
<1>4. (BeforeRead => Good) /\ (WordRead => Good) /\ (VectorRead => Good)
  BY <1>1 DEF BeforeRead, WordRead, VectorRead
<1>5. MEMLEN \in 0 .. MEMLEN
  BY CaptureAssumption, SMT
<1>6. Written => Good
  BY <1>5 DEF Written
<1>7. Arming => Good
  BY DEF Arming
<1>8. (OneWord => Good) /\ (Vector => Good)
  BY <1>1 DEF OneWord, Vector
<1> HIDE DEF Good
<1>9. Good
  BY <1>2, <1>3, <1>4, <1>6, <1>7, <1>8
  DEF StageInv, Between, Returned, StatusRead, ArmAccept, ArmWait, ArmSettle,
      StatusAccept, StatusWait, Status, WordAccept, WordWait, VectorIssue, VectorCollect
<1>10. pc # "abort"
  BY DEF StageInv
<1> QED BY <1>9, <1>10 DEF Good

(* A stopped capture is the whole window, oldest word first.               *)
LEMMA OverWindow ==
    ASSUME OneClockInv, Over, NEW n \in 0 .. MEMLEN, Holds(m_data, n),
           m_data \in Seq(Answer)
    PROVE  dr_primed /\ \A i \in DOMAIN m_data : m_data[i].word = Window(FALSE)[i]
<1>1. dr_primed
  BY DEF Over, OneClockInv, CaptureInv
<1>2. DOMAIN m_data = 1 .. n /\ MEMLEN \in Nat
  BY CaptureAssumption DEF Holds
<1>3. Window(FALSE) = [i \in 1 .. MEMLEN |-> Nth(i - 1)]
  BY <1>1 DEF Window, Fill, Nth
<1>4. ASSUME NEW i \in 1 .. n PROVE m_data[i].word = Window(FALSE)[i]
  <2>1. i \in 1 .. MEMLEN
    BY <1>2, SMT
  <2>2. m_data[i].word = Nth(i - 1)
    BY DEF Holds
  <2> QED BY <1>3, <2>1, <2>2
<1> QED BY <1>1, <1>2, <1>4

(* The software's own variables keep their ranges, and it never goes        *)
(* through the null pointer of a scope that is not read.                    *)
THEOREM HostTypeAlways == ASSUME Readable PROVE HostSpec => []HostTypeOK
<1>1. ASSUME HostInv PROVE HostTypeOK
  <2>1. /\ m_scoplen \in {0, MEMLEN} /\ m_holdoff \in Holdoff /\ MEMLEN \in Nat
    BY <1>1, CaptureAssumption DEF HostInv, HostType
  <2>2. Len(m_data) <= m_scoplen
    <3>1. CASE m_data = <<>>
      BY <2>1, <3>1
    <3>2. CASE \E n \in 0 .. MEMLEN : Holds(m_data, n) /\ m_scoplen = MEMLEN
      BY <2>1, <3>2 DEF Holds
    <3> QED BY <1>1, <3>1, <3>2, DataStages DEF HostInv
  <2> QED BY <1>1, <2>1, <2>2, DataStages DEF HostInv, HostTypeOK
<1> QED BY <1>1, HostAlways, PTL

(* What is read is the captured window from its oldest word on, for every   *)
(* length and however the reads are made and spaced.                        *)
THEOREM ReadsOldestFirstAlways == ASSUME Readable PROVE HostSpec => []ReadsOldestFirst
<1>1. ASSUME HostInv PROVE ReadsOldestFirst
  <2> SUFFICES ASSUME at \in {"scoplen", "rawread", "reading", "written"}
               PROVE  /\ dr_stopped /\ dr_primed /\ ~bw_reset_request
                      /\ \A i \in DOMAIN m_data : m_data[i].word = Window(FALSE)[i]
    BY DEF ReadsOldestFirst
  <2>1. OneClockInv /\ StageInv /\ m_data \in Seq(Answer) /\ MEMLEN \in Nat
    BY <1>1, CaptureAssumption DEF HostInv, HostType
  <2>2. Over
    BY <2>1, DataStages
  <2>3. CASE m_data = <<>>
    <3>1. Holds(m_data, 0) /\ 0 \in 0 .. MEMLEN
      BY <2>1, <2>3, SMT DEF Holds
    <3> QED BY <2>1, <2>2, <3>1, OverWindow DEF Over
  <2>4. CASE \E n \in 0 .. MEMLEN : Holds(m_data, n)
    BY <2>1, <2>2, <2>4, OverWindow DEF Over
  <2> QED BY <2>1, <2>3, <2>4, DataStages
<1> QED BY <1>1, HostAlways, PTL

(* Every call of the software is answered in time, and the read address is   *)
(* back at its start after the memory has been read.                        *)
THEOREM EveryCallAnsweredAlways ==
    ASSUME Readable PROVE HostSpec => []EveryCallAnswered
<1>1. ASSUME HostInv PROVE EveryCallAnswered
  <2>1. ~m_bomb /\ StageInv
    BY <1>1 DEF HostInv, HostType
  <2>2. at = "written" => raddr = 0
    BY <2>1, DataStages DEF Written
  <2> QED BY <2>1, <2>2, DataStages DEF EveryCallAnswered
<1> QED BY <1>1, HostAlways, PTL

(* The mark of the printed and of the written trace is on the sample that   *)
(* carried the trigger, for every holdoff.                                  *)
THEOREM TriggerMarkedAlways == ASSUME Readable PROVE HostSpec => []TriggerMarked
<1>1. ASSUME HostInv PROVE TriggerMarked
  <2> DEFINE data == [i \in DOMAIN m_data |-> m_data[i].word]
             Marks(lines) == \E line \in lines : line.trigger /\ line.word = h_trigger
             k == MEMLEN - br_holdoff
  <2> SUFFICES ASSUME at = "written", m_holdoff < m_scoplen, h_since = br_holdoff + 1
               PROVE  /\ Item(m_scoplen - m_holdoff - 1).word = h_trigger
                      /\ Marks(Trace!Vcd(data, m_holdoff))
                      /\ \/ Marks(Trace!Prints(data, m_holdoff))
                         \/ Trace!Skipped(data, m_scoplen - m_holdoff)
    BY DEF TriggerMarked
  <2>1. OneClockInv /\ Written /\ MEMLEN \in Nat /\ br_holdoff \in Nat
        /\ m_data \in Seq(Answer)
    BY <1>1, DataStages, CaptureAssumption, SMT
    DEF HostInv, HostType, OneClockInv, BusTypeOK, Holdoff
  <2>2. /\ m_scoplen = MEMLEN /\ m_holdoff = br_holdoff /\ Over
        /\ Len(m_data) = MEMLEN /\ \A i \in 1 .. MEMLEN : m_data[i].word = Nth(i - 1)
    BY <2>1 DEF Written, Holds
  <2>3. /\ h_since \in 1 .. MEMLEN /\ k \in 1 .. MEMLEN /\ k - 1 = MEMLEN - h_since
        /\ MEMLEN - br_holdoff - 1 = k - 1
        /\ MEMLEN > 0
    BY <2>1, <2>2, SMT
  <2>4. mem[RingAt(waddr, MEMLEN - h_since)] = h_trigger
    BY <2>1, <2>2, <2>3, InvTriggerInPlace DEF TriggerInPlace, Over
  <2>5. m_data[k].word = h_trigger
    BY <2>2, <2>3, <2>4 DEF Nth
  <2>6. DOMAIN m_data = 1 .. MEMLEN
    BY <2>1, <2>2
  <2>7. DOMAIN data = 1 .. MEMLEN /\ data[k] = h_trigger /\ Len(data) = MEMLEN
    <3>1. data \in [1 .. MEMLEN -> {m_data[i].word : i \in 1 .. MEMLEN}]
      BY <2>6
    <3>2. Len(data) = MEMLEN
      BY <2>1, <3>1, Listed
    <3>3. data[k] = m_data[k].word
      BY <2>3, <2>6
    <3> QED BY <2>5, <2>6, <3>2, <3>3
  <2> HIDE DEF k
  <2>8. Item(m_scoplen - m_holdoff - 1).word = h_trigger
    <3>1. (k - 1) % MEMLEN = k - 1 /\ (k - 1) + 1 = k
      BY <2>1, <2>3, SMT
    <3>2. m_data # <<>>
      BY <2>2, <2>3
    <3> QED BY <2>2, <2>3, <2>5, <3>1, <3>2 DEF Item
  <2> HIDE DEF data
  <2>9. Trace!offset(Trace!getaddresslen(FALSE, data), m_holdoff) = k - 1
    <3>1. Trace!getaddresslen(FALSE, data) = MEMLEN
      BY <2>7 DEF Trace!getaddresslen
    <3> QED BY <2>2, <2>3, <3>1 DEF Trace!offset
  <2>10. k \in DOMAIN data
    BY <2>3, <2>7
  <2>11. Marks(Trace!Vcd(data, m_holdoff))
    <3> DEFINE line == [time |-> k - 1, word |-> data[k],
                        trigger |-> k - 1 = Trace!offset(Trace!getaddresslen(FALSE, data), m_holdoff)]
    <3>1. line \in Trace!Vcd(data, m_holdoff)
      BY <2>10 DEF Trace!Vcd
    <3>2. line.trigger /\ line.word = h_trigger
      BY <2>7, <2>9
    <3> QED BY <3>1, <3>2
  <2>12. CASE ~Trace!Skipped(data, k)
    <3> DEFINE line == [addr |-> k - 1, word |-> data[k],
                        trigger |-> k - 1 = Trace!offset(Trace!getaddresslen(FALSE, data), m_holdoff)]
    <3>1. line \in Trace!Prints(data, m_holdoff)
      BY <2>10, <2>12 DEF Trace!Prints
    <3>2. line.trigger /\ line.word = h_trigger
      BY <2>7, <2>9
    <3>3. Marks(Trace!Prints(data, m_holdoff))
      BY <3>1, <3>2
    <3> QED BY <2>8, <2>11, <3>3
  <2>13. CASE Trace!Skipped(data, k)
    <3>1. m_scoplen - m_holdoff = k
      BY <2>2 DEF k
    <3> QED BY <2>8, <2>11, <2>13, <3>1
  <2> QED BY <2>12, <2>13
<1> QED BY <1>1, HostAlways, PTL

(* Every data read the stopped scope accepts is answered, one clock later,  *)
(* with the word it had come to, whenever the software makes it.            *)
THEOREM ReadsAnsweredAlways == ASSUME Readable PROVE HostSpec => ReadsAnswered
<1> DEFINE Answering ==
      br_pre_wb_ack /\ read_address = "data" /\ dr_stopped /\ ~bw_reset_request
      => o_bus_data'.word =
           mem[RingAt(waddr, IF raddr = 0 THEN MEMLEN - 1 ELSE raddr - 1)]
<1>1. ASSUME HostInv, br_pre_wb_ack, read_address = "data"
      PROVE  nxt_mem = Nth(IF raddr = 0 THEN MEMLEN - 1 ELSE raddr - 1)
  <2>1. StageInv
    BY <1>1 DEF HostInv
  <2>2. ASSUME NEW n \in 0 .. MEMLEN - 1, raddr = Come(n + 1), nxt_mem = Nth(n)
        PROVE  nxt_mem = Nth(IF raddr = 0 THEN MEMLEN - 1 ELSE raddr - 1)
    <3>1. n = IF raddr = 0 THEN MEMLEN - 1 ELSE raddr - 1
      BY <2>2, CaptureAssumption, SMT DEF Come
    <3> QED BY <2>2, <3>1
  <2>3. CASE WordWait
    BY <2>2, <2>3 DEF WordWait, OneWord, Reading
  <2>4. CASE Vector /\ cnt <= MEMLEN
    <3>1. cnt > 0 /\ nxt_mem = Nth(cnt - 1) /\ raddr = Come(cnt) /\ cnt \in Nat
      BY <1>1, <2>4 DEF Vector, HostInv, HostType
    <3>2. cnt - 1 \in 0 .. MEMLEN - 1 /\ (cnt - 1) + 1 = cnt
      BY <2>4, <3>1, CaptureAssumption, SMT
    <3> QED BY <2>2, <3>1, <3>2
  <2>5. VectorIssue \/ VectorCollect => Vector /\ cnt <= MEMLEN
    BY <1>1, CaptureAssumption, SMT DEF VectorIssue, VectorCollect, HostInv, HostType
  <2>6. Between => ~br_pre_wb_ack
    BY DEF Between, Returned, AtShell, AtRest, Noticed, BeforeRead, Written, StatusRead,
           WordRead, VectorRead, OffBus
  <2>7. WordWait \/ (VectorIssue \/ VectorCollect)
    BY <1>1, <2>1, <2>6
    DEF StageInv, Between, ArmAccept, ArmWait, ArmSettle, StatusAccept, StatusWait,
        WordAccept, Sleeping, OffBus, Asked, Taken
  <2> QED BY <2>3, <2>4, <2>5, <2>7
<1>2. ASSUME Readable, HostInv, [HostNext]_allVars PROVE [Answering]_vars
  <2>1. CASE UNCHANGED vars
    BY <2>1
  <2>2. ASSUME NEW ce \in Enables, Clock(ce) PROVE Answering
    <3>1. HostClock
      BY <2>2 DEF Clock, HostClock, CoreClock
    <3>2. read_address = "data" /\ dr_stopped => o_bus_data'.word = nxt_mem
      BY <1>2, <3>1, CoreTick, SoftwareStill, StageWrites DEF HostInv, HostType
    <3> QED BY <1>1, <1>2, <3>2 DEF Nth
  <2> QED BY <1>2, <2>1, <2>2 DEF HostNext, Software, allVars
<1>3. ASSUME Readable PROVE HostInv /\ [HostNext]_allVars => [Answering]_vars
  BY <1>2, <1>3
<1> QED BY <1>3, HostAlways, PTL DEF HostSpec, ReadsAnswered
=============================================================================
