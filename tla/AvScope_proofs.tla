--------------------------- MODULE AvScope_proofs ---------------------------
(***************************************************************************)
(* The Avalon scope, whose stop is not held, keeps its window as well as    *)
(* the Wishbone scope, for every memory length, every stream of samples    *)
(* and every master, as long as no holdoff is the largest: the counter      *)
(* then stops at or just past the holdoff, and the stop is made anew on    *)
(* every clock.                                                            *)
(***************************************************************************)
EXTENDS AvScope, OneClock_proofs

HoldoffsBelowTop ==
    DEFAULT_HOLDOFF < MAXHOLDOFF /\ \A req \in Requests : req.word.holdoff < MAXHOLDOFF

(* The counter of a stopped scope stays where the stop is made anew.       *)
StillStopsInv ==
    /\ br_holdoff < MAXHOLDOFF
    /\ dr_stopped /\ ~bw_reset_request => counter >= br_holdoff

AvInv == OneClockInv /\ StillStopsInv

(* Every register of the bus keeps its width.                              *)
LEMMA AvTypes ==
    ASSUME OneClockInv, NEW i_av_reset \in BOOLEAN, NEW req \in Requests,
           NEW ce \in Enables, NEW trig \in BOOLEAN, NEW sample \in Stream(data_pipe),
           Tick(i_av_reset, req, ce, trig, sample)
    PROVE  BusTypeOK'
<1>1. /\ sample \in SAMPLES /\ waddr \in Address /\ mem[this_addr] \in Word
  BY EdgeTypes DEF OneClockInv
<1>2. BusTypeOK /\ dr_stopped \in BOOLEAN /\ dr_triggered \in BOOLEAN
      /\ dr_primed \in BOOLEAN
  BY DEF OneClockInv, CaptureTypeOK
<1>3. br_config' \in [reset_n : BOOLEAN, manual : BOOLEAN, disable : BOOLEAN]
  <2> DEFINE written == write_to_control(req)
             r == /\ ~i_av_reset
                  /\ \/ bw_reset_request
                     \/ br_config.reset_n /\ ~(written /\ ~req.word.reset_n)
             m == IF written THEN req.word.manual ELSE br_config.manual
             d == IF written THEN req.word.disable ELSE br_config.disable
  <2>1. br_config' = [reset_n |-> r, manual |-> m, disable |-> d]
    BY DEF Tick, ConfigureAvalon
  <2>2. r \in BOOLEAN
    OBVIOUS
  <2>3. m \in BOOLEAN /\ d \in BOOLEAN
    BY <1>2, RequestType DEF BusTypeOK
  <2> HIDE DEF r, m, d
  <2> QED BY <2>1, <2>2, <2>3
<1>4. br_holdoff' \in Holdoff
  BY <1>2, RequestType DEF Tick, ConfigureAvalon, BusTypeOK
<1>5. raddr' \in Address /\ this_addr' \in Address /\ nxt_mem' \in Word
  BY <1>1, <1>2, ReadPathType DEF Tick
<1>6. /\ o_bus_data' \in Answer /\ read_address' \in {"control", "data"}
      /\ br_pre_wb_ack' \in BOOLEAN /\ br_wb_ack' \in BOOLEAN
  <2> DEFINE r == [req EXCEPT !.stb = i_av_read(req) /\ ~i_av_reset, !.cyc = ~i_av_reset]
  <2>1. Respond(r, dr_stopped, dr_triggered, dr_primed, sample)
    BY DEF Tick, Acknowledge
  <2>2. r.addr = req.addr /\ r.stb \in BOOLEAN /\ r.cyc \in BOOLEAN
    <3>1. req \in Request
      BY BusAssumption
    <3> QED BY <3>1 DEF Request
  <2>3. r.addr \in {"control", "data"}
    BY <2>2, RequestType
  <2> HIDE DEF r
  <2> QED BY <1>1, <1>2, <2>1, <2>2, <2>3, RespondType
<1>7. br_level_interrupt' \in BOOLEAN
  BY DEF Tick, LevelInterrupt
<1>8. h_interrupts' \in 0 .. 2
  BY CountType DEF Tick, AvInv, OneClockInv, BusTypeOK
<1> QED BY <1>3, <1>4, <1>5, <1>6, <1>7, <1>8 DEF BusTypeOK

(* A tick is a clock of OneClock_proofs: the stop made anew is the stop     *)
(* held.                                                                   *)
LEMMA AvEdge ==
    ASSUME AvInv, NEW i_av_reset \in BOOLEAN, NEW req \in Requests,
           NEW ce \in Enables, NEW trig \in BOOLEAN, NEW sample \in Stream(data_pipe),
           Tick(i_av_reset, req, ce, trig, sample)
    PROVE  HoldoffHeld /\ Edge(ce, trig, sample)
<1>1. HoldoffHeld
  BY DEF Tick, ConfigureAvalon, HoldoffHeld, bw_reset_request
<1>2. StopFlag(bw_reset_request, br_holdoff, ce)
  <2>1. dr_stopped' = (dr_triggered /\ ~bw_reset_request /\ counter >= br_holdoff)
    BY DEF Tick, StopAgain
  <2>2. dr_stopped /\ ~bw_reset_request => counter >= br_holdoff
    BY DEF AvInv, StillStopsInv
  <2> DEFINE over == counter >= br_holdoff
  <2> HIDE DEF over
  <2>3. dr_stopped' = (dr_triggered /\ ~bw_reset_request /\ over)
        /\ (dr_stopped /\ ~bw_reset_request => over)
    BY <2>1, <2>2 DEF over
  <2>4. dr_stopped' = (/\ dr_triggered /\ ~bw_reset_request
                       /\ dr_stopped \/ over)
    BY <2>3
  <2> QED BY <2>4 DEF StopFlag, over
<1> QED BY <1>1, <1>2 DEF Tick, Edge, DataEdge

(* A tick keeps the stop where it is made anew.                            *)
LEMMA AvStillStops ==
    ASSUME HoldoffsBelowTop, AvInv, NEW i_av_reset \in BOOLEAN, NEW req \in Requests,
           NEW ce \in Enables, NEW trig \in BOOLEAN, NEW sample \in Stream(data_pipe),
           Tick(i_av_reset, req, ce, trig, sample)
    PROVE  StillStopsInv'
<1>1. br_holdoff' < MAXHOLDOFF
  BY DEF HoldoffsBelowTop, AvInv, StillStopsInv, Tick, ConfigureAvalon
<1>2. ASSUME dr_stopped', ~bw_reset_request' PROVE counter' >= br_holdoff'
  <2>1. dr_triggered /\ ~bw_reset_request /\ counter >= br_holdoff
    BY <1>2 DEF Tick, StopAgain
  <2>2. br_holdoff' = br_holdoff
    BY <1>2, <2>1, AvEdge DEF HoldoffHeld
  <2>3. counter \in Nat /\ br_holdoff \in Nat /\ MAXHOLDOFF \in Nat
        /\ br_holdoff < MAXHOLDOFF
    BY CaptureAssumption, SMT
    DEF AvInv, OneClockInv, CaptureTypeOK, BusTypeOK, Holdoff, StillStopsInv
  <2>4. CASE dr_stopped
    <3>1. counter' = counter
      BY <2>1, <2>4 DEF Tick, CountHoldoff
    <3> QED BY <2>1, <2>2, <3>1
  <2>5. CASE ~dr_stopped
    <3>1. counter <= br_holdoff
      BY <2>1, <2>5 DEF AvInv, OneClockInv, HoldoffInv
    <3>2. counter' = counter \/ counter' = NextCount(counter)
      BY <2>1 DEF Tick, CountHoldoff
    <3> QED BY <2>1, <2>2, <2>3, <3>1, <3>2, SMT DEF NextCount
  <2> QED BY <2>4, <2>5
<1> QED BY <1>1, <1>2 DEF StillStopsInv

(* AvInv is inductive.                                                     *)
LEMMA AvInductive ==
    ASSUME HoldoffsBelowTop PROVE AvInv /\ [Next]_vars => AvInv'
<1>1. ASSUME AvInv, NEW i_av_reset \in BOOLEAN, NEW req \in Requests,
             NEW ce \in Enables, NEW trig \in BOOLEAN, NEW sample \in Stream(data_pipe),
             Tick(i_av_reset, req, ce, trig, sample)
      PROVE  AvInv'
  <2>1. BusTypeOK' /\ HoldoffHeld /\ Edge(ce, trig, sample) /\ StillStopsInv'
    BY <1>1, AvTypes, AvEdge, AvStillStops DEF AvInv
  <2> QED BY <1>1, <2>1, EdgeInv DEF AvInv
<1>2. ASSUME AvInv, UNCHANGED vars PROVE AvInv'
  BY <1>2, StillRefines
  DEF vars, captureVars, historyVars, busVars, AvInv, StillStopsInv, bw_reset_request
<1> QED BY <1>1, <1>2 DEF Next

(* The flags, the counter and the place of the trigger fit together on      *)
(* every clock (rtl/avscope.v:290-317).                                    *)
THEOREM AvInvariant ==
    ASSUME HoldoffsBelowTop PROVE Spec => []AvInv
<1>1. Init => AvInv
  BY OneClockInitial
  DEF Init, AvInv, StillStopsInv, HoldoffsBelowTop, BusInit, CaptureInit
<1> QED BY <1>1, AvInductive, PTL DEF Spec

(* A stop that is made from the counter on every clock (rtl/avscope.v:314)  *)
(* is kept until the next reset, where no holdoff is the largest.          *)
THEOREM AvStaysStopped ==
    ASSUME HoldoffsBelowTop PROVE Spec => StaysStopped
<1>1. AvInv /\ [Next]_vars => [dr_stopped /\ ~bw_reset_request => dr_stopped']_vars
  <2> SUFFICES ASSUME AvInv, Next, dr_stopped, ~bw_reset_request PROVE dr_stopped'
    OBVIOUS
  <2>1. dr_stopped' = (dr_triggered /\ ~bw_reset_request /\ counter >= br_holdoff)
    BY DEF Next, Tick, StopAgain
  <2>2. dr_triggered /\ counter >= br_holdoff
    BY DEF AvInv, StillStopsInv, OneClockInv, CaptureInv
  <2> QED BY <2>1, <2>2
<1> QED BY <1>1, AvInvariant, PTL DEF Spec, StaysStopped

(* What the Avalon scope records is the window CaptureWindow promises,      *)
(* whatever resets, writes and reads come over the bus.                    *)
THEOREM AvCaptures ==
    ASSUME HoldoffsBelowTop PROVE Spec => Captures
<1>1. Init => Contract!WindowInit
  BY RefinesInitial DEF Init
<1>2. AvInv /\ AvInv' /\ [Next]_vars => [Contract!WindowNext]_Contract!windowVars
  <2>1. ASSUME AvInv, AvInv', Next PROVE [Contract!WindowNext]_Contract!windowVars
    BY <2>1, AvEdge, EdgeRefines DEF Next, AvInv
  <2>2. ASSUME AvInv, UNCHANGED vars PROVE UNCHANGED Contract!windowVars
    BY <2>2, StillRefines DEF vars, AvInv
  <2> QED BY <2>1, <2>2
<1>3. Spec => Contract!WindowInit /\ [][Contract!WindowNext]_Contract!windowVars
  BY <1>1, <1>2, AvInvariant, PTL DEF Spec
<1> QED BY <1>3 DEF Captures, Contract!WindowSpec
=============================================================================
