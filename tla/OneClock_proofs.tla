--------------------------- MODULE OneClock_proofs ---------------------------
(***************************************************************************)
(* A scope of one clock for every memory length, every holdoff and every   *)
(* stream of samples: whatever its bus does, it keeps the window of         *)
(* CaptureWindow as long as its data half makes a DataEdge on every clock   *)
(* and its bus half changes the holdoff only before or after a clock that   *)
(* requests a reset.                                                       *)
(***************************************************************************)
EXTENDS OneClock, ScopeBus_proofs

(* The holdoff a capture runs with is the one it stops by.                 *)
HoldoffInv ==
    dr_triggered /\ ~bw_reset_request =>
        /\ ~dr_stopped => counter <= br_holdoff
        /\ dr_stopped => h_since \in {br_holdoff, br_holdoff + 1}

OneClockInv == CaptureTypeOK /\ BusTypeOK /\ CaptureInv /\ PlaceInv /\ HoldoffInv

(* One clock of the data half, with the controls as the bus has them.      *)
Edge(ce, trig, sample) ==
    DataEdge(bw_reset_request, br_config.manual, br_config.disable,
             br_holdoff, ce, trig, sample)

(* The holdoff of a running capture is left alone.                         *)
HoldoffHeld == br_holdoff' # br_holdoff => bw_reset_request \/ bw_reset_request'

LEMMA OneClockInitial == CaptureInit /\ BusInit => OneClockInv
BY CaptureInitial, BusInitial DEF OneClockInv, CaptureInit, PlaceInv, HoldoffInv

(* The types of all that a clock samples.                                  *)
LEMMA EdgeTypes ==
    ASSUME CaptureTypeOK, BusTypeOK, NEW ce \in Enables, NEW sample \in Stream(data_pipe)
    PROVE  /\ ce \in BOOLEAN /\ sample \in SAMPLES
           /\ bw_reset_request \in BOOLEAN /\ br_config.manual \in BOOLEAN
           /\ br_config.disable \in BOOLEAN /\ br_holdoff \in Holdoff
           /\ waddr \in Address /\ mem[this_addr] \in Word
<1>1. data_pipe \in Word /\ waddr \in Address /\ mem[this_addr] \in Word
  BY DEF CaptureTypeOK, BusTypeOK
<1>2. sample \in SAMPLES
  BY <1>1, CaptureAssumption DEF Word
<1>3. br_config \in [reset_n : BOOLEAN, manual : BOOLEAN, disable : BOOLEAN]
  BY DEF BusTypeOK
<1> QED BY <1>1, <1>2, <1>3, CaptureAssumption
        DEF BusTypeOK, bw_reset_request

(* A clock keeps the invariant of a capture.                               *)
LEMMA EdgeInv ==
    ASSUME OneClockInv, BusTypeOK', HoldoffHeld,
           NEW ce \in Enables, NEW trig \in BOOLEAN, NEW sample \in Stream(data_pipe),
           Edge(ce, trig, sample)
    PROVE  OneClockInv'
<1> DEFINE reset == bw_reset_request
           manual == br_config.manual
           disable == br_config.disable
<1>1. /\ ce \in BOOLEAN /\ sample \in SAMPLES /\ reset \in BOOLEAN
      /\ manual \in BOOLEAN /\ disable \in BOOLEAN /\ br_holdoff \in Holdoff
  BY EdgeTypes DEF OneClockInv
<1>2. DataEdge(reset, manual, disable, br_holdoff, ce, trig, sample)
  BY DEF Edge
<1>3. CaptureTypeOK /\ BusTypeOK /\ CaptureInv /\ PlaceInv /\ HoldoffInv
  BY DEF OneClockInv
<1>4. CaptureTypeOK' /\ CaptureInv' /\ PlaceInv'
  <2> HIDE DEF reset, manual, disable
  <2> QED BY <1>1, <1>2, <1>3, DataEdgeType, DataEdgeInv, DataEdgePlace
<1>5. dr_triggered' => ~bw_reset_request
  BY <1>2 DEF DataEdge, TriggerFlag
<1>6. HoldoffInv'
  <2> SUFFICES ASSUME dr_triggered', ~bw_reset_request'
               PROVE  /\ ~dr_stopped' => counter' <= br_holdoff
                      /\ dr_stopped' => h_since' \in {br_holdoff, br_holdoff + 1}
    BY <1>5 DEF HoldoffHeld, HoldoffInv
  <2>1. ~reset
    BY <1>5
  <2>2. counter \in Nat /\ br_holdoff \in Nat /\ h_since \in Nat
        /\ br_holdoff <= MAXHOLDOFF /\ MAXHOLDOFF \in Nat
    BY <1>1, <1>3, CaptureAssumption, SMT DEF CaptureTypeOK, Holdoff
  <2>3. CASE ~dr_triggered
    <3>1. counter' = 0 /\ ~dr_stopped'
      BY <1>2, <1>3, <2>1, <2>3
      DEF DataEdge, CountHoldoff, StopFlag, CaptureInv
    <3> QED BY <2>2, <3>1, SMT
  <2>4. CASE dr_triggered /\ ~dr_stopped
    <3>1. counter <= br_holdoff /\ h_since = counter
      BY <1>3, <2>1, <2>4 DEF HoldoffInv, CaptureInv
    <3>2. dr_stopped' <=> counter >= br_holdoff
      BY <1>2, <2>1, <2>4 DEF DataEdge, StopFlag
    <3>3. counter' = (IF ce THEN NextCount(counter) ELSE counter)
          /\ h_since' = (IF ce THEN h_since + 1 ELSE h_since)
      BY <1>2, <1>3, <2>1, <2>4, HistoryOpen DEF DataEdge, CountHoldoff, Remember
    <3>4. CASE counter = br_holdoff
      <4>1. dr_stopped' /\ h_since' \in {br_holdoff, br_holdoff + 1}
        BY <2>2, <3>1, <3>2, <3>3, <3>4, SMT
      <4> QED BY <4>1
    <3>5. CASE counter < br_holdoff
      <4>1. ~dr_stopped'
        BY <2>2, <3>2, <3>5, SMT
      <4>2. counter' <= br_holdoff
        BY <2>2, <3>3, <3>5, SMT DEF NextCount
      <4> QED BY <4>1, <4>2
    <3> QED BY <2>2, <3>1, <3>4, <3>5, SMT
  <2>5. CASE dr_triggered /\ dr_stopped
    <3>1. dr_stopped' /\ h_since' = h_since
      BY <1>2, <2>1, <2>5 DEF DataEdge, StopFlag, Remember
    <3> QED BY <1>3, <2>1, <2>5, <3>1 DEF HoldoffInv
  <2> QED BY <2>3, <2>4, <2>5
<1> QED BY <1>4, <1>6 DEF OneClockInv

-----------------------------------------------------------------------------
(* The scope starts as CaptureWindow does.                                 *)
LEMMA RefinesInitial == CaptureInit /\ BusInit => Contract!WindowInit
<1> SUFFICES ASSUME CaptureInit, BusInit PROVE Contract!WindowInit
  OBVIOUS
<1>1. bw_reset_request
  BY DEF BusInit, bw_reset_request
<1>2. Phase(bw_reset_request) = "reset" /\ Fill(bw_reset_request) = 0
      /\ Since(bw_reset_request) = 0
  BY <1>1 DEF Phase, Fill, Since
<1>3. Window(bw_reset_request) = [i \in 1 .. 0 |-> CHOOSE w \in Word : TRUE]
  BY <1>2 DEF Window
<1>4. data_pipe \in Word /\ h_trigger \in Word /\ br_holdoff \in Holdoff
  BY BusAssumption DEF CaptureInit, BusInit, Word
<1> QED BY <1>2, <1>3, <1>4 DEF Contract!WindowInit

(* There is nothing in an empty window.                                    *)
LEMMA NothingBelowOne == \A i \in 1 .. 0 : FALSE
BY SMT

(* A clock that ends with a reset pending is a Restart.                    *)
LEMMA RefinesRestart ==
    ASSUME CaptureTypeOK', BusTypeOK', bw_reset_request'
    PROVE  Contract!Restart
<1>1. Phase(bw_reset_request)' = "reset" /\ Fill(bw_reset_request)' = 0
      /\ Since(bw_reset_request)' = 0
  BY DEF Phase, Fill, Since
<1>2. Window(bw_reset_request)' = [i \in 1 .. 0 |-> CHOOSE w \in Word : TRUE]
  BY <1>1, NothingBelowOne DEF Window
<1>3. data_pipe' \in Word /\ h_trigger' \in Word /\ br_holdoff' \in Holdoff
  BY DEF CaptureTypeOK, BusTypeOK
<1> QED BY <1>1, <1>2, <1>3 DEF Contract!Restart

(* The clock that ends the reset is a Start.                               *)
LEMMA RefinesStart ==
    ASSUME CaptureTypeOK', BusTypeOK', NEW ce, NEW trig, NEW sample,
           Edge(ce, trig, sample), bw_reset_request, ~bw_reset_request'
    PROVE  Contract!Start
<1>1. /\ ~dr_triggered' /\ ~dr_stopped' /\ ~dr_primed' /\ waddr' = 0 /\ h_since' = 0
  BY DEF Edge, DataEdge, TriggerFlag, StopFlag, FillRing, Remember
<1>2. Phase(bw_reset_request)' = "collecting" /\ Fill(bw_reset_request)' = 0
      /\ Since(bw_reset_request)' = 0
  BY <1>1 DEF Phase, Fill, Since
<1>3. Phase(bw_reset_request) = "reset" /\ Fill(bw_reset_request) = 0
      /\ Since(bw_reset_request) = 0
  BY DEF Phase, Fill, Since
<1>4. Window(bw_reset_request)' = Window(bw_reset_request)
  <2>1. Window(bw_reset_request)' = [i \in 1 .. 0 |-> CHOOSE w \in Word : TRUE]
    BY <1>2, NothingBelowOne DEF Window
  <2>2. Window(bw_reset_request) = [i \in 1 .. 0 |-> CHOOSE w \in Word : TRUE]
    BY <1>3, NothingBelowOne DEF Window
  <2> QED BY <2>1, <2>2
<1>5. data_pipe' \in Word /\ h_trigger' \in Word /\ br_holdoff' \in Holdoff
  BY DEF CaptureTypeOK, BusTypeOK
<1> QED BY <1>2, <1>3, <1>4, <1>5 DEF Contract!Start

(* A clock of the running scope collects, accepts the trigger, follows it,  *)
(* ends the capture or comes too late.                                     *)
LEMMA RefinesRunning ==
    ASSUME OneClockInv, HoldoffHeld, NEW ce \in Enables, NEW trig \in BOOLEAN,
           NEW sample \in Stream(data_pipe), Edge(ce, trig, sample),
           ~bw_reset_request, ~bw_reset_request'
    PROVE  [Contract!WindowNext]_Contract!windowVars
<1> DEFINE manual == br_config.manual
           disable == br_config.disable
<1>1. ce \in BOOLEAN /\ sample \in SAMPLES /\ sample \in Word
  BY EdgeTypes DEF OneClockInv, Word
<1>2. bw_reset_request = FALSE /\ bw_reset_request' = FALSE
  BY DEF bw_reset_request
<1>3. DataEdge(FALSE, manual, disable, br_holdoff, ce, trig, sample)
  BY <1>2 DEF Edge
<1>4. br_holdoff' = br_holdoff
  BY DEF HoldoffHeld
<1>5. CaptureTypeOK /\ CaptureInv /\ HoldoffInv
  BY DEF OneClockInv
<1>6. /\ ce => data_pipe' = sample
      /\ ~ce => data_pipe' = data_pipe
      /\ ce /\ ~dr_stopped =>
           Slides(Fill(FALSE), Window(FALSE), data_pipe, Fill(FALSE)', Window(FALSE)')
      /\ ~(ce /\ ~dr_stopped) =>
           Fill(FALSE)' = Fill(FALSE) /\ Window(FALSE)' = Window(FALSE)
  <2> HIDE DEF manual, disable
  <2> QED BY <1>1, <1>3, <1>5, DataEdgeWindow
<1>7. Fill(bw_reset_request) = Fill(FALSE) /\ Fill(bw_reset_request)' = Fill(FALSE)'
      /\ Window(bw_reset_request) = Window(FALSE)
      /\ Window(bw_reset_request)' = Window(FALSE)'
      /\ Since(bw_reset_request) = h_since /\ Since(bw_reset_request)' = h_since'
  BY <1>2 DEF Since, Fill, Window
<1>8. ce /\ ~dr_stopped => Contract!Slide(data_pipe)
  BY <1>6, <1>7 DEF Slides, Contract!Slide
<1>9. ~(ce /\ ~dr_stopped) => /\ Fill(bw_reset_request)' = Fill(bw_reset_request)
                              /\ Window(bw_reset_request)' = Window(bw_reset_request)
  BY <1>6, <1>7
<1>10. CASE ~dr_triggered /\ ~dr_triggered'
  <2>1. ~dr_stopped /\ ~dr_stopped' /\ h_since' = h_since /\ h_trigger' = h_trigger
    BY <1>3, <1>5, <1>10
    DEF DataEdge, StopFlag, Remember, TriggerFlag, CaptureInv
  <2>2. Phase(bw_reset_request) = "collecting" /\ Phase(bw_reset_request)' = "collecting"
    BY <1>2, <1>10, <2>1 DEF Phase
  <2>3. CASE ce
    <3>1. Contract!Collect(sample)
      BY <1>4, <1>6, <1>7, <1>8, <2>1, <2>2, <2>3
      DEF Contract!Collect, Contract!Kept
    <3> QED BY <1>1, <3>1 DEF Contract!WindowNext
  <2>4. CASE ~ce
    BY <1>4, <1>6, <1>7, <1>9, <2>1, <2>2, <2>4 DEF Contract!windowVars
  <2> QED BY <2>3, <2>4
<1>11. CASE ~dr_triggered /\ dr_triggered'
  <2>1. ce /\ dr_primed /\ DwTrigger(manual, disable, trig)
    BY <1>3, <1>11 DEF DataEdge, TriggerFlag, DwTrigger
  <2>2. ~dr_stopped /\ ~dr_stopped' /\ h_since = 0 /\ h_since' = 0 /\ h_trigger' = sample
    BY <1>3, <1>5, <1>11, <2>1 DEF DataEdge, StopFlag, Remember, CaptureInv
  <2>3. Phase(bw_reset_request) = "collecting" /\ Phase(bw_reset_request)' = "triggered"
    BY <1>2, <1>11, <2>2 DEF Phase
  <2>4. Fill(bw_reset_request) = MEMLEN
    BY <1>2, <2>1 DEF Fill
  <2>5. Contract!Accept(sample)
    BY <1>4, <1>6, <1>7, <1>8, <2>1, <2>2, <2>3, <2>4
    DEF Contract!Accept, Contract!Kept
  <2> QED BY <1>1, <2>5 DEF Contract!WindowNext
<1>12. CASE dr_triggered /\ ~dr_stopped
  <2>1. dr_triggered' /\ h_trigger' = h_trigger
        /\ h_since' = (IF ce THEN h_since + 1 ELSE h_since)
    BY <1>3, <1>5, <1>12, HistoryOpen DEF DataEdge, TriggerFlag, Remember
  <2>2. dr_stopped' <=> counter >= br_holdoff
    BY <1>3, <1>12 DEF DataEdge, StopFlag
  <2>3. h_since = counter /\ Phase(bw_reset_request) = "triggered"
    BY <1>2, <1>5, <1>12 DEF CaptureInv, Phase
  <2>4. counter \in Nat /\ br_holdoff \in Nat
    BY <1>5, CaptureAssumption, EdgeTypes, SMT DEF CaptureTypeOK, Holdoff, OneClockInv
  <2>5. CASE dr_stopped'
    <3>1. Phase(bw_reset_request)' = "stopped" /\ Contract!Counted
      BY <1>2, <1>4, <1>7, <2>2, <2>3, <2>5 DEF Phase, Contract!Counted, Contract!Kept
    <3>2. CASE ce
      <4>1. Contract!Finish(sample)
        BY <1>6, <1>7, <1>8, <1>12, <2>1, <2>3, <3>1, <3>2 DEF Contract!Finish
      <4> QED BY <1>1, <4>1 DEF Contract!WindowNext
    <3>3. CASE ~ce
      <4>1. Contract!Cut
        BY <1>6, <1>7, <1>9, <2>1, <2>3, <3>1, <3>3 DEF Contract!Cut
      <4> QED BY <4>1 DEF Contract!WindowNext
    <3> QED BY <3>2, <3>3
  <2>6. CASE ~dr_stopped'
    <3>1. Phase(bw_reset_request)' = "triggered"
      BY <1>2, <2>1, <2>6 DEF Phase
    <3>2. counter < br_holdoff
      BY <2>2, <2>4, <2>6, SMT
    <3>3. CASE ce
      <4>1. Contract!Counting
        BY <1>4, <1>7, <2>3, <3>2 DEF Contract!Counting, Contract!Kept
      <4>2. Contract!Follow(sample)
        BY <1>6, <1>7, <1>8, <1>12, <2>1, <2>3, <3>1, <3>3, <4>1 DEF Contract!Follow
      <4> QED BY <1>1, <4>2 DEF Contract!WindowNext
    <3>4. CASE ~ce
      BY <1>4, <1>6, <1>7, <1>9, <2>1, <2>3, <3>1, <3>4 DEF Contract!windowVars
    <3> QED BY <3>3, <3>4
  <2> QED BY <2>5, <2>6
<1>13. CASE dr_triggered /\ dr_stopped
  <2>1. dr_triggered' /\ dr_stopped' /\ h_trigger' = h_trigger /\ h_since' = h_since
    BY <1>3, <1>13 DEF DataEdge, TriggerFlag, StopFlag, Remember
  <2>2. Phase(bw_reset_request) = "stopped" /\ Phase(bw_reset_request)' = "stopped"
    BY <1>2, <1>13, <2>1 DEF Phase
  <2>3. CASE ce
    <3>1. Contract!Ignore(sample)
      BY <1>4, <1>6, <1>7, <1>9, <1>13, <2>1, <2>2, <2>3
      DEF Contract!Ignore, Contract!Kept
    <3> QED BY <1>1, <3>1 DEF Contract!WindowNext
  <2>4. CASE ~ce
    BY <1>4, <1>6, <1>7, <1>9, <2>1, <2>2, <2>4 DEF Contract!windowVars
  <2> QED BY <2>3, <2>4
<1> QED BY <1>10, <1>11, <1>12, <1>13

(* A clock is a step of CaptureWindow, or changes nothing in it.           *)
LEMMA EdgeRefines ==
    ASSUME OneClockInv, OneClockInv', HoldoffHeld,
           NEW ce \in Enables, NEW trig \in BOOLEAN, NEW sample \in Stream(data_pipe),
           Edge(ce, trig, sample)
    PROVE  [Contract!WindowNext]_Contract!windowVars
<1>1. CASE bw_reset_request'
  BY <1>1, RefinesRestart DEF OneClockInv, Contract!WindowNext
<1>2. CASE bw_reset_request /\ ~bw_reset_request'
  BY <1>2, RefinesStart DEF OneClockInv, Contract!WindowNext
<1>3. CASE ~bw_reset_request /\ ~bw_reset_request'
  BY <1>3, RefinesRunning
<1> QED BY <1>1, <1>2, <1>3

(* A clock on which nothing changes.                                       *)
LEMMA StillRefines ==
    ASSUME OneClockInv, UNCHANGED <<captureVars, historyVars, busVars>>
    PROVE  OneClockInv' /\ UNCHANGED Contract!windowVars
BY DEF captureVars, historyVars, busVars, OneClockInv, CaptureTypeOK, BusTypeOK,
       CaptureInv, PlaceInv, HoldoffInv, RingAt, bw_reset_request,
       Contract!windowVars, Phase, Fill, Window, Since

(* In a stopped scope the trigger is in its place.                         *)
LEMMA InvTriggerInPlace == OneClockInv => TriggerInPlace
BY DEF OneClockInv, CaptureInv, PlaceInv, HoldoffInv, TriggerInPlace
=============================================================================
