------------------------- MODULE WBScopeAsync_proofs -------------------------
(***************************************************************************)
(* The two-clock scope, for every ratio and phase of the two clocks and    *)
(* every way the first flip-flop of a synchroniser may settle.             *)
(***************************************************************************)
EXTENDS WBScopeAsync, ScopeBus_proofs

(* The sixth register of the handshake, r_reset_complete, that the code's  *)
(* own assertion leaves out: it is up when the data clock is in reset and  *)
(* the bus has the answer, and down when neither is.                       *)
AnswerInv ==
    /\ dw_reset /\ q_reset_complete => r_reset_complete
    /\ ~dw_reset /\ ~q_reset_complete => ~r_reset_complete

(* An answer to the reset vouches for an edge of the data clock in reset:  *)
(* the capture's flags are down while it is up.                            *)
ClearedInv == r_reset_complete => ~dr_stopped /\ ~dr_triggered /\ ~dr_primed /\ waddr = 0

(* The answer leaves the synchroniser before a new stop gets through it.   *)
NoEarlyStop ==
    /\ q_reset_complete => ~q_oflags.stopped
    /\ qq_reset_complete => ~r_oflags.stopped

AsyncInv ==
    /\ TypeOK /\ CaptureInv /\ Handshake /\ AnswerInv /\ ClearedInv
    /\ FlagsCoherent /\ NoEarlyStop

LEMMA AsyncInitial == Init => AsyncInv
<1> SUFFICES ASSUME Init PROVE AsyncInv
  OBVIOUS
<1>1. CaptureTypeOK /\ CaptureInv /\ BusTypeOK
  BY CaptureInitial, BusInitial DEF Init
<1>2. CDCTypeOK
  BY DEF Init, CDCInit, CDCTypeOK, NoIFlags, NoOFlags, IFlags, OFlags
<1>3. /\ bw_reset_request /\ q_iflags.reset = FALSE /\ r_iflags.reset = FALSE
      /\ q_reset_complete = FALSE /\ qq_reset_complete = FALSE
      /\ r_reset_complete = FALSE
  BY DEF Init, CDCInit, BusInit, bw_reset_request, NoIFlags
<1>4. Handshake
  BY <1>3 DEF Handshake, HandshakeRing, dw_reset, bw_reset_request
<1>5. AnswerInv /\ ClearedInv /\ FlagsCoherent /\ NoEarlyStop
  BY <1>3 DEF AnswerInv, ClearedInv, FlagsCoherent, NoEarlyStop, dw_reset
<1> QED BY <1>1, <1>2, <1>4, <1>5 DEF AsyncInv, TypeOK

-----------------------------------------------------------------------------
(* A step moves the bus-clock half or leaves it alone, and likewise the    *)
(* data-clock half; an edge of both is both.                               *)

BusMoves ==
    \E req \in Requests, sample \in SAMPLES,
       complete \in {r_reset_complete, r_reset_complete'},
       seen \in Settled(Status, Status'), address \in Address, word \in Word :
          /\ BusRegisters(req, sample)
          /\ Prefetch(req, address, word)
          /\ StatusBack(bw_reset_request, complete, seen)

DataMoves ==
    \E ce \in BOOLEAN, trig \in BOOLEAN, sample \in SAMPLES, holdoff \in Holdoff,
       seen \in Settled(Controls, Controls') :
          /\ DataRegisters(ce, trig, sample, holdoff)
          /\ br_holdoff' = br_holdoff => holdoff = br_holdoff
          /\ ControlsIn(seen)

BusRests  == UNCHANGED <<busVars, busCDCVars>>
DataRests == UNCHANGED <<captureVars, historyVars, dataCDCVars>>

(* The status and control bits that cross are Booleans.                    *)
LEMMA CrossingTypes ==
    ASSUME TypeOK
    PROVE  Status \in OFlags /\ Controls \in IFlags
<1>1. br_config \in [reset_n : BOOLEAN, manual : BOOLEAN, disable : BOOLEAN]
  BY DEF TypeOK, BusTypeOK
<1>2. Controls \in IFlags
  BY <1>1 DEF Controls, IFlags, bw_reset_request
<1>3. Status \in OFlags
  BY DEF TypeOK, CaptureTypeOK, Status, OFlags
<1> QED BY <1>2, <1>3

(* What is stable is seen as it is.                                        *)
LEMMA StatusSettles ==
    ASSUME TypeOK PROVE Status \in Settled(Status, Status')
BY CrossingTypes DEF Settled, Status, OFlags

LEMMA ControlsSettle ==
    ASSUME TypeOK PROVE Controls \in Settled(Controls, Controls')
BY CrossingTypes DEF Settled, Controls, IFlags

LEMMA Halves ==
    ASSUME TypeOK, Next
    PROVE  (BusMoves \/ BusRests) /\ (DataMoves \/ DataRests)
<1>1. /\ data_pipe \in Word /\ waddr \in Address /\ br_holdoff \in Holdoff
      /\ this_addr \in Address /\ mem[this_addr] \in Word
  BY DEF TypeOK, CaptureTypeOK, BusTypeOK
<1>2. Stream(data_pipe) \subseteq SAMPLES /\ Enables \subseteq BOOLEAN
  BY <1>1, CaptureAssumption DEF Word
<1>3. ASSUME NEW req \in Requests, NEW sample \in Stream(data_pipe), BusTick(req, sample)
      PROVE  BusMoves /\ DataRests
  <2>1. BusMoves
    BY <1>1, <1>2, <1>3, StatusSettles DEF BusTick, BusMoves
  <2> QED BY <1>3, <2>1 DEF BusTick, DataRests
<1>4. ASSUME NEW ce \in Enables, NEW trig \in BOOLEAN,
             NEW sample \in Stream(data_pipe), DataTick(ce, trig, sample)
      PROVE  DataMoves /\ BusRests
  <2>1. DataMoves
    BY <1>1, <1>2, <1>4, ControlsSettle DEF DataTick, DataMoves, busVars
  <2> QED BY <1>4, <2>1 DEF DataTick, BusRests
<1>5. ASSUME NEW req \in Requests, NEW ce \in Enables, NEW trig \in BOOLEAN,
             NEW sample \in Stream(data_pipe), BothTick(req, ce, trig, sample)
      PROVE  BusMoves /\ DataMoves
  <2>1. PICK holdoff \in Seen(br_holdoff, br_holdoff', Holdoff) :
          DataRegisters(ce, trig, sample, holdoff)
    BY <1>5 DEF BothTick
  <2>2. PICK controls \in Settled(Controls, Controls') : ControlsIn(controls)
    BY <1>5 DEF BothTick
  <2>3. PICK seen \in Settled(Status, Status'),
             complete \in {r_reset_complete, r_reset_complete'} :
          StatusBack(bw_reset_request, complete, seen)
    BY <1>5 DEF BothTick
  <2>4. PICK address \in Seen(waddr, waddr', Address),
             word \in Seen(mem[this_addr], mem'[this_addr], Word) :
          Prefetch(req, address, word)
    BY <1>5 DEF BothTick
  <2>5. BusRegisters(req, sample)
    BY <1>5 DEF BothTick
  <2>6. /\ holdoff \in Holdoff /\ address \in Address /\ word \in Word
        /\ br_holdoff' = br_holdoff => holdoff = br_holdoff
    BY <1>1, <2>1, <2>4 DEF Seen
  <2>7. BusMoves
    BY <1>2, <2>3, <2>4, <2>5, <2>6 DEF BusMoves
  <2>8. DataMoves
    BY <1>2, <2>1, <2>2, <2>6 DEF DataMoves
  <2> QED BY <2>7, <2>8
<1> QED BY <1>3, <1>4, <1>5 DEF Next

-----------------------------------------------------------------------------
(* What the data-clock half does when it moves.                            *)
LEMMA DataFacts ==
    ASSUME TypeOK, CaptureInv, DataMoves
    PROVE  /\ CaptureTypeOK' /\ CaptureInv'
           /\ q_iflags' \in IFlags /\ r_iflags' = q_iflags
           /\ q_iflags'.reset \in {bw_reset_request, bw_reset_request'}
           /\ r_reset_complete' = dw_reset
           /\ dw_reset => ~dr_stopped' /\ ~dr_triggered' /\ ~dr_primed' /\ waddr' = 0
           /\ ~dw_reset => /\ dr_stopped => dr_stopped'
                           /\ dr_triggered => dr_triggered'
                           /\ dr_primed => dr_primed'
           /\ ~dr_triggered => ~dr_stopped'
           /\ ~dw_reset /\ dr_stopped => waddr' = waddr /\ mem' = mem
<1>1. PICK ce \in BOOLEAN, trig \in BOOLEAN, sample \in SAMPLES, holdoff \in Holdoff,
           seen \in Settled(Controls, Controls') :
             DataRegisters(ce, trig, sample, holdoff) /\ ControlsIn(seen)
  BY DEF DataMoves
<1> DEFINE manual == r_iflags.manual
           disable == r_iflags.disable
           reset == r_iflags.reset
<1>2. DataEdge(reset, manual, disable, holdoff, ce, trig, sample)
  BY <1>1 DEF DataRegisters, dw_reset
<1>3. reset \in BOOLEAN /\ manual \in BOOLEAN /\ disable \in BOOLEAN
      /\ CaptureTypeOK
  BY DEF TypeOK, CDCTypeOK, IFlags
<1>4. CaptureTypeOK' /\ CaptureInv'
  <2> HIDE DEF reset, manual, disable
  <2> QED BY <1>2, <1>3, DataEdgeType, DataEdgeInv
<1>5. q_iflags' = seen /\ r_iflags' = q_iflags /\ r_reset_complete' = dw_reset
  BY <1>1 DEF ControlsIn, dw_reset
<1>6. seen \in IFlags /\ seen.reset \in {bw_reset_request, bw_reset_request'}
  BY DEF Settled, Controls, IFlags
<1>7. /\ dw_reset => ~dr_stopped' /\ ~dr_triggered' /\ ~dr_primed' /\ waddr' = 0
      /\ ~dr_triggered => ~dr_stopped'
  BY <1>2 DEF dw_reset, DataEdge, TriggerFlag, StopFlag, FillRing
<1>8. ASSUME ~dw_reset
      PROVE  /\ dr_stopped => dr_stopped'
             /\ dr_triggered => dr_triggered'
             /\ dr_primed => dr_primed'
             /\ dr_stopped => waddr' = waddr /\ mem' = mem
  BY <1>2, <1>8
  DEF dw_reset, DataEdge, TriggerFlag, StopFlag, FillRing, StoreSample, CaptureInv
<1> QED BY <1>4, <1>5, <1>6, <1>7, <1>8

(* What the bus-clock half does when it moves.                             *)
LEMMA BusFacts ==
    ASSUME TypeOK, r_reset_complete' \in BOOLEAN, BusMoves
    PROVE  /\ BusTypeOK'
           /\ qq_reset_complete => ~bw_reset_request'
           /\ bw_reset_request /\ ~qq_reset_complete => bw_reset_request'
           /\ q_reset_complete' \in BOOLEAN
           /\ q_reset_complete' \in {r_reset_complete, r_reset_complete'}
           /\ qq_reset_complete' = q_reset_complete
           /\ q_oflags' \in OFlags /\ r_oflags' \in OFlags
           /\ bw_reset_request => q_oflags' = NoOFlags /\ r_oflags' = NoOFlags
           /\ ~bw_reset_request =>
                /\ r_oflags' = q_oflags
                /\ \A flag \in {"stopped", "triggered", "primed"} :
                     q_oflags'[flag] \in {Status[flag], Status'[flag]}
<1>1. PICK req \in Requests, sample \in SAMPLES,
           complete \in {r_reset_complete, r_reset_complete'},
           seen \in Settled(Status, Status'), address \in Address, word \in Word :
             /\ BusRegisters(req, sample)
             /\ Prefetch(req, address, word)
             /\ StatusBack(bw_reset_request, complete, seen)
  BY DEF BusMoves
<1>2. qq_reset_complete \in BOOLEAN /\ r_oflags \in OFlags /\ q_oflags \in OFlags
      /\ r_reset_complete \in BOOLEAN /\ BusTypeOK /\ CaptureTypeOK
  BY DEF TypeOK, CDCTypeOK
<1>3. BusTypeOK'
  <2> DEFINE stopped == r_oflags.stopped
             triggered == r_oflags.triggered
             primed == r_oflags.primed
             answer == qq_reset_complete
  <2>1. stopped \in BOOLEAN /\ triggered \in BOOLEAN /\ primed \in BOOLEAN
        /\ answer \in BOOLEAN
    BY <1>2 DEF OFlags
  <2>2. BusEdge(req, answer, stopped, triggered, primed, sample)
    BY <1>1 DEF BusRegisters, bw_reset_complete
  <2> HIDE DEF stopped, triggered, primed, answer
  <2> QED BY <1>1, <1>2, <2>1, <2>2, BusEdgeType, RequestWellFormed
<1>4. /\ qq_reset_complete => ~bw_reset_request'
      /\ bw_reset_request /\ ~qq_reset_complete => bw_reset_request'
  BY <1>1 DEF BusRegisters, BusEdge, Configure, bw_reset_request, bw_reset_complete
<1>5. /\ q_reset_complete' = complete /\ qq_reset_complete' = q_reset_complete
      /\ q_oflags' = IF bw_reset_request THEN NoOFlags ELSE seen
      /\ r_oflags' = IF bw_reset_request THEN NoOFlags ELSE q_oflags
  BY <1>1 DEF StatusBack
<1>6. seen \in OFlags /\ \A flag \in {"stopped", "triggered", "primed"} :
                            seen[flag] \in {Status[flag], Status'[flag]}
  BY DEF Settled, Status, OFlags
<1>7. NoOFlags \in OFlags
  BY DEF NoOFlags, OFlags
<1> QED BY <1>2, <1>3, <1>4, <1>5, <1>6, <1>7

-----------------------------------------------------------------------------
(* The ring of the handshake, spelled out on its five bits.                *)
Ring(request, first, second, answer, done) ==
    \/ ~request /\ ~first /\ ~second /\ ~answer /\ ~done
    \/  request /\ ~first /\ ~second /\ ~answer /\ ~done
    \/  request /\  first /\ ~second /\ ~answer /\ ~done
    \/  request /\  first /\  second /\ ~answer /\ ~done
    \/  request /\  first /\  second /\  answer /\ ~done
    \/  request /\  first /\  second /\  answer /\  done
    \/ ~request /\  first /\  second /\  answer /\  done
    \/ ~request /\ ~first /\  second /\  answer /\  done
    \/ ~request /\ ~first /\ ~second /\  answer /\  done
    \/ ~request /\ ~first /\ ~second /\ ~answer /\  done

LEMMA RingOfTuple ==
    ASSUME NEW a \in BOOLEAN, NEW b \in BOOLEAN, NEW c \in BOOLEAN,
           NEW d \in BOOLEAN, NEW e \in BOOLEAN
    PROVE  <<a, b, c, d, e>> \in HandshakeRing
             <=> Ring(a, b, c, d, e)
BY DEF Ring, HandshakeRing

LEMMA HandshakeIsRing ==
    ASSUME TypeOK
    PROVE  Handshake <=> Ring(bw_reset_request, q_iflags.reset, dw_reset,
                              q_reset_complete, qq_reset_complete)
<1>1. /\ bw_reset_request \in BOOLEAN /\ q_iflags.reset \in BOOLEAN
      /\ dw_reset \in BOOLEAN /\ q_reset_complete \in BOOLEAN
      /\ qq_reset_complete \in BOOLEAN
  BY DEF TypeOK, CDCTypeOK, IFlags, dw_reset, bw_reset_request
<1>2. <<bw_reset_request, q_iflags.reset, dw_reset, q_reset_complete,
        qq_reset_complete>> \in HandshakeRing
      <=> Ring(bw_reset_request, q_iflags.reset, dw_reset, q_reset_complete,
               qq_reset_complete)
  BY <1>1, RingOfTuple
<1> QED BY <1>2, Zenon DEF Handshake

-----------------------------------------------------------------------------
(* Either half of a step, moving or resting, keeps the types.              *)
LEMMA StepHalves ==
    ASSUME TypeOK, [Next]_vars
    PROVE  (BusMoves \/ BusRests) /\ (DataMoves \/ DataRests)
<1>1. CASE Next
  BY <1>1, Halves
<1>2. CASE UNCHANGED vars
  BY <1>2 DEF vars, cdcVars, BusRests, DataRests
<1> QED BY <1>1, <1>2

LEMMA StepTypes ==
    ASSUME TypeOK, CaptureInv, BusMoves \/ BusRests, DataMoves \/ DataRests
    PROVE  TypeOK' /\ CaptureInv'
<1>1. /\ CaptureTypeOK' /\ CaptureInv' /\ q_iflags' \in IFlags
      /\ r_iflags' \in IFlags /\ r_reset_complete' \in BOOLEAN
  <2>1. CASE DataMoves
    BY <2>1, DataFacts DEF TypeOK, CDCTypeOK, IFlags, dw_reset
  <2>2. CASE DataRests
    BY <2>2 DEF DataRests, captureVars, historyVars, dataCDCVars,
                TypeOK, CDCTypeOK, CaptureTypeOK, CaptureInv
  <2> QED BY <2>1, <2>2
<1>2. /\ BusTypeOK' /\ q_reset_complete' \in BOOLEAN
      /\ qq_reset_complete' \in BOOLEAN
      /\ q_oflags' \in OFlags /\ r_oflags' \in OFlags
  <2>1. CASE BusMoves
    BY <1>1, <2>1, BusFacts DEF TypeOK, CDCTypeOK
  <2>2. CASE BusRests
    BY <2>2 DEF BusRests, busVars, busCDCVars, TypeOK, CDCTypeOK, BusTypeOK
  <2> QED BY <2>1, <2>2
<1> QED BY <1>1, <1>2 DEF TypeOK, CDCTypeOK

(* The handshake goes round: each bit follows the one before it, at its    *)
(* own pace.                                                               *)
LEMMA StepHandshake ==
    ASSUME AsyncInv, BusMoves \/ BusRests, DataMoves \/ DataRests
    PROVE  Handshake' /\ AnswerInv'
<1>1. TypeOK' /\ TypeOK /\ CaptureInv
  BY StepTypes DEF AsyncInv
<1> DEFINE a == bw_reset_request
           b == q_iflags.reset
           c == dw_reset
           r == r_reset_complete
           d == q_reset_complete
           e == qq_reset_complete
           a2 == bw_reset_request'
           b2 == q_iflags'.reset
           c2 == dw_reset'
           r2 == r_reset_complete'
           d2 == q_reset_complete'
           e2 == qq_reset_complete'
<1>2. /\ a \in BOOLEAN /\ b \in BOOLEAN /\ c \in BOOLEAN
      /\ r \in BOOLEAN /\ d \in BOOLEAN /\ e \in BOOLEAN
  BY <1>1 DEF TypeOK, CDCTypeOK, IFlags, dw_reset, bw_reset_request
<1>3. /\ a2 \in BOOLEAN /\ b2 \in BOOLEAN /\ c2 \in BOOLEAN
      /\ r2 \in BOOLEAN /\ d2 \in BOOLEAN /\ e2 \in BOOLEAN
  BY <1>1 DEF TypeOK, CDCTypeOK, IFlags, dw_reset, bw_reset_request
<1>4. Ring(a, b, c, d, e) /\ (c /\ d => r) /\ (~c /\ ~d => ~r)
  BY HandshakeIsRing DEF AsyncInv, AnswerInv
<1>5. \/ /\ e => ~a2
         /\ a /\ ~e => a2
         /\ (d2 <=> r) \/ (d2 <=> r2)
         /\ e2 <=> d
      \/ (a2 <=> a) /\ (d2 <=> d) /\ (e2 <=> e)
  <2>1. CASE BusMoves
    BY <1>1, <1>3, <2>1, BusFacts
  <2>2. CASE BusRests
    BY <2>2 DEF BusRests, busVars, busCDCVars, bw_reset_request
  <2> QED BY <2>1, <2>2
<1>6. \/ ((b2 <=> a) \/ (b2 <=> a2)) /\ (c2 <=> b) /\ (r2 <=> c)
      \/ (b2 <=> b) /\ (c2 <=> c) /\ (r2 <=> r)
  <2>1. CASE DataMoves
    BY <1>1, <2>1, DataFacts DEF dw_reset
  <2>2. CASE DataRests
    BY <2>2 DEF DataRests, dataCDCVars, dw_reset
  <2> QED BY <2>1, <2>2
<1>7. Ring(a2, b2, c2, d2, e2) /\ (c2 /\ d2 => r2) /\ (~c2 /\ ~d2 => ~r2)
  <2> HIDE DEF a, b, c, r, d, e, a2, b2, c2, r2, d2, e2
  <2> QED BY <1>2, <1>3, <1>4, <1>5, <1>6 DEF Ring
<1>8. <<a2, b2, c2, d2, e2>> \in HandshakeRing <=> Ring(a2, b2, c2, d2, e2)
  BY <1>3, RingOfTuple
<1>9. Handshake'
  BY <1>7, <1>8 DEF Handshake
<1> QED BY <1>7, <1>9 DEF AnswerInv

(* Once the bus has the answer to its reset, what is left of it on the     *)
(* data clock finds the capture cleared already.                           *)
LEMMA ResetTail ==
    ASSUME AsyncInv, ~bw_reset_request, dw_reset
    PROVE  r_reset_complete
<1>1. q_reset_complete
  BY HandshakeIsRing DEF AsyncInv, Ring
<1> QED BY <1>1 DEF AsyncInv, AnswerInv

LEMMA StepCleared ==
    ASSUME AsyncInv, DataMoves \/ DataRests
    PROVE  ClearedInv'
<1>1. CASE DataMoves
  BY <1>1, DataFacts DEF AsyncInv, ClearedInv
<1>2. CASE DataRests
  BY <1>2 DEF DataRests, captureVars, dataCDCVars, AsyncInv, ClearedInv
<1> QED BY <1>1, <1>2

(* Outside of a reset the data clock drops no status flag.                 *)
LEMMA StatusStays ==
    ASSUME AsyncInv, ~bw_reset_request, DataMoves \/ DataRests
    PROVE  /\ dr_stopped => dr_stopped'
           /\ dr_triggered => dr_triggered'
           /\ dr_primed => dr_primed'
<1>1. CASE DataMoves /\ dw_reset
  BY <1>1, ResetTail DEF AsyncInv, ClearedInv
<1>2. CASE DataMoves /\ ~dw_reset
  BY <1>2, DataFacts DEF AsyncInv
<1>3. CASE DataRests
  BY <1>3 DEF DataRests, captureVars
<1> QED BY <1>1, <1>2, <1>3

LEMMA StepFlags ==
    ASSUME AsyncInv, BusMoves \/ BusRests, DataMoves \/ DataRests
    PROVE  FlagsCoherent'
<1>1. SUFFICES ASSUME ~bw_reset_request',
                      NEW flag \in {"stopped", "triggered", "primed"}
               PROVE  (r_oflags'[flag] => q_oflags'[flag])
                      /\ (q_oflags'[flag] => Status'[flag])
  BY DEF FlagsCoherent
<1>2. TypeOK /\ TypeOK'
  BY StepTypes DEF AsyncInv
<1>3. CASE bw_reset_request
  <2>1. BusMoves
    BY <1>1, <1>3 DEF BusRests, busVars, bw_reset_request
  <2>2. q_oflags' = NoOFlags /\ r_oflags' = NoOFlags
    BY <1>2, <1>3, <2>1, BusFacts DEF TypeOK, CDCTypeOK
  <2> QED BY <2>2 DEF NoOFlags
<1>4. CASE ~bw_reset_request
  <2>1. Status[flag] => Status'[flag]
    BY <1>4, StatusStays DEF Status
  <2>2. (r_oflags[flag] => q_oflags[flag]) /\ (q_oflags[flag] => Status[flag])
    BY <1>4 DEF AsyncInv, FlagsCoherent
  <2>3. CASE BusMoves
    <3>1. r_oflags' = q_oflags /\ q_oflags'[flag] \in {Status[flag], Status'[flag]}
      BY <1>2, <1>4, <2>3, BusFacts DEF TypeOK, CDCTypeOK
    <3> QED BY <2>1, <2>2, <3>1
  <2>4. CASE BusRests
    BY <2>1, <2>2, <2>4 DEF BusRests, busCDCVars
  <2> QED BY <2>3, <2>4
<1> QED BY <1>3, <1>4

LEMMA StepNoEarlyStop ==
    ASSUME AsyncInv, BusMoves \/ BusRests, DataMoves \/ DataRests
    PROVE  NoEarlyStop'
<1>1. TypeOK /\ TypeOK' /\ CaptureInv
  BY StepTypes DEF AsyncInv
<1>2. CASE BusRests
  BY <1>2 DEF BusRests, busCDCVars, AsyncInv, NoEarlyStop
<1>3. CASE BusMoves
  <2>1. /\ q_reset_complete' \in {r_reset_complete, r_reset_complete'}
        /\ qq_reset_complete' = q_reset_complete
        /\ bw_reset_request => q_oflags' = NoOFlags /\ r_oflags' = NoOFlags
        /\ ~bw_reset_request => r_oflags' = q_oflags
        /\ ~bw_reset_request =>
              q_oflags'["stopped"] \in {Status["stopped"], Status'["stopped"]}
    BY <1>1, <1>3, BusFacts DEF TypeOK, CDCTypeOK
  <2>2. qq_reset_complete' => ~r_oflags'.stopped
    BY <2>1 DEF AsyncInv, NoEarlyStop, NoOFlags
  <2>3. ASSUME q_reset_complete', ~bw_reset_request PROVE ~q_oflags'.stopped
    <3>1. r_reset_complete
      <4>1. CASE DataMoves
        <5>1. r_reset_complete' = dw_reset
          BY <1>1, <4>1, DataFacts
        <5> QED BY <2>1, <2>3, <5>1, ResetTail
      <4>2. CASE DataRests
        BY <2>1, <2>3, <4>2 DEF DataRests, dataCDCVars
      <4> QED BY <4>1, <4>2
    <3>2. ~dr_stopped /\ ~dr_triggered
      BY <3>1 DEF AsyncInv, ClearedInv
    <3>3. ~dr_stopped'
      <4>1. CASE DataMoves
        BY <1>1, <3>2, <4>1, DataFacts
      <4>2. CASE DataRests
        BY <3>2, <4>2 DEF DataRests, captureVars
      <4> QED BY <4>1, <4>2
    <3>4. ~Status["stopped"] /\ ~Status'["stopped"]
      BY <3>2, <3>3 DEF Status
    <3> QED BY <2>1, <2>3, <3>4
  <2>4. bw_reset_request => ~q_oflags'.stopped
    BY <2>1 DEF NoOFlags
  <2> QED BY <2>2, <2>3, <2>4 DEF NoEarlyStop
<1> QED BY <1>2, <1>3

LEMMA AsyncInductive == AsyncInv /\ [Next]_vars => AsyncInv'
<1> SUFFICES ASSUME AsyncInv, [Next]_vars PROVE AsyncInv'
  OBVIOUS
<1>1. TypeOK /\ CaptureInv
  BY DEF AsyncInv
<1>2. (BusMoves \/ BusRests) /\ (DataMoves \/ DataRests)
  BY <1>1, StepHalves
<1>3. TypeOK' /\ CaptureInv'
  BY <1>1, <1>2, StepTypes
<1>4. Handshake' /\ AnswerInv'
  BY <1>2, StepHandshake
<1>5. ClearedInv'
  BY <1>2, StepCleared
<1>6. FlagsCoherent'
  BY <1>2, StepFlags
<1>7. NoEarlyStop'
  BY <1>2, StepNoEarlyStop
<1> QED BY <1>3, <1>4, <1>5, <1>6, <1>7 DEF AsyncInv

-----------------------------------------------------------------------------
(* The invariant on which the two clocks work together.                    *)
THEOREM AsyncInvariant == Spec => []AsyncInv
BY AsyncInitial, AsyncInductive, PTL DEF Spec

(* Type correctness of the two-clock scope (rtl/wbscope.v, SYNCHRONOUS = 0),*)
(* its counters and addresses included.                                    *)
THEOREM AsyncTypeCorrect == Spec => []TypeOK
<1>1. AsyncInv => TypeOK
  BY DEF AsyncInv
<1> QED BY <1>1, AsyncInvariant, PTL

(* The reset handshake never leaves its ring (rtl/wbscope.v:224-263),       *)
(* however the clocks relate and the synchronisers settle.                 *)
THEOREM AsyncHandshake == Spec => []Handshake
<1>1. AsyncInv => Handshake
  BY DEF AsyncInv
<1> QED BY <1>1, AsyncInvariant, PTL

(* No status flag of an earlier capture reaches the bus                    *)
(* (rtl/wbscope.v:454-470).                                                *)
THEOREM AsyncFlagsCoherent == Spec => []FlagsCoherent
<1>1. AsyncInv => FlagsCoherent
  BY DEF AsyncInv
<1> QED BY <1>1, AsyncInvariant, PTL

(* What the bus reads of a stopped scope without a synchroniser is stable   *)
(* (rtl/wbscope.v:521-528).                                                *)
THEOREM AsyncReadableWhenStopped == Spec => ReadableWhenStopped
<1>1. AsyncInv /\ [Next]_vars
        => [r_oflags.stopped /\ ~bw_reset_request => UNCHANGED <<mem, waddr>>]_vars
  <2> SUFFICES ASSUME AsyncInv, [Next]_vars, r_oflags.stopped, ~bw_reset_request
               PROVE  UNCHANGED <<mem, waddr>>
    OBVIOUS
  <2>1. TypeOK /\ CaptureInv
    BY DEF AsyncInv
  <2>2. r_oflags["stopped"]
    OBVIOUS
  <2>3. Status["stopped"]
    BY <2>2 DEF AsyncInv, FlagsCoherent
  <2>4. dr_stopped
    BY <2>3 DEF Status
  <2>5. ~dw_reset
    BY <2>4, ResetTail DEF AsyncInv, ClearedInv
  <2>6. CASE DataMoves
    BY <2>1, <2>4, <2>5, <2>6, DataFacts
  <2>7. CASE DataRests
    BY <2>7 DEF DataRests, captureVars
  <2> QED BY <2>1, <2>6, <2>7, StepHalves
<1> QED BY <1>1, AsyncInvariant, PTL DEF Spec, ReadableWhenStopped

(* One interrupt per stop the bus sees (rtl/wbscope.v:575-583).  The answer  *)
(* to a reset, which holds the delayed copy down, is never up with STOPPED, *)
(* and the request clears STOPPED on the edge on which it lets the copy go. *)
THEOREM AsyncInterruptOnce == Spec => []InterruptOnce
<1> DEFINE Inv == InterruptInv(r_oflags.stopped)
<1>1. Init => Inv
  <2>1. Init => ~r_oflags.stopped
    BY DEF Init, CDCInit, NoOFlags
  <2> QED BY <2>1, InterruptInitial DEF Init
<1>2. ASSUME AsyncInv, Inv, [Next]_vars PROVE Inv'
  <2>1. BusMoves \/ BusRests
    BY <1>2, StepHalves DEF AsyncInv
  <2>2. CASE BusRests
    BY <1>2, <2>2 DEF BusRests, busVars, busCDCVars, InterruptInv
  <2>3. CASE BusMoves
    <3>1. /\ LevelInterrupt(bw_reset_complete, r_oflags.stopped)
          /\ CountInterrupts(r_oflags.stopped)
          /\ bw_reset_request => r_oflags' = NoOFlags
      BY <2>3 DEF BusMoves, BusRegisters, BusEdge, StatusBack
    <3>2. bw_reset_request => ~r_oflags'.stopped
      BY <3>1 DEF NoOFlags
    <3>3. bw_reset_complete => ~r_oflags.stopped
      BY <1>2 DEF AsyncInv, NoEarlyStop, bw_reset_complete
    <3> QED BY <1>2, <3>1, <3>2, <3>3, InterruptStep DEF InterruptInv
  <2> QED BY <2>1, <2>2, <2>3
<1>3. Inv => InterruptOnce
  BY InvOneInterrupt DEF InterruptOnce
<1> QED BY <1>1, <1>2, <1>3, AsyncInvariant, PTL DEF Spec

-----------------------------------------------------------------------------
(* The scope of two clocks implements CaptureWindow.  It is in reset from   *)
(* the request of the bus to the clock on which the capture sees it gone.   *)
Resetting == bw_reset_request \/ dw_reset

LEMMA RefinesInitial == Init => Contract!WindowInit
<1> SUFFICES ASSUME Init PROVE Contract!WindowInit
  OBVIOUS
<1>1. bw_reset_request
  BY DEF Init, BusInit, bw_reset_request
<1>2. Phase(Resetting) = "reset" /\ Fill(Resetting) = 0 /\ Since(Resetting) = 0
  BY <1>1 DEF Phase, Fill, Since, Resetting
<1>3. Window(Resetting) = [i \in 1 .. 0 |-> CHOOSE w \in Word : TRUE]
  BY <1>2 DEF Window
<1>4. data_pipe \in Word /\ h_trigger \in Word /\ br_holdoff \in Holdoff
  BY BusAssumption DEF Init, CaptureInit, BusInit, Word
<1> QED BY <1>2, <1>3, <1>4 DEF Contract!WindowInit, Resetting

LEMMA NothingBelowOne == \A i \in 1 .. 0 : FALSE
BY SMT

(* A step that ends in a reset is a Restart.                               *)
LEMMA RefinesRestart ==
    ASSUME TypeOK', Resetting'
    PROVE  Contract!Restart
<1>1. Phase(Resetting)' = "reset" /\ Fill(Resetting)' = 0 /\ Since(Resetting)' = 0
  BY DEF Phase, Fill, Since
<1>2. Window(Resetting)' = [i \in 1 .. 0 |-> CHOOSE w \in Word : TRUE]
  BY <1>1, NothingBelowOne DEF Window
<1>3. data_pipe' \in Word /\ h_trigger' \in Word /\ br_holdoff' \in Holdoff
  BY DEF TypeOK, CaptureTypeOK, BusTypeOK
<1> QED BY <1>1, <1>2, <1>3 DEF Contract!Restart, Resetting

(* The reset ends on an edge of the data clock: the bus takes its request   *)
(* back only when the answer, and so the reset, is up on the other side.    *)
LEMMA ResetEnds ==
    ASSUME AsyncInv, [Next]_vars, Resetting, ~Resetting'
    PROVE  dw_reset /\ DataMoves
<1>1. TypeOK /\ CaptureInv /\ (BusMoves \/ BusRests) /\ (DataMoves \/ DataRests)
  BY StepHalves DEF AsyncInv
<1>2. r_reset_complete' \in BOOLEAN
  BY <1>1, StepTypes DEF TypeOK, CDCTypeOK
<1>3. Ring(bw_reset_request, q_iflags.reset, dw_reset, q_reset_complete, qq_reset_complete)
  BY <1>1, HandshakeIsRing DEF AsyncInv
<1>4. DataRests => (dw_reset' <=> dw_reset)
  BY DEF DataRests, dataCDCVars, dw_reset
<1>5. DataMoves => (dw_reset' <=> q_iflags.reset)
  BY <1>1, DataFacts DEF dw_reset
<1>6. bw_reset_request => qq_reset_complete
  <2>1. CASE BusMoves
    BY <1>1, <1>2, <2>1, BusFacts DEF Resetting
  <2>2. CASE BusRests
    BY <2>2 DEF BusRests, busVars, bw_reset_request, Resetting
  <2> QED BY <1>1, <2>1, <2>2
<1>7. bw_reset_request => q_iflags.reset /\ dw_reset
  BY <1>3, <1>6 DEF Ring
<1>8. ~bw_reset_request
  BY <1>1, <1>4, <1>5, <1>7 DEF Resetting
<1> QED BY <1>1, <1>4, <1>8 DEF Resetting

(* That edge is a Start.                                                   *)
LEMMA RefinesStart ==
    ASSUME AsyncInv, AsyncInv', [Next]_vars, Resetting, ~Resetting'
    PROVE  Contract!Start
<1>1. TypeOK /\ CaptureInv /\ TypeOK' /\ CaptureInv'
  BY DEF AsyncInv
<1>2. ~dr_triggered' /\ ~dr_stopped' /\ ~dr_primed' /\ waddr' = 0 /\ h_since' = 0
  BY <1>1, ResetEnds, DataFacts DEF CaptureInv
<1>3. /\ Phase(Resetting)' = "collecting" /\ Fill(Resetting)' = 0
      /\ Since(Resetting)' = 0
  BY <1>2 DEF Phase, Fill, Since
<1>4. Phase(Resetting) = "reset" /\ Fill(Resetting) = 0 /\ Since(Resetting) = 0
  BY DEF Phase, Fill, Since
<1>5. Window(Resetting)' = Window(Resetting)
  <2>1. Window(Resetting)' = [i \in 1 .. 0 |-> CHOOSE w \in Word : TRUE]
    BY <1>3, NothingBelowOne DEF Window
  <2>2. Window(Resetting) = [i \in 1 .. 0 |-> CHOOSE w \in Word : TRUE]
    BY <1>4, NothingBelowOne DEF Window
  <2> QED BY <2>1, <2>2
<1>6. data_pipe' \in Word /\ h_trigger' \in Word /\ br_holdoff' \in Holdoff
  BY <1>1 DEF TypeOK, CaptureTypeOK, BusTypeOK
<1> QED BY <1>3, <1>4, <1>5, <1>6 DEF Contract!Start, Resetting

(* Outside of a reset the holdoff the data clock stops by is the one the    *)
(* bus has, unless the bus changes it on that very edge.                   *)
LEMMA HoldoffChoice ==
    ASSUME TypeOK, TypeOK'
    PROVE  Contract!Kept \/ Contract!Retuned
BY DEF TypeOK, BusTypeOK, Contract!Kept, Contract!Retuned

(* A step of the bus clock alone leaves the capture, or changes its         *)
(* holdoff.                                                                *)
LEMMA RefinesBusOnly ==
    ASSUME TypeOK, TypeOK', DataRests, ~Resetting, ~Resetting'
    PROVE  [Contract!WindowNext]_Contract!windowVars
<1>1. Resetting = FALSE /\ Resetting' = FALSE
  BY DEF Resetting, TypeOK, CDCTypeOK, bw_reset_request
<1>2. /\ Phase(Resetting)' = Phase(Resetting) /\ Fill(Resetting)' = Fill(Resetting)
      /\ Window(Resetting)' = Window(Resetting) /\ Since(Resetting)' = Since(Resetting)
      /\ data_pipe' = data_pipe /\ h_trigger' = h_trigger
  BY <1>1 DEF DataRests, captureVars, historyVars, Phase, Fill, Window, Since, RingAt
<1>3. CASE Contract!Kept
  BY <1>2, <1>3 DEF Contract!Kept, Contract!windowVars, Resetting
<1>4. CASE Contract!Retuned
  BY <1>2, <1>4 DEF Contract!Retune, Contract!WindowNext, Resetting
<1> QED BY <1>3, <1>4, HoldoffChoice

(* An edge of the data clock outside of a reset collects, accepts the       *)
(* trigger, follows it, ends the capture or comes too late; on an edge of   *)
(* both clocks it may do so while the holdoff changes.                     *)
LEMMA RefinesDataEdge ==
    ASSUME AsyncInv, TypeOK', DataMoves, ~Resetting, ~Resetting'
    PROVE  [Contract!WindowNext]_Contract!windowVars
<1>1. PICK ce \in BOOLEAN, trig \in BOOLEAN, sample \in SAMPLES, holdoff \in Holdoff,
           seen \in Settled(Controls, Controls') :
             /\ DataRegisters(ce, trig, sample, holdoff)
             /\ br_holdoff' = br_holdoff => holdoff = br_holdoff
  BY DEF DataMoves
<1> DEFINE manual == r_iflags.manual
           disable == r_iflags.disable
<1>2. TypeOK /\ CaptureTypeOK /\ CaptureInv /\ sample \in Word
  BY DEF AsyncInv, TypeOK, Word
<1>3. Resetting = FALSE /\ Resetting' = FALSE /\ dw_reset = FALSE
  BY <1>2 DEF Resetting, TypeOK, CDCTypeOK, IFlags, dw_reset, bw_reset_request
<1>4. DataEdge(FALSE, manual, disable, holdoff, ce, trig, sample)
  BY <1>1, <1>3 DEF DataRegisters
<1>5. Contract!Kept \/ Contract!Retuned
  BY <1>2, HoldoffChoice
<1>6. Contract!Kept => holdoff = br_holdoff
  BY <1>1 DEF Contract!Kept
<1>7. /\ ce => data_pipe' = sample
      /\ ~ce => data_pipe' = data_pipe
      /\ ce /\ ~dr_stopped =>
           Slides(Fill(FALSE), Window(FALSE), data_pipe, Fill(FALSE)', Window(FALSE)')
      /\ ~(ce /\ ~dr_stopped) =>
           Fill(FALSE)' = Fill(FALSE) /\ Window(FALSE)' = Window(FALSE)
  <2> HIDE DEF manual, disable
  <2> QED BY <1>2, <1>4, DataEdgeWindow
<1>8. /\ Fill(Resetting) = Fill(FALSE) /\ Fill(Resetting)' = Fill(FALSE)'
      /\ Window(Resetting) = Window(FALSE) /\ Window(Resetting)' = Window(FALSE)'
      /\ Since(Resetting) = h_since /\ Since(Resetting)' = h_since'
  BY <1>3 DEF Since, Fill, Window
<1>9. ce /\ ~dr_stopped => Contract!Slide(data_pipe)
  BY <1>7, <1>8 DEF Slides, Contract!Slide, Resetting
<1>10. ~(ce /\ ~dr_stopped) => /\ Fill(Resetting)' = Fill(Resetting)
                               /\ Window(Resetting)' = Window(Resetting)
  BY <1>7, <1>8
(* Where nothing happens to the capture, only the holdoff may change.      *)
<1>11. ASSUME ~ce, Phase(Resetting)' = Phase(Resetting), h_since' = h_since,
              h_trigger' = h_trigger
       PROVE  [Contract!WindowNext]_Contract!windowVars
  <2>1. CASE Contract!Kept
    BY <1>7, <1>8, <1>10, <1>11, <2>1 DEF Contract!Kept, Contract!windowVars, Resetting
  <2>2. CASE Contract!Retuned
    BY <1>7, <1>8, <1>10, <1>11, <2>2 DEF Contract!Retune, Contract!WindowNext, Resetting
  <2> QED BY <1>5, <2>1, <2>2
<1>12. CASE ~dr_triggered /\ ~dr_triggered'
  <2>1. ~dr_stopped /\ ~dr_stopped' /\ h_since' = h_since /\ h_trigger' = h_trigger
    BY <1>2, <1>4, <1>12 DEF DataEdge, StopFlag, Remember, TriggerFlag, CaptureInv
  <2>2. Phase(Resetting) = "collecting" /\ Phase(Resetting)' = "collecting"
    BY <1>3, <1>12, <2>1 DEF Phase
  <2>3. CASE ce
    <3>1. Contract!Collect(sample)
      BY <1>5, <1>7, <1>8, <1>9, <2>1, <2>2, <2>3 DEF Contract!Collect, Resetting
    <3> QED BY <1>2, <3>1 DEF Contract!WindowNext
  <2> QED BY <1>11, <2>1, <2>2, <2>3
<1>13. CASE ~dr_triggered /\ dr_triggered'
  <2>1. ce /\ dr_primed /\ DwTrigger(manual, disable, trig)
    BY <1>4, <1>13 DEF DataEdge, TriggerFlag, DwTrigger
  <2>2. ~dr_stopped /\ ~dr_stopped' /\ h_since = 0 /\ h_since' = 0 /\ h_trigger' = sample
    BY <1>2, <1>4, <1>13, <2>1 DEF DataEdge, StopFlag, Remember, CaptureInv
  <2>3. Phase(Resetting) = "collecting" /\ Phase(Resetting)' = "triggered"
    BY <1>3, <1>13, <2>2 DEF Phase
  <2>4. Fill(Resetting) = MEMLEN
    BY <1>3, <2>1 DEF Fill
  <2>5. Contract!Accept(sample)
    BY <1>5, <1>7, <1>8, <1>9, <2>1, <2>2, <2>3, <2>4 DEF Contract!Accept, Resetting
  <2> QED BY <1>2, <2>5 DEF Contract!WindowNext
<1>14. CASE dr_triggered /\ ~dr_stopped
  <2>1. dr_triggered' /\ h_trigger' = h_trigger
        /\ h_since' = (IF ce THEN h_since + 1 ELSE h_since)
    BY <1>2, <1>4, <1>14, HistoryOpen DEF DataEdge, TriggerFlag, Remember
  <2>2. dr_stopped' <=> counter >= holdoff
    BY <1>4, <1>14 DEF DataEdge, StopFlag
  <2>3. h_since = counter /\ Phase(Resetting) = "triggered"
    BY <1>2, <1>3, <1>14 DEF CaptureInv, Phase
  <2>4. counter \in Nat /\ holdoff \in Nat
    BY <1>2, CaptureAssumption, SMT DEF CaptureTypeOK, Holdoff
  <2>5. CASE dr_stopped'
    <3>1. Phase(Resetting)' = "stopped"
      BY <1>3, <2>5 DEF Phase
    <3>2. Contract!Counted
      BY <1>5, <1>6, <1>8, <2>2, <2>3, <2>5 DEF Contract!Counted, Resetting
    <3>3. CASE ce
      <4>1. Contract!Finish(sample)
        BY <1>7, <1>8, <1>9, <1>14, <2>1, <2>3, <3>1, <3>2, <3>3
        DEF Contract!Finish, Resetting
      <4> QED BY <1>2, <4>1 DEF Contract!WindowNext
    <3>4. CASE ~ce
      <4>1. Contract!Cut
        BY <1>7, <1>8, <1>10, <2>1, <2>3, <3>1, <3>2, <3>4 DEF Contract!Cut, Resetting
      <4> QED BY <4>1 DEF Contract!WindowNext
    <3> QED BY <3>3, <3>4
  <2>6. CASE ~dr_stopped'
    <3>1. Phase(Resetting)' = "triggered"
      BY <1>3, <2>1, <2>6 DEF Phase
    <3>2. counter < holdoff
      BY <2>2, <2>4, <2>6, SMT
    <3>3. CASE ce
      <4>1. Contract!Counting
        BY <1>5, <1>6, <1>8, <2>3, <3>2 DEF Contract!Counting, Resetting
      <4>2. Contract!Follow(sample)
        BY <1>7, <1>8, <1>9, <1>14, <2>1, <2>3, <3>1, <3>3, <4>1
        DEF Contract!Follow, Resetting
      <4> QED BY <1>2, <4>2 DEF Contract!WindowNext
    <3> QED BY <1>11, <2>1, <2>3, <3>1, <3>3
  <2> QED BY <2>5, <2>6
<1>15. CASE dr_triggered /\ dr_stopped
  <2>1. dr_triggered' /\ dr_stopped' /\ h_trigger' = h_trigger /\ h_since' = h_since
    BY <1>4, <1>15 DEF DataEdge, TriggerFlag, StopFlag, Remember
  <2>2. Phase(Resetting) = "stopped" /\ Phase(Resetting)' = "stopped"
    BY <1>3, <1>15, <2>1 DEF Phase
  <2>3. CASE ce
    <3>1. Contract!Ignore(sample)
      BY <1>5, <1>7, <1>8, <1>10, <1>15, <2>1, <2>2, <2>3 DEF Contract!Ignore, Resetting
    <3> QED BY <1>2, <3>1 DEF Contract!WindowNext
  <2> QED BY <1>11, <2>1, <2>2, <2>3
<1> QED BY <1>12, <1>13, <1>14, <1>15

(* Every step of either clock, or of both, is one of CaptureWindow.         *)
LEMMA AsyncRefines ==
    AsyncInv /\ AsyncInv' /\ [Next]_vars => [Contract!WindowNext]_Contract!windowVars
<1> SUFFICES ASSUME AsyncInv, AsyncInv', [Next]_vars
             PROVE  [Contract!WindowNext]_Contract!windowVars
  OBVIOUS
<1>1. TypeOK /\ TypeOK' /\ (DataMoves \/ DataRests)
  BY StepHalves DEF AsyncInv
<1>2. CASE Resetting'
  BY <1>1, <1>2, RefinesRestart DEF Contract!WindowNext
<1>3. CASE Resetting /\ ~Resetting'
  BY <1>3, RefinesStart DEF Contract!WindowNext
<1>4. CASE ~Resetting /\ ~Resetting'
  BY <1>1, <1>4, RefinesBusOnly, RefinesDataEdge
<1> QED BY <1>2, <1>3, <1>4

(* For every memory length, every holdoff and every stream of samples, and  *)
(* however the two clocks relate and the synchronisers settle, the scope of *)
(* two clocks records what CaptureWindow promises: a window that slides     *)
(* until the holdoff has been counted after the trigger and is then left    *)
(* alone until the next reset (rtl/wbscope.v:307-437).                     *)
THEOREM AsyncCaptures == Spec => Captures
<1>1. Spec => [][Contract!WindowNext]_Contract!windowVars
  BY AsyncInvariant, AsyncRefines, PTL DEF Spec
<1> QED BY RefinesInitial, <1>1 DEF Captures, Contract!WindowSpec, Spec

-----------------------------------------------------------------------------
(* What the bus reads once it sees the scope stopped: the ring has been     *)
(* filled since the reset, and the sample that carried the trigger is as    *)
(* far from its end as samples were stored from it on, unless those have    *)
(* gone over it.  The flag, the memory and the write address cross on their *)
(* own, the last two with no synchroniser (rtl/wbscope.v:454-470, 521-528). *)
TriggerFound ==
    r_oflags.stopped /\ ~bw_reset_request =>
        /\ dr_primed
        /\ h_since \in 1 .. MEMLEN => mem[RingAt(waddr, MEMLEN - h_since)] = h_trigger

LEMMA PlaceStep == AsyncInv /\ PlaceInv /\ [Next]_vars => PlaceInv'
<1> SUFFICES ASSUME AsyncInv, PlaceInv, [Next]_vars PROVE PlaceInv'
  OBVIOUS
<1>1. TypeOK /\ CaptureInv /\ CaptureTypeOK
  BY DEF AsyncInv, TypeOK
<1>2. CASE DataMoves
  <2>1. PICK ce \in BOOLEAN, trig \in BOOLEAN, sample \in SAMPLES, holdoff \in Holdoff,
             seen \in Settled(Controls, Controls') :
               DataRegisters(ce, trig, sample, holdoff)
    BY <1>2 DEF DataMoves
  <2> DEFINE manual == r_iflags.manual
             disable == r_iflags.disable
             reset == r_iflags.reset
  <2>2. DataEdge(reset, manual, disable, holdoff, ce, trig, sample)
    BY <2>1 DEF DataRegisters, dw_reset
  <2>3. reset \in BOOLEAN /\ manual \in BOOLEAN /\ disable \in BOOLEAN
    BY <1>1 DEF TypeOK, CDCTypeOK, IFlags
  <2> HIDE DEF reset, manual, disable
  <2> QED BY <1>1, <2>2, <2>3, DataEdgePlace
<1>3. CASE DataRests
  BY <1>3 DEF DataRests, captureVars, historyVars, PlaceInv
<1> QED BY <1>1, <1>2, <1>3, StepHalves

THEOREM AsyncTriggerFound == Spec => []TriggerFound
<1>1. Init => PlaceInv
  BY DEF Init, CaptureInit, PlaceInv
<1>2. AsyncInv /\ PlaceInv => TriggerFound
  <2> SUFFICES ASSUME AsyncInv, PlaceInv, r_oflags.stopped, ~bw_reset_request
               PROVE  dr_primed /\ dr_triggered
    BY DEF TriggerFound, PlaceInv
  <2>1. Status["stopped"]
    BY DEF AsyncInv, FlagsCoherent
  <2>2. dr_stopped
    BY <2>1 DEF Status
  <2> QED BY <2>2 DEF AsyncInv, CaptureInv
<1> QED BY <1>1, <1>2, PlaceStep, AsyncInvariant, PTL DEF Spec
=============================================================================
