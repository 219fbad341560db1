--------------------------- MODULE AxisRle_proofs ---------------------------
(***************************************************************************)
(* The stream encoder for every width of its words, every set of samples    *)
(* and every way the trigger, the encoding and the sink may behave.         *)
(***************************************************************************)
EXTENDS AxisRle, SequenceTheorems, TLAPS

(* What the stages agree on: a run is of a value, its count is zero until   *)
(* it is active, and the flag that cuts it is up at the largest count.      *)
RunInv ==
    /\ run_active => run_valid
    /\ ~run_active => run_length = 0
    /\ run_overflow <=> run_length = MAXRUN

(* The types the counts depend on.                                         *)
CountTypeOK ==
    /\ run_length \in 0 .. MAXRUN
    /\ f_outstanding \in Nat
    /\ M_AXIS_TDATA.adr \in BOOLEAN
    /\ M_AXIS_TDATA.adr => M_AXIS_TDATA.val \in 0 .. MAXRUN

RleInv == CountTypeOK /\ RunInv /\ Conserved

(* The parts of f_recount.                                                 *)
InRun  == One(run_valid) + (IF run_active THEN run_length ELSE 0)
InWord == IF M_AXIS_TVALID THEN Covers(M_AXIS_TDATA) ELSE 0

LEMMA RleInitial == Init => RleInv
<1> SUFFICES ASSUME Init PROVE RleInv
  OBVIOUS
<1>1. CountTypeOK
  BY RleAssumption DEF Init, CountTypeOK, RunOf
<1>2. RunInv
  BY RleAssumption DEF Init, RunInv
<1>3. Conserved
  BY DEF Init, Conserved, f_recount, One
<1> QED BY <1>1, <1>2, <1>3 DEF RleInv

(* A clock out of reset keeps what is agreed of the run.                   *)
LEMMA RunStep ==
    ASSUME CountTypeOK, RunInv, NEW ready \in BOOLEAN, Accumulate(TRUE, ready)
    PROVE  RunInv' /\ run_length' \in 0 .. MAXRUN
<1>1. CASE ~run_ready(ready)
  <2>1. /\ run_valid' <=> run_valid
        /\ run_active' <=> run_active
        /\ run_overflow' <=> run_overflow
        /\ run_length' = run_length
    BY <1>1 DEF Accumulate
  <2> QED BY <2>1 DEF RunInv, CountTypeOK
<1>2. CASE run_ready(ready)
  <2>1. /\ run_valid'
        /\ run_active' <=> mid_same
        /\ run_overflow' <=> NextOverflow
        /\ run_length' = NextLength
    BY <1>2 DEF Accumulate
  <2>2. NextLength \in 0 .. MAXRUN
    BY RleAssumption DEF NextLength, CountTypeOK
  <2>3. ~mid_same => NextLength = 0
    BY DEF NextLength
  <2>4. NextOverflow <=> NextLength = MAXRUN
    BY RleAssumption DEF NextOverflow, NextLength, RunInv, CountTypeOK
  <2> QED BY <2>1, <2>2, <2>3, <2>4 DEF RunInv
<1> QED BY <1>1, <1>2

(* What the sink takes of the samples outstanding.                          *)
Leaves(ready) == IF sent(ready) THEN Covers(M_AXIS_TDATA) ELSE 0

(* The run stage and the word offered move in one of three ways: the run    *)
(* becomes the word, and a new one begins; no word is offered; or the word  *)
(* waits for the sink.                                                     *)
LEMMA RunFlow ==
    ASSUME CountTypeOK, RunInv, NEW ready \in BOOLEAN,
           Accumulate(TRUE, ready), Output(TRUE, ready)
    PROVE  /\ \/ /\ emits(ready) /\ vacant(ready) /\ Leaves(ready) = InWord
                 /\ InWord' = InRun /\ InRun' = 1
              \/ /\ ~emits(ready) /\ vacant(ready) /\ Leaves(ready) = InWord
                 /\ InWord' = 0 /\ InRun' = InRun + One(run_ready(ready))
              \/ /\ ~emits(ready) /\ ~vacant(ready) /\ Leaves(ready) = 0
                 /\ InWord' = InWord /\ InRun' = InRun + One(run_ready(ready))
           /\ emits(ready) => One(run_ready(ready)) = 1
           /\ InRun \in Nat /\ InWord \in Nat /\ InRun' \in Nat /\ InWord' \in Nat
           /\ Leaves(ready) \in Nat
<1> DEFINE out == IF run_active THEN run_length + 1 ELSE 1
<1>1. InRun \in Nat /\ InWord \in Nat /\ Leaves(ready) \in Nat
  BY DEF InRun, InWord, CountTypeOK, Covers, One, Leaves
<1>2. CASE vacant(ready) /\ emits(ready)
  <2>1. M_AXIS_TVALID' /\ InWord' = out
    BY <1>2 DEF Output, InWord, Covers, RunOf, Value
  <2>2. InRun = out
    BY <1>2 DEF emits, InRun, One, CountTypeOK
  <2>3. InRun' = 1
    <3>1. run_ready(ready) /\ run_valid' /\ (run_active' <=> mid_same)
          /\ run_length' = NextLength
      BY <1>2 DEF emits, Accumulate
    <3>2. mid_same => NextLength = 0
      BY <1>2, RleAssumption DEF emits, NextLength, RunInv, CountTypeOK
    <3> QED BY <3>1, <3>2 DEF InRun, One
  <2>4. Leaves(ready) = InWord
    BY <1>2 DEF vacant, sent, InWord, Leaves
  <2>5. One(run_ready(ready)) = 1
    BY <1>2 DEF emits, One
  <2> QED BY <1>1, <1>2, <2>1, <2>2, <2>3, <2>4, <2>5
<1>3. CASE ~emits(ready)
  <2>1. InRun' = InRun + One(run_ready(ready))
    <3>1. CASE ~run_ready(ready)
      <4>1. /\ run_valid' <=> run_valid
            /\ run_active' <=> run_active
            /\ run_length' = run_length
        BY <3>1 DEF Accumulate
      <4>2. InRun' = InRun
        BY <4>1 DEF InRun, One
      <4> QED BY <1>1, <3>1, <4>2 DEF One
    <3>2. CASE run_ready(ready)
      <4>1. run_valid' /\ (run_active' <=> mid_same) /\ run_length' = NextLength
        BY <3>2 DEF Accumulate
      <4>2. CASE run_valid
        <5>1. run_active /\ mid_same /\ ~run_overflow
          BY <1>3, <3>2, <4>2 DEF emits
        <5>2. NextLength = run_length + 1
          BY <5>1, RleAssumption DEF NextLength, RunInv, CountTypeOK
        <5> QED BY <3>2, <4>1, <4>2, <5>1, <5>2 DEF InRun, One, CountTypeOK
      <4>3. CASE ~run_valid
        <5>1. ~run_active /\ NextLength = 0
          BY <4>3 DEF RunInv, NextLength
        <5> QED BY <3>2, <4>1, <4>3, <5>1 DEF InRun, One
      <4> QED BY <4>2, <4>3
    <3> QED BY <3>1, <3>2
  <2>2. CASE vacant(ready)
    <3>1. ~M_AXIS_TVALID'
      BY <1>3, <2>2 DEF Output
    <3>2. sent(ready) <=> M_AXIS_TVALID
      BY <2>2 DEF vacant, sent
    <3>3. InWord' = 0 /\ Leaves(ready) = InWord
      BY <3>1, <3>2 DEF InWord, Leaves
    <3> QED BY <1>1, <1>3, <2>1, <2>2, <3>3 DEF One
  <2>3. CASE ~vacant(ready)
    <3>1. M_AXIS_TVALID /\ M_AXIS_TVALID' /\ M_AXIS_TDATA' = M_AXIS_TDATA /\ ~sent(ready)
      BY <2>3 DEF Output, vacant, sent
    <3>2. InWord' = InWord /\ Leaves(ready) = 0
      BY <3>1 DEF InWord, Leaves
    <3> QED BY <1>1, <1>3, <2>1, <2>3, <3>2 DEF One
  <2> QED BY <2>2, <2>3
<1>4. emits(ready) => vacant(ready)
  BY DEF emits, run_ready
<1> QED BY <1>2, <1>3, <1>4

(* What is taken enters a stage: the skid buffer or the comparison.        *)
LEMMA InputFlow ==
    ASSUME CountTypeOK, NEW ready \in BOOLEAN, NEW trigger, NEW encode,
           Skid(TRUE, ready), Compare(TRUE, ready, trigger, encode)
    PROVE  One(skid_full') + One(mid_valid') + One(run_ready(ready))
              = One(skid_full) + One(mid_valid) + One(taken)
<1> DEFINE moves == skd_valid /\ skd_ready(ready)
<1>1. One(skid_full') + One(moves) = One(skid_full) + One(taken)
  <2>1. skid_full' <=> skd_valid /\ ~skd_ready(ready)
    BY DEF Skid
  <2>2. taken <=> S_AXIS_TVALID /\ ~skid_full
    BY DEF taken, S_AXIS_TREADY
  <2> QED BY <2>1, <2>2 DEF skd_valid, One
<1>2. One(mid_valid') + One(run_ready(ready)) = One(mid_valid) + One(moves)
  <2>1. mid_valid' <=> moves \/ (mid_valid /\ ~run_ready(ready))
    BY DEF Compare
  <2>2. (run_ready(ready) => mid_valid) /\ (moves => ~mid_valid \/ run_ready(ready))
    BY DEF run_ready, skd_ready
  <2> QED BY <2>1, <2>2 DEF One
<1>3. \A b : One(b) \in Nat
  BY DEF One
<1> HIDE DEF moves
<1> QED BY <1>1, <1>2, <1>3

(* The samples outstanding, by the stage that holds them.                  *)
LEMMA Account ==
    ASSUME CountTypeOK, Conserved
    PROVE  f_outstanding = One(skid_full) + One(mid_valid) + InRun + InWord
<1>1. /\ One(skid_full) \in Nat /\ One(mid_valid) \in Nat /\ One(run_valid) \in Nat
      /\ (IF run_active THEN run_length ELSE 0) \in Nat
      /\ InWord \in Nat
  BY DEF One, CountTypeOK, InWord, Covers
<1> QED BY <1>1 DEF Conserved, f_recount, InRun, InWord

LEMMA RleStep ==
    ASSUME RleInv, NEW ready \in BOOLEAN, NEW trigger, NEW encode,
           NEW aresetn \in BOOLEAN, Clock(aresetn, ready, trigger, encode)
    PROVE  RleInv'
<1>1. /\ CountTypeOK /\ RunInv /\ Conserved
      /\ Skid(aresetn, ready) /\ Compare(aresetn, ready, trigger, encode)
      /\ Accumulate(aresetn, ready) /\ Output(aresetn, ready) /\ Count(aresetn, ready)
  BY DEF RleInv, Clock
<1>2. M_AXIS_TDATA'.adr \in BOOLEAN /\ (M_AXIS_TDATA'.adr => M_AXIS_TDATA'.val \in 0 .. MAXRUN)
  <2>1. \/ M_AXIS_TDATA' = M_AXIS_TDATA
        \/ M_AXIS_TDATA' = RunOf(run_length)
        \/ M_AXIS_TDATA' = Value(run_data)
    BY <1>1 DEF Output
  <2>2. /\ RunOf(run_length).adr = TRUE /\ RunOf(run_length).val = run_length
        /\ Value(run_data).adr = FALSE
    BY DEF RunOf, Value
  <2> QED BY <1>1, <2>1, <2>2 DEF CountTypeOK
<1>3. CASE aresetn
  <2>1. /\ Skid(TRUE, ready) /\ Compare(TRUE, ready, trigger, encode)
        /\ Accumulate(TRUE, ready) /\ Output(TRUE, ready) /\ Count(TRUE, ready)
    <3>1. aresetn = TRUE
      BY <1>3
    <3> QED BY <1>1, <3>1
  <2>2. RunInv' /\ run_length' \in 0 .. MAXRUN
    BY <1>1, <2>1, RunStep
  <2>3. Conserved' /\ f_outstanding' \in Nat
    <3>1. f_outstanding' = f_outstanding + One(taken) - Leaves(ready)
      BY <2>1 DEF Count, One, Leaves
    <3>2. f_outstanding = One(skid_full) + One(mid_valid) + InRun + InWord
      BY <1>1, Account
    <3>3. f_recount' = One(skid_full') + One(mid_valid') + InRun' + InWord'
      <4>1. \A b : One(b) \in Nat
        BY DEF One
      <4>2. run_length' \in Nat
        BY <2>2, RleAssumption
      <4>3. (IF run_active' THEN run_length' ELSE 0) \in Nat
        BY <4>2
      <4>4. InWord' \in Nat
        BY <1>1, <2>1, RunFlow
      <4> QED BY <4>1, <4>3, <4>4 DEF f_recount, InRun, InWord
    <3>4. InRun' + InWord' + Leaves(ready) = InRun + InWord + One(run_ready(ready))
      <4>1. One(run_ready(ready)) \in Nat
        BY DEF One
      <4>2. /\ \/ /\ emits(ready) /\ Leaves(ready) = InWord
                  /\ InWord' = InRun /\ InRun' = 1
               \/ /\ ~emits(ready) /\ Leaves(ready) = InWord
                  /\ InWord' = 0 /\ InRun' = InRun + One(run_ready(ready))
               \/ /\ ~emits(ready) /\ Leaves(ready) = 0
                  /\ InWord' = InWord /\ InRun' = InRun + One(run_ready(ready))
            /\ emits(ready) => One(run_ready(ready)) = 1
            /\ InRun \in Nat /\ InWord \in Nat
        BY <1>1, <2>1, RunFlow
      <4> QED BY <4>1, <4>2
    <3>5. One(skid_full') + One(mid_valid') + One(run_ready(ready))
             = One(skid_full) + One(mid_valid) + One(taken)
      BY <1>1, <2>1, InputFlow
    <3>6. /\ InRun \in Nat /\ InWord \in Nat /\ InRun' \in Nat /\ InWord' \in Nat
          /\ Leaves(ready) \in Nat
      BY <1>1, <2>1, RunFlow
    <3>7. \A b : One(b) \in Nat
      BY DEF One
    <3>8. f_outstanding' = One(skid_full') + One(mid_valid') + InRun' + InWord'
      BY <3>1, <3>2, <3>4, <3>5, <3>6, <3>7
    <3> QED BY <3>3, <3>6, <3>7, <3>8 DEF Conserved
  <2> QED BY <1>2, <2>2, <2>3 DEF RleInv, CountTypeOK
<1>4. CASE ~aresetn
  <2>1. /\ ~skid_full' /\ ~mid_valid' /\ ~run_valid' /\ ~run_active' /\ ~run_overflow'
        /\ run_length' = 0 /\ ~M_AXIS_TVALID' /\ f_outstanding' = 0
    BY <1>1, <1>4 DEF Skid, Compare, Accumulate, Output, Count
  <2>2. RunInv'
    BY <2>1, RleAssumption DEF RunInv
  <2>3. Conserved'
    BY <2>1 DEF Conserved, f_recount, One
  <2> QED BY <1>2, <2>1, <2>2, <2>3, RleAssumption DEF RleInv, CountTypeOK
<1> QED BY <1>3, <1>4

LEMMA RleAlways == Spec => []RleInv
<1>1. RleInv /\ [Next]_vars => RleInv'
  <2> SUFFICES ASSUME RleInv, [Next]_vars PROVE RleInv'
    OBVIOUS
  <2>1. CASE Next
    <3>1. PICK aresetn \in BOOLEAN, ready \in BOOLEAN, c \in Controls :
             Clock(aresetn, ready, c[1], c[2])
      BY <2>1 DEF Next
    <3> QED BY <3>1, RleStep
  <2>2. CASE UNCHANGED vars
    <3>1. /\ UNCHANGED <<run_length, f_outstanding, M_AXIS_TDATA, M_AXIS_TVALID,
                         skid_full, mid_valid, run_valid, run_active, run_overflow>>
      BY <2>2 DEF vars
    <3> QED BY <3>1 DEF RleInv, CountTypeOK, RunInv, Conserved, f_recount, Covers, One
  <2> QED BY <2>1, <2>2
<1> QED BY RleInitial, <1>1, PTL DEF Spec

(* Every register holds a value of its width.                              *)
THEOREM RleTypes == Spec => []TypeOK
<1>1. Init => TypeOK
  <2> SUFFICES ASSUME Init PROVE TypeOK
    OBVIOUS
  <2>1. M_AXIS_TDATA \in Word
    <3>1. M_AXIS_TDATA = [adr |-> TRUE, val |-> 0] /\ 0 \in 0 .. MAXRUN
      BY RleAssumption DEF Init, RunOf
    <3> QED BY <3>1 DEF Word
  <2>2. run_length \in 0 .. MAXRUN /\ f_outstanding \in Nat
    BY RleAssumption DEF Init
  <2>3. {S_AXIS_TDATA, skid_data, mid_data, run_data} \subseteq SAMPLES
    BY DEF Init
  <2>4. {S_AXIS_TVALID, skid_full, sticky_trigger, sticky_encode, r_trigger, r_encode,
         r_triggered, mid_valid, mid_same, mid_trigger, run_valid, run_active,
         run_overflow, run_trigger, M_AXIS_TVALID, o_trigger} \subseteq BOOLEAN
    BY DEF Init
  <2> QED BY <2>1, <2>2, <2>3, <2>4 DEF TypeOK
<1>2. ASSUME TypeOK, RleInv', NEW aresetn \in BOOLEAN, NEW ready \in BOOLEAN,
             NEW c \in Controls, Clock(aresetn, ready, c[1], c[2])
      PROVE  TypeOK'
  <2>1. c[1] \in BOOLEAN /\ c[2] \in BOOLEAN
    BY RleAssumption
  <2>2. /\ Source(aresetn) /\ Skid(aresetn, ready) /\ Sticky(aresetn, c[1], c[2])
        /\ Compare(aresetn, ready, c[1], c[2]) /\ Accumulate(aresetn, ready)
        /\ Output(aresetn, ready)
    BY <1>2 DEF Clock
  <2>3. S_AXIS_TVALID' \in BOOLEAN /\ skid_full' \in BOOLEAN
    BY <1>2, <2>2 DEF Source, Skid, TypeOK
  <2>4. {sticky_trigger', sticky_encode', r_trigger', r_encode'} \subseteq BOOLEAN
    BY <1>2, <2>1, <2>2 DEF Sticky, TypeOK
  <2>5. {r_triggered', mid_valid', mid_same', mid_trigger'} \subseteq BOOLEAN
    BY <1>2, <2>1, <2>2 DEF Compare, TypeOK, repeats, marks, skd_trigger, skd_encode
  <2>6. {run_valid', run_active', run_overflow', run_trigger'} \subseteq BOOLEAN
    BY <1>2, <2>2 DEF Accumulate, NextOverflow, TypeOK
  <2>7. {M_AXIS_TVALID', o_trigger'} \subseteq BOOLEAN
    BY <1>2, <2>2 DEF Output, emits, TypeOK
  <2>8. {S_AXIS_TDATA', skid_data', mid_data', run_data'} \subseteq SAMPLES
    BY <1>2, <2>2 DEF Source, Skid, Compare, Accumulate, skd_data, TypeOK
  <2>9. M_AXIS_TDATA' \in Word
    BY <1>2, <2>2 DEF Output, TypeOK, Word, RunOf, Value
  <2> QED BY <1>2, <2>3, <2>4, <2>5, <2>6, <2>7, <2>8, <2>9
          DEF TypeOK, RleInv, CountTypeOK
<1>3. TypeOK /\ RleInv' /\ [Next]_vars => TypeOK'
  <2>1. ASSUME TypeOK, RleInv', Next PROVE TypeOK'
    BY <1>2, <2>1 DEF Next
  <2>2. ASSUME TypeOK, UNCHANGED vars PROVE TypeOK'
    BY <2>2 DEF TypeOK, vars, Word
  <2> QED BY <2>1, <2>2
<1> QED BY RleAlways, <1>1, <1>3, PTL DEF Spec

(* For every width of the words, the samples taken and not yet sent are     *)
(* those the skid buffer, the two stages and the word offered account for   *)
(* (axisrle.v:406-430): no sample is lost or counted twice, whatever the    *)
(* sink and the resets do.                                                 *)
THEOREM ConservedAlways == Spec => []Conserved
<1>1. RleInv => Conserved
  BY DEF RleInv
<1> QED BY RleAlways, <1>1, PTL

-----------------------------------------------------------------------------
(* What the words say.  The samples outstanding stand in h_pending in the   *)
(* order of the stages: those of the word offered, of the run, the one      *)
(* compared, the one in the skid buffer.  Each stage holds what it needs of *)
(* the samples that are its own.                                           *)
Entry == [data : SAMPLES, trigger : BOOLEAN, value : BOOLEAN]

(* The last value sent, once the word offered has been.                    *)
LastAfter == IF M_AXIS_TVALID /\ ~M_AXIS_TDATA.adr THEN M_AXIS_TDATA.val ELSE h_last

QueueInv ==
    /\ h_pending \in Seq(Entry)
    /\ Len(h_pending) = f_outstanding
    /\ \A i \in 1 .. Len(h_pending) : h_pending[i].trigger => h_pending[i].value

WordInv ==
    /\ M_AXIS_TVALID /\ M_AXIS_TDATA.adr =>
          \A i \in 1 .. InWord : h_pending[i].data = h_last /\ ~h_pending[i].value
    /\ M_AXIS_TVALID /\ ~M_AXIS_TDATA.adr =>
          /\ h_pending[1].data = M_AXIS_TDATA.val
          /\ M_AXIS_TDATA.val = h_last => h_pending[1].value
    /\ o_trigger <=> M_AXIS_TVALID /\ ~M_AXIS_TDATA.adr /\ h_pending[1].trigger

RunStage ==
    /\ run_valid /\ ~run_active =>
          /\ h_pending[InWord + 1].data = run_data
          /\ run_data = LastAfter => h_pending[InWord + 1].value
          /\ run_trigger <=> h_pending[InWord + 1].trigger
    /\ run_active =>
          /\ run_data = LastAfter /\ ~run_trigger
          /\ \A i \in InWord + 1 .. InWord + InRun :
                 h_pending[i].data = run_data /\ ~h_pending[i].value
    /\ ~run_valid => ~run_trigger /\ ~M_AXIS_TVALID /\ h_last = NoSample

MidStage ==
    /\ mid_valid =>
          /\ h_pending[InWord + InRun + 1].data = mid_data
          /\ h_pending[InWord + InRun + 1].trigger <=> mid_trigger
          /\ mid_same <=> /\ run_valid /\ mid_data = run_data
                          /\ ~h_pending[InWord + InRun + 1].value
    /\ ~mid_valid /\ run_valid => mid_data = run_data

SkidStage ==
    /\ h_triggered <=> r_triggered \/ (skid_full /\ r_trigger)
    /\ skid_full =>
          /\ h_pending[Len(h_pending)].data = skid_data
          /\ h_pending[Len(h_pending)].trigger <=> r_trigger /\ ~r_triggered
          /\ h_pending[Len(h_pending)].value <=> (r_trigger /\ ~r_triggered) \/ ~r_encode

StagesInv == QueueInv /\ WordInv /\ RunStage /\ MidStage /\ SkidStage

(* The places of the queue are the stages'.                                *)
LEMMA QueueFits ==
    ASSUME RleInv, StagesInv
    PROVE  /\ Len(h_pending) = InWord + InRun + One(mid_valid) + One(skid_full)
           /\ InWord \in Nat /\ InRun \in Nat /\ Len(h_pending) \in Nat
           /\ One(mid_valid) \in 0 .. 1 /\ One(skid_full) \in 0 .. 1
           /\ \A ready \in BOOLEAN : Leaves(ready) = 0 \/ Leaves(ready) = InWord
<1>1. f_outstanding = One(skid_full) + One(mid_valid) + InRun + InWord
  BY Account DEF RleInv
<1>2. /\ InRun \in Nat /\ InWord \in Nat
      /\ One(skid_full) \in 0 .. 1 /\ One(mid_valid) \in 0 .. 1
  BY DEF InRun, InWord, RleInv, CountTypeOK, Covers, One
<1>3. \A ready \in BOOLEAN : Leaves(ready) = 0 \/ Leaves(ready) = InWord
  BY DEF Leaves, InWord, sent
<1>4. Len(h_pending) = f_outstanding
  BY DEF StagesInv, QueueInv
<1> QED BY <1>1, <1>2, <1>3, <1>4

(* A clock takes what is sent off the front of the queue, and puts a new    *)
(* sample at its end.                                                      *)
LEMMA QueueStep ==
    ASSUME TypeOK, RleInv, StagesInv, NEW ready \in BOOLEAN,
           NEW trigger \in BOOLEAN, NEW encode \in BOOLEAN,
           Clock(TRUE, ready, trigger, encode)
    PROVE  /\ h_pending' \in Seq(Entry)
           /\ Len(h_pending') = Len(h_pending) - Leaves(ready) + One(taken)
           /\ \A i \in 1 .. Len(h_pending) - Leaves(ready) :
                  h_pending'[i] = h_pending[i + Leaves(ready)]
           /\ taken => h_pending'[Len(h_pending) - Leaves(ready) + 1]
                          = Sample(trigger, encode)
<1> DEFINE k == Leaves(ready)
           kept == IF sent(ready)
                   THEN SubSeq(h_pending, Covers(M_AXIS_TDATA) + 1, Len(h_pending))
                   ELSE h_pending
<1>1. h_pending \in Seq(Entry) /\ k \in Nat /\ k <= Len(h_pending)
  BY QueueFits DEF StagesInv, QueueInv
<1>2. /\ kept \in Seq(Entry) /\ Len(kept) = Len(h_pending) - k
      /\ \A i \in 1 .. Len(h_pending) - k : kept[i] = h_pending[i + k]
  <2>1. CASE sent(ready)
    <3>1. kept = SubSeq(h_pending, k + 1, Len(h_pending))
      BY <2>1 DEF Leaves
    <3>2. k + 1 \in Int /\ Len(h_pending) \in Nat
          /\ \A i \in k + 1 .. Len(h_pending) : h_pending[i] \in Entry
      BY <1>1
    <3> HIDE DEF k, kept
    <3>3. /\ SubSeq(h_pending, k + 1, Len(h_pending)) \in Seq(Entry)
          /\ Len(SubSeq(h_pending, k + 1, Len(h_pending)))
                = IF k + 1 <= Len(h_pending) THEN Len(h_pending) - (k + 1) + 1 ELSE 0
          /\ \A i \in 1 .. Len(h_pending) - (k + 1) + 1 :
                 SubSeq(h_pending, k + 1, Len(h_pending))[i] = h_pending[k + 1 + i - 1]
      BY <3>2, SubSeqProperties
    <3>4. /\ Len(kept) = Len(h_pending) - k
          /\ \A i \in 1 .. Len(h_pending) - k : kept[i] = h_pending[i + k]
      BY <1>1, <3>1, <3>3
    <3> QED BY <3>1, <3>3, <3>4
  <2>2. CASE ~sent(ready)
    <3>1. kept = h_pending /\ k = 0
      BY <2>2 DEF Leaves
    <3> HIDE DEF k, kept
    <3>2. \A i \in 1 .. Len(h_pending) - k : kept[i] = h_pending[i + k]
      BY <1>1, <3>1
    <3> QED BY <1>1, <3>1, <3>2
  <2> QED BY <2>1, <2>2
<1>3. Sample(trigger, encode) \in Entry
  BY DEF Sample, Entry, TypeOK
<1>4. h_pending' = IF taken THEN Append(kept, Sample(trigger, encode)) ELSE kept
  BY DEF Clock, Remember
<1> HIDE DEF kept, k
<1>5. /\ h_pending' \in Seq(Entry)
      /\ Len(h_pending') = Len(h_pending) - k + One(taken)
      /\ \A i \in 1 .. Len(h_pending) - k : h_pending'[i] = kept[i]
      /\ taken => h_pending'[Len(h_pending) - k + 1] = Sample(trigger, encode)
  <2>1. CASE taken
    BY <1>1, <1>2, <1>3, <1>4, <2>1 DEF One
  <2>2. CASE ~taken
    BY <1>1, <1>2, <1>4, <2>2 DEF One
  <2> QED BY <2>1, <2>2
<1> QED BY <1>1, <1>2, <1>5 DEF k

(* What the run stage knows of the queue after a clock.                    *)
LEMMA LastStep ==
    ASSUME TypeOK, RleInv, StagesInv, NEW ready \in BOOLEAN,
           NEW trigger \in BOOLEAN, NEW encode \in BOOLEAN,
           Clock(TRUE, ready, trigger, encode)
    PROVE  LastAfter' = IF emits(ready) THEN run_data ELSE LastAfter
<1>1. Output(TRUE, ready) /\ Remember(TRUE, ready, trigger, encode)
  BY DEF Clock
<1>2. h_last' = IF sent(ready) /\ ~M_AXIS_TDATA.adr THEN M_AXIS_TDATA.val ELSE h_last
  BY <1>1 DEF Remember
<1>3. CASE vacant(ready)
  <2>1. h_last' = LastAfter
    BY <1>2, <1>3 DEF vacant, sent, LastAfter
  <2>2. CASE emits(ready)
    <3>1. /\ M_AXIS_TVALID'
          /\ M_AXIS_TDATA' = IF run_active THEN RunOf(run_length) ELSE Value(run_data)
      BY <1>1, <1>3, <2>2 DEF Output
    <3>2. run_active => run_data = LastAfter
      BY DEF StagesInv, RunStage
    <3> QED BY <2>1, <2>2, <3>1, <3>2 DEF LastAfter, RunOf, Value
  <2>3. CASE ~emits(ready)
    <3>1. ~M_AXIS_TVALID'
      BY <1>1, <1>3, <2>3 DEF Output
    <3> QED BY <2>1, <2>3, <3>1 DEF LastAfter
  <2> QED BY <2>2, <2>3
<1>4. CASE ~vacant(ready)
  <2>1. /\ M_AXIS_TVALID /\ M_AXIS_TVALID' /\ M_AXIS_TDATA' = M_AXIS_TDATA
        /\ h_last' = h_last /\ ~emits(ready)
    BY <1>1, <1>2, <1>4 DEF Output, vacant, sent, emits, run_ready
  <2> QED BY <2>1 DEF LastAfter
<1> QED BY <1>3, <1>4

(* The word of the next clock: the run that was, or the word that waited.   *)
LEMMA WordStep ==
    ASSUME TypeOK, RleInv, StagesInv, NEW ready \in BOOLEAN,
           NEW trigger \in BOOLEAN, NEW encode \in BOOLEAN,
           Clock(TRUE, ready, trigger, encode)
    PROVE  WordInv'
<1> DEFINE k == Leaves(ready)
           n == Len(h_pending)
           a == InWord
           r == InRun
<1>1. /\ Output(TRUE, ready) /\ Remember(TRUE, ready, trigger, encode)
      /\ Accumulate(TRUE, ready) /\ CountTypeOK /\ RunInv
  BY DEF Clock, RleInv
<1>2. h_last' = IF sent(ready) /\ ~M_AXIS_TDATA.adr THEN M_AXIS_TDATA.val ELSE h_last
  BY <1>1 DEF Remember
<1>3. /\ a \in Nat /\ r \in Nat /\ n \in Nat /\ k \in Nat
      /\ a + r <= n /\ (mid_valid => a + r + 1 <= n)
  BY QueueFits DEF One
<1>4. \A i \in 1 .. n - k : h_pending'[i] = h_pending[i + k]
  BY QueueStep
<1>5. CASE emits(ready)
  <2>1. /\ vacant(ready) /\ k = a /\ InWord' = r /\ run_ready(ready) /\ run_valid
    BY <1>1, <1>5, RunFlow DEF emits
  <2>2. /\ M_AXIS_TVALID' /\ (o_trigger' <=> run_trigger)
        /\ M_AXIS_TDATA' = IF run_active THEN RunOf(run_length) ELSE Value(run_data)
    BY <1>1, <1>5, <2>1 DEF Output
  <2>3. h_last' = LastAfter
    BY <1>2, <2>1 DEF vacant, sent, LastAfter
  <2>4. r >= 1
    BY <1>1, <2>1 DEF InRun, One, CountTypeOK
  <2>5. /\ run_active =>
              /\ ~run_trigger /\ run_data = LastAfter
              /\ \A i \in a + 1 .. a + r : h_pending[i].data = run_data /\ ~h_pending[i].value
        /\ ~run_active =>
              /\ h_pending[a + 1].data = run_data
              /\ run_data = LastAfter => h_pending[a + 1].value
              /\ run_trigger <=> h_pending[a + 1].trigger
    BY <2>1 DEF StagesInv, RunStage
  <2> HIDE DEF a, r, n, k
  <2>6. \A i \in 1 .. r : h_pending'[i] = h_pending[i + a] /\ i + a \in a + 1 .. a + r
    BY <1>3, <1>4, <2>1, <2>4
  <2>7. CASE run_active
    <3>1. M_AXIS_TDATA'.adr
      BY <2>2, <2>7 DEF RunOf
    <3> QED BY <2>1, <2>2, <2>3, <2>5, <2>6, <2>7, <3>1 DEF WordInv
  <2>8. CASE ~run_active
    <3>1. ~M_AXIS_TDATA'.adr /\ M_AXIS_TDATA'.val = run_data
      BY <2>2, <2>8 DEF Value
    <3>2. h_pending'[1] = h_pending[a + 1]
      BY <1>3, <2>4, <2>6
    <3> QED BY <2>2, <2>3, <2>5, <2>8, <3>1, <3>2 DEF WordInv
  <2> QED BY <2>7, <2>8
<1>6. CASE vacant(ready) /\ ~emits(ready)
  <2>1. ~M_AXIS_TVALID' /\ (o_trigger' <=> run_trigger /\ run_ready(ready))
    BY <1>1, <1>6 DEF Output
  <2>2. run_trigger => run_valid /\ ~run_active
    BY DEF StagesInv, RunStage
  <2>3. ~o_trigger'
    BY <1>6, <2>1, <2>2 DEF emits
  <2> QED BY <2>1, <2>3 DEF WordInv
<1>7. CASE ~vacant(ready)
  <2>1. /\ M_AXIS_TVALID /\ M_AXIS_TVALID' /\ M_AXIS_TDATA' = M_AXIS_TDATA
        /\ h_last' = h_last /\ (o_trigger' <=> o_trigger)
    BY <1>1, <1>2, <1>7 DEF Output, vacant, sent, emits, run_ready
  <2>2. k = 0 /\ InWord' = a
    BY <1>1, <1>7, RunFlow
  <2>3. a >= 1
    BY <1>1, <2>1 DEF InWord, Covers, CountTypeOK
  <2>4. WordInv
    BY DEF StagesInv
  <2> HIDE DEF a, r, n, k
  <2>5. \A i \in 1 .. a : h_pending'[i] = h_pending[i]
    BY <1>3, <1>4, <2>2
  <2>6. h_pending'[1] = h_pending[1]
    BY <1>3, <2>3, <2>5
  <2> QED BY <2>1, <2>2, <2>4, <2>5, <2>6 DEF WordInv, a
<1> QED BY <1>5, <1>6, <1>7

(* The run of the next clock: the sample compared, once the run has left    *)
(* or to make it longer, or the run that waited.                           *)
LEMMA RunStageStep ==
    ASSUME TypeOK, RleInv, StagesInv, NEW ready \in BOOLEAN,
           NEW trigger \in BOOLEAN, NEW encode \in BOOLEAN,
           Clock(TRUE, ready, trigger, encode)
    PROVE  RunStage'
<1> DEFINE k == Leaves(ready)
           n == Len(h_pending)
           a == InWord
           r == InRun
<1>1. /\ Output(TRUE, ready) /\ Remember(TRUE, ready, trigger, encode)
      /\ Accumulate(TRUE, ready) /\ CountTypeOK /\ RunInv
  BY DEF Clock, RleInv
<1>2. LastAfter' = IF emits(ready) THEN run_data ELSE LastAfter
  BY LastStep
<1>3. /\ a \in Nat /\ r \in Nat /\ n \in Nat /\ k \in Nat /\ k <= a
      /\ a + r <= n /\ (mid_valid => a + r + 1 <= n)
  BY QueueFits DEF One
<1>4. \A i \in 1 .. n - k : h_pending'[i] = h_pending[i + k]
  BY QueueStep
<1>5. ~run_valid' => ~run_valid /\ ~run_ready(ready)
  BY <1>1 DEF Accumulate
<1>6. mid_valid => /\ h_pending[a + r + 1].data = mid_data
                   /\ h_pending[a + r + 1].trigger <=> mid_trigger
                   /\ mid_same <=> /\ run_valid /\ mid_data = run_data
                                   /\ ~h_pending[a + r + 1].value
                   /\ h_pending[a + r + 1].trigger => h_pending[a + r + 1].value
  <2>1. mid_valid => a + r + 1 \in 1 .. n
    BY <1>3
  <2> QED BY <2>1 DEF StagesInv, MidStage, QueueInv
<1>7. ~emits(ready) => InWord' + k = a /\ InRun' = r + One(run_ready(ready))
  <2>1. ~emits(ready) => /\ \/ k = a /\ InWord' = 0
                            \/ k = 0 /\ InWord' = a
                         /\ InRun' = r + One(run_ready(ready))
    BY <1>1, RunFlow
  <2> HIDE DEF a, r, n, k
  <2> QED BY <1>3, <2>1
<1>8. CASE run_ready(ready)
  <2>1. /\ run_valid' /\ (run_active' <=> mid_same) /\ (run_trigger' <=> mid_trigger)
        /\ run_data' = mid_data /\ mid_valid
    BY <1>1, <1>8 DEF Accumulate, run_ready
  <2>2. CASE emits(ready)
    <3>1. k = a /\ InWord' = r /\ InRun' = 1 /\ run_valid
      BY <1>1, <2>2, RunFlow DEF emits
    <3> HIDE DEF a, r, n, k
    <3>2. h_pending'[r + 1] = h_pending[a + r + 1]
      <4>1. r + 1 \in 1 .. n - k /\ r + 1 + k = a + r + 1
        BY <1>3, <2>1, <3>1
      <4> QED BY <1>4, <4>1
    <3>3. \A i \in InWord' + 1 .. InWord' + InRun' : i = r + 1
      BY <1>3, <3>1
    <3> QED BY <1>2, <1>6, <2>1, <2>2, <3>1, <3>2, <3>3 DEF RunStage
  <2>3. CASE ~emits(ready) /\ run_valid
    <3>1. run_active /\ mid_same
      BY <1>8, <2>3 DEF emits
    <3>2. InWord' + k = a /\ InRun' = r + 1
      BY <1>8, <1>7, <2>3 DEF One
    <3>3. /\ run_data = LastAfter /\ ~run_trigger
          /\ \A i \in a + 1 .. a + r : h_pending[i].data = run_data /\ ~h_pending[i].value
      BY <3>1 DEF StagesInv, RunStage
    <3> DEFINE a1 == InWord'
               r1 == InRun'
    <3> HIDE DEF a, r, n, k, a1, r1
    <3>4. a1 + k = a /\ r1 = r + 1 /\ a1 \in Nat
      <4>1. InWord' \in Nat
        BY <1>1, RunFlow
      <4> QED BY <3>2, <4>1 DEF a1, r1
    <3>5. \A i \in a1 + 1 .. a1 + r1 :
             /\ h_pending'[i] = h_pending[i + k]
             /\ i + k \in a + 1 .. a + r \/ i + k = a + r + 1
      BY <1>3, <1>4, <2>1, <3>4
    <3>6. \A i \in a1 + 1 .. a1 + r1 : h_pending'[i].data = run_data /\ ~h_pending'[i].value
      BY <1>6, <2>1, <3>1, <3>3, <3>5
    <3> QED BY <1>2, <1>6, <2>1, <2>3, <3>1, <3>3, <3>6 DEF RunStage, a1, r1
  <2>4. CASE ~run_valid
    <3>1. ~M_AXIS_TVALID /\ h_last = NoSample /\ ~run_active /\ r = 0 /\ a = 0
      BY <1>1, <2>4 DEF StagesInv, RunStage, RunInv, InWord, InRun, One
    <3>2. ~mid_same /\ ~emits(ready) /\ LastAfter' = NoSample /\ mid_data # NoSample
      BY <1>2, <1>6, <2>1, <2>4, <3>1, RleAssumption DEF emits, LastAfter, TypeOK
    <3>3. InWord' = 0 /\ k = 0
      BY <1>1, <1>3, <3>1, <3>2, RunFlow
    <3> HIDE DEF a, r, n, k
    <3>4. h_pending'[1] = h_pending[1]
      BY <1>3, <1>4, <2>1, <3>1, <3>3
    <3> QED BY <1>6, <2>1, <3>1, <3>2, <3>3, <3>4 DEF RunStage
  <2> QED BY <2>2, <2>3, <2>4
<1>9. CASE ~run_ready(ready)
  <2>1. /\ (run_valid' <=> run_valid) /\ (run_active' <=> run_active)
        /\ (run_trigger' <=> run_trigger) /\ run_data' = run_data /\ ~emits(ready)
    BY <1>1, <1>9 DEF Accumulate, emits
  <2>2. InWord' + k = a /\ InRun' = r
    BY <1>3, <1>9, <1>7, <2>1 DEF One
  <2>3. RunStage
    BY DEF StagesInv
  <2>4. ~run_valid => ~M_AXIS_TVALID' /\ h_last' = NoSample
    <3>1. ASSUME ~run_valid PROVE ~M_AXIS_TVALID' /\ h_last' = NoSample
      <4>1. ~M_AXIS_TVALID /\ h_last = NoSample
        BY <2>3, <3>1 DEF RunStage
      <4> QED BY <1>1, <2>1, <4>1 DEF Output, Remember, sent, vacant
    <3> QED BY <3>1
  <2>5. run_active => run_valid /\ r = run_length + 1
    BY <1>1 DEF RunInv, InRun, One, CountTypeOK
  <2>6. run_valid => r >= 1
    BY <1>1 DEF InRun, One, CountTypeOK
  <2>7. InWord' \in Nat
    BY <1>1, RunFlow
  <2> DEFINE a1 == InWord'
             r1 == InRun'
  <2> HIDE DEF a, r, n, k
  <2>8. \A i \in a1 + 1 .. a1 + r1 :
           h_pending'[i] = h_pending[i + k] /\ i + k \in a + 1 .. a + r
    <3>1. a1 + k = a /\ r1 = r /\ a1 \in Nat
      BY <2>2, <2>7
    <3> HIDE DEF a1, r1
    <3> QED BY <1>3, <1>4, <3>1
  <2>9. run_valid => h_pending'[a1 + 1] = h_pending[a + 1]
    <3>1. a1 + k = a /\ r1 = r /\ a1 \in Nat
      BY <2>2, <2>7
    <3> HIDE DEF a1, r1
    <3>2. run_valid => a1 + 1 \in 1 .. n - k /\ a1 + 1 + k = a + 1
      BY <1>3, <2>6, <3>1
    <3> QED BY <1>4, <3>2
  <2>10. run_active => \A i \in a1 + 1 .. a1 + r1 :
                          h_pending'[i].data = run_data /\ ~h_pending'[i].value
    BY <2>3, <2>8 DEF RunStage, a, r
  <2> QED BY <1>2, <2>1, <2>3, <2>4, <2>9, <2>10 DEF RunStage, a
<1> QED BY <1>8, <1>9

(* The sample that enters the comparison is the one its place in the queue  *)
(* says.                                                                   *)
LEMMA Entering ==
    ASSUME TypeOK, RleInv, StagesInv, NEW ready \in BOOLEAN,
           NEW trigger \in BOOLEAN, NEW encode \in BOOLEAN,
           Clock(TRUE, ready, trigger, encode), skd_valid, skd_ready(ready),
           NEW place, place = Len(h_pending) - Leaves(ready) + 1 - One(skid_full)
    PROVE  /\ h_pending'[place].data = skd_data
           /\ h_pending'[place].trigger <=> marks(trigger)
           /\ h_pending'[place].value <=> marks(trigger) \/ ~skd_encode(encode)
<1> DEFINE k == Leaves(ready)
           n == Len(h_pending)
<1>1. h_triggered <=> r_triggered \/ (skid_full /\ r_trigger)
  BY DEF StagesInv, SkidStage
<1>2. CASE skid_full
  <2>1. place = n - k /\ place \in 1 .. n - k /\ place + k = n
    <3>1. n \in Nat /\ k \in Nat /\ One(skid_full) = 1 /\ k < n
      BY <1>2, QueueFits DEF One
    <3> HIDE DEF k, n
    <3> QED BY <3>1 DEF k, n
  <2>2. h_pending'[place] = h_pending[n]
    BY <2>1, QueueStep
  <2>3. /\ h_pending[n].data = skid_data
        /\ h_pending[n].trigger <=> r_trigger /\ ~r_triggered
        /\ h_pending[n].value <=> (r_trigger /\ ~r_triggered) \/ ~r_encode
    BY <1>2 DEF StagesInv, SkidStage
  <2> QED BY <1>2, <2>2, <2>3 DEF marks, skd_trigger, skd_encode, skd_data
<1>3. CASE ~skid_full
  <2>1. taken
    BY <1>3 DEF taken, S_AXIS_TREADY, skd_valid
  <2>2. place = n - k + 1
    <3>1. n \in Nat /\ k \in Nat /\ One(skid_full) = 0
      BY <1>3, QueueFits DEF One
    <3> QED BY <3>1
  <2>3. h_pending'[place] = Sample(trigger, encode)
    BY <2>1, <2>2, QueueStep
  <2>4. /\ Sample(trigger, encode).data = S_AXIS_TDATA
        /\ Sample(trigger, encode).trigger <=> marks(trigger)
        /\ Sample(trigger, encode).value <=> marks(trigger) \/ ~skd_encode(encode)
    BY <1>1, <1>3 DEF Sample, marks, skd_trigger, skd_encode
  <2> QED BY <1>3, <2>3, <2>4 DEF skd_data
<1> QED BY <1>2, <1>3

LEMMA MidStageStep ==
    ASSUME TypeOK, RleInv, StagesInv, NEW ready \in BOOLEAN,
           NEW trigger \in BOOLEAN, NEW encode \in BOOLEAN,
           Clock(TRUE, ready, trigger, encode)
    PROVE  MidStage'
<1> DEFINE k == Leaves(ready)
           n == Len(h_pending)
           a == InWord
           r == InRun
           a1 == InWord'
           r1 == InRun'
           moves == skd_valid /\ skd_ready(ready)
<1>1. /\ Output(TRUE, ready) /\ Accumulate(TRUE, ready) /\ CountTypeOK /\ RunInv
      /\ Compare(TRUE, ready, trigger, encode)
  BY DEF Clock, RleInv
<1>2. /\ n = a + r + One(mid_valid) + One(skid_full)
      /\ a \in Nat /\ r \in Nat /\ n \in Nat /\ k \in Nat /\ k <= a
      /\ One(mid_valid) \in 0 .. 1 /\ One(skid_full) \in 0 .. 1
  BY QueueFits
<1>3. \A i \in 1 .. n - k : h_pending'[i] = h_pending[i + k]
  BY QueueStep
<1>4. a1 + r1 + k = a + r + One(run_ready(ready)) /\ a1 \in Nat /\ r1 \in Nat
  <2>1. /\ \/ k = a /\ a1 = r /\ r1 = 1 /\ One(run_ready(ready)) = 1
           \/ k = a /\ a1 = 0 /\ r1 = r + One(run_ready(ready))
           \/ k = 0 /\ a1 = a /\ r1 = r + One(run_ready(ready))
        /\ a1 \in Nat /\ r1 \in Nat
    BY <1>1, RunFlow
  <2>2. One(run_ready(ready)) \in Nat
    BY DEF One
  <2> HIDE DEF a, r, n, k, a1, r1
  <2> QED BY <1>2, <2>1, <2>2
<1>5. /\ run_ready(ready) => mid_valid
      /\ run_valid' <=> run_valid \/ run_ready(ready)
      /\ run_data' = IF run_ready(ready) THEN mid_data ELSE run_data
      /\ mid_valid' <=> moves \/ (mid_valid /\ ~run_ready(ready))
  BY <1>1 DEF Accumulate, Compare, run_ready
<1>6. MidStage
  BY DEF StagesInv
<1>7. CASE moves
  <2>1. run_ready(ready) <=> mid_valid
    BY <1>5, <1>7 DEF skd_ready
  <2>2. One(run_ready(ready)) = One(mid_valid)
    BY <2>1 DEF One
  <2>3. a1 + r1 + 1 = n - k + 1 - One(skid_full)
    <3> HIDE DEF a, r, n, k, a1, r1
    <3> QED BY <1>2, <1>4, <2>2
  <2>4. /\ h_pending'[a1 + r1 + 1].data = skd_data
        /\ h_pending'[a1 + r1 + 1].trigger <=> marks(trigger)
        /\ h_pending'[a1 + r1 + 1].value <=> marks(trigger) \/ ~skd_encode(encode)
    BY <1>7, <2>3, Entering
  <2>5. /\ mid_data' = skd_data /\ (mid_trigger' <=> marks(trigger))
        /\ mid_same' <=> /\ mid_valid \/ run_valid
                         /\ skd_data = mid_data /\ skd_encode(encode) /\ ~marks(trigger)
    BY <1>1, <1>7 DEF Compare, repeats
  <2>6. ~mid_valid /\ run_valid => mid_data = run_data
    BY <1>6 DEF MidStage
  <2>7. mid_same' <=> /\ run_valid' /\ mid_data' = run_data'
                      /\ ~h_pending'[a1 + r1 + 1].value
    BY <1>5, <2>1, <2>4, <2>5, <2>6
  <2> HIDE DEF moves
  <2> QED BY <1>5, <1>7, <2>4, <2>5, <2>7 DEF MidStage
<1>8. CASE ~moves
  <2>1. mid_data' = mid_data /\ mid_same' = mid_same
    BY <1>1, <1>8 DEF Compare
  <2>2. CASE mid_valid /\ ~run_ready(ready)
    <3>1. mid_trigger' <=> mid_trigger
      BY <1>1, <1>8, <2>2 DEF Compare
    <3>2. h_pending'[a1 + r1 + 1] = h_pending[a + r + 1]
      <4>1. One(run_ready(ready)) = 0 /\ One(mid_valid) = 1
        BY <2>2 DEF One
      <4> HIDE DEF a, r, n, k, a1, r1
      <4>2. a1 + r1 + 1 \in 1 .. n - k /\ a1 + r1 + 1 + k = a + r + 1
        BY <1>2, <1>4, <4>1
      <4> QED BY <1>3, <4>2
    <3>3. mid_valid' /\ (run_valid' <=> run_valid) /\ run_data' = run_data
      BY <1>5, <2>2
    <3> QED BY <1>6, <2>1, <2>2, <3>1, <3>2, <3>3 DEF MidStage
  <2>3. CASE ~mid_valid \/ run_ready(ready)
    <3>1. ~mid_valid'
      BY <1>5, <1>8, <2>3
    <3> QED BY <1>5, <1>6, <2>1, <2>3, <3>1 DEF MidStage
  <2> QED BY <2>2, <2>3
<1> QED BY <1>7, <1>8

LEMMA SkidStageStep ==
    ASSUME TypeOK, RleInv, StagesInv, NEW ready \in BOOLEAN,
           NEW trigger \in BOOLEAN, NEW encode \in BOOLEAN,
           Clock(TRUE, ready, trigger, encode)
    PROVE  SkidStage'
<1> DEFINE k == Leaves(ready)
           n == Len(h_pending)
           moves == skd_valid /\ skd_ready(ready)
<1>1. /\ h_triggered' <=> h_triggered \/ (taken /\ (trigger \/ sticky_trigger))
      /\ r_triggered' <=> r_triggered \/ (moves /\ skd_trigger(trigger))
      /\ skid_full' <=> skd_valid /\ ~skd_ready(ready)
      /\ skid_data' = IF S_AXIS_TREADY THEN S_AXIS_TDATA ELSE skid_data
      /\ taken => /\ r_trigger' <=> trigger \/ sticky_trigger
                  /\ r_encode' <=> encode /\ sticky_encode
      /\ ~taken => r_trigger' = r_trigger /\ r_encode' = r_encode
  BY DEF Clock, Skid, Sticky, Compare, Remember
<1>2. /\ n \in Nat /\ k \in Nat /\ k <= n
      /\ Len(h_pending') = n - k + One(taken)
      /\ skid_full => k < n
  <2>1. /\ n = InWord + InRun + One(mid_valid) + One(skid_full)
        /\ InWord \in Nat /\ InRun \in Nat /\ n \in Nat
        /\ One(mid_valid) \in 0 .. 1 /\ One(skid_full) \in 0 .. 1
        /\ k = 0 \/ k = InWord
    BY QueueFits
  <2>2. Len(h_pending') = n - k + One(taken)
    BY QueueStep
  <2> HIDE DEF k, n
  <2> QED BY <2>1, <2>2 DEF One
<1>3. SkidStage
  BY DEF StagesInv
<1>4. CASE skid_full
  <2>1. ~taken /\ ~S_AXIS_TREADY /\ skd_valid /\ (skd_trigger(trigger) <=> r_trigger)
    BY <1>4 DEF taken, S_AXIS_TREADY, skd_valid, skd_trigger
  <2>2. h_pending'[Len(h_pending')] = h_pending[n]
    <3>1. One(taken) = 0
      BY <2>1 DEF One
    <3>2. \A i \in 1 .. n - k : h_pending'[i] = h_pending[i + k]
      BY QueueStep
    <3> HIDE DEF k, n
    <3>3. Len(h_pending') \in 1 .. n - k /\ Len(h_pending') + k = n
      BY <1>2, <1>4, <3>1
    <3> QED BY <3>2, <3>3
  <2>3. CASE moves
    BY <1>1, <1>3, <1>4, <2>1, <2>3 DEF SkidStage
  <2>4. CASE ~moves
    BY <1>1, <1>3, <1>4, <2>1, <2>2, <2>4 DEF SkidStage
  <2> QED BY <2>3, <2>4
<1>5. CASE ~skid_full /\ taken
  <2>1. S_AXIS_TREADY /\ (skd_trigger(trigger) <=> trigger \/ sticky_trigger) /\ skd_valid
    BY <1>5 DEF taken, S_AXIS_TREADY, skd_trigger, skd_valid
  <2>2. h_triggered <=> r_triggered
    BY <1>3, <1>5 DEF SkidStage
  <2>3. h_pending'[Len(h_pending')] = Sample(trigger, encode)
    <3>1. One(taken) = 1
      BY <1>5 DEF One
    <3> QED BY <1>2, <1>5, <3>1, QueueStep
  <2>4. /\ Sample(trigger, encode).data = S_AXIS_TDATA
        /\ Sample(trigger, encode).trigger <=> (trigger \/ sticky_trigger) /\ ~r_triggered
        /\ Sample(trigger, encode).value <=>
              ((trigger \/ sticky_trigger) /\ ~r_triggered) \/ ~(encode /\ sticky_encode)
    BY <2>2 DEF Sample
  <2>5. CASE moves
    BY <1>1, <1>5, <2>1, <2>2, <2>5 DEF SkidStage
  <2>6. CASE ~moves
    BY <1>1, <1>5, <2>1, <2>2, <2>3, <2>4, <2>6 DEF SkidStage
  <2> QED BY <2>5, <2>6
<1>6. CASE ~skid_full /\ ~taken
  <2>1. ~skd_valid
    BY <1>6 DEF taken, S_AXIS_TREADY, skd_valid
  <2> QED BY <1>1, <1>3, <1>6, <2>1 DEF SkidStage
<1> QED BY <1>4, <1>5, <1>6

LEMMA QueueInvStep ==
    ASSUME TypeOK, RleInv, StagesInv, NEW ready \in BOOLEAN,
           NEW trigger \in BOOLEAN, NEW encode \in BOOLEAN,
           Clock(TRUE, ready, trigger, encode)
    PROVE  QueueInv'
<1> DEFINE k == Leaves(ready)
           n == Len(h_pending)
<1>1. /\ h_pending' \in Seq(Entry) /\ Len(h_pending') = n - k + One(taken)
      /\ \A i \in 1 .. n - k : h_pending'[i] = h_pending[i + k]
      /\ taken => h_pending'[n - k + 1] = Sample(trigger, encode)
  BY QueueStep
<1>2. n \in Nat /\ k \in Nat /\ n = f_outstanding
  BY QueueFits DEF StagesInv, QueueInv
<1>3. f_outstanding' = f_outstanding + One(taken) - k
  BY DEF Clock, Count, One, Leaves
<1>4. One(taken) \in 0 .. 1 /\ (One(taken) = 1 => taken)
  BY DEF One
<1>5. \A i \in 1 .. n : h_pending[i].trigger => h_pending[i].value
  BY DEF StagesInv, QueueInv
<1>6. Sample(trigger, encode).trigger => Sample(trigger, encode).value
  BY DEF Sample
<1> HIDE DEF k, n
<1>7. Len(h_pending') = f_outstanding'
  BY <1>1, <1>2, <1>3, <1>4
<1>8. ASSUME NEW i \in 1 .. Len(h_pending')
      PROVE  h_pending'[i].trigger => h_pending'[i].value
  <2>1. CASE i <= n - k
    <3>1. h_pending'[i] = h_pending[i + k] /\ i + k \in 1 .. n
      BY <1>1, <1>2, <1>8, <2>1
    <3> QED BY <1>5, <3>1
  <2>2. CASE i > n - k
    <3>1. i = n - k + 1 /\ taken
      BY <1>1, <1>2, <1>4, <1>8, <2>2
    <3> QED BY <1>1, <1>6, <3>1
  <2> QED BY <1>1, <1>2, <2>1, <2>2
<1> QED BY <1>1, <1>7, <1>8 DEF QueueInv

LEMMA StagesInitial == Init => StagesInv
<1> SUFFICES ASSUME Init PROVE StagesInv
  OBVIOUS
<1>1. h_pending \in Seq(Entry) /\ Len(h_pending) = 0 /\ f_outstanding = 0
  BY DEF Init
<1>2. QueueInv
  BY <1>1 DEF QueueInv
<1> QED BY <1>2 DEF Init, StagesInv, WordInv, RunStage, MidStage, SkidStage

(* A reset empties the stages and the queue.                               *)
LEMMA StagesReset ==
    ASSUME NEW ready \in BOOLEAN, NEW trigger, NEW encode,
           Clock(FALSE, ready, trigger, encode)
    PROVE  StagesInv'
<1>1. /\ ~skid_full' /\ ~mid_valid' /\ ~run_valid' /\ ~run_active' /\ ~run_trigger'
      /\ ~M_AXIS_TVALID' /\ ~o_trigger' /\ ~r_triggered'
      /\ f_outstanding' = 0 /\ h_pending' = <<>> /\ ~h_triggered' /\ h_last' = NoSample
  BY DEF Clock, Skid, Compare, Accumulate, Output, Count, Remember
<1>2. QueueInv'
  BY <1>1 DEF QueueInv
<1> QED BY <1>1, <1>2 DEF StagesInv, WordInv, RunStage, MidStage, SkidStage

LEMMA StagesAlways == Spec => []StagesInv
<1>1. TypeOK /\ RleInv /\ StagesInv /\ [Next]_vars => StagesInv'
  <2> SUFFICES ASSUME TypeOK, RleInv, StagesInv, [Next]_vars PROVE StagesInv'
    OBVIOUS
  <2>1. CASE Next
    <3>1. PICK aresetn \in BOOLEAN, ready \in BOOLEAN, c \in Controls :
             Clock(aresetn, ready, c[1], c[2])
      BY <2>1 DEF Next
    <3>2. c[1] \in BOOLEAN /\ c[2] \in BOOLEAN
      BY RleAssumption
    <3>3. CASE aresetn = TRUE
      <4>1. Clock(TRUE, ready, c[1], c[2])
        BY <3>1, <3>3
      <4> QED BY <3>2, <4>1, QueueInvStep, WordStep, RunStageStep, MidStageStep,
                 SkidStageStep DEF StagesInv
    <3>4. CASE aresetn = FALSE
      <4>1. Clock(FALSE, ready, c[1], c[2])
        BY <3>1, <3>4
      <4> QED BY <4>1, StagesReset
    <3> QED BY <3>3, <3>4
  <2>2. CASE UNCHANGED vars
    <3>1. /\ h_pending' = h_pending /\ f_outstanding' = f_outstanding
          /\ M_AXIS_TVALID' = M_AXIS_TVALID /\ M_AXIS_TDATA' = M_AXIS_TDATA
          /\ o_trigger' = o_trigger /\ h_last' = h_last /\ h_triggered' = h_triggered
          /\ run_valid' = run_valid /\ run_active' = run_active
          /\ run_trigger' = run_trigger /\ run_data' = run_data
          /\ run_length' = run_length
      BY <2>2 DEF vars
    <3>2. /\ mid_valid' = mid_valid /\ mid_same' = mid_same /\ mid_data' = mid_data
          /\ mid_trigger' = mid_trigger /\ skid_full' = skid_full /\ skid_data' = skid_data
          /\ r_trigger' = r_trigger /\ r_encode' = r_encode /\ r_triggered' = r_triggered
      BY <2>2 DEF vars
    <3>3. InWord' = InWord /\ InRun' = InRun /\ LastAfter' = LastAfter
      BY <3>1 DEF InWord, InRun, LastAfter
    <3>4. QueueInv' /\ WordInv' /\ RunStage'
      BY <3>1, <3>3 DEF StagesInv, QueueInv, WordInv, RunStage
    <3>5. MidStage' /\ SkidStage'
      BY <3>1, <3>2, <3>3 DEF StagesInv, MidStage, SkidStage
    <3> QED BY <3>4, <3>5 DEF StagesInv
  <2> QED BY <2>1, <2>2
<1> QED BY RleTypes, RleAlways, StagesInitial, <1>1, PTL DEF Spec

(* The word offered covers samples that are in the queue, and at least one. *)
LEMMA WordFits ==
    ASSUME RleInv, StagesInv, M_AXIS_TVALID
    PROVE  /\ Covers(M_AXIS_TDATA) \in 1 .. Len(h_pending)
           /\ InWord = Covers(M_AXIS_TDATA)
           /\ Head(h_pending) = h_pending[1]
<1>1. InWord = Covers(M_AXIS_TDATA) /\ InWord \in Nat /\ InWord >= 1
  BY DEF InWord, Covers, RleInv, CountTypeOK
<1>2. InWord <= Len(h_pending) /\ Len(h_pending) \in Nat
  BY QueueFits
<1>3. h_pending \in Seq(Entry)
  BY DEF StagesInv, QueueInv
<1> QED BY <1>1, <1>2, <1>3

(* For every set of samples and every width of the words: the words offered *)
(* stand, in order, for the samples taken; a value is the oldest sample not *)
(* sent, and a run repeats the value before it and holds neither the first  *)
(* triggered sample nor one taken without i_encode (axisrle.v:179-183,      *)
(* 293-302, what a word is made of).                                       *)
THEOREM LosslessAlways == Spec => []Lossless
<1>1. RleInv /\ StagesInv => Lossless
  <2> SUFFICES ASSUME RleInv, StagesInv, M_AXIS_TVALID
               PROVE  /\ Len(h_pending) >= Covers(M_AXIS_TDATA)
                      /\ IF M_AXIS_TDATA.adr
                         THEN \A i \in 1 .. Covers(M_AXIS_TDATA) :
                                 h_pending[i].data = h_last /\ ~h_pending[i].value
                         ELSE Head(h_pending).data = M_AXIS_TDATA.val
    BY DEF Lossless
  <2>1. Len(h_pending) \in Nat
    BY QueueFits
  <2> QED BY <2>1, WordFits DEF StagesInv, WordInv
<1> QED BY RleAlways, StagesAlways, <1>1, PTL

(* The output marks the value that carries the first sample triggered after *)
(* a reset, and no other word (axisrle.v:305-312, 558-564).                *)
THEOREM TriggerOnceAlways == Spec => []TriggerOnce
<1>1. RleInv /\ StagesInv => TriggerOnce
  BY WordFits DEF TriggerOnce, StagesInv, WordInv
<1> QED BY RleAlways, StagesAlways, <1>1, PTL

(* While no more than one sample was triggered since the reset, a value     *)
(* that repeats the one before it is of that sample, or was taken without   *)
(* i_encode: any other repeat is counted in a run, even across a word the   *)
(* sink was slow to take (axisrle.v:179-183).                              *)
THEOREM CompressesAlways == Spec => []Compresses
<1>1. RleInv /\ StagesInv => Compresses
  BY WordFits DEF Compresses, StagesInv, WordInv
<1> QED BY RleAlways, StagesAlways, <1>1, PTL

-----------------------------------------------------------------------------
(* The word offered never stands for more samples than are outstanding      *)
(* (axisrle.v:394-404, the contract checks of f_outstanding).               *)
Backed == M_AXIS_TVALID => f_outstanding >= Covers(M_AXIS_TDATA)

THEOREM BackedAlways == Spec => []Backed
<1>1. RleInv => Backed
  <2> SUFFICES ASSUME RleInv, M_AXIS_TVALID PROVE f_outstanding >= Covers(M_AXIS_TDATA)
    BY DEF Backed
  <2>1. /\ f_outstanding = One(skid_full) + One(mid_valid) + One(run_valid)
             + (IF run_active THEN run_length ELSE 0) + Covers(M_AXIS_TDATA)
        /\ CountTypeOK
    BY DEF RleInv, Conserved, f_recount
  <2>2. One(skid_full) \in Nat /\ One(mid_valid) \in Nat /\ One(run_valid) \in Nat
    BY DEF One
  <2>3. (IF run_active THEN run_length ELSE 0) \in Nat /\ Covers(M_AXIS_TDATA) \in Nat
    BY <2>1 DEF CountTypeOK, Covers
  <2> QED BY <2>1, <2>2, <2>3
<1> QED BY RleAlways, <1>1, PTL
=============================================================================
