--------------------------- MODULE ScopeBus_proofs ---------------------------
(***************************************************************************)
(* What one edge of either clock preserves, whatever it samples: the       *)
(* lemmas that all the scopes share.  First the data clock, ScopeCapture,   *)
(* then the bus clock, ScopeBus.                                           *)
(***************************************************************************)
EXTENDS ScopeBus, TLAPS

(* The flags and counters of a capture fit together: nothing is triggered  *)
(* before the memory is primed, nothing stops before it is triggered, and  *)
(* the counter is the number of samples stored since the trigger until the *)
(* scope stops (where it may wrap).                                        *)
CaptureInv ==
    /\ dr_triggered => dr_primed
    /\ dr_stopped => dr_triggered
    /\ ~dr_triggered => counter = 0 /\ h_since = 0
    /\ dr_triggered /\ ~dr_stopped => h_since = counter

(* Addresses of the ring stay in the ring.                                 *)
LEMMA RingAddresses ==
    ASSUME NEW a \in Address, NEW i \in Address
    PROVE  NextAddress(a) \in Address /\ RingAt(a, i) \in Address
BY CaptureAssumption, SMT DEF Address, NextAddress, RingAt

(* The data-clock half starts well-typed and consistent.                   *)
LEMMA CaptureInitial == CaptureInit => CaptureTypeOK /\ CaptureInv
<1> SUFFICES ASSUME CaptureInit PROVE CaptureTypeOK /\ CaptureInv
  OBVIOUS
<1>1. counter \in Holdoff /\ waddr \in Address /\ h_since \in 0 .. MAXHOLDOFF + 1
  BY CaptureAssumption, SMT DEF CaptureInit, Holdoff, Address
<1>2. mem \in [Address -> Word]
  BY DEF CaptureInit, Word
<1> QED BY <1>1, <1>2 DEF CaptureInit, CaptureTypeOK, CaptureInv, Word

(* The count of the samples since the trigger has room while the scope     *)
(* still records.                                                          *)
LEMMA HistoryOpen ==
    ASSUME CaptureTypeOK, CaptureInv, dr_triggered, ~dr_stopped
    PROVE  h_since <= MAXHOLDOFF
BY CaptureAssumption, SMT DEF CaptureTypeOK, CaptureInv, Holdoff

(* An edge of the data clock keeps the types.                              *)
LEMMA DataEdgeType ==
    ASSUME CaptureTypeOK, CaptureInv,
           NEW reset \in BOOLEAN, NEW manual \in BOOLEAN, NEW disable \in BOOLEAN,
           NEW holdoff \in Holdoff, NEW ce \in BOOLEAN, NEW trig \in BOOLEAN,
           NEW sample \in SAMPLES,
           DataEdge(reset, manual, disable, holdoff, ce, trig, sample)
    PROVE  CaptureTypeOK'
<1>1. dr_triggered' \in BOOLEAN /\ dr_stopped' \in BOOLEAN
  BY DEF DataEdge, TriggerFlag, StopFlag
<1>2. counter' \in Holdoff
  BY CaptureAssumption, SMT
  DEF DataEdge, CountHoldoff, CaptureTypeOK, NextCount, Holdoff
<1>3. waddr' \in Address
  BY CaptureAssumption, SMT
  DEF DataEdge, FillRing, CaptureTypeOK, NextAddress, Address
<1>4. dr_primed' \in BOOLEAN
  <2>1. CASE reset
    BY <2>1 DEF DataEdge, FillRing
  <2>2. CASE ~reset /\ ce /\ ~dr_stopped
    BY <2>2 DEF DataEdge, FillRing
  <2>3. CASE ~reset /\ ~(ce /\ ~dr_stopped)
    BY <2>3 DEF DataEdge, FillRing, CaptureTypeOK
  <2> QED BY <2>1, <2>2, <2>3
<1>5. data_pipe' \in Word /\ mem' \in [Address -> Word]
  <2>1. data_pipe' \in Word
    BY DEF DataEdge, StoreSample, CaptureTypeOK, Word
  <2>2. mem' = mem \/ mem' = [mem EXCEPT ![waddr] = data_pipe]
    BY DEF DataEdge, StoreSample
  <2> QED BY <2>1, <2>2 DEF CaptureTypeOK
<1>6. h_trigger' \in Word
  BY DEF DataEdge, Remember, CaptureTypeOK, Word
<1>7. h_since' \in 0 .. MAXHOLDOFF + 1
  <2>1. CASE ce /\ dr_triggered /\ ~dr_stopped
    <3>1. h_since \in 0 .. MAXHOLDOFF
      BY <2>1 DEF CaptureInv, CaptureTypeOK, Holdoff
    <3>2. h_since' \in {0, h_since + 1}
      BY <2>1, HistoryOpen DEF DataEdge, Remember
    <3> QED BY <3>1, <3>2, CaptureAssumption, SMT
  <2>2. CASE ~(ce /\ dr_triggered /\ ~dr_stopped)
    <3>1. h_since' \in {0, h_since}
      BY <2>2 DEF DataEdge, Remember
    <3> QED BY <3>1, CaptureAssumption, SMT DEF CaptureTypeOK
  <2> QED BY <2>1, <2>2
<1> QED BY <1>1, <1>2, <1>3, <1>4, <1>5, <1>6, <1>7 DEF CaptureTypeOK

(* An edge of the data clock keeps the capture consistent.                 *)
LEMMA DataEdgeInv ==
    ASSUME CaptureTypeOK, CaptureInv,
           NEW reset \in BOOLEAN, NEW manual \in BOOLEAN, NEW disable \in BOOLEAN,
           NEW holdoff \in Holdoff, NEW ce \in BOOLEAN, NEW trig \in BOOLEAN,
           NEW sample \in SAMPLES,
           DataEdge(reset, manual, disable, holdoff, ce, trig, sample)
    PROVE  CaptureInv'
<1>1. CASE reset
  BY <1>1 DEF DataEdge, TriggerFlag, StopFlag, CountHoldoff, FillRing, Remember, CaptureInv
<1>2. CASE ~reset
  <2>1. dr_triggered => dr_triggered'
    BY <1>2 DEF DataEdge, TriggerFlag
  <2>2. dr_triggered' => dr_primed /\ dr_primed'
    <3>1. dr_triggered' => dr_primed
      BY <1>2 DEF DataEdge, TriggerFlag, DwTrigger, CaptureInv
    <3>2. dr_primed => dr_primed'
      BY <1>2 DEF DataEdge, FillRing
    <3> QED BY <3>1, <3>2
  <2>3. dr_stopped' => dr_triggered'
    BY <2>1 DEF DataEdge, StopFlag
  <2>4. dr_stopped => dr_stopped'
    BY <1>2 DEF DataEdge, StopFlag, CaptureInv
  <2>5. ~dr_triggered' => counter' = 0 /\ h_since' = 0
    BY <1>2, <2>1 DEF DataEdge, CountHoldoff, Remember, CaptureInv
  <2>6. ASSUME dr_triggered', ~dr_stopped'
        PROVE  h_since' = counter'
    <3>1. ~dr_stopped
      BY <2>4, <2>6
    <3>2. CASE dr_triggered
      <4>1. ~(counter >= holdoff)
        BY <1>2, <2>6, <3>2 DEF DataEdge, StopFlag
      <4>2. NextCount(counter) = counter + 1
        BY <4>1, CaptureAssumption, SMT DEF NextCount, CaptureTypeOK, Holdoff
      <4> QED BY <1>2, <3>1, <3>2, <4>2, HistoryOpen
              DEF DataEdge, CountHoldoff, Remember, CaptureInv
    <3>3. CASE ~dr_triggered
      BY <1>2, <3>3, <2>6 DEF DataEdge, CountHoldoff, Remember, TriggerFlag, CaptureInv
    <3> QED BY <3>2, <3>3
  <2> QED BY <2>2, <2>3, <2>5, <2>6 DEF CaptureInv
<1> QED BY <1>1, <1>2

-----------------------------------------------------------------------------
(* Where the trigger sample is: in the pipe until its successor comes, and *)
(* then as far from the end of the ring as samples have been stored, until *)
(* it is overwritten.                                                      *)
PlaceInv ==
    dr_triggered =>
        /\ ~dr_stopped /\ h_since = 0 => data_pipe = h_trigger
        /\ h_since \in 1 .. MEMLEN => mem[RingAt(waddr, MEMLEN - h_since)] = h_trigger

(* An edge of the data clock keeps the trigger sample in its place.        *)
LEMMA DataEdgePlace ==
    ASSUME CaptureTypeOK, CaptureInv, PlaceInv,
           NEW reset \in BOOLEAN, NEW manual \in BOOLEAN, NEW disable \in BOOLEAN,
           NEW holdoff \in Holdoff, NEW ce \in BOOLEAN, NEW trig \in BOOLEAN,
           NEW sample \in SAMPLES,
           DataEdge(reset, manual, disable, holdoff, ce, trig, sample)
    PROVE  PlaceInv'
<1> SUFFICES ASSUME dr_triggered' PROVE PlaceInv'
  BY DEF PlaceInv
<1>1. ~reset
  BY DEF DataEdge, TriggerFlag
<1>2. CASE ~dr_triggered
  <2>1. ce /\ DwTrigger(manual, disable, trig)
    BY <1>2 DEF DataEdge, TriggerFlag
  <2>2. h_trigger' = sample /\ data_pipe' = sample /\ h_since' = 0
    BY <1>1, <1>2, <2>1 DEF DataEdge, Remember, StoreSample
  <2>3. h_since' \notin 1 .. MEMLEN
    BY <2>2, CaptureAssumption, SMT
  <2> QED BY <2>2, <2>3 DEF PlaceInv
<1>3. CASE dr_triggered /\ ce /\ ~dr_stopped
  <2>1. /\ h_trigger' = h_trigger /\ h_since' = h_since + 1
        /\ waddr' = NextAddress(waddr)
        /\ mem' = [mem EXCEPT ![waddr] = data_pipe]
    BY <1>1, <1>3, HistoryOpen DEF DataEdge, Remember, FillRing, StoreSample
  <2>2. h_since \in Nat /\ h_since' # 0
    BY <2>1, CaptureAssumption, SMT DEF CaptureTypeOK
  <2>3. ASSUME h_since' \in 1 .. MEMLEN
        PROVE  mem'[RingAt(waddr', MEMLEN - h_since')] = h_trigger
    <3>1. waddr \in Address /\ MEMLEN \in Nat /\ MEMLEN >= 2
      BY CaptureAssumption DEF CaptureTypeOK
    <3>2. CASE h_since = 0
      <4>1. RingAt(waddr', MEMLEN - h_since') = waddr
        BY <2>1, <3>1, <3>2, SMT DEF RingAt, NextAddress, Address
      <4>2. mem'[waddr] = data_pipe
        BY <2>1, <3>1 DEF CaptureTypeOK
      <4> QED BY <4>1, <4>2, <3>2, <1>3 DEF PlaceInv
    <3>3. CASE h_since # 0
      <4>1. h_since \in 1 .. MEMLEN
        BY <2>1, <2>2, <2>3, <3>1, <3>3, SMT
      <4>2. /\ RingAt(waddr', MEMLEN - h_since') = RingAt(waddr, MEMLEN - h_since)
            /\ RingAt(waddr, MEMLEN - h_since) # waddr
            /\ RingAt(waddr, MEMLEN - h_since) \in Address
        BY <2>1, <2>2, <2>3, <3>1, <3>3, SMT DEF RingAt, NextAddress, Address
      <4>3. mem'[RingAt(waddr, MEMLEN - h_since)] = mem[RingAt(waddr, MEMLEN - h_since)]
        BY <2>1, <4>2 DEF CaptureTypeOK
      <4> QED BY <4>1, <4>2, <4>3, <1>3 DEF PlaceInv
    <3> QED BY <3>2, <3>3
  <2> QED BY <2>1, <2>2, <2>3 DEF PlaceInv
<1>4. CASE dr_triggered /\ ~(ce /\ ~dr_stopped)
  <2>1. h_trigger' = h_trigger /\ h_since' = h_since /\ mem' = mem /\ waddr' = waddr
    BY <1>1, <1>4 DEF DataEdge, Remember, FillRing, StoreSample
  <2>2. ~dr_stopped' => ~dr_stopped /\ data_pipe' = data_pipe
    BY <1>1, <1>4 DEF DataEdge, StopFlag, StoreSample
  <2> QED BY <1>4, <2>1, <2>2 DEF PlaceInv
<1> QED BY <1>2, <1>3, <1>4

-----------------------------------------------------------------------------
(* The window of CaptureWindow after one more word, as an equation on      *)
(* length and content.                                                     *)
Slides(n, w, word, n1, w1) ==
    IF n < MEMLEN
    THEN /\ n1 = n + 1
         /\ w1 = [i \in 1 .. n + 1 |-> IF i <= n THEN w[i] ELSE word]
    ELSE /\ n1 = n
         /\ w1 = [i \in 1 .. MEMLEN |-> IF i < MEMLEN THEN w[i + 1] ELSE word]

(* A word stored in the ring slides the window: reading the ring from the  *)
(* oldest word on is the same as shifting a register, before the ring is   *)
(* full, on the store that fills it, and after.                            *)
LEMMA StoreSlides ==
    ASSUME CaptureTypeOK, NEW sample \in SAMPLES,
           FillRing(FALSE, TRUE), StoreSample(TRUE, sample), ~dr_stopped
    PROVE  Slides(Fill(FALSE), Window(FALSE), data_pipe, Fill(FALSE)', Window(FALSE)')
<1>1. /\ waddr' = NextAddress(waddr)
      /\ dr_primed' <=> dr_primed \/ waddr = MEMLEN - 1
      /\ mem' = [mem EXCEPT ![waddr] = data_pipe]
  BY DEF FillRing, StoreSample
<1>2. /\ waddr \in Address /\ MEMLEN \in Nat /\ MEMLEN >= 2
      /\ mem \in [Address -> Word] /\ dr_primed \in BOOLEAN
  BY CaptureAssumption DEF CaptureTypeOK
<1>3. mem'[waddr] = data_pipe
      /\ \A a \in Address : a # waddr => mem'[a] = mem[a]
  BY <1>1, <1>2
<1>4. CASE dr_primed
  <2>0. dr_primed'
    BY <1>1, <1>4
  <2>1. Fill(FALSE) = MEMLEN /\ Fill(FALSE)' = MEMLEN
    BY <1>4, <2>0 DEF Fill
  <2>2. Window(FALSE) = [i \in 1 .. MEMLEN |-> mem[RingAt(waddr, i - 1)]]
        /\ Window(FALSE)' = [i \in 1 .. MEMLEN |-> mem'[RingAt(waddr', i - 1)]]
    BY <1>4, <2>0, <2>1 DEF Window
  <2>3. ASSUME NEW i \in 1 .. MEMLEN
        PROVE  mem'[RingAt(waddr', i - 1)] =
                 IF i < MEMLEN THEN Window(FALSE)[i + 1] ELSE data_pipe
    <3>1. CASE i < MEMLEN
      <4>1. /\ RingAt(waddr', i - 1) = RingAt(waddr, i)
            /\ RingAt(waddr, i) \in Address /\ RingAt(waddr, i) # waddr
            /\ i + 1 \in 1 .. MEMLEN /\ (i + 1) - 1 = i
        BY <1>1, <1>2, <3>1, SMT DEF RingAt, NextAddress, Address
      <4>2. mem'[RingAt(waddr', i - 1)] = mem[RingAt(waddr, i)]
        BY <1>3, <4>1
      <4>3. Window(FALSE)[i + 1] = mem[RingAt(waddr, i)]
        BY <2>2, <4>1
      <4> QED BY <3>1, <4>2, <4>3
    <3>2. CASE ~(i < MEMLEN)
      <4>1. RingAt(waddr', i - 1) = waddr
        BY <1>1, <1>2, <3>2, SMT DEF RingAt, NextAddress, Address
      <4> QED BY <1>3, <3>2, <4>1
    <3> QED BY <3>1, <3>2
  <2>4. Window(FALSE)' = [i \in 1 .. MEMLEN |->
                           IF i < MEMLEN THEN Window(FALSE)[i + 1] ELSE data_pipe]
    BY <2>2, <2>3
  <2>5. ~(Fill(FALSE) < MEMLEN)
    <3>1. ~(MEMLEN < MEMLEN)
      BY CaptureAssumption, SMT
    <3> QED BY <2>1, <3>1
  <2>6. Fill(FALSE)' = Fill(FALSE)
    BY <2>1
  <2> QED BY <2>4, <2>5, <2>6 DEF Slides
<1>5. CASE ~dr_primed
  <2>1. Fill(FALSE) = waddr /\ waddr < MEMLEN
    BY <1>2, <1>5, SMT DEF Fill, Address
  <2>2. Window(FALSE) = [i \in 1 .. waddr |-> mem[i - 1]]
    BY <1>5, <2>1 DEF Window
  <2>3. Fill(FALSE)' = waddr + 1
    <3>1. CASE waddr = MEMLEN - 1
      <4>1. dr_primed'
        BY <1>1, <3>1
      <4>2. Fill(FALSE)' = MEMLEN
        BY <4>1 DEF Fill
      <4>3. waddr + 1 = MEMLEN
        BY <3>1, CaptureAssumption, SMT
      <4> QED BY <4>2, <4>3
    <3>2. CASE waddr # MEMLEN - 1
      <4>1. dr_primed' <=> dr_primed \/ waddr = MEMLEN - 1
        BY <1>1
      <4>2. ~dr_primed'
        BY <4>1, <1>5, <3>2, Zenon
      <4>3. Fill(FALSE)' = waddr'
        BY <4>2 DEF Fill
      <4> QED BY <1>1, <3>2, <4>3 DEF NextAddress
    <3> QED BY <3>1, <3>2
  <2>4. Window(FALSE)' = [i \in 1 .. waddr + 1 |-> mem'[i - 1]]
    <3>1. ASSUME NEW i \in 1 .. waddr + 1
          PROVE  (IF dr_primed' THEN RingAt(waddr', i - 1) ELSE i - 1) = i - 1
      BY <1>1, <1>2, <1>5, SMT DEF RingAt, NextAddress, Address
    <3> QED BY <2>3, <3>1 DEF Window
  <2>5. ASSUME NEW i \in 1 .. waddr + 1
        PROVE  mem'[i - 1] = IF i <= waddr THEN Window(FALSE)[i] ELSE data_pipe
    <3>1. CASE i <= waddr
      <4>1. i - 1 \in Address /\ i - 1 # waddr /\ i \in 1 .. waddr
        BY <1>2, <3>1, SMT DEF Address
      <4> QED BY <1>3, <2>2, <3>1, <4>1
    <3>2. CASE ~(i <= waddr)
      <4>1. i - 1 = waddr
        BY <1>2, <3>2, SMT DEF Address
      <4> QED BY <1>3, <3>2, <4>1
    <3> QED BY <3>1, <3>2
  <2>6. Window(FALSE)' = [i \in 1 .. waddr + 1 |->
                           IF i <= waddr THEN Window(FALSE)[i] ELSE data_pipe]
    BY <2>4, <2>5
  <2> QED BY <2>1, <2>3, <2>6 DEF Slides
<1> QED BY <1>2, <1>4, <1>5

(* What one edge of the data clock does to the window, outside of a reset: *)
(* it slides when a sample comes before the stop, and else stays.          *)
LEMMA DataEdgeWindow ==
    ASSUME CaptureTypeOK,
           NEW manual, NEW disable, NEW holdoff, NEW ce \in BOOLEAN, NEW trig,
           NEW sample \in SAMPLES,
           DataEdge(FALSE, manual, disable, holdoff, ce, trig, sample)
    PROVE  /\ ce => data_pipe' = sample
           /\ ~ce => data_pipe' = data_pipe
           /\ ce /\ ~dr_stopped =>
                Slides(Fill(FALSE), Window(FALSE), data_pipe, Fill(FALSE)', Window(FALSE)')
           /\ ~(ce /\ ~dr_stopped) =>
                Fill(FALSE)' = Fill(FALSE) /\ Window(FALSE)' = Window(FALSE)
<1>1. (ce => data_pipe' = sample) /\ (~ce => data_pipe' = data_pipe)
  BY DEF DataEdge, StoreSample
<1>2. CASE ce /\ ~dr_stopped
  <2>1. ce = TRUE
    BY <1>2
  <2>2. FillRing(FALSE, TRUE) /\ StoreSample(TRUE, sample)
    BY <2>1 DEF DataEdge
  <2> QED BY <1>1, <1>2, <2>2, StoreSlides
<1>3. CASE ~(ce /\ ~dr_stopped)
  <2>1. waddr' = waddr /\ dr_primed' = dr_primed /\ mem' = mem
    BY <1>3 DEF DataEdge, FillRing, StoreSample
  <2> QED BY <1>1, <1>3, <2>1 DEF Fill, Window, RingAt
<1> QED BY <1>2, <1>3

-----------------------------------------------------------------------------
(* The bus clock, whatever status wires and whatever word of the ring it    *)
(* sees.                                                                   *)

(* A request is one of Wishbone's, with a control word in it.              *)
LEMMA RequestType ==
    ASSUME NEW req \in Requests
    PROVE  /\ req.cyc \in BOOLEAN /\ req.stb \in BOOLEAN
           /\ req.addr \in {"control", "data"}
           /\ req.word.reset_n \in BOOLEAN /\ req.word.manual \in BOOLEAN
           /\ req.word.disable \in BOOLEAN /\ req.word.holdoff \in Holdoff
<1>1. req \in Request
  BY BusAssumption
<1>2. req.word \in ControlWord
  BY <1>1 DEF Request
<1> QED BY <1>1, <1>2 DEF Request, ControlWord

(* What the bus half needs of a request, from whatever master: only of a    *)
(* control write does it look at the word.                                 *)
WellFormed(req) ==
    /\ req.cyc \in BOOLEAN /\ req.stb \in BOOLEAN
    /\ req.addr \in {"control", "data"}
    /\ write_to_control(req) =>
          /\ req.word.reset_n \in BOOLEAN /\ req.word.manual \in BOOLEAN
          /\ req.word.disable \in BOOLEAN /\ req.word.holdoff \in Holdoff

LEMMA RequestWellFormed == \A req \in Requests : WellFormed(req)
BY RequestType DEF WellFormed

(* The bus-clock half starts well-typed.                                   *)
LEMMA BusInitial == BusInit => BusTypeOK
<1> SUFFICES ASSUME BusInit PROVE BusTypeOK
  OBVIOUS
<1>1. o_bus_data \in Answer
  BY DEF BusInit, Answer, Word
<1>2. br_config \in [reset_n : BOOLEAN, manual : BOOLEAN, disable : BOOLEAN]
  BY DEF BusInit
<1>3. h_interrupts \in 0 .. 2
  BY DEF BusInit
<1>4. /\ br_holdoff \in Holdoff /\ raddr \in Address /\ this_addr \in Address
      /\ nxt_mem \in Word /\ read_address \in {"control", "data"}
      /\ {br_pre_wb_ack, br_wb_ack, br_level_interrupt} \subseteq BOOLEAN
  BY BusAssumption DEF BusInit, Word
<1> QED BY <1>1, <1>2, <1>3, <1>4 DEF BusTypeOK

(* The read address and the pre-fetch keep their widths.                   *)
LEMMA ReadPathType ==
    ASSUME BusTypeOK, NEW req, NEW stopped,
           NEW write_address \in Address, NEW word \in Word,
           AdvanceRead(req, stopped), Prefetch(req, write_address, word)
    PROVE  raddr' \in Address /\ this_addr' \in Address /\ nxt_mem' \in Word
<1>1. raddr' \in Address
  BY RingAddresses, CaptureAssumption, SMT
  DEF AdvanceRead, BusTypeOK, NextAddress, Address
<1>2. this_addr' \in Address /\ nxt_mem' \in Word
  <2>1. RingAt(raddr, write_address) \in Address
    BY CaptureAssumption, SMT DEF BusTypeOK, Address, RingAt
  <2>2. NextAddress(RingAt(raddr, write_address)) \in Address
    BY <2>1, RingAddresses
  <2> QED BY <2>1, <2>2 DEF Prefetch
<1> QED BY <1>1, <1>2

(* So do the answer and the acknowledgements.                              *)
LEMMA RespondType ==
    ASSUME BusTypeOK, NEW req, req.addr \in {"control", "data"},
           req.stb \in BOOLEAN, req.cyc \in BOOLEAN,
           NEW stopped \in BOOLEAN, NEW triggered \in BOOLEAN,
           NEW primed \in BOOLEAN, NEW sample \in SAMPLES,
           Respond(req, stopped, triggered, primed, sample)
    PROVE  /\ o_bus_data' \in Answer /\ read_address' \in {"control", "data"}
           /\ br_pre_wb_ack' \in BOOLEAN /\ br_wb_ack' \in BOOLEAN
<1>1. o_bus_data' \in Answer
  <2>1. CASE read_address = "control"
    <3>1. o_bus_data' = StatusWord(stopped, triggered, primed)
      BY <2>1 DEF Respond
    <3>2. br_config.reset_n \in BOOLEAN /\ br_config.manual \in BOOLEAN
          /\ br_config.disable \in BOOLEAN /\ br_holdoff \in Holdoff
      BY DEF BusTypeOK
    <3>3. bw_reset_request \in BOOLEAN /\ (raddr = 0) \in BOOLEAN
      BY DEF bw_reset_request
    <3> QED BY <3>1, <3>2, <3>3 DEF StatusWord, Answer
  <2>2. CASE read_address # "control"
    <3>1. o_bus_data' = [kind |-> "data", word |-> IF stopped THEN nxt_mem ELSE sample]
      BY <2>2 DEF Respond
    <3>2. (IF stopped THEN nxt_mem ELSE sample) \in Word
      BY DEF BusTypeOK, Word
    <3> QED BY <3>1, <3>2 DEF Answer
  <2> QED BY <2>1, <2>2
<1>2. read_address' \in {"control", "data"} /\ br_pre_wb_ack' \in BOOLEAN
      /\ br_wb_ack' \in BOOLEAN
  BY DEF Respond
<1> QED BY <1>1, <1>2

LEMMA CountType ==
    ASSUME NEW stopped, h_interrupts \in 0 .. 2, CountInterrupts(stopped)
    PROVE  h_interrupts' \in 0 .. 2
BY DEF CountInterrupts

(* An edge of the bus clock keeps the types.                               *)
LEMMA BusEdgeType ==
    ASSUME BusTypeOK, CaptureTypeOK,
           NEW req, WellFormed(req), NEW reset_complete \in BOOLEAN,
           NEW stopped \in BOOLEAN, NEW triggered \in BOOLEAN,
           NEW primed \in BOOLEAN, NEW sample \in SAMPLES,
           NEW write_address \in Address, NEW word \in Word,
           BusEdge(req, reset_complete, stopped, triggered, primed, sample),
           Prefetch(req, write_address, word)
    PROVE  BusTypeOK'
<1>0. DEFINE Config == [reset_n : BOOLEAN, manual : BOOLEAN, disable : BOOLEAN]
<1>1. br_config' \in Config
  <2>1. PICK r \in BOOLEAN, m \in BOOLEAN, d \in BOOLEAN :
          br_config' = [reset_n |-> r, manual |-> m, disable |-> d]
    <3> DEFINE written == write_to_control(req)
               r == \/ reset_complete
                    \/ br_config.reset_n /\ ~(written /\ ~req.word.reset_n)
               m == IF written THEN req.word.manual ELSE br_config.manual
               d == IF written THEN req.word.disable ELSE br_config.disable
    <3>1. br_config' = [reset_n |-> r, manual |-> m, disable |-> d]
      BY DEF BusEdge, Configure
    <3>2. r \in BOOLEAN
      OBVIOUS
    <3>3. m \in BOOLEAN /\ d \in BOOLEAN
      BY DEF WellFormed, BusTypeOK
    <3> HIDE DEF r, m, d
    <3> QED BY <3>1, <3>2, <3>3
  <2> QED BY <2>1
<1>2. br_holdoff' \in Holdoff
  BY DEF WellFormed, BusEdge, Configure, BusTypeOK
<1>3. raddr' \in Address /\ this_addr' \in Address /\ nxt_mem' \in Word
  BY ReadPathType DEF BusEdge
<1>4. /\ o_bus_data' \in Answer /\ read_address' \in {"control", "data"}
      /\ br_pre_wb_ack' \in BOOLEAN /\ br_wb_ack' \in BOOLEAN
  BY RespondType DEF WellFormed, BusEdge
<1>5. br_level_interrupt' \in BOOLEAN
  BY DEF BusEdge, LevelInterrupt
<1>6. h_interrupts' \in 0 .. 2
  BY CountType DEF BusEdge, BusTypeOK
<1> QED BY <1>1, <1>2, <1>3, <1>4, <1>5, <1>6 DEF BusTypeOK

(* How far the interrupt of a stop has got.  The delayed copy of the stop   *)
(* that ends it is up only once it has been counted, and is up from then on *)
(* for as long as the stop may interrupt.                                  *)
InterruptInv(stopped) ==
    /\ h_interrupts \in {0, 1}
    /\ br_level_interrupt => h_interrupts = 1
    /\ stopped /\ ~br_config.disable /\ ~br_level_interrupt => h_interrupts = 0

LEMMA InterruptInitial ==
    ASSUME BusInit, NEW stopped, ~stopped PROVE InterruptInv(stopped)
BY DEF BusInit, InterruptInv

LEMMA InvOneInterrupt ==
    ASSUME NEW stopped, InterruptInv(stopped) PROVE OneInterrupt(stopped)
BY DEF InterruptInv, OneInterrupt, Interrupt

(* An edge of the bus clock keeps to it where a reset takes the stop away:  *)
(* one that did not would bring the copy down under it, and the interrupt   *)
(* back.                                                                   *)
LEMMA InterruptStep ==
    ASSUME NEW stopped, NEW next, NEW reset_complete, InterruptInv(stopped),
           LevelInterrupt(reset_complete, stopped), CountInterrupts(stopped),
           stopped /\ (reset_complete \/ bw_reset_request) => ~next
    PROVE  /\ h_interrupts' \in {0, 1}
           /\ br_level_interrupt' => h_interrupts' = 1
           /\ next /\ ~br_config'.disable /\ ~br_level_interrupt' => h_interrupts' = 0
<1>1. br_level_interrupt' <=> /\ ~reset_complete /\ ~bw_reset_request
                              /\ stopped /\ ~br_config.disable
  BY DEF LevelInterrupt
<1>2. CASE ~stopped \/ br_config.disable
  <2>1. h_interrupts' = 0
    BY <1>2 DEF CountInterrupts
  <2> QED BY <1>1, <1>2, <2>1
<1>3. CASE stopped /\ ~br_config.disable
  <2>1. h_interrupts' = 1
    <3>1. CASE br_level_interrupt
      BY <1>3, <3>1 DEF CountInterrupts, Interrupt, InterruptInv
    <3>2. CASE ~br_level_interrupt
      BY <1>3, <3>2 DEF CountInterrupts, Interrupt, InterruptInv
    <3> QED BY <3>1, <3>2
  <2> QED BY <1>1, <1>3, <2>1
<1> QED BY <1>2, <1>3
=============================================================================
