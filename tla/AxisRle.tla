------------------------------ MODULE AxisRle ------------------------------
(***************************************************************************)
(* The run-length encoder of AXI streams, rtl/axisrle.v: a skid buffer, a   *)
(* stage that compares a sample with the one before it, one that counts a   *)
(* run, and the output.  The skid buffer is not in the repository; it is    *)
(* the usual one of one place, that passes a sample on in the same clock    *)
(* while it is empty.                                                      *)
(***************************************************************************)
EXTENDS Naturals, Sequences

CONSTANTS
    SAMPLES,        \* the values of S_AXIS_TDATA
    Controls,       \* the pairs i_trigger, i_encode may take
    MAXRUN,         \* (1 << (W-1)) - 1, all ones in a run word
    NoSample        \* history: no value has been sent since the reset

ASSUME RleAssumption ==
    /\ MAXRUN \in Nat /\ MAXRUN >= 3 /\ Controls \subseteq BOOLEAN \X BOOLEAN
    /\ NoSample \notin SAMPLES

VARIABLES
    S_AXIS_TVALID, S_AXIS_TDATA,        \* as the source drives them
    skid_full, skid_data,               \* of the skid buffer
    sticky_trigger, sticky_encode,      \* since the last sample taken
    r_trigger, r_encode,                \* of the sample in the skid buffer
    r_triggered,
    mid_valid, mid_same, mid_trigger, mid_data,
    run_valid, run_active, run_overflow, run_trigger, run_length, run_data,
    M_AXIS_TVALID, M_AXIS_TDATA,
    o_trigger

(* History: the samples taken and not yet sent, each with whether it was    *)
(* the first to be triggered and whether it must be sent as a value; their  *)
(* number, that the source's own properties count; whether a sample was     *)
(* triggered since the reset, and whether another one was; and the last     *)
(* value sent.                                                             *)
VARIABLES h_pending, f_outstanding, h_triggered, h_retriggered, h_last

vars == <<S_AXIS_TVALID, S_AXIS_TDATA, skid_full, skid_data, sticky_trigger, sticky_encode,
          r_trigger, r_encode, r_triggered, mid_valid, mid_same, mid_trigger, mid_data,
          run_valid, run_active, run_overflow, run_trigger, run_length, run_data,
          M_AXIS_TVALID, M_AXIS_TDATA, o_trigger, h_pending, f_outstanding, h_triggered,
          h_retriggered, h_last>>

Value(d)  == [adr |-> FALSE, val |-> d]
RunOf(n)  == [adr |-> TRUE, val |-> n]

(* The samples a word of the output stands for.                            *)
Covers(word) == IF word.adr THEN word.val + 1 ELSE 1

Init ==
    /\ S_AXIS_TVALID = FALSE /\ S_AXIS_TDATA \in SAMPLES
    /\ skid_full = FALSE /\ skid_data = S_AXIS_TDATA
    /\ sticky_trigger = FALSE /\ sticky_encode = TRUE
    /\ r_trigger = FALSE /\ r_encode = FALSE /\ r_triggered = FALSE
    /\ mid_valid = FALSE /\ mid_same = FALSE /\ mid_trigger = FALSE
    /\ mid_data = S_AXIS_TDATA
    /\ run_valid = FALSE /\ run_active = FALSE /\ run_overflow = FALSE
    /\ run_trigger = FALSE /\ run_length = 0 /\ run_data = S_AXIS_TDATA
    /\ M_AXIS_TVALID = FALSE /\ M_AXIS_TDATA = RunOf(0) /\ o_trigger = FALSE
    /\ h_pending = <<>> /\ f_outstanding = 0
    /\ h_triggered = FALSE /\ h_retriggered = FALSE /\ h_last = NoSample

-----------------------------------------------------------------------------
(* Wires; ready is M_AXIS_TREADY.                                          *)
S_AXIS_TREADY == ~skid_full
taken == S_AXIS_TVALID /\ S_AXIS_TREADY
sent(ready) == M_AXIS_TVALID /\ ready
vacant(ready) == ~M_AXIS_TVALID \/ ready

skd_valid == S_AXIS_TVALID \/ skid_full
skd_data  == IF skid_full THEN skid_data ELSE S_AXIS_TDATA
skd_trigger(trigger) == IF skid_full THEN r_trigger ELSE trigger \/ sticky_trigger
skd_encode(encode)   == IF skid_full THEN r_encode ELSE encode /\ sticky_encode

(* A sample that continues the run needs no room in the output.            *)
run_ready(ready) ==
    mid_valid /\ (vacant(ready) \/ (run_active /\ ~run_overflow /\ mid_same))

(* As elsewhere, an operator _BUG is no part of the model: it is a wrong    *)
(* form of the operator after it, that a property must tell from it.       *)
skd_ready_BUG(ready) == run_ready(ready)

skd_ready(ready) == ~mid_valid \/ run_ready(ready)

-----------------------------------------------------------------------------
(* The stages.  A reset, ~aresetn, clears the flags; the data registers,    *)
(* which mean nothing while the flags are clear, go on as they do without.  *)
Skid(aresetn, ready) ==
    /\ skid_full' = (aresetn /\ skd_valid /\ ~skd_ready(ready))
    /\ skid_data' = IF S_AXIS_TREADY THEN S_AXIS_TDATA ELSE skid_data

(* A trigger, or the absence of i_encode, is kept for the next sample.     *)
Sticky(aresetn, trigger, encode) ==
    /\ sticky_trigger' = (aresetn /\ ~taken /\ (sticky_trigger \/ trigger))
    /\ sticky_encode' = (~aresetn \/ taken \/ (sticky_encode /\ encode))
    /\ IF taken
       THEN /\ r_trigger' = (trigger \/ sticky_trigger)
            /\ r_encode' = (encode /\ sticky_encode)
       ELSE UNCHANGED <<r_trigger, r_encode>>

(* A sample repeats the one before.  One that is not to be encoded, and the *)
(* first one triggered, count as different.                                *)
repeats_BUG(encode, first) == mid_valid /\ skd_data = mid_data /\ encode /\ ~first
repeats_MARK_BUG(encode, first) ==
    (mid_valid \/ run_valid) /\ skd_data = mid_data /\ encode

repeats(encode, first) ==
    (mid_valid \/ run_valid) /\ skd_data = mid_data /\ encode /\ ~first

marks_BUG(trigger) == skd_trigger(trigger)

marks(trigger) == skd_trigger(trigger) /\ ~r_triggered

Compare(aresetn, ready, trigger, encode) ==
    LET moves == skd_valid /\ skd_ready(ready)
    IN  /\ mid_valid' = (aresetn /\ (moves \/ (mid_valid /\ ~run_ready(ready))))
        /\ mid_trigger' = (aresetn /\ IF moves THEN marks(trigger)
                                      ELSE mid_trigger /\ ~run_ready(ready))
        /\ r_triggered' = (aresetn /\ (r_triggered \/ (moves /\ skd_trigger(trigger))))
        /\ IF moves
           THEN /\ mid_data' = skd_data
                /\ mid_same' = repeats(skd_encode(encode), marks(trigger))
           ELSE UNCHANGED <<mid_data, mid_same>>

(* run_length is W-1 bits wide, and wraps after a run that was cut.        *)
NextLength_BUG == IF run_active /\ mid_same THEN run_length + 1 ELSE 0

NextLength ==
    IF run_active /\ mid_same /\ run_length < MAXRUN THEN run_length + 1 ELSE 0

NextOverflow_BUG == run_length >= MAXRUN /\ mid_same /\ ~run_overflow

NextOverflow == run_length >= MAXRUN - 1 /\ mid_same /\ ~run_overflow

Accumulate(aresetn, ready) ==
    LET moves == run_ready(ready)
    IN  /\ run_valid' = (aresetn /\ (run_valid \/ moves))
        /\ run_trigger' = (aresetn /\ IF moves THEN mid_trigger ELSE run_trigger)
        /\ run_data' = IF moves THEN mid_data ELSE run_data
        /\ run_active' = (aresetn /\ IF moves THEN mid_same ELSE run_active)
        /\ run_overflow' = (aresetn /\ IF moves THEN NextOverflow ELSE run_overflow)
        /\ run_length' = IF ~aresetn THEN 0 ELSE IF moves THEN NextLength ELSE run_length

(* A word leaves when the sample after it does not continue its run.       *)
emits(ready) ==
    /\ run_valid /\ run_ready(ready)
    /\ (run_active /\ run_overflow) \/ ~mid_same \/ ~run_active

Output(aresetn, ready) ==
    /\ M_AXIS_TVALID' = (aresetn /\ IF vacant(ready) THEN emits(ready) ELSE M_AXIS_TVALID)
    /\ o_trigger' = (aresetn /\ IF vacant(ready) THEN run_trigger /\ run_ready(ready)
                                ELSE o_trigger)
    /\ M_AXIS_TDATA' = IF ~vacant(ready) THEN M_AXIS_TDATA
                       ELSE IF run_active THEN RunOf(run_length) ELSE Value(run_data)

-----------------------------------------------------------------------------
Sample(trigger, encode) ==
    LET first == (trigger \/ sticky_trigger) /\ ~h_triggered
    IN  [data |-> S_AXIS_TDATA, trigger |-> first,
         value |-> first \/ ~(encode /\ sticky_encode)]

Count(aresetn, ready) ==
    f_outstanding' = IF ~aresetn THEN 0
                     ELSE f_outstanding + (IF taken THEN 1 ELSE 0)
                            - (IF sent(ready) THEN Covers(M_AXIS_TDATA) ELSE 0)

Remember(aresetn, ready, trigger, encode) ==
    LET kept == IF sent(ready)
                THEN SubSeq(h_pending, Covers(M_AXIS_TDATA) + 1, Len(h_pending))
                ELSE h_pending
        triggered == taken /\ (trigger \/ sticky_trigger)
    IN  IF aresetn
        THEN /\ h_pending' = IF taken THEN Append(kept, Sample(trigger, encode)) ELSE kept
             /\ h_triggered' = (h_triggered \/ triggered)
             /\ h_retriggered' = (h_retriggered \/ (h_triggered /\ triggered))
             /\ h_last' = IF sent(ready) /\ ~M_AXIS_TDATA.adr
                          THEN M_AXIS_TDATA.val ELSE h_last
        ELSE /\ h_pending' = <<>> /\ h_last' = NoSample
             /\ h_triggered' = FALSE /\ h_retriggered' = FALSE

(* The source holds a sample until it is taken, offers none in reset, and   *)
(* drives new data with a new sample.                                      *)
Source(aresetn) ==
    IF aresetn /\ S_AXIS_TVALID /\ ~S_AXIS_TREADY
    THEN UNCHANGED <<S_AXIS_TVALID, S_AXIS_TDATA>>
    ELSE /\ S_AXIS_TVALID' \in (IF aresetn THEN BOOLEAN ELSE {FALSE})
         /\ S_AXIS_TDATA' \in (IF S_AXIS_TVALID' THEN SAMPLES ELSE {S_AXIS_TDATA})

Clock(aresetn, ready, trigger, encode) ==
    /\ Source(aresetn)
    /\ Skid(aresetn, ready)
    /\ Sticky(aresetn, trigger, encode)
    /\ Compare(aresetn, ready, trigger, encode)
    /\ Accumulate(aresetn, ready)
    /\ Output(aresetn, ready)
    /\ Count(aresetn, ready)
    /\ Remember(aresetn, ready, trigger, encode)

Next == \E aresetn, ready \in BOOLEAN, c \in Controls : Clock(aresetn, ready, c[1], c[2])

Spec == Init /\ [][Next]_vars

(* The clock runs, out of reset, and the sink takes a word again and again. *)
Drained == \E c \in Controls : Clock(TRUE, TRUE, c[1], c[2])
FairSpec == Spec /\ SF_vars(Drained)

-----------------------------------------------------------------------------
(* Every register holds a value of its width.                              *)
Word == [adr : {FALSE}, val : SAMPLES] \cup [adr : {TRUE}, val : 0 .. MAXRUN]
TypeOK ==
    /\ {S_AXIS_TVALID, skid_full, sticky_trigger, sticky_encode, r_trigger, r_encode,
        r_triggered, mid_valid, mid_same, mid_trigger, run_valid, run_active,
        run_overflow, run_trigger, M_AXIS_TVALID, o_trigger} \subseteq BOOLEAN
    /\ {S_AXIS_TDATA, skid_data, mid_data, run_data} \subseteq SAMPLES
    /\ run_length \in 0 .. MAXRUN
    /\ M_AXIS_TDATA \in Word
    /\ f_outstanding \in Nat

(* axisrle.v:406-430, f_recount == f_outstanding: the samples taken and not *)
(* sent are the ones the stages account for, whatever ran, was cut at the   *)
(* largest count, or was held off by the sink.                             *)
One(b) == IF b THEN 1 ELSE 0
f_recount == One(skid_full) + One(mid_valid) + One(run_valid)
             + (IF run_active THEN run_length ELSE 0)
             + (IF M_AXIS_TVALID THEN Covers(M_AXIS_TDATA) ELSE 0)
Conserved == f_outstanding = f_recount

(* The words offered stand for the samples taken, in order: a value is the  *)
(* oldest sample not sent, and a run of count n stands for n+1 samples      *)
(* equal to the value before it, none of which had to be sent as a value:   *)
(* of the triggered samples that is the first since the reset only          *)
(* (axisrle.v:179-183).                                                    *)
Lossless ==
    M_AXIS_TVALID =>
        /\ Len(h_pending) >= Covers(M_AXIS_TDATA)
        /\ IF M_AXIS_TDATA.adr
           THEN \A i \in 1 .. Covers(M_AXIS_TDATA) :
                    h_pending[i].data = h_last /\ ~h_pending[i].value
           ELSE Head(h_pending).data = M_AXIS_TDATA.val

(* o_trigger goes with the value that carries the first sample triggered    *)
(* after a reset, and with no other word.                                  *)
TriggerOnce ==
    o_trigger <=> M_AXIS_TVALID /\ ~M_AXIS_TDATA.adr /\ Head(h_pending).trigger

(* A sample is sent as a value only if it differs from the one before it,   *)
(* was the first triggered, or was not to be encoded: the stream is         *)
(* compressed.  Nothing is said once more samples were triggered since the  *)
(* reset: axisrle.v:9-11 would have all of them sent as values.            *)
Compresses ==
    M_AXIS_TVALID /\ ~M_AXIS_TDATA.adr /\ M_AXIS_TDATA.val = h_last
        => Head(h_pending).value \/ h_retriggered

(* A sample the source holds is taken in the end, unless a reset takes it   *)
(* away: the stages cannot block one another.                              *)
EveryTaken == S_AXIS_TVALID ~> (taken \/ ~S_AXIS_TVALID)
=============================================================================
