------------------------------ MODULE ScopeBus ------------------------------
(***************************************************************************)
(* The bus-clock half of the Wishbone scope, rtl/wbscope.v: the control    *)
(* register with its reset request, the read address, the two-deep         *)
(* pre-fetch from the ring, the acknowledgement pipe and the interrupt.    *)
(* All of it changes on the positive edge of i_wb_clk: the operator        *)
(* BusEdge.  The status wires that come back from the data clock are its   *)
(* parameters.                                                             *)
(***************************************************************************)
EXTENDS ScopeCapture

CONSTANTS
    DEFAULT_HOLDOFF,
    Requests            \* what the bus master may drive in a cycle

VARIABLES
    br_config,          \* [reset_n, manual, disable], the top control bits
    br_holdoff,
    read_address,       \* the register the last request addressed
    raddr,              \* how far the reader has come since the oldest word
    this_addr,          \* pre-fetch: the ring address ...
    nxt_mem,            \* ... and the word that was there
    o_bus_data,         \* the answer register
    br_pre_wb_ack,
    br_wb_ack,
    br_level_interrupt

(* History: the clocks of the bus on which the interrupt was up since the   *)
(* scope was seen to stop or, if that is later, since DISABLE was cleared,  *)
(* counted up to two.                                                      *)
VARIABLE h_interrupts

busVars == <<br_config, br_holdoff, read_address, raddr, this_addr, nxt_mem,
             o_bus_data, br_pre_wb_ack, br_wb_ack, br_level_interrupt, h_interrupts>>

-----------------------------------------------------------------------------
(* What the master drives in one cycle of the bus.  "sel" is TRUE when all *)
(* byte selects are set.  A word written to the control register carries   *)
(* bit 31 (RESET_n), bit 27 (MANUAL), bit 26 (DISABLE) and the holdoff.    *)

ControlWord == [reset_n : BOOLEAN, manual : BOOLEAN, disable : BOOLEAN,
                holdoff : Holdoff]

Request == [cyc : BOOLEAN, stb : BOOLEAN, we : BOOLEAN,
            addr : {"control", "data"}, sel : BOOLEAN, word : ControlWord]

(* A Wishbone master raises the strobe only within a bus cycle.            *)
ASSUME BusAssumption ==
    /\ DEFAULT_HOLDOFF \in Holdoff
    /\ Requests \subseteq {req \in Request : req.stb => req.cyc}

read_from_data(req)   == req.stb /\ ~req.we /\ req.addr = "data" /\ req.sel
write_to_control(req) == req.stb /\ req.we /\ req.addr = "control" /\ req.sel

(* What the answer register can hold: the status word of the control       *)
(* register, or a word of the ring (or, before the scope has stopped, of   *)
(* the input).                                                             *)
Answer == [kind : {"status"}, reset : BOOLEAN, stopped : BOOLEAN,
           triggered : BOOLEAN, primed : BOOLEAN, manual : BOOLEAN,
           disable : BOOLEAN, rzero : BOOLEAN, holdoff : Holdoff]
          \cup [kind : {"data"}, word : Word]

BusTypeOK ==
    /\ br_config \in [reset_n : BOOLEAN, manual : BOOLEAN, disable : BOOLEAN]
    /\ br_holdoff \in Holdoff
    /\ read_address \in {"control", "data"}
    /\ raddr \in Address
    /\ this_addr \in Address
    /\ nxt_mem \in Word
    /\ o_bus_data \in Answer
    /\ br_pre_wb_ack \in BOOLEAN
    /\ br_wb_ack \in BOOLEAN
    /\ br_level_interrupt \in BOOLEAN
    /\ h_interrupts \in 0 .. 2

(* raddr, this_addr and read_address have no initial value in the Verilog. *)
BusInit ==
    /\ br_config = [reset_n |-> FALSE, manual |-> FALSE, disable |-> FALSE]
    /\ br_holdoff = DEFAULT_HOLDOFF
    /\ read_address \in {"control", "data"}
    /\ raddr \in Address
    /\ this_addr \in Address
    /\ nxt_mem = Unknown
    /\ o_bus_data = [kind |-> "data", word |-> Unknown]
    /\ br_pre_wb_ack = FALSE
    /\ br_wb_ack = FALSE
    /\ br_level_interrupt = FALSE
    /\ h_interrupts = 0

-----------------------------------------------------------------------------
bw_reset_request == ~br_config.reset_n

Configure_HOLDOFF_BUG(req, reset_complete) ==
    LET written == write_to_control(req)
        restart == written /\ ~req.word.reset_n
    IN  /\ br_config' =
             [reset_n |-> reset_complete \/ (br_config.reset_n /\ ~restart),
              manual  |-> IF written THEN req.word.manual ELSE br_config.manual,
              disable |-> IF written THEN req.word.disable ELSE br_config.disable]
        /\ br_holdoff' = IF written THEN req.word.holdoff ELSE br_holdoff

Configure_REQUEST_BUG(req, reset_complete) ==
    LET written == write_to_control(req)
        restart == written /\ ~req.word.reset_n
    IN  /\ br_config' =
             [reset_n |-> (reset_complete \/ br_config.reset_n) /\ ~restart,
              manual  |-> IF written THEN req.word.manual ELSE br_config.manual,
              disable |-> IF written THEN req.word.disable ELSE br_config.disable]
        /\ br_holdoff' = IF restart /\ br_config.reset_n
                         THEN req.word.holdoff ELSE br_holdoff

(* The reset request is cleared by its completion whatever is written, and *)
(* stays until then.  A write that comes while it is pending updates the   *)
(* trigger controls but neither the holdoff nor the request.               *)
Configure(req, reset_complete) ==
    LET written == write_to_control(req)
        restart == written /\ ~req.word.reset_n
    IN  /\ br_config' =
             [reset_n |-> \/ reset_complete
                          \/ br_config.reset_n /\ ~restart,
              manual  |-> IF written THEN req.word.manual ELSE br_config.manual,
              disable |-> IF written THEN req.word.disable ELSE br_config.disable]
        /\ br_holdoff' = IF restart /\ br_config.reset_n
                         THEN req.word.holdoff ELSE br_holdoff

(* The read address: rewound by a reset or a control write, advanced by    *)
(* every data read once the scope has stopped.                             *)
AdvanceRead(req, stopped) ==
    raddr' = IF bw_reset_request \/ write_to_control(req) THEN 0
             ELSE IF read_from_data(req) /\ stopped THEN NextAddress(raddr)
             ELSE raddr

Prefetch_BUG(req, write_address, word) ==
    /\ this_addr' = RingAt(raddr, write_address)
    /\ nxt_mem' = word

(* Two stages of pre-fetch: the address the next read will want, formed    *)
(* with the write address the bus clock sees, and the word found at the    *)
(* address formed one clock earlier.                                       *)
Prefetch(req, write_address, word) ==
    /\ this_addr' = LET at == RingAt(raddr, write_address)
                    IN  IF read_from_data(req) THEN NextAddress(at) ELSE at
    /\ nxt_mem' = word

StatusWord(stopped, triggered, primed) ==
    [kind |-> "status", reset |-> bw_reset_request, stopped |-> stopped,
     triggered |-> triggered, primed |-> primed, manual |-> br_config.manual,
     disable |-> br_config.disable, rzero |-> (raddr = 0), holdoff |-> br_holdoff]

Respond_BUG(req, stopped, triggered, primed, sample) ==
    /\ read_address' = req.addr
    /\ br_pre_wb_ack' = req.stb
    /\ br_wb_ack' = (br_pre_wb_ack /\ req.stb)
    /\ o_bus_data' =
         IF read_address = "control" THEN StatusWord(stopped, triggered, primed)
         ELSE [kind |-> "data", word |-> IF stopped THEN nxt_mem ELSE sample]

Respond(req, stopped, triggered, primed, sample) ==
    /\ read_address' = req.addr
    /\ br_pre_wb_ack' = req.stb
    /\ br_wb_ack' = (br_pre_wb_ack /\ req.cyc)
    /\ o_bus_data' =
         IF read_address = "control" THEN StatusWord(stopped, triggered, primed)
         ELSE [kind |-> "data", word |-> IF stopped THEN nxt_mem ELSE sample]

LevelInterrupt_BUG(reset_complete, stopped) ==
    br_level_interrupt' = (/\ ~reset_complete
                           /\ ~bw_reset_request
                           /\ br_level_interrupt \/ (stopped /\ br_config.disable))

LevelInterrupt_HELD_BUG(reset_complete, stopped) ==
    br_level_interrupt' = (br_level_interrupt \/ (stopped /\ ~br_config.disable))

LevelInterrupt(reset_complete, stopped) ==
    br_level_interrupt' = (/\ ~reset_complete
                           /\ ~bw_reset_request
                           /\ stopped /\ ~br_config.disable)

(* o_interrupt, a wire.                                                    *)
Interrupt(stopped) == stopped /\ ~br_config.disable /\ ~br_level_interrupt

CountInterrupts(stopped) ==
    h_interrupts' = IF ~stopped \/ br_config.disable THEN 0
                    ELSE IF Interrupt(stopped) /\ h_interrupts < 2 THEN h_interrupts + 1
                    ELSE h_interrupts

(* One positive edge of i_wb_clk, but for the pre-fetch.                   *)
BusEdge(req, reset_complete, stopped, triggered, primed, sample) ==
    /\ Configure(req, reset_complete)
    /\ AdvanceRead(req, stopped)
    /\ Respond(req, stopped, triggered, primed, sample)
    /\ LevelInterrupt(reset_complete, stopped)
    /\ CountInterrupts(stopped)

-----------------------------------------------------------------------------
(* A stop that is not disabled interrupts once: either the interrupt is up  *)
(* for its first clock, or it has been up for one clock and is over.  A     *)
(* capture that stops with DISABLE set interrupts when that is cleared, and *)
(* one that has interrupted does so again, once, each time DISABLE is set   *)
(* and cleared while it is stopped: br_level_interrupt follows DISABLE.     *)
OneInterrupt(stopped) ==
    /\ h_interrupts <= 1
    /\ stopped /\ ~br_config.disable =>
          (h_interrupts = 0 <=> Interrupt(stopped))

=============================================================================
