------------------------------- MODULE WB_TB -------------------------------
(***************************************************************************)
(* The bus master of the test benches, class WB_TB of bench/cpp/wb_tb.h:   *)
(* the DEVBUS calls as pin-level transactions on a pipelined Wishbone bus. *)
(* A call runs from one TICK to the next: pc names the TICK it is about to *)
(* take, and a step is that TICK and the code up to the next one.  The     *)
(* pins of the device are the parameter o = [ack, stall, data, interrupt]  *)
(* of a step, as they stand after the clock edge.                          *)
(*                                                                         *)
(* WBERR is defined nowhere in the repository: the bus has no error wire,  *)
(* and the branches that look at one are not compiled.                     *)
(***************************************************************************)
EXTENDS Integers, Sequences

CONSTANTS
    BOMBCOUNT,      \* the clocks a call waits for the bus
    NoWord,         \* on the data pins when nothing is written
    RANDOM_STROBE   \* a bound: FALSE where rand() is taken to withhold the
                    \* strobe of a vector read on no two clocks in a row

ASSUME BombAssumption == BOMBCOUNT \in Nat /\ BOMBCOUNT >= 2

VARIABLES
    pc,             \* "ready" between calls, "abort" after a failed assert
    call,           \* the call in progress, or the last one
    i_wb,           \* the pins driven: [cyc, stb, we, addr, data]
    errcount,
    cnt,            \* cnt of readv, stbcnt of writev, the count of idle
    nacks,          \* of writev
    answers,        \* the words read so far: rdidx is its length
    failed,         \* this call has printed a BOMB message
    m_bomb,
    m_interrupt

tbVars == <<pc, call, i_wb, errcount, cnt, nacks, answers, failed, m_bomb, m_interrupt>>

-----------------------------------------------------------------------------
(* Calls.  a is a byte address, as in devbus.h; words are what is written. *)
Calling(op, a, len) == [op |-> op, a |-> a, len |-> len, inc |-> FALSE, words |-> <<>>]

readio(a)          == Calling("readio", a, 1)
readi(a, len)      == [Calling("readv", a, len) EXCEPT !.inc = TRUE]
readz(a, len)      == Calling("readv", a, len)
writeio(a, v)      == [Calling("writeio", a, 1) EXCEPT !.words = <<v>>]
writei(a, v)       == [Calling("writev", a, Len(v)) EXCEPT !.inc = TRUE, !.words = v]
writez(a, v)       == [Calling("writev", a, Len(v)) EXCEPT !.words = v]
idle(counts)       == Calling("idle", 0, counts)
usleep(count)      == Calling("usleep", 0, count)
wait               == Calling("wait", 0, 0)

Released == [cyc |-> FALSE, stb |-> FALSE, we |-> FALSE, addr |-> 0, data |-> NoWord]
Addressed(c) == [cyc |-> TRUE, stb |-> TRUE, we |-> c.words # <<>>,
                 addr |-> c.a \div 4,
                 data |-> IF c.words = <<>> THEN NoWord ELSE c.words[1]]

TBInit ==
    /\ pc = "ready"
    /\ call = idle(0)
    /\ i_wb = Released
    /\ errcount = 0 /\ cnt = 0 /\ nacks = 0 /\ answers = <<>>
    /\ failed = FALSE /\ m_bomb = FALSE /\ m_interrupt = FALSE

Got_BUG(o) == answers' = Append(answers, o.data)

(* An answer the call counts; a BOMB message; an assert.                   *)
Got(o)  == answers' = IF o.ack THEN Append(answers, o.data) ELSE answers
Acked(o) == nacks' = IF o.ack THEN nacks + 1 ELSE nacks
Bomb(b) == failed' = (failed \/ b) /\ m_bomb' = (m_bomb \/ b)
NoBomb  == UNCHANGED <<failed, m_bomb>>
Returning(asserted) == pc' = IF asserted THEN "ready" ELSE "abort"

(* while ((errcount++ < limit) && waiting) TICK();                         *)
Spin(limit, waiting, loop, after) ==
    /\ errcount' = errcount + 1
    /\ pc' = IF errcount < limit /\ waiting THEN loop ELSE after

(* The same from an errcount of zero, where a call comes to it afresh.     *)
SpinAfresh(waiting, loop, after) ==
    /\ errcount' = 1
    /\ pc' = IF waiting THEN loop ELSE after

poll(o) == m_interrupt \/ o.interrupt

-----------------------------------------------------------------------------
(* The start of a call, up to its first TICK.  o is what the last clock    *)
(* edge left on the pins.                                                  *)

Begin(c, count) ==
    /\ pc = "ready"
    /\ call' = c /\ cnt' = count /\ nacks' = 0 /\ answers' = <<>> /\ failed' = FALSE
    /\ UNCHANGED <<m_bomb, m_interrupt>>

BeginSingle_BUG(c, o) ==
    /\ c.op \in {"readio", "writeio"}
    /\ Begin(c, 0)
    /\ i_wb' = Addressed(c)
    /\ IF o.stall THEN pc' = "stall" /\ errcount' = errcount + 1
                  ELSE pc' = "accept" /\ UNCHANGED errcount

BeginSingle(c, o) ==
    /\ c.op \in {"readio", "writeio"}
    /\ Begin(c, 0)
    /\ i_wb' = Addressed(c)
    /\ IF o.stall THEN pc' = "stall" /\ errcount' = 1
                  ELSE pc' = "accept" /\ errcount' = 0

(* readv first waits, off the bus, for the stall to end.  It strobes at    *)
(* random: (rand()&7) != 0.                                                *)
Strobe(pins) == \E stb \in BOOLEAN :
    /\ stb \/ i_wb.stb \/ RANDOM_STROBE
    /\ i_wb' = [pins EXCEPT !.stb = stb]

BeginReadv(c, o) ==
    /\ c.op = "readv"
    /\ Begin(c, 0)
    /\ IF o.stall
       THEN pc' = "v_idle" /\ errcount' = 1 /\ i_wb' = Released
       ELSE pc' = "v_issue" /\ errcount' = 0 /\ Strobe(Addressed(c))

BeginWritev(c, o) ==
    /\ c.op = "writev"
    /\ Begin(c, 0)
    /\ i_wb' = Addressed(c)
    /\ SpinAfresh(o.stall, "x_stall", "x_accept")

BeginIdle(c) ==
    /\ c.op = "idle" /\ c.len > 0
    /\ Begin(c, c.len)
    /\ pc' = "idle"
    /\ i_wb' = Released /\ errcount' = 0

(* wait and usleep leave the pins as they are, and look at the interrupt    *)
(* before every clock.                                                     *)
BeginSleep(c, o) ==
    /\ c.op = "wait" \/ (c.op = "usleep" /\ c.len > 0)
    /\ Begin(c, c.len)
    /\ pc' = IF poll(o) THEN "ready" ELSE "sleep"
    /\ errcount' = 0
    /\ UNCHANGED i_wb

Invoke(c, o) ==
    \/ BeginSingle(c, o) \/ BeginReadv(c, o) \/ BeginWritev(c, o)
    \/ BeginIdle(c) \/ BeginSleep(c, o)

(* clear() takes no clock.                                                 *)
clear ==
    /\ pc = "ready"
    /\ m_interrupt' = FALSE
    /\ UNCHANGED <<pc, call, i_wb, errcount, cnt, nacks, answers, failed, m_bomb>>

-----------------------------------------------------------------------------
(* From one TICK to the next.                                              *)

Latch(o) == m_interrupt' = (m_interrupt \/ o.interrupt)
taken(stalled) == i_wb.stb /\ ~stalled

(* readio, writeio and writev wait for the stall to end before the clock   *)
(* that is to take their request.                                          *)
Stall(o) ==
    \/ /\ pc = "stall"
       /\ Spin(BOMBCOUNT, o.stall, "stall", "accept")
       /\ UNCHANGED <<i_wb, cnt, nacks, answers>> /\ NoBomb
    \/ /\ pc = "x_stall"
       /\ Spin(BOMBCOUNT, o.stall, "x_stall", "x_accept")
       /\ Acked(o)
       /\ UNCHANGED <<i_wb, cnt, answers>> /\ NoBomb

(* readio: the request is off the bus, the answer awaited and taken.        *)
AwaitData(o) ==
    /\ pc \in {"accept", "wait"} /\ call.op = "readio"
    /\ Spin(BOMBCOUNT, ~o.ack, "wait", "release")
    /\ IF pc' = "wait"
       THEN i_wb' = [i_wb EXCEPT !.stb = FALSE] /\ UNCHANGED answers /\ NoBomb
       ELSE /\ i_wb' = Released
            /\ answers' = <<o.data>>
            /\ Bomb(errcount' >= BOMBCOUNT \/ ~o.ack)
    /\ UNCHANGED <<cnt, nacks>>

(* writeio stays on the bus for one more clock.                            *)
AwaitAck(o) ==
    /\ pc \in {"accept", "wait"} /\ call.op = "writeio"
    /\ Spin(BOMBCOUNT, ~o.ack, "wait", "settle")
    /\ i_wb' = [i_wb EXCEPT !.stb = FALSE]
    /\ UNCHANGED <<cnt, nacks, answers>> /\ NoBomb

Settle(o) ==
    /\ pc = "settle" /\ pc' = "release"
    /\ i_wb' = Released
    /\ Bomb(errcount >= BOMBCOUNT)
    /\ UNCHANGED <<errcount, cnt, nacks, answers>>

(* Every call ends with a clock off the bus, and asserts.                  *)
Release(o) ==
    /\ pc = "release"
    /\ Returning(~o.ack /\ (call.op = "readv" \/ ~o.stall))
    /\ UNCHANGED <<i_wb, errcount, cnt, nacks, answers>> /\ NoBomb

-----------------------------------------------------------------------------
THISBOMBCOUNT == BOMBCOUNT * call.len

(* readv: the wait for the bus to be free.                                 *)
AwaitBus(o) ==
    /\ pc = "v_idle"
    /\ IF errcount < BOMBCOUNT /\ o.stall
       THEN errcount' = errcount + 1 /\ UNCHANGED <<pc, i_wb>> /\ NoBomb
       ELSE IF errcount + 1 >= BOMBCOUNT
       THEN errcount' = errcount + 1 /\ pc' = "ready" /\ UNCHANGED i_wb /\ Bomb(TRUE)
       ELSE errcount' = 0 /\ pc' = "v_issue" /\ Strobe(Addressed(call)) /\ NoBomb
    /\ UNCHANGED <<cnt, nacks, answers>>

(* The bus is released; without an answer on the last clock, or in time,   *)
(* the call has failed.                                                    *)
FinishReadv(o) ==
    /\ pc' = "release"
    /\ i_wb' = Released
    /\ Bomb(errcount' >= THISBOMBCOUNT \/ ~o.ack)

(* The loop that collects the answers still out; counted is what errcount   *)
(* has come to.                                                            *)
CollectReadv(counted, o) ==
    IF Len(answers') < call.len
    THEN /\ errcount' = counted + 1
         /\ IF counted < THISBOMBCOUNT
            THEN pc' = "v_collect" /\ i_wb' = [i_wb EXCEPT !.stb = FALSE] /\ NoBomb
            ELSE FinishReadv(o)
    ELSE errcount' = counted /\ FinishReadv(o)

IssueReadv_BUG(stalled, o) ==
    LET s == taken(stalled)
        addr == i_wb.addr + (IF call.inc /\ s THEN 4 ELSE 0)
    IN  /\ pc = "v_issue"
        /\ cnt' = cnt + (IF s THEN 1 ELSE 0)
        /\ Got(o)
        /\ UNCHANGED nacks
        /\ IF cnt' <= call.len /\ errcount < THISBOMBCOUNT
           THEN /\ pc' = "v_issue" /\ errcount' = errcount + 1
                /\ Strobe([i_wb EXCEPT !.addr = addr])
                /\ NoBomb
           ELSE CollectReadv(IF cnt' < call.len THEN errcount + 1 ELSE errcount, o)

(* readv: strobes go out as fast as the bus takes them while answers come  *)
(* in.  The address moves on by 4 with every request taken, although the   *)
(* pins count words.                                                       *)
IssueReadv(stalled, o) ==
    LET s == taken(stalled)
        addr == i_wb.addr + (IF call.inc /\ s THEN 4 ELSE 0)
    IN  /\ pc = "v_issue"
        /\ cnt' = cnt + (IF s THEN 1 ELSE 0)
        /\ Got(o)
        /\ UNCHANGED nacks
        /\ IF cnt' < call.len /\ errcount < THISBOMBCOUNT
           THEN /\ pc' = "v_issue" /\ errcount' = errcount + 1
                /\ Strobe([i_wb EXCEPT !.addr = addr])
                /\ NoBomb
           ELSE CollectReadv(IF cnt' < call.len THEN errcount + 1 ELSE errcount, o)

AwaitReadv(o) ==
    /\ pc = "v_collect"
    /\ Got(o)
    /\ CollectReadv(errcount, o)
    /\ UNCHANGED <<cnt, nacks>>

-----------------------------------------------------------------------------
(* writev: the end of the call, once all is acknowledged or given up.      *)
CollectWritev(counted) ==
    IF nacks' < call.len /\ counted < BOMBCOUNT
    THEN /\ errcount' = counted + 1 /\ pc' = "x_collect"
         /\ i_wb' = [i_wb EXCEPT !.stb = FALSE] /\ NoBomb
    ELSE /\ errcount' = IF nacks' < call.len THEN counted + 1 ELSE counted
         /\ pc' = "release" /\ i_wb' = Released
         /\ Bomb(errcount' >= BOMBCOUNT)

(* The clock that takes a word, unless the bus was still stalled after      *)
(* BOMBCOUNT clocks: the code goes on to the next word all the same.       *)
IssueWritev(o) ==
    /\ pc = "x_accept"
    /\ cnt' = cnt + 1
    /\ Acked(o) /\ UNCHANGED answers
    /\ IF cnt' < call.len
       THEN /\ SpinAfresh(o.stall, "x_stall", "x_accept")
            /\ i_wb' = [i_wb EXCEPT !.addr = @ + (IF call.inc THEN 4 ELSE 0),
                                    !.data = call.words[cnt' + 1]]
            /\ NoBomb
       ELSE CollectWritev(0)

AwaitWritev_BUG(o) ==
    /\ pc = "x_collect"
    /\ Acked(o) /\ UNCHANGED answers
    /\ CollectWritev(0)
    /\ UNCHANGED cnt

AwaitWritev(o) ==
    /\ pc = "x_collect"
    /\ Acked(o) /\ UNCHANGED answers
    /\ CollectWritev(IF o.ack THEN 0 ELSE errcount)
    /\ UNCHANGED cnt

-----------------------------------------------------------------------------
Idle(o) ==
    /\ pc = "idle"
    /\ cnt' = cnt - 1
    /\ pc' = IF o.ack THEN "abort" ELSE IF cnt = 1 THEN "ready" ELSE "idle"
    /\ UNCHANGED <<i_wb, errcount, nacks, answers>> /\ NoBomb

Sleep(o) ==
    /\ pc = "sleep"
    /\ cnt' = IF call.op = "usleep" THEN cnt - 1 ELSE cnt
    /\ pc' = IF poll(o) \/ (call.op = "usleep" /\ cnt = 1) THEN "ready" ELSE "sleep"
    /\ UNCHANGED <<i_wb, errcount, nacks, answers>> /\ NoBomb

(* One TICK of a call in progress; stalled is the stall before the edge.   *)
Proceed(stalled, o) ==
    /\ \/ Stall(o) \/ AwaitData(o) \/ AwaitAck(o) \/ Settle(o) \/ Release(o)
       \/ AwaitBus(o) \/ IssueReadv(stalled, o) \/ AwaitReadv(o)
       \/ IssueWritev(o) \/ AwaitWritev(o) \/ Idle(o) \/ Sleep(o)
    /\ Latch(o)
    /\ UNCHANGED call
=============================================================================
