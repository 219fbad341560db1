------------------------- MODULE WB_TBDevice_proofs -------------------------
(***************************************************************************)
(* Proofs about the bench bus master, for every limit BOMBCOUNT, every set *)
(* of calls and every device that keeps to the bus: no call fails on a      *)
(* device that keeps up, and the calls are those of a DEVBUS.              *)
(***************************************************************************)
EXTENDS WB_TBDevice, SequenceTheorems, TLAPS

Data == Words \cup {NoWord}
Accesses == [we : BOOLEAN, addr : Nat, word : Data]
MasterPins == [cyc : BOOLEAN, stb : BOOLEAN, we : BOOLEAN, addr : Nat, data : Data]
Pcs == {"ready", "abort", "idle", "sleep", "stall", "accept", "wait", "settle", "release",
        "v_idle", "v_issue", "v_collect", "x_stall", "x_accept", "x_collect"}

MasterType ==
    /\ pc \in Pcs
    /\ OnBus => call \in BusCalls
    /\ i_wb \in MasterPins
    /\ i_wb.stb => i_wb.cyc
    /\ o_wb \in Pins
    /\ errcount \in Nat /\ cnt \in Int /\ nacks \in Nat
    /\ answers \in Seq(Words) /\ pending \in Seq(Words) /\ h_log \in Seq(Accesses)
    /\ h_late \in 0 .. BOMBCOUNT
    /\ failed \in BOOLEAN /\ m_bomb \in BOOLEAN
    /\ failed => m_bomb

(* The accesses s are among the first n of the call c, in their order.      *)
Placed(s, c, n) ==
    \E at \in [DOMAIN s -> 1 .. n] :
        /\ \A j, k \in DOMAIN s : j < k => at[j] < at[k]
        /\ \A k \in DOMAIN s : \E w \in Words : s[k] = Promise!Access(c, at[k], w)

(* A call at one address makes its accesses in order, each at most once.    *)
OneAddress == call.inc => call.len = 1
InPlace(n) == OneAddress => Placed(h_log, call, n)

(* The words as are answered, ps still out, of the accesses in log.        *)
InTurn(as, ps, log) ==
    /\ Len(as) + Len(ps) = Len(log)
    /\ \A k \in 1 .. Len(as) : as[k] = log[k].word
    /\ \A k \in 1 .. Len(ps) : ps[k] = log[Len(as) + k].word

(* The device, or the strobe, has been late n times, as far as is counted.  *)
Late(n) == h_late >= n \/ h_late = BOMBCOUNT

Driving == i_wb.cyc /\ (i_wb.we <=> call.words # <<>>) /\ ~failed

(* The next access of the call is on the pins.                             *)
Requesting ==
    /\ Driving
    /\ call.words # <<>> => i_wb.data = call.words[cnt + 1]
    /\ OneAddress => i_wb.addr = call.a \div 4
    /\ cnt \in 0 .. call.len - 1
    /\ InPlace(cnt)

(* Of a vector call all requests are out.                                  *)
Requested == Driving /\ ~i_wb.stb /\ cnt = call.len /\ InPlace(call.len)

-----------------------------------------------------------------------------
(* What holds before each TICK of a call.                                  *)
OffBus == ~i_wb.cyc /\ pending = <<>> /\ (failed => Late(BOMBCOUNT - 2))

Single == call.op \in {"readio", "writeio"} /\ answers = <<>> /\ nacks = 0 /\ cnt = 0

AtStall ==
    /\ Single /\ Requesting /\ i_wb.stb /\ o_wb.stall
    /\ h_log = <<>> /\ pending = <<>>
    /\ errcount \in 1 .. BOMBCOUNT /\ Late(errcount - 1)

AtAccept ==
    /\ Single /\ Requesting /\ i_wb.stb
    /\ h_log = <<>> /\ pending = <<>>
    /\ errcount <= BOMBCOUNT + 1 /\ Late(errcount - 1)
    /\ o_wb.stall => errcount > BOMBCOUNT

AtWait ==
    /\ Single /\ Driving /\ ~i_wb.stb
    /\ Len(h_log) = 1 /\ Len(pending) = 1 /\ InPlace(1)
    /\ call.words = <<>> => InTurn(answers, pending, h_log)
    /\ errcount <= BOMBCOUNT /\ Late(errcount - 1)

AtSettle ==
    /\ Single /\ call.op = "writeio" /\ Driving /\ ~i_wb.stb
    /\ Len(h_log) <= 1 /\ Len(pending) <= 1 /\ InPlace(1)
    /\ errcount <= BOMBCOUNT + 2
    /\ IF errcount < BOMBCOUNT THEN Len(h_log) = 1 ELSE Late(BOMBCOUNT - 2)

AtRelease ==
    /\ ~i_wb.cyc /\ InPlace(call.len)
    /\ nacks <= call.len /\ Len(answers) <= call.len /\ Len(pending) <= call.len
    /\ errcount <= THISBOMBCOUNT + BOMBCOUNT + 2
    /\ failed => Late(BOMBCOUNT - 2)
    /\ ~failed => Len(h_log) = call.len
    /\ ~failed => IF call.words = <<>> THEN InTurn(answers, <<>>, h_log) ELSE answers = <<>>

AtIdle ==
    /\ call.op = "readv" /\ ~i_wb.cyc /\ o_wb.stall /\ ~failed
    /\ h_log = <<>> /\ pending = <<>> /\ answers = <<>> /\ nacks = 0 /\ cnt = 0
    /\ errcount \in 1 .. BOMBCOUNT /\ Late(errcount - 1)

Reading ==
    /\ call.op = "readv" /\ nacks = 0
    /\ InTurn(answers, pending, h_log) /\ Len(h_log) = cnt
    /\ errcount <= THISBOMBCOUNT /\ Late(errcount - Len(answers))

AtIssue == Reading /\ Requesting
AtCollect == Reading /\ Requested /\ Len(answers) < call.len

(* A request that a stalled bus has passed over cost BOMBCOUNT clocks.      *)
Writing ==
    /\ call.op = "writev" /\ answers = <<>>
    /\ nacks + Len(pending) = Len(h_log) /\ Len(h_log) <= cnt
    /\ Len(h_log) < cnt => Late(BOMBCOUNT - 1)

AtStallV ==
    /\ Writing /\ Requesting /\ i_wb.stb /\ o_wb.stall
    /\ errcount \in 1 .. BOMBCOUNT /\ Late(errcount - 1)
AtAcceptV ==
    /\ Writing /\ Requesting /\ i_wb.stb
    /\ errcount <= BOMBCOUNT + 1
    /\ o_wb.stall => Late(BOMBCOUNT - 1)
AtCollectV ==
    /\ Writing /\ Requested /\ nacks < call.len
    /\ errcount \in 1 .. BOMBCOUNT /\ Late(errcount - 1)

StageInv ==
    /\ ~OnBus => OffBus
    /\ pc = "stall" => AtStall
    /\ pc = "accept" => AtAccept
    /\ pc = "wait" => AtWait
    /\ pc = "settle" => AtSettle
    /\ pc = "release" => AtRelease
    /\ pc = "v_idle" => AtIdle
    /\ pc = "v_issue" => AtIssue
    /\ pc = "v_collect" => AtCollect
    /\ pc = "x_stall" => AtStallV
    /\ pc = "x_accept" => AtAcceptV
    /\ pc = "x_collect" => AtCollectV

MasterInv == MasterType /\ StageInv

-----------------------------------------------------------------------------
LateNext(n) == h_late' >= n \/ h_late' = BOMBCOUNT

(* What a clock edge does to the device, counted.                          *)
Edge(o) ==
    /\ o_wb' \in Pins /\ h_late' \in 0 .. BOMBCOUNT
    /\ pending' \in Seq(Words) /\ h_log' \in Seq(Accesses)
    /\ taken(o_wb.stall) => Len(h_log') = Len(h_log) + 1
    /\ ~taken(o_wb.stall) => h_log' = h_log
    /\ ~i_wb.cyc => pending' = <<>> /\ ~o.ack
    /\ i_wb.cyc /\ taken(o_wb.stall) =>
        Len(pending') = IF o.ack THEN Len(pending) ELSE Len(pending) + 1
    /\ i_wb.cyc /\ ~taken(o_wb.stall) =>
        IF o.ack THEN Len(pending) > 0 /\ Len(pending') = Len(pending) - 1
                 ELSE Len(pending') = Len(pending)

(* A call waits no longer than the device has it wait.                     *)
Lateness(o) ==
    /\ \A n \in Int : Late(n) => LateNext(n)
    /\ Waiting(o) => \A n \in Int : Late(n) => LateNext(n + 1)

LEMMA LenOf ==
    ASSUME NEW S, NEW s \in Seq(S)
    PROVE  Len(s) \in Nat /\ (Len(s) = 0 => s = <<>>)
BY EmptySeq

LEMMA EdgeMoves ==
    ASSUME MasterType, NEW o \in Pins, o_wb' = o, Device(o)
    PROVE  Edge(o) /\ Lateness(o)
<1> USE DEF MasterType
<1> DEFINE t == taken(o_wb.stall)
<1>1. PICK w \in Words :
        LET word == IF i_wb.we THEN i_wb.data ELSE w
        IN  /\ o.ack => InFlight(w) # <<>> /\ o.data = Head(InFlight(w))
            /\ pending' = IF o.ack THEN Tail(InFlight(w)) ELSE InFlight(w)
            /\ h_log' = IF t THEN Append(h_log, [we |-> i_wb.we, addr |-> i_wb.addr, word |-> word])
                             ELSE h_log
            /\ h_late' = IF Waiting(o) /\ h_late < BOMBCOUNT THEN h_late + 1 ELSE h_late
    BY DEF Device
<1>2. i_wb.stb => i_wb.cyc
    OBVIOUS
<1>3. t \in BOOLEAN /\ (t => i_wb.cyc)
    BY <1>2 DEF taken, Pins
<1>4. [we |-> i_wb.we, addr |-> i_wb.addr, word |-> IF i_wb.we THEN i_wb.data ELSE w] \in Accesses
    BY DEF Accesses, Data, MasterPins
<1> HIDE DEF t
<1>5. InFlight(w) \in Seq(Words)
    BY DEF InFlight
<1>6. Len(InFlight(w)) = IF ~i_wb.cyc THEN 0 ELSE IF t THEN Len(pending) + 1 ELSE Len(pending)
    BY DEF InFlight, t
<1>7. /\ pending' \in Seq(Words)
      /\ Len(pending') = IF o.ack THEN Len(InFlight(w)) - 1 ELSE Len(InFlight(w))
      /\ o.ack => Len(InFlight(w)) > 0
    BY <1>1, <1>5
<1>8. /\ h_log' \in Seq(Accesses)
      /\ t => Len(h_log') = Len(h_log) + 1
      /\ ~t => h_log' = h_log
    BY <1>1, <1>4
<1>9. Lateness(o)
    BY <1>1, BombAssumption DEF Lateness, Late, LateNext
<1>10. h_late' \in 0 .. BOMBCOUNT
    BY <1>1, BombAssumption
<1>11. Len(pending') \in Nat /\ Len(pending) \in Nat /\ (Len(pending') = 0 => pending' = <<>>)
    BY <1>7, LenOf
<1>12. o_wb' \in Pins
    OBVIOUS
<1> QED
    BY <1>3, <1>6, <1>7, <1>8, <1>9, <1>10, <1>11, <1>12 DEF Edge, t

(* The device answers what it read, in order.                              *)
LEMMA AnswersInTurn ==
    ASSUME MasterType, NEW o \in Pins, Device(o),
           i_wb.cyc, i_wb.stb => ~i_wb.we,
           InTurn(answers, pending, h_log), Got(o)
    PROVE  answers' \in Seq(Words) /\ InTurn(answers', pending', h_log')
<1> USE DEF MasterType
<1> DEFINE t == taken(o_wb.stall)
<1>1. PICK w \in Words :
        LET word == IF i_wb.we THEN i_wb.data ELSE w
        IN  /\ o.ack => InFlight(w) # <<>> /\ o.data = Head(InFlight(w))
            /\ pending' = IF o.ack THEN Tail(InFlight(w)) ELSE InFlight(w)
            /\ h_log' = IF t THEN Append(h_log, [we |-> i_wb.we, addr |-> i_wb.addr, word |-> word])
                             ELSE h_log
    BY DEF Device
<1> DEFINE x == [we |-> i_wb.we, addr |-> i_wb.addr, word |-> w]
           q == InFlight(w)
<1>2. t \in BOOLEAN /\ (t => ~i_wb.we)
    BY DEF taken, Pins
<1>3. x \in Accesses /\ x.word = w
    BY DEF Accesses, Data, MasterPins
<1>4. /\ q = IF t THEN Append(pending, w) ELSE pending
      /\ q \in Seq(Words)
    BY DEF InFlight
<1>5. h_log' = IF t THEN Append(h_log, x) ELSE h_log
    BY <1>1, <1>2
<1>6. /\ o.ack => q # <<>> /\ o.data = Head(q) /\ pending' = Tail(q)
      /\ ~o.ack => pending' = q
    BY <1>1
<1>7. o.data \in Words /\ o.ack \in BOOLEAN
    BY DEF Pins
<1> HIDE DEF t, x, q
<1>8. InTurn(answers, q, h_log') /\ h_log' \in Seq(Accesses)
    <2>1. CASE t
        <3>1. /\ Len(q) = Len(pending) + 1 /\ q[Len(pending) + 1] = w
              /\ \A k \in 1 .. Len(pending) : q[k] = pending[k]
            BY <1>4, <2>1
        <3>2. /\ Len(h_log') = Len(h_log) + 1 /\ h_log'[Len(h_log) + 1] = x
              /\ \A k \in 1 .. Len(h_log) : h_log'[k] = h_log[k]
              /\ h_log' \in Seq(Accesses)
            BY <1>3, <1>5, <2>1
        <3>3. Len(pending) \in Nat /\ Len(answers) \in Nat /\ Len(h_log) \in Nat
            BY LenOf
        <3> QED
            <4>1. Len(answers) + Len(q) = Len(h_log')
                BY <3>1, <3>2, <3>3 DEF InTurn
            <4>2. ASSUME NEW k \in 1 .. Len(answers)
                  PROVE  answers[k] = h_log'[k].word
                BY <3>2, <3>3 DEF InTurn
            <4>3. ASSUME NEW k \in 1 .. Len(q)
                  PROVE  q[k] = h_log'[Len(answers) + k].word
                <5>1. CASE k = Len(pending) + 1
                    BY <1>3, <3>1, <3>2, <3>3, <5>1 DEF InTurn
                <5>2. CASE k # Len(pending) + 1
                    <6> DEFINE p == Len(pending)
                               a == Len(answers)
                               l == Len(h_log)
                    <6>2. a + p = l /\ k \in 1 .. p + 1 /\ k # p + 1 /\ p \in Nat /\ a \in Nat
                        BY <3>1, <3>3, <5>2 DEF InTurn
                    <6> HIDE DEF p, a, l
                    <6>3. k \in 1 .. p /\ a + k \in 1 .. l
                        BY <6>2
                    <6>1. k \in 1 .. Len(pending) /\ Len(answers) + k \in 1 .. Len(h_log)
                        BY <6>3 DEF p, a, l
                    <6> QED
                        BY <3>1, <3>2, <6>1 DEF InTurn
                <5> QED
                    BY <5>1, <5>2
            <4> QED
                BY <3>2, <4>1, <4>2, <4>3 DEF InTurn
    <2>2. CASE ~t
        BY <1>4, <1>5, <2>2
    <2> QED
        BY <1>2, <2>1, <2>2
<1>9. CASE o.ack
    <2>1. /\ answers' = Append(answers, o.data)
          /\ answers' \in Seq(Words)
          /\ Len(answers') = Len(answers) + 1
          /\ answers'[Len(answers) + 1] = o.data
          /\ \A k \in 1 .. Len(answers) : answers'[k] = answers[k]
        BY <1>7, <1>9 DEF Got
    <2>2. /\ pending' \in Seq(Words) /\ Len(q) \in Nat \ {0}
          /\ Len(pending') = Len(q) - 1 /\ o.data = q[1]
          /\ \A k \in 1 .. Len(pending') : pending'[k] = q[k + 1]
        <3>1. q # <<>> /\ q \in Seq(Words) /\ pending' = Tail(q) /\ o.data = Head(q)
            BY <1>4, <1>6, <1>9
        <3>2. Len(q) \in Nat \ {0}
            BY <3>1, EmptySeq
        <3>3. Head(q) = q[1]
            BY <3>1
        <3> QED
            BY <3>1, <3>2, <3>3, HeadTailProperties
    <2>3. Len(answers) \in Nat
        BY LenOf
    <2>4. Len(answers') + Len(pending') = Len(h_log')
        <3>1. Len(answers) + Len(q) = Len(h_log')
            BY <1>8 DEF InTurn
        <3>2. /\ Len(answers') = Len(answers) + 1
              /\ Len(pending') = Len(q) - 1 /\ Len(q) \in Nat
            BY <2>1, <2>2
        <3> DEFINE a == Len(answers)
                   a1 == Len(answers')
                   p1 == Len(pending')
                   l1 == Len(h_log')
                   m == Len(q)
        <3>3. a1 = a + 1 /\ p1 = m - 1 /\ a + m = l1 /\ m \in Nat /\ a \in Nat
            BY <2>3, <3>1, <3>2
        <3> HIDE DEF a, a1, p1, l1, m
        <3>4. a1 + p1 = l1
            BY <3>3
        <3> QED
            BY <3>4 DEF a1, p1, l1
    <2>5. ASSUME NEW k \in 1 .. Len(answers')
          PROVE  answers'[k] = h_log'[k].word
        <3>1. CASE k = Len(answers) + 1
            BY <1>8, <2>1, <2>2, <2>3, <3>1 DEF InTurn
        <3>2. CASE k # Len(answers) + 1
            BY <1>8, <2>1, <2>3, <3>2 DEF InTurn
        <3> QED
            BY <3>1, <3>2
    <2>6. ASSUME NEW k \in 1 .. Len(pending')
          PROVE  pending'[k] = h_log'[Len(answers') + k].word
        <3> DEFINE l == Len(pending')
                   m == Len(q)
        <3>3. l = m - 1 /\ m \in Nat \ {0} /\ k \in 1 .. l
            BY <2>2
        <3> HIDE DEF l, m
        <3>4. k + 1 \in 1 .. m
            BY <3>3
        <3>1. k + 1 \in 1 .. Len(q) /\ pending'[k] = q[k + 1]
            BY <2>2, <3>4 DEF m
        <3>2. Len(answers) + (k + 1) = Len(answers') + k
            BY <2>1, <2>3
        <3> QED
            BY <1>8, <3>1, <3>2 DEF InTurn
    <2> QED
        BY <2>1, <2>4, <2>5, <2>6 DEF InTurn
<1>10. CASE ~o.ack
    BY <1>6, <1>8, <1>10 DEF Got
<1> QED
    BY <1>7, <1>9, <1>10

(* The accesses of a call may lie anywhere among more of its accesses.      *)
LEMMA PlacedWider ==
    ASSUME NEW s, NEW c, NEW n \in Nat, NEW m \in Nat, n <= m, Placed(s, c, n)
    PROVE  Placed(s, c, m)
<1>1. PICK at \in [DOMAIN s -> 1 .. n] :
        /\ \A j, k \in DOMAIN s : j < k => at[j] < at[k]
        /\ \A k \in DOMAIN s : \E w \in Words : s[k] = Promise!Access(c, at[k], w)
    BY DEF Placed
<1>2. at \in [DOMAIN s -> 1 .. m]
    OBVIOUS
<1> QED
    BY <1>1, <1>2 DEF Placed

LEMMA PlacedNone ==
    ASSUME NEW c, NEW n \in Nat
    PROVE  Placed(<<>>, c, n)
<1> DEFINE at == [k \in {} |-> 0]
<1>1. DOMAIN <<>> = {} /\ at \in [{} -> 1 .. n]
    OBVIOUS
<1> HIDE DEF at
<1> QED
    BY <1>1 DEF Placed

(* The next access made goes after those made.                             *)
LEMMA PlacedNext ==
    ASSUME NEW s \in Seq(Accesses), NEW c, NEW n \in Nat, NEW w \in Words,
           NEW x \in Accesses, x = Promise!Access(c, n + 1, w), Placed(s, c, n)
    PROVE  Placed(Append(s, x), c, n + 1)
<1>1. PICK at \in [DOMAIN s -> 1 .. n] :
        /\ \A j, k \in DOMAIN s : j < k => at[j] < at[k]
        /\ \A k \in DOMAIN s : \E v \in Words : s[k] = Promise!Access(c, at[k], v)
    BY DEF Placed
<1> DEFINE s1 == Append(s, x)
           at1 == [k \in DOMAIN s1 |-> IF k = Len(s) + 1 THEN n + 1 ELSE at[k]]
<1>2. /\ Len(s) \in Nat /\ DOMAIN s = 1 .. Len(s) /\ DOMAIN s1 = 1 .. Len(s) + 1
      /\ s1[Len(s) + 1] = x /\ \A k \in 1 .. Len(s) : s1[k] = s[k]
    BY AppendProperties
<1> HIDE DEF s1
<1>3. at1 \in [DOMAIN s1 -> 1 .. n + 1]
    BY <1>2
<1>4. \A j, k \in DOMAIN s1 : j < k => at1[j] < at1[k]
    BY <1>1, <1>2
<1>5. \A k \in DOMAIN s1 : \E v \in Words : s1[k] = Promise!Access(c, at1[k], v)
    <2> SUFFICES ASSUME NEW k \in DOMAIN s1
                 PROVE  \E v \in Words : s1[k] = Promise!Access(c, at1[k], v)
        OBVIOUS
    <2>1. CASE k = Len(s) + 1
        BY <1>2, <2>1
    <2>2. CASE k # Len(s) + 1
        <3>1. k \in DOMAIN s /\ s1[k] = s[k] /\ at1[k] = at[k]
            BY <1>2, <2>2
        <3> QED
            BY <1>1, <3>1
    <2> QED
        BY <2>1, <2>2
<1> HIDE DEF at1
<1>6. Placed(s1, c, n + 1)
    BY <1>3, <1>4, <1>5 DEF Placed
<1> QED
    BY <1>6 DEF s1

-----------------------------------------------------------------------------
(* One TICK of a call, on a clock edge that leaves the pins at o.          *)
Clocked(o) == o \in Pins /\ o_wb' = o /\ Device(o) /\ call' = call

Facts(o) ==
    /\ Edge(o) /\ Lateness(o)
    /\ Len(h_log) \in Nat /\ Len(pending) \in Nat /\ Len(answers) \in Nat
    /\ Len(h_log') \in Nat /\ Len(pending') \in Nat
    /\ Late(BOMBCOUNT - 1) => LateNext(BOMBCOUNT - 1)
    /\ Late(BOMBCOUNT - 2) => LateNext(BOMBCOUNT - 2)
    /\ o \in Pins /\ o_wb' = o /\ call' = call
    /\ o.ack \in BOOLEAN /\ o.stall \in BOOLEAN /\ o.data \in Words

LEMMA ClockFacts ==
    ASSUME MasterType, NEW o, Clocked(o)
    PROVE  Facts(o)
<1>1. Edge(o) /\ Lateness(o)
    BY EdgeMoves DEF Clocked
<1>2. Len(h_log) \in Nat /\ Len(pending) \in Nat /\ Len(answers) \in Nat
    BY LenOf DEF MasterType
<1>3. Len(h_log') \in Nat /\ Len(pending') \in Nat
    BY <1>1, LenOf DEF Edge
<1>4. /\ Late(BOMBCOUNT - 1) => LateNext(BOMBCOUNT - 1)
      /\ Late(BOMBCOUNT - 2) => LateNext(BOMBCOUNT - 2)
    BY <1>1, BombAssumption DEF Lateness
<1> QED
    BY <1>1, <1>2, <1>3, <1>4 DEF Clocked, Pins, Facts

LEMMA CallShape ==
    ASSUME NEW c \in BusCalls
    PROVE  /\ c.len \in Nat /\ c.len >= 1 /\ c.a \in Nat /\ c.inc \in BOOLEAN
           /\ c.words \in Seq(Words)
           /\ c.op \in {"readio", "writeio"} => c.len = 1
           /\ c.op \in {"readio", "readv"} => c.words = <<>>
           /\ c.op \in {"writeio", "writev"} => c.words # <<>> /\ Len(c.words) = c.len
           /\ c.op \in {"readio", "readv", "writeio", "writev"}
BY CallsAssumption, EmptySeq DEF BusCalls

LEMMA CallOnBus ==
    ASSUME MasterType, OnBus
    PROVE  /\ call.len \in Nat /\ call.len >= 1 /\ call.a \in Nat /\ call.inc \in BOOLEAN
           /\ call.words \in Seq(Words)
           /\ call.op \in {"readio", "writeio"} => call.len = 1
           /\ call.op \in {"readio", "readv"} => call.words = <<>>
           /\ call.op \in {"writeio", "writev"} =>
                call.words # <<>> /\ Len(call.words) = call.len
BY CallShape DEF MasterType


-----------------------------------------------------------------------------
(* One TICK after the other.                                               *)

(* Waiting for one more clock, the device has been late for one more.       *)
LEMMA OneLater ==
    ASSUME NEW o, Facts(o), Waiting(o), NEW n \in Int, Late(n - 1)
    PROVE  LateNext(n)
<1>1. Late(n - 1) => LateNext((n - 1) + 1)
    BY DEF Facts, Lateness
<1> QED
    BY <1>1

(* The types of the master's own variables.                                *)
OwnType ==
    /\ pc \in Pcs
    /\ i_wb \in MasterPins
    /\ i_wb.stb => i_wb.cyc
    /\ errcount \in Nat /\ cnt \in Int /\ nacks \in Nat /\ answers \in Seq(Words)
    /\ failed \in BOOLEAN /\ m_bomb \in BOOLEAN
    /\ failed => m_bomb

LEMMA TypesKept ==
    ASSUME MasterType, NEW o, Clocked(o), OwnType', OnBus' => OnBus
    PROVE  MasterType'
<1>1. Facts(o)
    BY ClockFacts
<1>2. /\ o_wb' \in Pins /\ pending' \in Seq(Words) /\ h_log' \in Seq(Accesses)
      /\ h_late' \in 0 .. BOMBCOUNT /\ call' = call
    BY <1>1 DEF Facts, Edge
<1> QED
    BY <1>2 DEF MasterType, OwnType

LEMMA StallTypes ==
    ASSUME MasterType, NEW o, Clocked(o), Stall(o)
    PROVE  MasterType'
<1>1. OnBus /\ pc' \in Pcs
    BY DEF Stall, Spin, OnBus, Pcs
<1>2. errcount' \in Nat /\ nacks' \in Nat
    BY DEF MasterType, Stall, Spin, Acked
<1>3. UNCHANGED <<i_wb, cnt, answers, failed, m_bomb>>
    BY DEF Stall, NoBomb
<1>4. OwnType'
    BY <1>1, <1>2, <1>3 DEF MasterType, OwnType
<1> QED
    BY <1>1, <1>4, TypesKept

LEMMA StallStep ==
    ASSUME MasterType, pc = "stall", AtStall, NEW o, Clocked(o), Stall(o)
    PROVE  \/ pc' = "stall" /\ AtStall'
           \/ pc' = "accept" /\ AtAccept'
<1>0. Facts(o)
    BY ClockFacts
<1>1. ~taken(o_wb.stall) /\ h_log' = h_log /\ Len(pending) = 0
    BY <1>0 DEF AtStall, taken, Facts, Edge
<1>2. pending' = <<>> /\ ~o.ack
    BY <1>0, <1>1, LenOf DEF Facts, Edge, AtStall, Requesting, Driving
<1>3. errcount' = errcount + 1 /\ LateNext(errcount)
    BY <1>0, OneLater DEF AtStall, Waiting, Stall, Spin
<1>4. Single' /\ Requesting' /\ i_wb'.stb
    BY <1>0, <1>1 DEF Facts, AtStall, Single, Requesting, Driving, InPlace, OneAddress, Stall, NoBomb
<1>5. LateNext(errcount' - 1)
    BY <1>3 DEF AtStall
<1>6. CASE errcount < BOMBCOUNT /\ o_wb'.stall
    BY <1>0, <1>1, <1>2, <1>3, <1>4, <1>5, <1>6, BombAssumption
    DEF AtStall, Late, LateNext, Stall, Spin, Facts
<1>7. CASE ~(errcount < BOMBCOUNT /\ o_wb'.stall)
    BY <1>0, <1>1, <1>2, <1>3, <1>4, <1>5, <1>7, BombAssumption
    DEF AtStall, AtAccept, Late, LateNext, Stall, Spin, Facts
<1> QED
    BY <1>6, <1>7

LEMMA PinsTypes ==
    ASSUME MasterType
    PROVE  /\ Released \in MasterPins /\ ~Released.stb /\ ~Released.cyc
           /\ \A b \in BOOLEAN : [i_wb EXCEPT !.stb = b] \in MasterPins
<1>1. Released \in MasterPins /\ ~Released.stb /\ ~Released.cyc
    BY DEF Released, MasterPins, Data
<1>2. \A b \in BOOLEAN : [i_wb EXCEPT !.stb = b] \in MasterPins
    BY DEF MasterType, MasterPins
<1> QED
    BY <1>1, <1>2

LEMMA AddressedTypes ==
    ASSUME NEW c \in BusCalls
    PROVE  /\ Addressed(c) \in MasterPins
           /\ \A b \in BOOLEAN : [Addressed(c) EXCEPT !.stb = b] \in MasterPins
           /\ Addressed(c).cyc /\ Addressed(c).stb /\ (Addressed(c).we <=> c.words # <<>>)
           /\ Addressed(c).addr = c.a \div 4
           /\ c.words # <<>> => Addressed(c).data = c.words[1]
<1>1. c.a \div 4 \in Nat
    BY CallShape
<1>2. c.words # <<>> => c.words[1] \in Words
    BY CallShape, EmptySeq
<1>3. Addressed(c) \in MasterPins
    BY <1>1, <1>2 DEF Addressed, MasterPins, Data
<1>4. \A b \in BOOLEAN : [Addressed(c) EXCEPT !.stb = b] \in MasterPins
    BY <1>3 DEF MasterPins
<1> QED
    BY <1>3, <1>4 DEF Addressed

LEMMA BombTypes ==
    ASSUME MasterType, NEW b, Bomb(b)
    PROVE  failed' \in BOOLEAN /\ m_bomb' \in BOOLEAN /\ (failed' => m_bomb')
BY DEF MasterType, Bomb

LEMMA DataTypes ==
    ASSUME MasterType, NEW o, Clocked(o), AwaitData(o) \/ AwaitAck(o) \/ Settle(o)
    PROVE  MasterType'
<1>0. Facts(o)
    BY ClockFacts
<1>1. OnBus /\ pc' \in Pcs
    BY DEF AwaitData, AwaitAck, Settle, Spin, OnBus, Pcs
<1>2. errcount' \in Nat
    BY DEF MasterType, AwaitData, AwaitAck, Settle, Spin
<1>3. answers' \in Seq(Words)
    <2>1. <<o.data>> \in Seq(Words)
        BY <1>0 DEF Facts
    <2>2. answers' = <<o.data>> \/ answers' = answers
        BY DEF AwaitData, AwaitAck, Settle
    <2> QED
        BY <2>1, <2>2 DEF MasterType
<1>4. i_wb' = Released \/ i_wb' = [i_wb EXCEPT !.stb = FALSE]
    BY DEF AwaitData, AwaitAck, Settle
<1>5. i_wb' \in MasterPins
    BY <1>4, PinsTypes
<1>6. ~i_wb'.stb
    BY <1>4 DEF MasterType, MasterPins, Released
<1>7. UNCHANGED <<cnt, nacks>>
    BY DEF AwaitData, AwaitAck, Settle
<1>8. failed' \in BOOLEAN /\ m_bomb' \in BOOLEAN /\ (failed' => m_bomb')
    <2>1. CASE AwaitData(o)
        <3>1. NoBomb \/ Bomb(errcount' >= BOMBCOUNT \/ ~o.ack)
            BY <2>1 DEF AwaitData
        <3> QED
            BY <3>1, BombTypes DEF MasterType, NoBomb
    <2>2. CASE AwaitAck(o)
        BY <2>2 DEF MasterType, AwaitAck, NoBomb
    <2>3. CASE Settle(o)
        BY <2>3, BombTypes DEF Settle
    <2> QED
        BY <2>1, <2>2, <2>3
<1>9. OwnType'
    BY <1>1, <1>2, <1>3, <1>5, <1>6, <1>7, <1>8 DEF MasterType, OwnType
<1> QED
    BY <1>1, <1>9, TypesKept

(* A request that the bus takes is the next access of the call.            *)
LEMMA RequestTaken ==
    ASSUME MasterType, OnBus, Requesting, NEW o, Clocked(o)
    PROVE  /\ taken(o_wb.stall) => (OneAddress => Placed(h_log', call, cnt + 1))
           /\ ~taken(o_wb.stall) => (OneAddress => Placed(h_log', call, cnt))
<1>1. PICK w \in Words :
        h_log' = IF taken(o_wb.stall)
                 THEN Append(h_log, [we |-> i_wb.we, addr |-> i_wb.addr,
                                     word |-> IF i_wb.we THEN i_wb.data ELSE w])
                 ELSE h_log
    BY DEF Clocked, Device
<1>2. CASE ~taken(o_wb.stall)
    BY <1>1, <1>2 DEF Requesting, InPlace
<1>3. CASE taken(o_wb.stall) /\ OneAddress
    <2> DEFINE x == [we |-> i_wb.we, addr |-> i_wb.addr, word |-> IF i_wb.we THEN i_wb.data ELSE w]
    <2>1. cnt \in Nat /\ Placed(h_log, call, cnt)
        BY <1>3, CallOnBus DEF Requesting, InPlace
    <2>2. Promise!Address(call, cnt + 1) = call.a \div 4
        <3>1. call.inc => cnt = 0
            BY <1>3, CallOnBus DEF Requesting, OneAddress
        <3> QED
            BY <3>1, <2>1, CallOnBus DEF Promise!Address
    <2>3. x = Promise!Access(call, cnt + 1, w)
        BY <1>3, <2>2 DEF Promise!Access, Requesting, Driving, MasterType, MasterPins
    <2>4. x \in Accesses
        BY DEF Accesses, Data, MasterType, MasterPins
    <2> HIDE DEF x
    <2>5. Placed(Append(h_log, x), call, cnt + 1)
        BY <2>1, <2>3, <2>4, PlacedNext DEF MasterType
    <2> QED
        BY <1>1, <1>3, <2>5 DEF x
<1> QED
    BY <1>2, <1>3

(* The clocks of a single call that wait for its answer.                    *)
LEMMA Answer ==
    ASSUME MasterType, NEW o, Clocked(o),
           (pc = "accept" /\ AtAccept) \/ (pc = "wait" /\ AtWait)
    PROVE  /\ i_wb.cyc /\ Single /\ call.len = 1 /\ OnBus /\ ~failed
           /\ OneAddress => Placed(h_log', call, 1)
           /\ errcount <= BOMBCOUNT + 1 /\ Late(errcount - 1)
           /\ ~o.ack => LateNext(errcount)
           /\ Len(h_log') <= 1 /\ Len(pending') <= 1
           /\ o.ack => Len(h_log') = 1 /\ Len(pending') = 0
           /\ ~o.ack /\ errcount <= BOMBCOUNT => Len(h_log') = 1 /\ Len(pending') = 1
           /\ call.words = <<>> => InTurn(answers, pending, h_log) /\ ~i_wb.we
<1>0. Facts(o)
    BY ClockFacts
<1>1. /\ i_wb.cyc /\ OnBus /\ Single /\ ~failed /\ (i_wb.we <=> call.words # <<>>)
      /\ errcount <= BOMBCOUNT + 1 /\ Late(errcount - 1)
    BY BombAssumption DEF AtAccept, AtWait, Requesting, Driving, OnBus, MasterType
<1>2. call.len = 1
    BY <1>1, CallOnBus DEF Single
<1>3. CASE pc = "accept" /\ AtAccept
    <2>1. h_log = <<>> /\ pending = <<>> /\ Len(h_log) = 0 /\ Len(pending) = 0
          /\ (taken(o_wb.stall) <=> ~o_wb.stall) /\ (o_wb.stall => errcount > BOMBCOUNT)
        BY <1>3 DEF AtAccept, taken
    <2>2. ~o.ack => Waiting(o)
        BY <2>1 DEF Waiting
    <2>3. OneAddress => Placed(h_log', call, 1)
        <3>1. cnt = 0
            BY <1>1 DEF Single
        <3>2. Placed(h_log', call, 0) => Placed(h_log', call, 1)
            BY PlacedWider
        <3> QED
            BY <1>1, <1>3, <3>1, <3>2, RequestTaken DEF AtAccept
    <2>4. CASE o_wb.stall
        <3>1. Len(h_log') = 0 /\ Len(pending') = 0 /\ ~o.ack
            BY <1>0, <1>1, <2>1, <2>4 DEF Facts, Edge
        <3>2. ~o.ack => LateNext(errcount)
            BY <1>0, <1>1, <2>2, OneLater DEF MasterType
        <3> QED
            BY <1>0, <1>1, <1>2, <2>1, <2>3, <2>4, <3>1, <3>2, BombAssumption
            DEF Facts, InTurn, Single, MasterType
    <2>5. CASE ~o_wb.stall
        <3>1. Len(h_log') = 1 /\ Len(pending') = IF o.ack THEN 0 ELSE 1
            BY <1>0, <1>1, <2>1, <2>5 DEF Facts, Edge
        <3>2. ~o.ack => LateNext(errcount)
            BY <1>0, <1>1, <2>2, OneLater DEF MasterType
        <3> QED
            BY <1>0, <1>1, <1>2, <2>1, <2>3, <3>1, <3>2 DEF Facts, InTurn, Single
    <2> QED
        BY <2>4, <2>5
<1>4. CASE pc = "wait" /\ AtWait
    <2>1. ~taken(o_wb.stall) /\ Len(h_log) = 1 /\ Len(pending) = 1
        BY <1>4 DEF AtWait, taken
    <2>2. Len(h_log') = 1 /\ h_log' = h_log /\ Len(pending') = IF o.ack THEN 0 ELSE 1
        BY <1>0, <1>1, <2>1 DEF Facts, Edge
    <2>3. ~o.ack => Waiting(o)
        BY <2>1 DEF Waiting
    <2>4. ~o.ack => LateNext(errcount)
        BY <1>0, <1>1, <2>3, OneLater DEF MasterType
    <2> QED
        BY <1>0, <1>1, <1>2, <1>4, <2>2, <2>4 DEF AtWait, InPlace
<1> QED
    BY <1>3, <1>4

LEMMA AwaitDataStep ==
    ASSUME MasterType, NEW o, Clocked(o), AwaitData(o),
           (pc = "accept" /\ AtAccept) \/ (pc = "wait" /\ AtWait)
    PROVE  \/ pc' = "wait" /\ AtWait'
           \/ pc' = "release" /\ AtRelease'
<1>0. Facts(o)
    BY ClockFacts
<1>1. call.words = <<>> /\ call' = call /\ cnt' = cnt /\ nacks' = nacks
      /\ errcount' = errcount + 1 /\ errcount \in Nat
    BY <1>0, Answer, CallOnBus DEF AwaitData, Spin, Facts, MasterType
<1>2. answers = <<>> /\ nacks = 0 /\ cnt = 0 /\ call.op = "readio" /\ call.len = 1
    BY Answer DEF Single, AwaitData
<1>3. CASE errcount < BOMBCOUNT /\ ~o.ack
    <2>1. pc' = "wait" /\ i_wb' = [i_wb EXCEPT !.stb = FALSE] /\ answers' = answers /\ NoBomb
        BY <1>3 DEF AwaitData, Spin
    <2>2. InTurn(answers', pending', h_log')
        BY <1>0, <1>1, <1>3, <2>1, Answer, AnswersInTurn DEF Facts, Got, Clocked
    <2>3. Driving' /\ ~i_wb'.stb
        BY <1>1, <2>1, Answer DEF Driving, NoBomb, MasterType, MasterPins
    <2>4. Late(errcount - 1)'
        BY <1>1, <1>3, Answer DEF Late, LateNext
    <2>5. Len(h_log') = 1 /\ Len(pending') = 1 /\ (OneAddress => Placed(h_log', call, 1))
        BY <1>1, <1>3, Answer, BombAssumption
    <2>6. InPlace(1)'
        BY <1>1, <2>5 DEF InPlace, OneAddress
    <2>7. Single'
        BY <1>1, <1>2, <2>1 DEF Single
    <2> QED
        BY <1>1, <1>3, <2>1, <2>2, <2>3, <2>4, <2>5, <2>6, <2>7, BombAssumption DEF AtWait
<1>4. CASE ~(errcount < BOMBCOUNT /\ ~o.ack)
    <2>1. /\ pc' = "release" /\ i_wb' = Released /\ answers' = <<o.data>>
          /\ Bomb(errcount' >= BOMBCOUNT \/ ~o.ack)
        BY <1>0, <1>4 DEF AwaitData, Spin, Facts
    <2>2. failed' <=> (errcount' >= BOMBCOUNT \/ ~o.ack)
        BY <2>1, Answer DEF Bomb
    <2>3. failed' => Late(BOMBCOUNT - 2)'
        <3>1. errcount >= BOMBCOUNT - 1 => Late(BOMBCOUNT - 2)
            BY <1>1, Answer, BombAssumption DEF Late, MasterType
        <3>2. failed' => errcount >= BOMBCOUNT - 1
            BY <1>0, <1>1, <1>4, <2>2, BombAssumption DEF Facts
        <3> QED
            BY <1>0, <3>1, <3>2 DEF Facts, Late, LateNext
    <2>4. InPlace(call.len)'
        BY <1>1, <1>2, Answer DEF InPlace, OneAddress
    <2>5. /\ nacks' <= call'.len /\ Len(answers') <= call'.len /\ Len(pending') <= call'.len
        BY <1>1, <1>2, <2>1, Answer
    <2>6. errcount' <= THISBOMBCOUNT' + BOMBCOUNT + 2
        BY <1>1, <1>2, Answer, BombAssumption DEF THISBOMBCOUNT
    <2>7. ASSUME ~failed'
          PROVE  Len(h_log') = call'.len /\ InTurn(answers', <<>>, h_log')
        <3>1. o.ack
            BY <1>0, <2>2, <2>7 DEF Facts
        <3>2. Got(o)
            BY <1>2, <2>1, <3>1 DEF Got
        <3>3. InTurn(answers', pending', h_log')
            BY <1>0, <1>1, <3>2, Answer, AnswersInTurn DEF Facts, Clocked
        <3>4. Len(h_log') = 1 /\ Len(pending') = 0
            BY <3>1, Answer
        <3> QED
            BY <1>1, <1>2, <3>3, <3>4 DEF InTurn
    <2> QED
        BY <1>1, <2>1, <2>3, <2>4, <2>5, <2>6, <2>7 DEF AtRelease, Released
<1> QED
    BY <1>3, <1>4

LEMMA AwaitAckStep ==
    ASSUME MasterType, NEW o, Clocked(o), AwaitAck(o),
           (pc = "accept" /\ AtAccept) \/ (pc = "wait" /\ AtWait)
    PROVE  \/ pc' = "wait" /\ AtWait'
           \/ pc' = "settle" /\ AtSettle'
<1>0. Facts(o)
    BY ClockFacts
<1>1. /\ call.words # <<>> /\ call' = call /\ cnt' = cnt /\ nacks' = nacks /\ answers' = answers
      /\ errcount' = errcount + 1 /\ errcount \in Nat /\ call.op = "writeio" /\ NoBomb
      /\ i_wb' = [i_wb EXCEPT !.stb = FALSE]
    BY <1>0, Answer, CallOnBus DEF AwaitAck, Spin, Facts, MasterType
<1>2. Driving' /\ ~i_wb'.stb /\ Single'
    BY <1>1, Answer DEF Driving, Single, NoBomb, MasterType, MasterPins, AtAccept, AtWait, Requesting
<1>3. InPlace(1)'
    BY <1>1, Answer DEF InPlace, OneAddress
<1>4. CASE errcount < BOMBCOUNT /\ ~o.ack
    <2>1. pc' = "wait"
        BY <1>4 DEF AwaitAck, Spin
    <2>2. Late(errcount - 1)'
        BY <1>1, <1>4, Answer DEF Late, LateNext
    <2>3. Len(h_log') = 1 /\ Len(pending') = 1
        BY <1>1, <1>4, Answer, BombAssumption
    <2> QED
        BY <1>1, <1>2, <1>3, <1>4, <2>1, <2>2, <2>3, BombAssumption DEF AtWait
<1>5. CASE ~(errcount < BOMBCOUNT /\ ~o.ack)
    <2>1. pc' = "settle"
        BY <1>0, <1>5 DEF AwaitAck, Spin, Facts
    <2>2. errcount >= BOMBCOUNT - 1 => Late(BOMBCOUNT - 2)'
        <3>1. errcount >= BOMBCOUNT - 1 => Late(BOMBCOUNT - 2)
            BY <1>1, Answer, BombAssumption DEF Late, MasterType
        <3> QED
            BY <1>0, <3>1 DEF Facts, Late, LateNext
    <2>3. errcount' < BOMBCOUNT => Len(h_log') = 1
        BY <1>0, <1>1, <1>5, Answer, BombAssumption DEF Facts
    <2>4. Len(h_log') <= 1 /\ Len(pending') <= 1 /\ errcount' <= BOMBCOUNT + 2
        BY <1>1, Answer, BombAssumption
    <2> QED
        BY <1>1, <1>2, <1>3, <2>1, <2>2, <2>3, <2>4, BombAssumption DEF AtSettle
<1> QED
    BY <1>4, <1>5

LEMMA SettleStep ==
    ASSUME MasterType, AtSettle, NEW o, Clocked(o), Settle(o)
    PROVE  pc' = "release" /\ AtRelease'
<1>0. Facts(o)
    BY ClockFacts
<1>1. ~taken(o_wb.stall) /\ i_wb.cyc /\ ~failed
    BY DEF AtSettle, Driving, taken
<1>2. call.len = 1 /\ call' = call /\ call.words # <<>>
    BY <1>0, CallOnBus DEF AtSettle, Settle, OnBus, Facts
<1>3. h_log' = h_log /\ Len(pending') <= 1
    BY <1>0, <1>1 DEF Facts, Edge, AtSettle
<1>4. /\ pc' = "release" /\ i_wb' = Released /\ UNCHANGED <<errcount, cnt, nacks, answers>>
      /\ failed' <=> errcount >= BOMBCOUNT
    BY <1>1 DEF Settle, Bomb
<1>5. failed' => Late(BOMBCOUNT - 2)'
    <2>1. failed' => Late(BOMBCOUNT - 2)
        BY <1>4, BombAssumption DEF AtSettle, MasterType
    <2> QED
        BY <1>0, <2>1 DEF Facts, Late, LateNext
<1>6. ~failed' => Len(h_log') = 1
    BY <1>3, <1>4, BombAssumption DEF AtSettle, MasterType
<1>7. InPlace(1)'
    BY <1>2, <1>3 DEF InPlace, OneAddress, AtSettle
<1>8. nacks' = 0 /\ answers' = <<>> /\ errcount' <= BOMBCOUNT + 2
    BY <1>4 DEF AtSettle, Single
<1>9. errcount' <= THISBOMBCOUNT' + BOMBCOUNT + 2
    BY <1>2, <1>4, <1>8, BombAssumption DEF THISBOMBCOUNT, MasterType
<1>10. nacks' <= call'.len /\ Len(answers') <= call'.len /\ Len(pending') <= call'.len
    BY <1>2, <1>3, <1>8
<1> QED
    BY <1>2, <1>4, <1>5, <1>6, <1>7, <1>8, <1>9, <1>10 DEF AtRelease, Released

LEMMA ReleaseStep ==
    ASSUME MasterType, AtRelease, NEW o, Clocked(o), Release(o)
    PROVE  MasterType' /\ ~OnBus' /\ OffBus'
<1>0. Facts(o)
    BY ClockFacts
<1>1. /\ pc' \in {"ready", "abort"} /\ UNCHANGED <<i_wb, errcount, cnt, nacks, answers>>
      /\ UNCHANGED <<failed, m_bomb>>
    BY DEF Release, Returning, NoBomb
<1>2. ~OnBus' /\ pending' = <<>> /\ ~i_wb'.cyc
    BY <1>0, <1>1 DEF OnBus, Facts, Edge, AtRelease
<1>3. failed' => Late(BOMBCOUNT - 2)'
    BY <1>0, <1>1 DEF AtRelease, Facts, Late, LateNext
<1>4. OwnType'
    BY <1>1 DEF MasterType, OwnType, Pcs
<1> QED
    BY <1>2, <1>3, <1>4, TypesKept DEF OffBus

(* A vector read may take BOMBCOUNT clocks for each of its words.          *)
LEMMA ClocksPerWord ==
    ASSUME NEW l \in Nat, l >= 1
    PROVE  BOMBCOUNT * l \in Nat /\ BOMBCOUNT * l >= BOMBCOUNT + l - 1
<1>1. (BOMBCOUNT - 1) * (l - 1) \in Nat
    BY BombAssumption
<1> QED
    BY <1>1, BombAssumption

LEMMA StrobeTypes ==
    ASSUME MasterType, NEW pins, \A b \in BOOLEAN : [pins EXCEPT !.stb = b] \in MasterPins,
           pins.cyc, pins \in MasterPins, Strobe(pins)
    PROVE  /\ i_wb' \in MasterPins /\ i_wb'.cyc
           /\ i_wb'.we = pins.we /\ i_wb'.addr = pins.addr /\ i_wb'.data = pins.data
BY DEF Strobe, MasterPins

LEMMA AwaitBusStep ==
    ASSUME MasterType, pc = "v_idle", AtIdle, NEW o, Clocked(o), AwaitBus(o)
    PROVE  MasterType' /\ \/ pc' = "v_idle" /\ AtIdle'
                          \/ pc' = "v_issue" /\ AtIssue'
                          \/ ~OnBus' /\ OffBus' /\ failed' /\ pc' = "ready"
<1>0. Facts(o)
    BY ClockFacts
<1>1. /\ OnBus /\ call' = call /\ UNCHANGED <<cnt, nacks, answers>> /\ call.words = <<>>
      /\ call.len \in Nat /\ call.len >= 1
    BY <1>0, CallOnBus DEF AwaitBus, OnBus, Facts, AtIdle
<1>2. ~taken(o_wb.stall) /\ h_log' = <<>> /\ pending' = <<>>
    BY <1>0 DEF AtIdle, MasterType, taken, Facts, Edge
<1>3. LateNext(errcount)
    BY <1>0, OneLater DEF AtIdle, Waiting
<1>4. CASE errcount < BOMBCOUNT /\ o.stall
    <2>1. errcount' = errcount + 1 /\ UNCHANGED <<pc, i_wb>> /\ NoBomb
        BY <1>4 DEF AwaitBus
    <2>2. OwnType'
        BY <1>1, <2>1 DEF MasterType, OwnType, NoBomb
    <2>3. MasterType'
        BY <1>1, <2>2, TypesKept
    <2>4. AtIdle'
        BY <1>0, <1>1, <1>2, <1>3, <1>4, <2>1, BombAssumption
        DEF AtIdle, Facts, NoBomb, Late, LateNext
    <2> QED
        BY <2>1, <2>3, <2>4
<1>5. CASE ~(errcount < BOMBCOUNT /\ o.stall) /\ errcount + 1 >= BOMBCOUNT
    <2>1. errcount' = errcount + 1 /\ pc' = "ready" /\ UNCHANGED i_wb /\ Bomb(TRUE)
        BY <1>5 DEF AwaitBus
    <2>2. failed' = TRUE /\ m_bomb' = TRUE
        BY <2>1 DEF Bomb
    <2>3. OwnType'
        BY <1>1, <2>1, <2>2 DEF MasterType, OwnType, Pcs
    <2>4. MasterType'
        BY <1>1, <2>3, TypesKept
    <2>5. LateNext(BOMBCOUNT - 2)
        BY <1>0, <1>3, <1>5, BombAssumption DEF LateNext, AtIdle, Facts, Edge, MasterType
    <2> QED
        BY <1>2, <2>1, <2>2, <2>4, <2>5 DEF OffBus, OnBus, AtIdle, Late, LateNext
<1>6. CASE ~(errcount < BOMBCOUNT /\ o.stall) /\ ~(errcount + 1 >= BOMBCOUNT)
    <2>1. errcount' = 0 /\ pc' = "v_issue" /\ Strobe(Addressed(call)) /\ NoBomb
        BY <1>6 DEF AwaitBus
    <2>2. Addressed(call).cyc /\ Addressed(call).addr = call.a \div 4 /\ Addressed(call).we = FALSE
        BY <1>1 DEF Addressed
    <2>3. i_wb' \in MasterPins /\ i_wb'.cyc /\ i_wb'.addr = call.a \div 4 /\ i_wb'.we = FALSE
        BY <1>1, <2>1, <2>2, AddressedTypes, StrobeTypes DEF MasterType
    <2>4. OwnType'
        BY <1>1, <2>1, <2>3 DEF MasterType, OwnType, NoBomb, Pcs
    <2>5. MasterType'
        BY <1>1, <2>4, TypesKept
    <2>6. Placed(<<>>, call, 0)
        BY PlacedNone
    <2>7. Requesting'
        BY <1>1, <1>2, <2>1, <2>3, <2>6
        DEF AtIdle, Requesting, Driving, OneAddress, InPlace, NoBomb
    <2>8. THISBOMBCOUNT' >= 0
        BY <1>1, ClocksPerWord DEF THISBOMBCOUNT
    <2>9. Reading'
        BY <1>0, <1>1, <1>2, <2>1, <2>8
        DEF AtIdle, Reading, InTurn, Late, Facts, Edge
    <2> QED
        BY <2>1, <2>5, <2>7, <2>9 DEF AtIssue
<1> QED
    BY <1>4, <1>5, <1>6

(* A clock of a vector read: an answer is taken, or the call is kept        *)
(* waiting, by the device or by a strobe withheld.                         *)
LEMMA ReadClock ==
    ASSUME MasterType, NEW o, Clocked(o), Got(o),
           (pc = "v_issue" /\ AtIssue) \/ (pc = "v_collect" /\ AtCollect)
    PROVE  /\ answers' \in Seq(Words) /\ InTurn(answers', pending', h_log')
           /\ LateNext(errcount + 1 - Len(answers'))
           /\ Len(answers) < call.len
           /\ Len(answers') = IF o.ack THEN Len(answers) + 1 ELSE Len(answers)
           /\ Len(h_log') = cnt + (IF taken(o_wb.stall) THEN 1 ELSE 0)
           /\ Len(h_log') <= call.len
           /\ OneAddress => Placed(h_log', call, Len(h_log'))
<1>0. Facts(o)
    BY ClockFacts
<1>1. /\ OnBus /\ Reading /\ Driving /\ call.words = <<>> /\ ~i_wb.we
      /\ call.len \in Nat /\ call.len >= 1 /\ errcount \in Nat
    BY CallOnBus DEF AtIssue, AtCollect, Requesting, Requested, OnBus, Driving, Reading, MasterType
<1>2. answers' \in Seq(Words) /\ InTurn(answers', pending', h_log')
    BY <1>0, <1>1, AnswersInTurn DEF Reading, Driving, Facts, Clocked
<1>3. Len(answers') = IF o.ack THEN Len(answers) + 1 ELSE Len(answers)
    BY <1>0 DEF Got, Facts, MasterType
<1>4. Len(answers) + Len(pending) = Len(h_log) /\ Len(h_log) = cnt
    BY <1>1 DEF Reading, InTurn
<1>5. ASSUME o.ack \/ Waiting(o)
      PROVE  LateNext(errcount + 1 - Len(answers'))
    <2> DEFINE a == Len(answers)
    <2>1. a \in Nat /\ Late(errcount - a)
        BY <1>0, <1>1 DEF Facts, Reading
    <2>2. CASE o.ack
        <3>1. LateNext(errcount - a)
            BY <1>0, <1>1, <2>1 DEF Facts, Lateness
        <3>2. errcount + 1 - Len(answers') = errcount - a
            BY <1>1, <1>3, <2>1, <2>2
        <3> QED
            BY <3>1, <3>2
    <2>3. CASE ~o.ack
        <3>1. Waiting(o) /\ Len(answers') = a
            BY <1>3, <1>5, <2>3
        <3>2. Late((errcount + 1 - a) - 1) /\ errcount + 1 - a \in Int
            <4>1. (errcount + 1 - a) - 1 = errcount - a /\ errcount + 1 - a \in Int
                BY <1>1, <2>1
            <4> QED
                BY <2>1, <4>1
        <3> QED
            BY <1>0, <3>1, <3>2, OneLater
    <2> QED
        BY <2>2, <2>3
<1>6. CASE pc = "v_issue" /\ AtIssue
    <2>1. Requesting /\ cnt \in 0 .. call.len - 1
        BY <1>6 DEF AtIssue, Requesting
    <2>2. Len(answers) < call.len
        BY <1>0, <1>1, <1>4, <2>1 DEF Facts
    <2>3. Len(h_log') = cnt + (IF taken(o_wb.stall) THEN 1 ELSE 0)
        BY <1>0, <1>4, <2>1 DEF Facts, Edge
    <2>4. o.ack \/ Waiting(o)
        BY <1>0, <1>6 DEF Waiting, taken, Facts
    <2>5. OneAddress => Placed(h_log', call, Len(h_log'))
        <3>1. CASE taken(o_wb.stall)
            BY <1>1, <2>1, <2>3, <3>1, RequestTaken
        <3>2. CASE ~taken(o_wb.stall)
            BY <1>1, <2>1, <2>3, <3>2, RequestTaken
        <3> QED
            BY <3>1, <3>2
    <2>6. Len(h_log') <= call.len
        BY <1>1, <2>1, <2>3
    <2> QED
        BY <1>2, <1>3, <1>5, <2>2, <2>3, <2>4, <2>5, <2>6
<1>7. CASE pc = "v_collect" /\ AtCollect
    <2>1. Requested /\ Len(answers) < call.len /\ cnt = call.len /\ ~taken(o_wb.stall)
        BY <1>7 DEF AtCollect, Requested, taken
    <2>2. h_log' = h_log /\ Len(h_log') = cnt
        BY <1>0, <1>4, <2>1 DEF Facts, Edge
    <2>3. pending # <<>>
        BY <1>0, <1>1, <1>4, <2>1 DEF Facts
    <2>4. o.ack \/ Waiting(o)
        BY <1>0, <2>3 DEF Waiting, Facts
    <2>5. OneAddress => Placed(h_log', call, Len(h_log'))
        BY <2>1, <2>2 DEF Requested, InPlace
    <2>6. /\ Len(h_log') = cnt + (IF taken(o_wb.stall) THEN 1 ELSE 0)
          /\ Len(h_log') <= call.len
        BY <1>1, <2>1, <2>2
    <2> QED
        BY <1>2, <1>3, <1>5, <2>1, <2>4, <2>5, <2>6
<1> QED
    BY <1>6, <1>7

(* The loop that collects the answers, come to with counted clocks.        *)
LEMMA CollectReadvStep ==
    ASSUME MasterType, NEW o, Clocked(o), Got(o),
           (pc = "v_issue" /\ AtIssue) \/ (pc = "v_collect" /\ AtCollect),
           cnt' = Len(h_log'), UNCHANGED nacks, NEW counted, CollectReadv(counted, o),
           counted = IF cnt' < call.len THEN errcount + 1 ELSE errcount,
           cnt' < call.len => errcount >= THISBOMBCOUNT
    PROVE  MasterType' /\ \/ pc' = "v_collect" /\ AtCollect'
                          \/ pc' = "release" /\ AtRelease'
<1>0. Facts(o)
    BY ClockFacts
<1> DEFINE a1 == Len(answers')
           p1 == Len(pending')
           l1 == Len(h_log')
<1>1. /\ OnBus /\ Reading /\ Driving /\ call.words = <<>> /\ ~i_wb.we /\ call' = call
      /\ call.len \in Nat /\ call.len >= 1 /\ errcount \in Nat /\ counted \in Nat
    BY <1>0, CallOnBus
    DEF AtIssue, AtCollect, Requesting, Requested, OnBus, Driving, Reading, MasterType, Facts
<1>2. /\ THISBOMBCOUNT \in Nat /\ THISBOMBCOUNT >= BOMBCOUNT + call.len - 1
      /\ THISBOMBCOUNT' = THISBOMBCOUNT
    BY <1>1, ClocksPerWord DEF THISBOMBCOUNT
<1>3. errcount <= THISBOMBCOUNT /\ counted <= errcount + 1
    BY <1>1 DEF Reading
<1>4. /\ a1 \in Nat /\ p1 \in Nat /\ l1 \in Nat /\ a1 + p1 = l1 /\ l1 <= call.len
      /\ Len(answers) \in Nat /\ Len(answers) < call.len
      /\ a1 = IF o.ack THEN Len(answers) + 1 ELSE Len(answers)
      /\ InTurn(answers', pending', h_log')
      /\ LateNext(errcount + 1 - a1)
      /\ answers' \in Seq(Words) /\ cnt' \in Nat /\ nacks' \in Nat
    <2>1. a1 \in Nat
        BY ReadClock, LenOf
    <2> QED
        BY <1>0, <2>1, ReadClock DEF Facts, InTurn, MasterType
<1>5. (OneAddress => Placed(h_log', call, l1)) /\ (OneAddress => Placed(h_log', call, call.len))
    BY <1>1, <1>4, ReadClock, PlacedWider
<1>6. CASE a1 < call.len /\ counted < THISBOMBCOUNT
    <2>1. /\ errcount' = counted + 1 /\ pc' = "v_collect"
          /\ i_wb' = [i_wb EXCEPT !.stb = FALSE] /\ NoBomb
        BY <1>6 DEF CollectReadv
    <2>2. cnt' = call.len /\ counted = errcount
        BY <1>1, <1>2, <1>4, <1>6
    <2>3. OwnType'
        <3>1. i_wb' \in MasterPins /\ ~i_wb'.stb
            BY <2>1, PinsTypes DEF MasterType, MasterPins
        <3>2. errcount' \in Nat
            BY <1>1, <2>1
        <3> QED
            BY <1>4, <2>1, <3>1, <3>2 DEF MasterType, OwnType, NoBomb, Pcs
    <2>4. MasterType'
        BY <1>1, <2>3, TypesKept
    <2>5. Reading'
        <3>1. errcount' = errcount + 1 /\ errcount' <= THISBOMBCOUNT'
            BY <1>1, <1>2, <1>6, <2>1, <2>2
        <3>2. Late(errcount - Len(answers))'
            <4>1. errcount' - a1 = errcount + 1 - a1
                BY <1>1, <1>4, <3>1
            <4>2. LateNext(errcount' - a1)
                BY <1>4, <4>1
            <4> QED
                BY <4>2 DEF Late, LateNext
        <3> QED
            BY <1>1, <1>4, <3>1, <3>2 DEF Reading
    <2>6. Requested'
        BY <1>1, <1>5, <2>1, <2>2
        DEF Requested, Driving, InPlace, OneAddress, NoBomb, MasterType, MasterPins
    <2> QED
        BY <1>1, <1>6, <2>1, <2>4, <2>5, <2>6 DEF AtCollect
<1>7. CASE ~(a1 < call.len /\ counted < THISBOMBCOUNT)
    <2>1. /\ FinishReadv(o)
          /\ errcount' = IF a1 < call.len THEN counted + 1 ELSE counted
        BY <1>7 DEF CollectReadv
    <2>2. /\ pc' = "release" /\ i_wb' = Released
          /\ failed' <=> (errcount' >= THISBOMBCOUNT \/ ~o.ack)
        BY <1>1, <2>1 DEF FinishReadv, Bomb, Driving
    <2>3. errcount' \in Nat /\ errcount' <= THISBOMBCOUNT + 2
        BY <1>1, <1>2, <1>3, <2>1
    <2>4. OwnType'
        <3>1. failed' \in BOOLEAN /\ m_bomb' \in BOOLEAN /\ (failed' => m_bomb')
            BY <2>1, BombTypes DEF FinishReadv
        <3> QED
            BY <1>4, <2>2, <2>3, <3>1, PinsTypes DEF OwnType, Pcs, Released
    <2>5. MasterType'
        BY <1>1, <2>4, TypesKept
    <2>6. ASSUME failed'
          PROVE  Late(BOMBCOUNT - 2)'
        <3>1. errcount >= THISBOMBCOUNT
            <4>1. CASE a1 < call.len
                BY <1>1, <1>2, <1>3, <1>7, <4>1
            <4>2. CASE ~(a1 < call.len)
                BY <1>0, <1>1, <1>2, <1>4, <2>1, <2>2, <2>6, <4>2 DEF Facts
            <4> QED
                BY <4>1, <4>2
        <3>2. errcount + 1 - a1 >= BOMBCOUNT - 2
            BY <1>1, <1>2, <1>4, <3>1, BombAssumption
        <3> QED
            <4> DEFINE m == errcount + 1 - a1
            <4>1. m \in Int /\ m >= BOMBCOUNT - 2
                <5>1. errcount \in Nat /\ a1 \in Nat
                    BY <1>1, <1>4
                <5> HIDE DEF a1
                <5> QED
                    BY <3>2, <5>1
            <4>2. LateNext(m)
                BY <1>4
            <4>3. h_late' \in Nat
                BY <1>0 DEF Facts, Edge
            <4> HIDE DEF m
            <4> QED
                BY <4>1, <4>2, <4>3, BombAssumption DEF Late, LateNext
    <2>7. ASSUME ~failed'
          PROVE  l1 = call.len /\ InTurn(answers', <<>>, h_log')
        <3>1. a1 = call.len /\ l1 = call.len /\ p1 = 0
            BY <1>1, <1>2, <1>4, <1>7, <2>1, <2>2, <2>7
        <3> QED
            BY <1>4, <3>1 DEF InTurn
    <2>8. InPlace(call.len)'
        BY <1>1, <1>5 DEF InPlace, OneAddress
    <2>9. nacks' <= call'.len /\ a1 <= call'.len /\ p1 <= call'.len
        BY <1>1, <1>4 DEF Reading
    <2>10. errcount' <= THISBOMBCOUNT' + BOMBCOUNT + 2
        BY <1>2, <2>3, BombAssumption
    <2> QED
        BY <1>1, <2>2, <2>5, <2>6, <2>7, <2>8, <2>9, <2>10 DEF AtRelease, Released
<1> QED
    BY <1>6, <1>7

LEMMA IssueReadvStep ==
    ASSUME MasterType, pc = "v_issue", AtIssue, NEW o, Clocked(o), IssueReadv(o_wb.stall, o)
    PROVE  MasterType' /\ \/ pc' = "v_issue" /\ AtIssue'
                          \/ pc' = "v_collect" /\ AtCollect'
                          \/ pc' = "release" /\ AtRelease'
<1>0. Facts(o)
    BY ClockFacts
<1> DEFINE s == taken(o_wb.stall)
           addr == i_wb.addr + (IF call.inc /\ s THEN 4 ELSE 0)
<1>1. /\ OnBus /\ Reading /\ Requesting /\ Driving /\ call.words = <<>> /\ call' = call
      /\ call.len \in Nat /\ call.len >= 1 /\ errcount \in Nat /\ cnt \in 0 .. call.len - 1
    BY <1>0, CallOnBus DEF AtIssue, Requesting, OnBus, Reading, MasterType, Facts
<1>2. /\ cnt' = cnt + (IF s THEN 1 ELSE 0) /\ Got(o) /\ UNCHANGED nacks
      /\ IF cnt' < call.len /\ errcount < THISBOMBCOUNT
         THEN /\ pc' = "v_issue" /\ errcount' = errcount + 1
              /\ Strobe([i_wb EXCEPT !.addr = addr]) /\ NoBomb
         ELSE CollectReadv(IF cnt' < call.len THEN errcount + 1 ELSE errcount, o)
    BY DEF IssueReadv
<1> DEFINE a1 == Len(answers')
           l1 == Len(h_log')
<1>R. /\ answers' \in Seq(Words) /\ InTurn(answers', pending', h_log')
      /\ LateNext(errcount + 1 - a1)
      /\ l1 = cnt + (IF s THEN 1 ELSE 0) /\ l1 <= call.len
      /\ OneAddress => Placed(h_log', call, l1)
      /\ a1 \in Nat
    <2>1. Got(o)
        BY <1>2
    <2>3. (pc = "v_issue" /\ AtIssue) \/ (pc = "v_collect" /\ AtCollect)
        OBVIOUS
    <2> HIDE DEF addr
    <2>2. /\ answers' \in Seq(Words) /\ InTurn(answers', pending', h_log')
          /\ LateNext(errcount + 1 - Len(answers'))
          /\ Len(h_log') = cnt + (IF taken(o_wb.stall) THEN 1 ELSE 0) /\ Len(h_log') <= call.len
          /\ OneAddress => Placed(h_log', call, Len(h_log'))
        BY <2>1, <2>3, ReadClock
    <2> QED
        BY <2>2, LenOf
<1>3. cnt' = l1 /\ cnt' \in Nat /\ cnt' <= call.len
    BY <1>1, <1>2, <1>R
<1>4. CASE cnt' < call.len /\ errcount < THISBOMBCOUNT
    <2> DEFINE pins == [i_wb EXCEPT !.addr = addr]
    <2>1. pc' = "v_issue" /\ errcount' = errcount + 1 /\ Strobe(pins) /\ NoBomb
        BY <1>2, <1>4
    <2>2. addr \in Nat
        BY DEF MasterType, MasterPins
    <2>3. OneAddress => addr = i_wb.addr
        BY <1>1, <1>2, <1>4 DEF OneAddress, MasterType, MasterPins
    <2> HIDE DEF addr
    <2>4. /\ pins \in MasterPins /\ (\A b \in BOOLEAN : [pins EXCEPT !.stb = b] \in MasterPins)
          /\ pins.cyc /\ pins.we = i_wb.we /\ pins.addr = addr
        BY <1>1, <2>2 DEF MasterType, MasterPins, Driving
    <2>5. i_wb' \in MasterPins /\ i_wb'.cyc /\ i_wb'.we = i_wb.we /\ i_wb'.addr = addr
        BY <2>1, <2>4, StrobeTypes
    <2>6. OwnType'
        BY <1>1, <1>2, <1>3, <1>R, <2>1, <2>5 DEF MasterType, OwnType, NoBomb, Pcs
    <2>7. MasterType'
        BY <1>1, <2>6, TypesKept
    <2>8. Requesting'
        BY <1>1, <1>2, <1>3, <1>4, <1>R, <2>1, <2>3, <2>5
        DEF Requesting, Driving, OneAddress, InPlace, NoBomb
    <2>9. Late(errcount - Len(answers))'
        <3>1. LateNext(errcount' - Len(answers'))
            <4>1. errcount' - a1 = errcount + 1 - a1
                BY <1>1, <1>R, <2>1
            <4> QED
                BY <1>R, <4>1
        <3> QED
            BY <3>1 DEF Late, LateNext
    <2>10. errcount' <= THISBOMBCOUNT'
        BY <1>1, <1>4, <2>1, ClocksPerWord DEF THISBOMBCOUNT
    <2>11. Reading'
        BY <1>1, <1>2, <1>3, <1>R, <2>9, <2>10 DEF Reading
    <2> QED
        BY <2>1, <2>7, <2>8, <2>11 DEF AtIssue
<1>5. CASE ~(cnt' < call.len /\ errcount < THISBOMBCOUNT)
    <2> DEFINE counted == IF cnt' < call.len THEN errcount + 1 ELSE errcount
    <2>1. CollectReadv(counted, o)
        BY <1>2, <1>5
    <2>2. cnt' < call.len => errcount >= THISBOMBCOUNT
        BY <1>1, <1>5, ClocksPerWord DEF THISBOMBCOUNT
    <2> HIDE DEF addr
    <2>3. counted = IF cnt' < call.len THEN errcount + 1 ELSE errcount
        OBVIOUS
    <2> HIDE DEF counted
    <2>4. Got(o) /\ UNCHANGED nacks /\ cnt' = Len(h_log')
        BY <1>2, <1>3
    <2>5. MasterType' /\ \/ pc' = "v_collect" /\ AtCollect'
                         \/ pc' = "release" /\ AtRelease'
        <3>1. (pc = "v_issue" /\ AtIssue) \/ (pc = "v_collect" /\ AtCollect)
            OBVIOUS
        <3> HIDE DEF s, a1, l1
        <3> QED
            BY <2>1, <2>2, <2>3, <2>4, <3>1, CollectReadvStep
    <2> QED
        BY <2>5
<1> QED
    BY <1>4, <1>5

LEMMA AwaitReadvStep ==
    ASSUME MasterType, pc = "v_collect", AtCollect, NEW o, Clocked(o), AwaitReadv(o)
    PROVE  MasterType' /\ \/ pc' = "v_collect" /\ AtCollect'
                          \/ pc' = "release" /\ AtRelease'
<1>1. Got(o) /\ CollectReadv(errcount, o) /\ UNCHANGED <<cnt, nacks>>
    BY DEF AwaitReadv
<1>2. cnt' = call.len /\ ~taken(o_wb.stall) /\ call.len \in Nat
    BY <1>1, CallOnBus DEF AtCollect, Requested, taken, OnBus
<1>3. cnt' = Len(h_log')
    BY <1>1, <1>2, ReadClock
<1>4. errcount = IF cnt' < call.len THEN errcount + 1 ELSE errcount
    BY <1>2
<1> QED
    BY <1>1, <1>2, <1>3, <1>4, CollectReadvStep

(* A clock of a vector write: acknowledgements are counted.                *)
LEMMA WriteClock ==
    ASSUME MasterType, NEW o, Clocked(o), Acked(o), Writing, Driving, OnBus
    PROVE  /\ nacks' \in Nat /\ nacks' + Len(pending') = Len(h_log')
           /\ Len(h_log') = Len(h_log) + (IF taken(o_wb.stall) THEN 1 ELSE 0)
           /\ nacks' = IF o.ack THEN nacks + 1 ELSE nacks
           /\ call.words # <<>> /\ call.words \in Seq(Words) /\ Len(call.words) = call.len
           /\ call' = call /\ call.len \in Nat /\ call.len >= 1
           /\ Len(h_log) \in Nat /\ Len(pending) \in Nat /\ Len(pending') \in Nat
<1>0. Facts(o)
    BY ClockFacts
<1>1. nacks \in Nat /\ nacks' = IF o.ack THEN nacks + 1 ELSE nacks
    BY DEF Acked, MasterType
<1>2. Len(h_log') = Len(h_log) + (IF taken(o_wb.stall) THEN 1 ELSE 0)
    BY <1>0 DEF Facts, Edge
<1>3. nacks' + Len(pending') = Len(h_log')
    <2>1. nacks + Len(pending) = Len(h_log) /\ i_wb.cyc
        BY DEF Writing, Driving
    <2>2. CASE taken(o_wb.stall)
        BY <1>0, <1>1, <2>1, <2>2 DEF Facts, Edge
    <2>3. CASE ~taken(o_wb.stall)
        BY <1>0, <1>1, <2>1, <2>3 DEF Facts, Edge
    <2> QED
        BY <2>2, <2>3
<1>4. /\ call.words # <<>> /\ call.words \in Seq(Words) /\ Len(call.words) = call.len
      /\ call' = call /\ call.len \in Nat /\ call.len >= 1
    BY <1>0, CallOnBus DEF Writing, Facts
<1> QED
    BY <1>0, <1>1, <1>2, <1>3, <1>4 DEF Facts

LEMMA StallVStep ==
    ASSUME MasterType, pc = "x_stall", AtStallV, NEW o, Clocked(o), Stall(o)
    PROVE  \/ pc' = "x_stall" /\ AtStallV'
           \/ pc' = "x_accept" /\ AtAcceptV'
<1>0. Facts(o)
    BY ClockFacts
<1>1. OnBus /\ Acked(o) /\ UNCHANGED <<i_wb, cnt, answers>> /\ NoBomb
    BY DEF Stall, OnBus
<1>2. ~taken(o_wb.stall) /\ h_log' = h_log
    BY <1>0 DEF AtStallV, taken, Facts, Edge
<1>3. Requesting' /\ i_wb'.stb
    BY <1>0, <1>1, <1>2
    DEF AtStallV, Requesting, Driving, OneAddress, InPlace, NoBomb, Facts
<1>4. Late(BOMBCOUNT - 1) => Late(BOMBCOUNT - 1)'
    BY <1>0 DEF Facts, Late, LateNext
<1>5. Writing'
    BY <1>1, <1>2, <1>4, WriteClock DEF AtStallV, Writing, Requesting
<1>6. errcount' = errcount + 1 /\ LateNext(errcount)
    BY <1>0, OneLater DEF AtStallV, Waiting, Stall, Spin
<1>7. CASE errcount < BOMBCOUNT /\ o_wb'.stall
    <2>1. Late(errcount - 1)'
        BY <1>6 DEF Late, LateNext, AtStallV
    <2> QED
        BY <1>0, <1>3, <1>5, <1>6, <1>7, <2>1, BombAssumption DEF AtStallV, Stall, Spin, Facts
<1>8. CASE ~(errcount < BOMBCOUNT /\ o_wb'.stall)
    <2>1. o_wb'.stall => Late(BOMBCOUNT - 1)'
        <3>1. o_wb'.stall => errcount = BOMBCOUNT
            BY <1>8, BombAssumption DEF AtStallV
        <3> QED
            BY <1>0, <1>6, <3>1, BombAssumption DEF Late, LateNext, Facts, Edge
    <2> QED
        BY <1>0, <1>3, <1>5, <1>6, <1>8, <2>1, BombAssumption
        DEF AtStallV, AtAcceptV, Stall, Spin, Facts
<1> QED
    BY <1>7, <1>8

(* The loop that collects the acknowledgements.                            *)
LEMMA CollectWritevStep ==
    ASSUME MasterType, NEW o, Clocked(o), Acked(o), Writing, Driving, OnBus, UNCHANGED answers,
           cnt' = call.len, Len(h_log') <= call.len,
           Len(h_log') < call.len => LateNext(BOMBCOUNT - 1),
           OneAddress => Placed(h_log', call, call.len),
           NEW counted \in 0 .. BOMBCOUNT, CollectWritev(counted),
           counted = 0 \/ LateNext(counted) \/ LateNext(BOMBCOUNT - 1),
           nacks' >= call.len => counted = 0
    PROVE  MasterType' /\ \/ pc' = "x_collect" /\ AtCollectV'
                          \/ pc' = "release" /\ AtRelease'
<1>0. Facts(o)
    BY ClockFacts
<1> DEFINE p1 == Len(pending')
           l1 == Len(h_log')
<1>1. /\ nacks' \in Nat /\ nacks' + p1 = l1 /\ p1 \in Nat /\ l1 \in Nat
      /\ call.words # <<>> /\ call' = call /\ call.len \in Nat /\ call.len >= 1
      /\ l1 <= call.len
    BY <1>0, WriteClock DEF Facts
<1>2. THISBOMBCOUNT' \in Nat
    BY <1>1, ClocksPerWord DEF THISBOMBCOUNT
<1>3. answers' = <<>> /\ Len(answers') = 0 /\ answers' \in Seq(Words)
    BY DEF Writing, MasterType
<1>4. InPlace(call.len)'
    BY <1>1 DEF InPlace, OneAddress
<1>5. CASE nacks' < call.len /\ counted < BOMBCOUNT
    <2>1. /\ errcount' = counted + 1 /\ pc' = "x_collect"
          /\ i_wb' = [i_wb EXCEPT !.stb = FALSE] /\ NoBomb
        BY <1>5 DEF CollectWritev
    <2>2. i_wb' \in MasterPins /\ ~i_wb'.stb /\ i_wb'.cyc = i_wb.cyc /\ i_wb'.we = i_wb.we
        BY <2>1, PinsTypes DEF MasterType, MasterPins
    <2>3. OwnType'
        BY <1>1, <1>3, <2>1, <2>2 DEF MasterType, OwnType, NoBomb, Pcs
    <2>4. MasterType'
        BY <1>1, <2>3, TypesKept
    <2>5. Requested'
        BY <1>1, <1>4, <2>1, <2>2 DEF Requested, Driving, NoBomb
    <2>6. Late(errcount - 1)'
        <3>1. LateNext(counted)
            BY <1>0, <1>5, BombAssumption DEF LateNext, Facts, Edge
        <3>2. errcount' - 1 = counted
            BY <2>1
        <3> QED
            BY <3>1, <3>2 DEF Late, LateNext
    <2>7. Writing'
        BY <1>1, <1>3 DEF Writing, Late, LateNext
    <2> QED
        BY <1>1, <1>5, <2>1, <2>4, <2>5, <2>6, <2>7, BombAssumption DEF AtCollectV
<1>6. CASE ~(nacks' < call.len /\ counted < BOMBCOUNT)
    <2>1. /\ errcount' = IF nacks' < call.len THEN counted + 1 ELSE counted
          /\ pc' = "release" /\ i_wb' = Released /\ Bomb(errcount' >= BOMBCOUNT)
        BY <1>6 DEF CollectWritev
    <2>2. failed' <=> errcount' >= BOMBCOUNT
        BY <2>1 DEF Bomb, Driving
    <2>3. errcount' \in Nat /\ errcount' <= BOMBCOUNT + 1
        BY <2>1, BombAssumption
    <2>4. OwnType'
        BY <1>1, <1>3, <2>1, <2>3, BombTypes, PinsTypes DEF OwnType, Pcs, MasterType
    <2>5. MasterType'
        BY <1>1, <2>4, TypesKept
    <2>6. ASSUME failed'
          PROVE  Late(BOMBCOUNT - 2)'
        <3>1. counted = BOMBCOUNT
            BY <1>1, <1>6, <2>1, <2>2, <2>6, BombAssumption
        <3> QED
            BY <1>0, <3>1, BombAssumption DEF Late, LateNext, Facts, Edge
    <2>7. ~failed' => l1 = call.len
        BY <1>1, <1>6, <2>1, <2>2, BombAssumption
    <2>8. nacks' <= call.len /\ p1 <= call.len
        BY <1>1
    <2>9. errcount' <= THISBOMBCOUNT' + BOMBCOUNT + 2
        <3> DEFINE t == THISBOMBCOUNT'
        <3>1. t \in Nat
            BY <1>2
        <3> HIDE DEF t
        <3>2. errcount' <= t + BOMBCOUNT + 2
            BY <2>3, <3>1, BombAssumption
        <3> QED
            BY <3>2 DEF t
    <2> QED
        BY <1>1, <1>3, <1>4, <2>1, <2>5, <2>6, <2>7, <2>8, <2>9 DEF AtRelease, Released
<1> QED
    BY <1>5, <1>6

LEMMA IssueWritevStep ==
    ASSUME MasterType, pc = "x_accept", AtAcceptV, NEW o, Clocked(o), IssueWritev(o)
    PROVE  MasterType' /\ \/ pc' = "x_stall" /\ AtStallV'
                          \/ pc' = "x_accept" /\ AtAcceptV'
                          \/ pc' = "x_collect" /\ AtCollectV'
                          \/ pc' = "release" /\ AtRelease'
<1>0. Facts(o)
    BY ClockFacts
<1>1. /\ OnBus /\ Writing /\ Requesting /\ Driving /\ Acked(o) /\ answers' = answers
      /\ i_wb.stb /\ cnt' = cnt + 1 /\ cnt \in 0 .. call.len - 1
    BY DEF AtAcceptV, Requesting, IssueWritev, OnBus
<1>2. /\ nacks' \in Nat /\ nacks' + Len(pending') = Len(h_log')
      /\ Len(h_log') = Len(h_log) + (IF taken(o_wb.stall) THEN 1 ELSE 0)
      /\ call.words # <<>> /\ call.words \in Seq(Words) /\ Len(call.words) = call.len
      /\ call' = call /\ call.len \in Nat /\ call.len >= 1 /\ Len(h_log) \in Nat
      /\ Len(pending') \in Nat
    BY <1>1, WriteClock
<1>3. Len(h_log) <= cnt /\ (Len(h_log) < cnt => Late(BOMBCOUNT - 1))
    BY <1>1 DEF Writing
<1>4. Len(h_log') <= cnt' /\ (Len(h_log') < cnt' => LateNext(BOMBCOUNT - 1))
    <2>1. CASE o_wb.stall
        <3>1. LateNext(BOMBCOUNT - 1)
            BY <1>0, <2>1 DEF AtAcceptV, Facts
        <3>2. Len(h_log') = Len(h_log)
            BY <1>0, <2>1 DEF taken, Facts, Edge
        <3> QED
            BY <1>1, <1>2, <1>3, <3>1, <3>2
    <2>2. CASE ~o_wb.stall
        <3>1. Len(h_log') = Len(h_log) + 1
            BY <1>1, <1>2, <2>2 DEF taken
        <3>2. Len(h_log) < cnt => LateNext(BOMBCOUNT - 1)
            BY <1>0, <1>3 DEF Facts
        <3> QED
            BY <1>1, <1>2, <1>3, <3>1, <3>2
    <2> QED
        BY <2>1, <2>2
<1>5. OneAddress => Placed(h_log', call, cnt')
    <2>1. CASE taken(o_wb.stall)
        BY <1>1, <2>1, RequestTaken
    <2>2. CASE ~taken(o_wb.stall)
        <3>1. cnt \in Nat /\ cnt + 1 \in Nat /\ cnt <= cnt + 1
            BY <1>1, <1>2
        <3>2. OneAddress => Placed(h_log', call, cnt)
            BY <1>1, <2>2, RequestTaken
        <3> QED
            BY <1>1, <3>1, <3>2, PlacedWider
    <2> QED
        BY <2>1, <2>2
<1>6. CASE cnt' < call.len
    <2>1. /\ SpinAfresh(o.stall, "x_stall", "x_accept") /\ NoBomb
          /\ i_wb' = [i_wb EXCEPT !.addr = @ + (IF call.inc THEN 4 ELSE 0),
                                  !.data = call.words[cnt' + 1]]
        BY <1>6 DEF IssueWritev
    <2>2. cnt' + 1 \in 1 .. Len(call.words)
        BY <1>1, <1>2, <1>6
    <2>3. call.words[cnt' + 1] \in Words
        BY <1>2, <2>2
    <2>4. /\ i_wb' \in MasterPins /\ i_wb'.stb = i_wb.stb /\ i_wb'.cyc = i_wb.cyc
          /\ i_wb'.we = i_wb.we /\ i_wb'.data = call.words[cnt' + 1]
        <3>1. i_wb.addr + (IF call.inc THEN 4 ELSE 0) \in Nat /\ i_wb \in MasterPins
            BY DEF MasterType, MasterPins
        <3>2. call.words[cnt' + 1] \in Data
            BY <2>3 DEF Data
        <3> QED
            BY <2>1, <3>1, <3>2 DEF MasterPins
    <2>5. OneAddress => i_wb'.addr = i_wb.addr
        BY <1>1, <1>2, <1>6, <2>1 DEF OneAddress, MasterType, MasterPins
    <2>6. OwnType'
        BY <1>1, <1>2, <2>1, <2>4 DEF MasterType, OwnType, NoBomb, SpinAfresh, Pcs
    <2>7. MasterType'
        BY <1>1, <2>6, TypesKept
    <2>8. Requesting' /\ i_wb'.stb
        BY <1>1, <1>2, <1>5, <1>6, <2>1, <2>4, <2>5
        DEF Requesting, Driving, OneAddress, InPlace, NoBomb
    <2>9. Writing'
        BY <1>1, <1>2, <1>4 DEF Writing, Late, LateNext
    <2>10. errcount' = 1 /\ pc' = IF o_wb'.stall THEN "x_stall" ELSE "x_accept"
        BY <1>0, <2>1 DEF SpinAfresh, Facts
    <2>11. Late(errcount - 1)'
        BY <1>0, <2>10 DEF Late, Facts, Edge
    <2> QED
        BY <2>7, <2>8, <2>9, <2>10, <2>11, BombAssumption DEF AtStallV, AtAcceptV
<1>7. CASE ~(cnt' < call.len)
    <2>1. CollectWritev(0) /\ cnt' = call.len
        BY <1>1, <1>2, <1>7 DEF IssueWritev
    <2>2. 0 \in 0 .. BOMBCOUNT
        BY BombAssumption
    <2>3. Len(h_log') <= call.len /\ (Len(h_log') < call.len => LateNext(BOMBCOUNT - 1))
          /\ (OneAddress => Placed(h_log', call, call.len))
        BY <1>4, <1>5, <2>1
    <2> QED
        BY <1>1, <2>1, <2>2, <2>3, CollectWritevStep
<1> QED
    BY <1>6, <1>7

LEMMA AwaitWritevStep ==
    ASSUME MasterType, pc = "x_collect", AtCollectV, NEW o, Clocked(o), AwaitWritev(o)
    PROVE  MasterType' /\ \/ pc' = "x_collect" /\ AtCollectV'
                          \/ pc' = "release" /\ AtRelease'
<1>0. Facts(o)
    BY ClockFacts
<1> DEFINE counted == IF o.ack THEN 0 ELSE errcount
<1>1. /\ OnBus /\ Writing /\ Requested /\ Driving /\ Acked(o) /\ answers' = answers
      /\ cnt' = cnt /\ CollectWritev(counted) /\ ~taken(o_wb.stall)
    BY DEF AtCollectV, Requested, AwaitWritev, OnBus, taken
<1>2. /\ nacks' = IF o.ack THEN nacks + 1 ELSE nacks
      /\ nacks + Len(pending) = Len(h_log) /\ Len(h_log) <= cnt /\ cnt = call.len
      /\ nacks \in Nat /\ Len(pending) \in Nat /\ Len(h_log) \in Nat /\ call.len \in Nat
      /\ nacks < call.len /\ errcount \in 1 .. BOMBCOUNT
    BY <1>1, WriteClock DEF AtCollectV, Writing, Requested, MasterType
<1>3. h_log' = h_log
    BY <1>0, <1>1 DEF Facts, Edge
<1>4. Len(h_log') < call.len => LateNext(BOMBCOUNT - 1)
    BY <1>0, <1>1, <1>2, <1>3 DEF Writing, Facts
<1>5. counted = 0 \/ LateNext(counted) \/ LateNext(BOMBCOUNT - 1)
    <2>1. CASE o.ack
        BY <2>1
    <2>2. CASE ~o.ack /\ pending # <<>>
        <3>1. Waiting(o)
            BY <2>2 DEF Waiting
        <3>2. LateNext(errcount)
            BY <1>0, <1>2, <3>1, OneLater DEF AtCollectV
        <3> QED
            BY <2>2, <3>2
    <2>3. CASE ~o.ack /\ pending = <<>>
        <3>1. Len(h_log') < call.len
            BY <1>2, <1>3, <2>3
        <3> QED
            BY <1>4, <3>1
    <2> QED
        BY <2>1, <2>2, <2>3
<1>6. counted \in 0 .. BOMBCOUNT /\ (nacks' >= call.len => counted = 0)
    BY <1>0, <1>2, BombAssumption DEF Facts
<1>7. /\ cnt' = call.len /\ Len(h_log') <= call.len
      /\ OneAddress => Placed(h_log', call, call.len)
    BY <1>1, <1>2, <1>3 DEF Requested, InPlace
<1> HIDE DEF counted
<1> QED
    BY <1>1, <1>4, <1>5, <1>6, <1>7, CollectWritevStep

-----------------------------------------------------------------------------
(* A call begins off the bus, which the device leaves alone.               *)
LEMMA BeginTypes ==
    ASSUME MasterType, NEW c \in Calls, Start(c)
    PROVE  /\ pc = "ready" /\ call' = c /\ nacks' = 0 /\ answers' = <<>> /\ failed' = FALSE
           /\ UNCHANGED <<m_bomb, o_wb, pending>>
           /\ h_log' = (IF OnBus' THEN <<>> ELSE h_log) /\ h_log' \in Seq(Accesses)
           /\ h_late' = (IF OnBus' THEN 0 ELSE h_late) /\ h_late' \in 0 .. BOMBCOUNT
           /\ c.len \in Nat
<1>1. /\ pc = "ready" /\ call' = c /\ nacks' = 0 /\ answers' = <<>> /\ failed' = FALSE
      /\ UNCHANGED m_bomb
    BY DEF Start, Invoke, BeginSingle, BeginReadv, BeginWritev, BeginIdle, BeginSleep, Begin
<1>2. /\ UNCHANGED <<o_wb, pending>>
      /\ h_log' = (IF OnBus' THEN <<>> ELSE h_log) /\ h_late' = (IF OnBus' THEN 0 ELSE h_late)
    BY DEF Start
<1>3. h_log' \in Seq(Accesses) /\ h_late' \in 0 .. BOMBCOUNT
    BY <1>2, BombAssumption, EmptySeq DEF MasterType
<1> QED
    BY <1>1, <1>2, <1>3, CallsAssumption

LEMMA BegunTypes ==
    ASSUME MasterType, NEW c \in Calls, Start(c), pc' \in Pcs, cnt' \in Int,
           OnBus' => c \in BusCalls,
           errcount' \in Nat, i_wb' \in MasterPins, i_wb'.stb => i_wb'.cyc
    PROVE  MasterType'
<1>1. OwnType'
    <2>1. nacks' = 0 /\ answers' = <<>> /\ failed' = FALSE /\ m_bomb' = m_bomb
        BY BeginTypes
    <2>2. answers' \in Seq(Words)
        BY <2>1
    <2> QED
        BY <2>1, <2>2 DEF OwnType, MasterType
<1>2. /\ o_wb' = o_wb /\ pending' = pending /\ call' = c
      /\ h_log' \in Seq(Accesses) /\ h_late' \in 0 .. BOMBCOUNT
    BY BeginTypes
<1>3. o_wb' \in Pins /\ pending' \in Seq(Words) /\ (OnBus' => call' \in BusCalls)
    BY <1>2 DEF MasterType
<1> QED
    BY <1>1, <1>2, <1>3 DEF MasterType, OwnType

(* A call that puts its first request on the pins.                         *)
LEMMA Begins ==
    ASSUME MasterInv, NEW c \in BusCalls, Start(c), OnBus', pc' \in Pcs, cnt' = 0,
           errcount' \in Nat, i_wb' \in MasterPins, i_wb'.stb => i_wb'.cyc
    PROVE  /\ MasterType'
           /\ call' = c /\ h_log' = <<>> /\ pending' = <<>> /\ answers' = <<>> /\ nacks' = 0
           /\ ~failed' /\ o_wb' = o_wb /\ (\A n \in Int : n <= 0 => Late(n)')
           /\ /\ i_wb'.cyc /\ (i_wb'.we <=> c.words # <<>>) /\ i_wb'.addr = c.a \div 4
              /\ c.words # <<>> => i_wb'.data = c.words[1]
              => Requesting'
<1>0. c \in Calls
    BY DEF BusCalls
<1>1. pending = <<>>
    BY <1>0, BeginTypes DEF MasterInv, StageInv, OffBus, OnBus
<1>2. MasterType'
    BY <1>0, BegunTypes, BeginTypes DEF MasterInv
<1>3. \A n \in Int : n <= 0 => Late(n)'
    BY <1>0, BeginTypes, BombAssumption DEF Late, MasterInv
<1>4. /\ call' = c /\ h_log' = <<>> /\ pending' = <<>> /\ answers' = <<>> /\ nacks' = 0
      /\ ~failed' /\ o_wb' = o_wb
    BY <1>0, <1>1, BeginTypes DEF MasterInv
<1>5. ASSUME i_wb'.cyc, i_wb'.we <=> c.words # <<>>, i_wb'.addr = c.a \div 4,
             c.words # <<>> => i_wb'.data = c.words[1]
      PROVE  Requesting'
    <2>1. Placed(<<>>, c, 0)
        BY PlacedNone
    <2>2. c.len \in Nat /\ c.len >= 1
        BY CallShape
    <2> QED
        BY <1>4, <1>5, <2>1, <2>2 DEF Requesting, Driving, OneAddress, InPlace
<1> QED
    BY <1>2, <1>3, <1>4, <1>5

LEMMA BeginSingleStep ==
    ASSUME MasterInv, NEW c \in Calls, Start(c), BeginSingle(c, o_wb)
    PROVE  MasterType' /\ (\/ pc' = "stall" /\ AtStall'
                           \/ pc' = "accept" /\ AtAccept')
<1>1. /\ c.op \in {"readio", "writeio"} /\ cnt' = 0 /\ i_wb' = Addressed(c)
      /\ IF o_wb.stall THEN pc' = "stall" /\ errcount' = 1 ELSE pc' = "accept" /\ errcount' = 0
    BY DEF BeginSingle, Begin
<1>2. OnBus' /\ c \in BusCalls /\ pc' \in Pcs /\ errcount' \in {0, 1}
    BY <1>1 DEF OnBus, BusCalls, Pcs
<1>3. MasterType' /\ Requesting' /\ i_wb'.stb
    BY <1>1, <1>2, AddressedTypes, Begins
<1>4. /\ call' = c /\ h_log' = <<>> /\ pending' = <<>> /\ answers' = <<>> /\ nacks' = 0
      /\ ~failed' /\ o_wb' = o_wb /\ (\A n \in Int : n <= 0 => Late(n)')
    BY <1>1, <1>2, AddressedTypes, Begins
<1>5. Late(errcount - 1)'
    BY <1>2, <1>4 DEF Late
<1>6. Single'
    BY <1>1, <1>4 DEF Single
<1>7. CASE o_wb.stall
    BY <1>1, <1>3, <1>4, <1>5, <1>6, <1>7, BombAssumption DEF AtStall
<1>8. CASE ~o_wb.stall
    BY <1>1, <1>3, <1>4, <1>5, <1>6, <1>8, BombAssumption DEF AtAccept
<1> QED
    BY <1>7, <1>8

LEMMA BeginReadvStep ==
    ASSUME MasterInv, NEW c \in Calls, Start(c), BeginReadv(c, o_wb)
    PROVE  MasterType' /\ (\/ pc' = "v_idle" /\ AtIdle'
                           \/ pc' = "v_issue" /\ AtIssue')
<1>1. /\ c.op = "readv" /\ cnt' = 0
      /\ IF o_wb.stall
         THEN pc' = "v_idle" /\ errcount' = 1 /\ i_wb' = Released
         ELSE pc' = "v_issue" /\ errcount' = 0 /\ Strobe(Addressed(c))
    BY DEF BeginReadv, Begin
<1>2. OnBus' /\ c \in BusCalls /\ pc' \in Pcs /\ errcount' \in {0, 1} /\ c.words = <<>>
      /\ c.len \in Nat /\ c.len >= 1
    BY <1>1, CallShape DEF OnBus, BusCalls, Pcs
<1>3. CASE o_wb.stall
    <2>1. i_wb' = Released /\ i_wb' \in MasterPins /\ ~i_wb'.stb /\ ~i_wb'.cyc
        BY <1>1, <1>3, PinsTypes DEF MasterInv
    <2>2. /\ MasterType' /\ call' = c /\ h_log' = <<>> /\ pending' = <<>> /\ answers' = <<>>
          /\ nacks' = 0 /\ ~failed' /\ o_wb' = o_wb /\ (\A n \in Int : n <= 0 => Late(n)')
        BY <1>1, <1>2, <2>1, Begins
    <2>3. Late(errcount - 1)'
        BY <1>2, <2>2 DEF Late
    <2> QED
        BY <1>1, <1>3, <2>1, <2>2, <2>3, BombAssumption DEF AtIdle
<1>4. CASE ~o_wb.stall
    <2>1. /\ i_wb' \in MasterPins /\ i_wb'.cyc /\ i_wb'.we = FALSE /\ i_wb'.addr = c.a \div 4
        <3>1. Addressed(c).we = FALSE
            BY <1>2 DEF Addressed
        <3> QED
            BY <1>1, <1>2, <1>4, <3>1, AddressedTypes, StrobeTypes DEF MasterInv
    <2>2. /\ MasterType' /\ call' = c /\ h_log' = <<>> /\ pending' = <<>> /\ answers' = <<>>
          /\ nacks' = 0 /\ ~failed' /\ o_wb' = o_wb /\ (\A n \in Int : n <= 0 => Late(n)')
        BY <1>1, <1>2, <2>1, Begins
    <2>3. Requesting'
        BY <1>1, <1>2, <2>1, Begins
    <2>4. errcount' = 0 /\ Late(errcount - Len(answers))'
        BY <1>1, <1>4, <2>2 DEF Late
    <2>5. errcount' <= THISBOMBCOUNT'
        BY <1>2, <2>2, <2>4, ClocksPerWord DEF THISBOMBCOUNT
    <2>6. Reading'
        BY <1>1, <2>2, <2>4, <2>5 DEF Reading, InTurn
    <2> QED
        BY <1>1, <1>4, <2>2, <2>3, <2>6 DEF AtIssue
<1> QED
    BY <1>3, <1>4

LEMMA BeginWritevStep ==
    ASSUME MasterInv, NEW c \in Calls, Start(c), BeginWritev(c, o_wb)
    PROVE  MasterType' /\ (\/ pc' = "x_stall" /\ AtStallV'
                           \/ pc' = "x_accept" /\ AtAcceptV')
<1>1. /\ c.op = "writev" /\ cnt' = 0 /\ i_wb' = Addressed(c) /\ errcount' = 1
      /\ pc' = IF o_wb.stall THEN "x_stall" ELSE "x_accept"
    BY DEF BeginWritev, Begin, SpinAfresh
<1>2. OnBus' /\ c \in BusCalls /\ pc' \in Pcs
    BY <1>1 DEF OnBus, BusCalls, Pcs
<1>3. MasterType' /\ Requesting' /\ i_wb'.stb
    BY <1>1, <1>2, AddressedTypes, Begins
<1>4. /\ call' = c /\ h_log' = <<>> /\ pending' = <<>> /\ answers' = <<>> /\ nacks' = 0
      /\ ~failed' /\ o_wb' = o_wb /\ (\A n \in Int : n <= 0 => Late(n)')
    BY <1>1, <1>2, AddressedTypes, Begins
<1>5. Late(errcount - 1)'
    BY <1>1, <1>4 DEF Late
<1>6. Writing'
    BY <1>1, <1>4 DEF Writing
<1>7. CASE o_wb.stall
    BY <1>1, <1>3, <1>4, <1>5, <1>6, <1>7, BombAssumption DEF AtStallV
<1>8. CASE ~o_wb.stall
    BY <1>1, <1>3, <1>4, <1>5, <1>6, <1>8, BombAssumption DEF AtAcceptV
<1> QED
    BY <1>7, <1>8

LEMMA BeginOffStep ==
    ASSUME MasterInv, NEW c \in Calls, Start(c), BeginIdle(c) \/ BeginSleep(c, o_wb)
    PROVE  MasterType' /\ ~OnBus' /\ OffBus'
<1>1. pc' \in {"idle", "sleep", "ready"} /\ i_wb' \in {Released, i_wb} /\ errcount' = 0
    BY DEF BeginIdle, BeginSleep
<1>2. cnt' = c.len
    BY DEF BeginIdle, BeginSleep, Begin
<1>3. OffBus
    BY BeginTypes DEF MasterInv, StageInv, OnBus
<1>4. i_wb' \in MasterPins /\ ~i_wb'.cyc /\ ~i_wb'.stb
    BY <1>1, <1>3, PinsTypes DEF MasterInv, MasterType, OffBus, MasterPins
<1>5. ~OnBus' /\ pc' \in Pcs
    BY <1>1 DEF OnBus, Pcs
<1> QED
    <2>1. MasterType'
        <3>1. cnt' \in Int /\ errcount' \in Nat
            BY <1>1, <1>2, CallsAssumption
        <3> QED
            BY <1>4, <1>5, <3>1, BegunTypes DEF MasterInv
    <2>2. OffBus'
        BY <1>3, <1>4, BeginTypes DEF MasterInv, OffBus
    <2> QED
        BY <1>5, <2>1, <2>2

LEMMA OffBusStep ==
    ASSUME MasterInv, NEW o, Clocked(o), Idle(o) \/ Sleep(o)
    PROVE  MasterType' /\ ~OnBus' /\ OffBus' /\ UNCHANGED <<h_log, answers, failed, m_bomb>>
<1>0. Facts(o)
    BY ClockFacts DEF MasterInv
<1>1. /\ ~OnBus /\ pc' \in {"ready", "abort", "idle", "sleep"}
      /\ UNCHANGED <<i_wb, errcount, nacks, answers, failed, m_bomb>>
    BY DEF Idle, Sleep, OnBus, NoBomb
<1>2. cnt' \in Int
    BY DEF Idle, Sleep, MasterInv, MasterType
<1>3. OffBus
    BY <1>1 DEF MasterInv, StageInv
<1>4. OwnType' /\ ~OnBus'
    BY <1>1, <1>2 DEF MasterInv, MasterType, OwnType, Pcs, OnBus
<1>5. MasterType'
    BY <1>4, TypesKept DEF MasterInv
<1>6. pending' = <<>> /\ h_log' = h_log
    BY <1>0, <1>3 DEF Facts, Edge, OffBus, taken, MasterInv, MasterType
<1>7. failed => Late(BOMBCOUNT - 2)'
    BY <1>0, <1>3 DEF OffBus, Facts, Late, LateNext
<1> QED
    BY <1>1, <1>3, <1>4, <1>5, <1>6, <1>7 DEF OffBus

-----------------------------------------------------------------------------
(* The invariant is inductive.                                             *)
LEMMA MasterInitial ==
    ASSUME Init
    PROVE  MasterInv
<1> USE DEF Init, TBInit, DeviceInit
<1>1. ~OnBus /\ pc \in Pcs
    BY DEF OnBus, Pcs
<1>2. i_wb \in MasterPins /\ ~i_wb.cyc /\ ~i_wb.stb
    BY DEF Released, MasterPins, Data
<1>3. <<>> \in Seq(Words) /\ <<>> \in Seq(Accesses)
    OBVIOUS
<1>4. MasterType
    <2>1. o_wb \in Pins /\ h_late \in 0 .. BOMBCOUNT
        BY BombAssumption
    <2>2. answers \in Seq(Words) /\ pending \in Seq(Words) /\ h_log \in Seq(Accesses)
        BY <1>3
    <2>3. errcount \in Nat /\ cnt \in Int /\ nacks \in Nat /\ failed = FALSE /\ m_bomb = FALSE
        OBVIOUS
    <2> QED
        BY <1>1, <1>2, <2>1, <2>2, <2>3 DEF MasterType
<1> QED
    BY <1>1, <1>2, <1>4 DEF MasterInv, StageInv, OffBus, OnBus

LEMMA StartKeeps ==
    ASSUME MasterInv, NEW c \in Calls, Start(c)
    PROVE  MasterInv'
<1>1. Invoke(c, o_wb)
    BY DEF Start
<1>2. CASE BeginSingle(c, o_wb)
    BY <1>2, BeginSingleStep DEF MasterInv, StageInv, OnBus
<1>3. CASE BeginReadv(c, o_wb)
    BY <1>3, BeginReadvStep DEF MasterInv, StageInv, OnBus
<1>4. CASE BeginWritev(c, o_wb)
    BY <1>4, BeginWritevStep DEF MasterInv, StageInv, OnBus
<1>5. CASE BeginIdle(c) \/ BeginSleep(c, o_wb)
    BY <1>5, BeginOffStep DEF MasterInv, StageInv, OnBus
<1> QED
    BY <1>1, <1>2, <1>3, <1>4, <1>5 DEF Invoke

LEMMA TickKeeps ==
    ASSUME MasterInv, tick
    PROVE  MasterInv'
<1>1. PICK o \in Pins : o_wb' = o /\ Device(o) /\ Proceed(o_wb.stall, o)
    BY DEF tick
<1>2. Clocked(o)
    BY <1>1 DEF Clocked, Proceed
<1> USE DEF MasterInv
<1>3. CASE Stall(o)
    <2>1. \/ pc = "stall" /\ AtStall
          \/ pc = "x_stall" /\ AtStallV
        BY <1>3 DEF Stall, StageInv
    <2>2. MasterType'
        BY <1>2, <1>3, StallTypes
    <2> QED
        BY <1>2, <1>3, <2>1, <2>2, StallStep, StallVStep DEF StageInv, OnBus
<1>4. CASE AwaitData(o) \/ AwaitAck(o)
    <2>1. \/ pc = "accept" /\ AtAccept
          \/ pc = "wait" /\ AtWait
        BY <1>4 DEF AwaitData, AwaitAck, StageInv
    <2>2. MasterType'
        BY <1>2, <1>4, DataTypes
    <2> QED
        BY <1>2, <1>4, <2>1, <2>2, AwaitDataStep, AwaitAckStep DEF StageInv, OnBus
<1>5. CASE Settle(o)
    <2>1. AtSettle
        BY <1>5 DEF Settle, StageInv
    <2>2. MasterType'
        BY <1>2, <1>5, DataTypes
    <2> QED
        BY <1>2, <1>5, <2>1, <2>2, SettleStep DEF StageInv, OnBus
<1>6. CASE Release(o)
    <2>1. AtRelease
        BY <1>6 DEF Release, StageInv
    <2> QED
        BY <1>2, <1>6, <2>1, ReleaseStep DEF StageInv, OnBus
<1>7. CASE AwaitBus(o)
    <2>1. pc = "v_idle" /\ AtIdle
        BY <1>7 DEF AwaitBus, StageInv
    <2> QED
        BY <1>2, <1>7, <2>1, AwaitBusStep DEF StageInv, OnBus
<1>8. CASE IssueReadv(o_wb.stall, o)
    <2>1. pc = "v_issue" /\ AtIssue
        BY <1>8 DEF IssueReadv, StageInv
    <2> QED
        BY <1>2, <1>8, <2>1, IssueReadvStep DEF StageInv, OnBus
<1>9. CASE AwaitReadv(o)
    <2>1. pc = "v_collect" /\ AtCollect
        BY <1>9 DEF AwaitReadv, StageInv
    <2> QED
        BY <1>2, <1>9, <2>1, AwaitReadvStep DEF StageInv, OnBus
<1>10. CASE IssueWritev(o)
    <2>1. pc = "x_accept" /\ AtAcceptV
        BY <1>10 DEF IssueWritev, StageInv
    <2> QED
        BY <1>2, <1>10, <2>1, IssueWritevStep DEF StageInv, OnBus
<1>11. CASE AwaitWritev(o)
    <2>1. pc = "x_collect" /\ AtCollectV
        BY <1>11 DEF AwaitWritev, StageInv
    <2> QED
        BY <1>2, <1>11, <2>1, AwaitWritevStep DEF StageInv, OnBus
<1>12. CASE Idle(o) \/ Sleep(o)
    BY <1>2, <1>12, OffBusStep DEF StageInv, OnBus
<1> QED
    BY <1>1, <1>3, <1>4, <1>5, <1>6, <1>7, <1>8, <1>9, <1>10, <1>11, <1>12 DEF Proceed

LEMMA MasterStep ==
    ASSUME MasterInv, [Next]_benchVars
    PROVE  MasterInv'
<1>1. CASE \E c \in Calls : Start(c)
    BY <1>1, StartKeeps
<1>2. CASE tick
    BY <1>2, TickKeeps
<1>3. CASE Clear \/ Aborted \/ UNCHANGED benchVars
    <2>1. UNCHANGED <<pc, call, i_wb, errcount, cnt, nacks, answers, failed, m_bomb,
                      o_wb, pending, h_log, h_late>>
        BY <1>3 DEF Clear, clear, Aborted, benchVars, tbVars, deviceVars
    <2> QED
        BY <2>1
        DEF MasterInv, MasterType, StageInv, OnBus, OffBus, Late, AtStall, AtAccept, AtWait, AtSettle,
            AtRelease, AtIdle, AtIssue, AtCollect, AtStallV, AtAcceptV, AtCollectV, Single,
            Requesting, Requested, Driving, Reading, Writing, InPlace, OneAddress, THISBOMBCOUNT
<1> QED
    BY <1>1, <1>2, <1>3 DEF Next

(* For every limit, every set of calls and every device: MasterInv.         *)
THEOREM MasterAlways == Spec => []MasterInv
<1>1. Init => MasterInv
    BY MasterInitial
<1>2. MasterInv /\ [Next]_benchVars => MasterInv'
    BY MasterStep
<1> QED
    BY <1>1, <1>2, PTL DEF Spec

-----------------------------------------------------------------------------
(* The vector words, the errors counted and the answers still out stay in   *)
(* the bounds of their call.                                               *)
LEMMA MasterTypes ==
    ASSUME MasterInv
    PROVE  TypeOK
<1> USE DEF MasterInv, StageInv
<1>1. pc = "ready" => ~i_wb.cyc
    BY DEF OffBus, OnBus
<1>2. ASSUME OnBus
      PROVE  /\ errcount \in 0 .. BOMBCOUNT * (call.len + 1) + 2
             /\ nacks <= call.len /\ Len(answers) <= call.len /\ Len(pending) <= call.len
    <2> DEFINE t == THISBOMBCOUNT
    <2>1. /\ call.len \in Nat /\ call.len >= 1 /\ errcount \in Nat /\ nacks \in Nat
          /\ Len(answers) \in Nat /\ Len(pending) \in Nat /\ Len(h_log) \in Nat
        BY <1>2, CallOnBus, LenOf DEF MasterType
    <2>2. t \in Nat /\ t >= BOMBCOUNT /\ BOMBCOUNT * (call.len + 1) + 2 = t + BOMBCOUNT + 2
        BY <2>1, ClocksPerWord, BombAssumption DEF THISBOMBCOUNT
    <2> HIDE DEF t
    <2>3. CASE pc \in {"stall", "accept", "wait", "settle"}
        <3>1. /\ nacks = 0 /\ Len(answers) = 0 /\ Len(pending) <= 1
              /\ errcount <= BOMBCOUNT + 2
            <4>1. Single
                BY <2>3 DEF AtStall, AtAccept, AtWait, AtSettle
            <4>2. pending = <<>> \/ Len(pending) <= 1
                <5> DEFINE p == Len(pending)
                <5>1. pending = <<>> \/ p = 1 \/ p <= 1
                    BY <2>3 DEF AtStall, AtAccept, AtWait, AtSettle
                <5> HIDE DEF p
                <5>2. p = 1 => p <= 1
                    OBVIOUS
                <5> QED
                    BY <5>1, <5>2 DEF p
            <4>3. errcount <= BOMBCOUNT + 2
                BY <2>1, <2>3, BombAssumption DEF AtStall, AtAccept, AtWait, AtSettle
            <4>4. Len(<<>>) = 0
                OBVIOUS
            <4> QED
                BY <2>1, <4>1, <4>2, <4>3, <4>4 DEF Single
        <3> QED
            BY <2>1, <2>2, <3>1, BombAssumption
    <2>4. CASE pc = "release"
        BY <2>1, <2>2, <2>4, BombAssumption DEF AtRelease, t
    <2>5. CASE pc = "v_idle"
        BY <2>1, <2>2, <2>5, BombAssumption DEF AtIdle
    <2>6. CASE pc \in {"v_issue", "v_collect"}
        <3>1. /\ nacks = 0 /\ Len(answers) + Len(pending) = Len(h_log) /\ Len(h_log) = cnt
              /\ errcount <= t
            BY <2>6 DEF AtIssue, AtCollect, Reading, InTurn, t
        <3>2. cnt <= call.len
            BY <2>1, <2>6 DEF AtIssue, AtCollect, Requesting, Requested
        <3> QED
            BY <2>1, <2>2, <3>1, <3>2, BombAssumption
    <2>7. CASE pc \in {"x_stall", "x_accept", "x_collect"}
        <3>1. /\ answers = <<>> /\ nacks + Len(pending) = Len(h_log) /\ Len(h_log) <= cnt
              /\ errcount <= BOMBCOUNT + 1
            BY <2>1, <2>7, BombAssumption DEF AtStallV, AtAcceptV, AtCollectV, Writing
        <3>2. cnt <= call.len /\ cnt \in Int
            BY <2>1, <2>7 DEF AtStallV, AtAcceptV, AtCollectV, Requesting, Requested
        <3>3. Len(answers) = 0
            BY <3>1
        <3> QED
            BY <2>1, <2>2, <3>1, <3>2, <3>3, BombAssumption
    <2> QED
        BY <1>2, <2>3, <2>4, <2>5, <2>6, <2>7 DEF MasterType, OnBus, Pcs
<1>3. pc \in {"ready", "abort", "stall", "accept", "wait", "settle", "release",
              "v_idle", "v_issue", "v_collect", "x_stall", "x_accept",
              "x_collect", "idle", "sleep"}
    BY DEF MasterType, Pcs
<1> QED
    BY <1>1, <1>2, <1>3 DEF TypeOK, MasterType

(* TypeOK, for every limit, every set of calls and every device.           *)
THEOREM MasterTypeAlways == Spec => []TypeOK
<1>1. MasterInv => TypeOK
    BY MasterTypes
<1> QED
    BY <1>1, MasterAlways, PTL

(* NoFalseAlarm: a call fails only once the device, or the strobe, has been *)
(* late for as many clocks as the limits of wb_tb.h allow, less two.        *)
THEOREM NoFalseAlarmAlways == Spec => []NoFalseAlarm
<1>1. MasterInv => NoFalseAlarm
    <2> SUFFICES ASSUME MasterInv, failed
                 PROVE  h_late >= BOMBCOUNT - 2
        BY DEF NoFalseAlarm
    <2>1. Late(BOMBCOUNT - 2)
        BY DEF MasterInv, MasterType, StageInv, Pcs, OnBus, OffBus, AtStall, AtAccept, AtWait, AtSettle,
               AtRelease, AtIdle, AtIssue, AtCollect, AtStallV, AtAcceptV, AtCollectV,
               Requesting, Requested, Driving
    <2> QED
        BY <2>1, BombAssumption DEF Late
<1> QED
    BY <1>1, MasterAlways, PTL

-----------------------------------------------------------------------------
(* The calls are those of a DEVBUS.                                        *)

(* The accesses made are in the order of the call.                         *)
LEMMA AccessesInOrder ==
    ASSUME MasterInv, OnBus, OneAddress
    PROVE  Promise!InOrder(h_log, call)
<1>1. call.len \in Nat /\ (call.op \in {"readio", "writeio"} => call.len = 1)
    BY CallOnBus DEF MasterInv
<1>2. PICK n \in 0 .. call.len : Placed(h_log, call, n)
    <2>1. CASE pc \in {"stall", "accept", "v_issue", "x_stall", "x_accept"}
        <3>1. Requesting
            BY <2>1 DEF MasterInv, StageInv, AtStall, AtAccept, AtIssue, AtStallV, AtAcceptV
        <3> QED
            BY <1>1, <3>1 DEF Requesting, InPlace
    <2>2. CASE pc \in {"wait", "settle"}
        BY <1>1, <2>2 DEF MasterInv, StageInv, AtWait, AtSettle, Single, InPlace
    <2>3. CASE pc \in {"release", "v_collect", "x_collect"}
        BY <1>1, <2>3
        DEF MasterInv, StageInv, AtRelease, AtCollect, AtCollectV, Requested, InPlace
    <2>4. CASE pc = "v_idle"
        BY <1>1, <2>4, PlacedNone DEF MasterInv, StageInv, AtIdle
    <2> QED
        BY <2>1, <2>2, <2>3, <2>4 DEF MasterInv, MasterType, Pcs, OnBus
<1>3. Placed(h_log, call, call.len)
    BY <1>1, <1>2, PlacedWider
<1> QED
    BY <1>3 DEF Placed, Promise!InOrder

LEMMA AccessesOrdered ==
    MasterInv /\ OnBus /\ OneAddress => Promise!InOrder(h_log, call)
BY AccessesInOrder

(* A clock of a call makes its next access, or none.                       *)
LEMMA OneAccess ==
    ASSUME MasterInv, OnBus, OneAddress, NEW o, Clocked(o)
    PROVE  \/ h_log' = h_log
           \/ \E i \in 1 .. call.len, w \in Words :
                  h_log' = Append(h_log, Promise!Access(call, i, w))
<1>1. PICK w \in Words :
        h_log' = IF taken(o_wb.stall)
                 THEN Append(h_log, [we |-> i_wb.we, addr |-> i_wb.addr,
                                     word |-> IF i_wb.we THEN i_wb.data ELSE w])
                 ELSE h_log
    BY DEF Clocked, Device
<1>2. CASE taken(o_wb.stall)
    <2>1. i_wb.stb /\ i_wb.cyc
        BY <1>2 DEF taken, MasterInv, MasterType
    <2>2. Requesting
        BY <2>1
        DEF MasterInv, MasterType, Pcs, OnBus, StageInv, AtStall, AtAccept, AtWait, AtSettle, AtRelease,
            AtIdle, AtIssue, AtCollect, AtStallV, AtAcceptV, AtCollectV, Requested
    <2>3. cnt \in 0 .. call.len - 1 /\ call.len \in Nat /\ call.a \in Nat
        BY <2>2, CallOnBus DEF MasterInv, Requesting
    <2>4. Promise!Address(call, cnt + 1) = call.a \div 4
        <3>1. call.inc => cnt = 0
            BY <2>3 DEF OneAddress
        <3> QED
            BY <2>3, <3>1 DEF Promise!Address
    <2>5. [we |-> i_wb.we, addr |-> i_wb.addr, word |-> IF i_wb.we THEN i_wb.data ELSE w]
            = Promise!Access(call, cnt + 1, w)
        BY <2>2, <2>4 DEF Promise!Access, Requesting, Driving, MasterInv, MasterType, MasterPins
    <2>6. cnt + 1 \in 1 .. call.len
        BY <2>3
    <2> QED
        BY <1>1, <1>2, <2>5, <2>6
<1>3. CASE ~taken(o_wb.stall)
    BY <1>1, <1>3
<1> QED
    BY <1>2, <1>3

(* A call that has not failed may fail on a clock, and the bus remembers.   *)
LEMMA MayFail ==
    ASSUME MasterInv, OnBus, NEW o, Clocked(o), Proceed(o_wb.stall, o)
    PROVE  Promise!GiveUp
<1> USE DEF Promise!GiveUp, MasterInv
<1>1. failed \in BOOLEAN /\ m_bomb \in BOOLEAN /\ (failed => m_bomb)
    BY DEF MasterType
<1>2. ASSUME NoBomb
      PROVE  Promise!GiveUp
    BY <1>1, <1>2 DEF NoBomb
<1>3. ASSUME NEW b, Bomb(b)
      PROVE  Promise!GiveUp
    BY <1>1, <1>3 DEF Bomb
<1> HIDE DEF Promise!GiveUp
<1>4. ASSUME NEW counted, CollectReadv(counted, o)
      PROVE  Promise!GiveUp
    BY <1>2, <1>3, <1>4 DEF CollectReadv, FinishReadv
<1>5. ASSUME NEW counted, CollectWritev(counted)
      PROVE  Promise!GiveUp
    BY <1>2, <1>3, <1>5 DEF CollectWritev
<1>6. CASE Stall(o) \/ AwaitAck(o) \/ Release(o)
    BY <1>2, <1>6 DEF Stall, AwaitAck, Release
<1>7. CASE AwaitData(o)
    BY <1>2, <1>3, <1>7 DEF AwaitData
<1>8. CASE Settle(o)
    BY <1>3, <1>8 DEF Settle
<1>9. CASE AwaitBus(o)
    BY <1>2, <1>3, <1>9 DEF AwaitBus
<1>10. CASE IssueReadv(o_wb.stall, o)
    BY <1>2, <1>4, <1>10 DEF IssueReadv
<1>11. CASE AwaitReadv(o)
    BY <1>4, <1>11 DEF AwaitReadv
<1>12. CASE IssueWritev(o) \/ AwaitWritev(o)
    BY <1>2, <1>5, <1>12 DEF IssueWritev, AwaitWritev
<1>13. CASE Idle(o) \/ Sleep(o)
    BY <1>13 DEF Idle, Sleep, OnBus
<1> QED
    BY <1>6, <1>7, <1>8, <1>9, <1>10, <1>11, <1>12, <1>13 DEF Proceed

(* A call that returns has failed or has made all of its accesses, and what *)
(* it returns is what they read.                                           *)
LEMMA ReturnsRead ==
    ASSUME MasterInv, pc = "release", ~failed
    PROVE  Len(h_log) = call.len /\ answers = Promise!Read(h_log, call)
<1>1. AtRelease /\ OnBus
    BY DEF MasterInv, StageInv, OnBus
<1>2. Len(h_log) = call.len
    BY <1>1 DEF AtRelease
<1>3. CASE call.words = <<>>
    <2>1. Len(<<>>) = 0 /\ Len(answers) \in Nat /\ Len(h_log) \in Nat
        BY LenOf DEF MasterInv, MasterType
    <2>2. Len(answers) = Len(h_log) /\ \A k \in 1 .. Len(answers) : answers[k] = h_log[k].word
        BY <1>1, <1>3, <2>1 DEF AtRelease, InTurn
    <2>3. answers = [k \in 1 .. Len(answers) |-> answers[k]] /\ DOMAIN h_log = 1 .. Len(h_log)
        BY DEF MasterInv, MasterType
    <2>4. answers = [k \in DOMAIN h_log |-> h_log[k].word]
        BY <2>2, <2>3
    <2> QED
        BY <1>2, <1>3, <2>4 DEF Promise!Read
<1>4. CASE call.words # <<>>
    BY <1>1, <1>2, <1>4 DEF AtRelease, Promise!Read
<1> QED
    BY <1>3, <1>4

LEMMA PromiseInitial ==
    ASSUME Init
    PROVE  Promise!DevBusInit
BY DEF Init, TBInit, DeviceInit, Promise!DevBusInit, OnBus

LEMMA PromiseStart ==
    ASSUME MasterInv, NEW c \in Calls, Start(c)
    PROVE  Promise!DevBusNext
<1>1. /\ ~OnBus /\ call' = c /\ answers' = <<>> /\ failed' = FALSE /\ m_bomb' = m_bomb
      /\ h_log' = IF OnBus' THEN <<>> ELSE h_log
    BY BeginTypes DEF MasterInv, OnBus
<1>2. CASE OnBus'
    <2>1. c \in BusCalls
        BY <1>1, <1>2, StartKeeps DEF MasterInv, MasterType
    <2>2. Promise!Issue(c)
        BY <1>1, <1>2 DEF Promise!Issue
    <2> QED
        BY <2>1, <2>2 DEF Promise!DevBusNext
<1>3. CASE ~OnBus'
    BY <1>1, <1>3 DEF Promise!DevBusNext, Promise!Forget
<1> QED
    BY <1>2, <1>3

LEMMA PromiseTick ==
    ASSUME MasterInv, tick, \A c \in Calls : c.inc => c.len = 1
    PROVE  [Promise!DevBusNext]_Promise!devbusVars
<1>1. PICK o \in Pins : o_wb' = o /\ Device(o) /\ Proceed(o_wb.stall, o)
    BY DEF tick
<1>2. Clocked(o)
    BY <1>1 DEF Clocked, Proceed
<1>3. Facts(o) /\ call' = call
    BY <1>2, ClockFacts DEF MasterInv, Facts
<1>4. CASE ~OnBus
    <2>1. Idle(o) \/ Sleep(o)
        BY <1>1, <1>4
        DEF Proceed, OnBus, Stall, AwaitData, AwaitAck, Settle, Release, AwaitBus, IssueReadv,
            AwaitReadv, IssueWritev, AwaitWritev
    <2>2. ~OnBus' /\ UNCHANGED <<h_log, answers, failed, m_bomb>>
        BY <1>2, <2>1, OffBusStep
    <2> QED
        BY <1>4, <2>2 DEF Promise!devbusVars
<1>5. CASE OnBus
    <2>1. call \in BusCalls /\ call # NoCall /\ OneAddress
        BY <1>5, CallsAssumption DEF MasterInv, MasterType, BusCalls, OneAddress
    <2>2. Promise!GiveUp
        BY <1>1, <1>2, <1>5, MayFail
    <2>3. CASE OnBus'
        <3>1. Promise!InOrder(h_log', call)
            <4>1. MasterInv' /\ OneAddress'
                BY <1>3, <2>1, TickKeeps DEF OneAddress
            <4>2. Promise!InOrder(h_log, call)'
                <5>1. (MasterInv /\ OnBus /\ OneAddress)'
                    BY <2>3, <4>1
                <5> QED
                    BY <5>1, AccessesOrdered, PTL
            <4> QED
                BY <1>3, <4>2 DEF Promise!InOrder, Promise!Access, Promise!Address
        <3>2. \/ h_log' = h_log
              \/ \E i \in 1 .. call.len, w \in Words :
                     h_log' = Append(h_log, Promise!Access(call, i, w))
            BY <1>2, <1>5, <2>1, OneAccess
        <3>3. Promise!Proceed
            BY <1>3, <1>5, <2>1, <2>2, <2>3, <3>1, <3>2 DEF Promise!Proceed
        <3> QED
            BY <3>3 DEF Promise!DevBusNext
    <2>4. CASE ~OnBus'
        <3>1. Release(o) \/ (AwaitBus(o) /\ pc' = "ready")
            BY <1>1, <1>5, <2>4
            DEF Proceed, OnBus, Stall, Spin, SpinAfresh, AwaitData, AwaitAck, Settle, AwaitBus, IssueReadv,
                AwaitReadv, IssueWritev, AwaitWritev, CollectReadv, FinishReadv, CollectWritev, Idle, Sleep
        <3>2. CASE Release(o)
            <4>1. pc = "release" /\ UNCHANGED <<answers, failed, m_bomb>>
                BY <3>2 DEF Release, NoBomb
            <4>2. h_log' = h_log
                BY <1>3, <4>1
                DEF MasterInv, MasterType, StageInv, AtRelease, Facts, Edge, taken
            <4>3. failed \/ (Len(h_log) = call.len /\ answers = Promise!Read(h_log, call))
                BY <4>1, ReturnsRead
            <4>4. Promise!Return
                BY <1>5, <2>1, <2>2, <2>4, <4>1, <4>2, <4>3 DEF Promise!Return
            <4> QED
                BY <4>4 DEF Promise!DevBusNext
        <3>3. CASE AwaitBus(o) /\ pc' = "ready"
            <4>1. pc = "v_idle" /\ AtIdle
                BY <3>3 DEF AwaitBus, MasterInv, StageInv
            <4>2. failed'
                BY <1>2, <2>4, <3>3, <4>1, AwaitBusStep DEF MasterInv
            <4>3. h_log' = h_log
                BY <1>3, <4>1 DEF AtIdle, MasterInv, MasterType, Facts, Edge, taken
            <4>4. Promise!Return
                BY <1>5, <2>1, <2>2, <2>4, <4>2, <4>3 DEF Promise!Return
            <4> QED
                BY <4>4 DEF Promise!DevBusNext
        <3> QED
            BY <3>1, <3>2, <3>3
    <2> QED
        BY <2>3, <2>4
<1> QED
    BY <1>4, <1>5

(* Each step of the bench is one of a DEVBUS, or none.                     *)
LEMMA PromiseStep ==
    ASSUME MasterInv, [Next]_benchVars, \A c \in Calls : c.inc => c.len = 1
    PROVE  [Promise!DevBusNext]_Promise!devbusVars
<1>1. CASE \E c \in Calls : Start(c)
    BY <1>1, PromiseStart
<1>2. CASE tick
    BY <1>2, PromiseTick
<1>3. CASE Clear \/ Aborted \/ UNCHANGED benchVars
    <2>1. UNCHANGED <<pc, call, answers, failed, m_bomb, h_log>>
        BY <1>3 DEF Clear, clear, Aborted, benchVars, tbVars, deviceVars
    <2> QED
        BY <2>1 DEF Promise!devbusVars, OnBus
<1> QED
    BY <1>1, <1>2, <1>3 DEF Next

(* ImplementsDevBus, for every limit and every device, where the calls keep *)
(* to one address or are of one word: WB_TB makes the accesses that the     *)
(* DEVBUS interface promises, in their order, each at most once, and a call *)
(* that does not report a failure has made them all and returns what they   *)
(* read.                                                                   *)
THEOREM MasterImplements ==
    ASSUME \A c \in Calls : c.inc => c.len = 1
    PROVE  Spec => ImplementsDevBus
<1>1. Init => Promise!DevBusInit
    BY PromiseInitial
<1>2. MasterInv /\ [Next]_benchVars => [Promise!DevBusNext]_Promise!devbusVars
    BY PromiseStep
<1> QED
    BY <1>1, <1>2, MasterAlways, PTL DEF Spec, ImplementsDevBus, Promise!DevBusSpec
=============================================================================
