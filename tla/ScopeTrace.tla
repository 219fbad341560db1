----------------------------- MODULE ScopeTrace -----------------------------
(***************************************************************************)
(* What SCOPE::print and SCOPE::writevcd (sw/scopecls.cpp) make of m_data:  *)
(* which words they show, at which clock of the capture, and where they     *)
(* say the trigger was.  Words are those of WBScopC where compressed, and  *)
(* samples otherwise; they are counted from one.  The lay-out of the lines, *)
(* and the conversion of clocks to nanoseconds, are left out.               *)
(***************************************************************************)
EXTENDS Integers, Sequences

adr(w) == w.adr                         \* bit 31
width(w) == IF adr(w) THEN w.val + 1 ELSE 1

(* The loop that counts addrv on, word by word: its value at each word and  *)
(* at the end, where a run at the start counts as `start'.                 *)
addrv(data, start) ==
    LET at[i \in 1 .. Len(data) + 1] ==
            IF i = 1 THEN 0
            ELSE at[i - 1] + IF i = 2 /\ adr(data[1]) THEN start ELSE width(data[i - 1])
    IN  at

(* The number of samples, but one for a run at the start, whatever it is.  *)
getaddresslen(compressed, data) ==
    IF compressed THEN addrv(data, 1)[Len(data) + 1] ELSE Len(data)

offset(alen, holdoff) == alen - holdoff - 1

(* addrv at word i.  For print() the run at the start counts in full, for   *)
(* writevcd() not at all.                                                  *)
printaddr(data, i) == addrv(data, width(data[1]))[i]
vcdaddr(data, i) == addrv(data, 0)[i]

PrintsRLE_BUG(data, holdoff) ==
    LET alen == getaddresslen(TRUE, data)
    IN  {[addr |-> printaddr(data, i), word |-> data[i].val,
          trigger |-> printaddr(data, i) = offset(alen, holdoff)] :
            i \in {k \in DOMAIN data : ~adr(data[k])}}

(* print(), compressed: every value is a line.  The line is marked after   *)
(* addrv has been counted on.                                              *)
PrintsRLE(data, holdoff) ==
    LET alen == getaddresslen(TRUE, data)
    IN  {[addr |-> printaddr(data, i), word |-> data[i].val,
          trigger |-> printaddr(data, i) + 1 = offset(alen, holdoff)] :
            i \in {k \in DOMAIN data : ~adr(data[k])}}

(* print(), uncompressed: a word equal to the one before it is left out,    *)
(* but for the last.                                                       *)
Skipped(data, i) == i \in 2 .. Len(data) - 1 /\ data[i] = data[i - 1]
Prints(data, holdoff) ==
    {[addr |-> i - 1, word |-> data[i],
      trigger |-> i - 1 = offset(getaddresslen(FALSE, data), holdoff)] :
        i \in {k \in DOMAIN data : ~Skipped(data, k)}}

(* writevcd(): time zero is at offset.  The value at a time, and the level  *)
(* of 'T there.  last_trigger is true throughout; a run after the start     *)
(* lowers 'T one clock on.                                                 *)
VcdRLE(data, holdoff) ==
    LET alen == getaddresslen(TRUE, data)
    IN  {[time |-> vcdaddr(data, i), word |-> data[i].val,
          trigger |-> vcdaddr(data, i) - alen = offset(alen, holdoff)] :
            i \in {k \in DOMAIN data : ~adr(data[k])}}

Vcd(data, holdoff) ==
    {[time |-> i - 1, word |-> data[i],
      trigger |-> i - 1 = offset(getaddresslen(FALSE, data), holdoff)] : i \in DOMAIN data}

(* What a reader of the VCD file sees: the value at every clock from the    *)
(* first value on to the last.                                             *)
Shown(vcd, t) ==
    LET at == CHOOSE s \in {line.time : line \in vcd} :
                 s <= t /\ \A line \in vcd : line.time <= t => line.time <= s
    IN  (CHOOSE line \in vcd : line.time = at).word
=============================================================================
