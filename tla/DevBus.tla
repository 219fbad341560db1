------------------------------- MODULE DevBus -------------------------------
(***************************************************************************)
(* What a DEVBUS promises to the software that uses it, as the interface    *)
(* bench/cpp/devbus.h declares it: a call reads or writes the words it      *)
(* names, one after the other, each once, and nothing else; the vector      *)
(* calls are the loops of single ones.  A call that could not do so has     *)
(* failed, and the bus remembers that one has.                             *)
(***************************************************************************)
EXTENDS Naturals, Sequences

CONSTANTS
    Calls,          \* [op, a, len, inc, words]: the calls that are made
    Words,          \* what the device may return for a read
    NoCall

VARIABLES
    call,       \* the call in progress, or NoCall
    served,     \* the accesses the device has made for it: [we, addr, word]
    result,     \* the words read by the last call that returned
    failed,     \* it could not do what it was asked
    bombed      \* some call could not

devbusVars == <<call, served, result, failed, bombed>>

(* for(int i=0; i<len; i++) buf[i] = readio(a+i), or readio(a) without inc. *)
(* The addresses of the calls count bytes, those of the bus four-byte words. *)
Address(c, i) == (c.a + (IF c.inc THEN i - 1 ELSE 0)) \div 4

(* The i-th access of a call; a read returns some word w of the device.     *)
Access(c, i, w) ==
    [we |-> c.words # <<>>, addr |-> Address(c, i),
     word |-> IF c.words # <<>> THEN c.words[i] ELSE w]

(* s holds accesses of the call c, in their order and each at most once:   *)
(* its k-th is the at[k]-th of the call.                                    *)
InOrder(s, c) ==
    \E at \in [DOMAIN s -> 1 .. c.len] :
        /\ \A j, k \in DOMAIN s : j < k => at[j] < at[k]
        /\ \A k \in DOMAIN s : \E w \in Words : s[k] = Access(c, at[k], w)

(* The words that the accesses s of a call have read.                      *)
Read(s, c) == IF c.words = <<>> THEN [k \in DOMAIN s |-> s[k].word] ELSE <<>>

DevBusInit ==
    /\ call = NoCall /\ served = <<>> /\ result = <<>>
    /\ failed = FALSE /\ bombed = FALSE

Issue(c) ==
    /\ call = NoCall /\ call' = c
    /\ served' = <<>> /\ result' = <<>> /\ failed' = FALSE
    /\ UNCHANGED bombed

(* The call goes on: the device makes its next access, or it is given up.   *)
GiveUp == failed' \in {failed, TRUE} /\ bombed' = (bombed \/ failed')

Proceed ==
    /\ call # NoCall
    /\ \/ UNCHANGED served
       \/ \E i \in 1 .. call.len, w \in Words :
              served' = Append(served, Access(call, i, w))
    /\ InOrder(served', call)
    /\ GiveUp
    /\ UNCHANGED <<call, result>>

(* It returns the words that all of its accesses read, unless it failed.    *)
Return ==
    /\ call # NoCall /\ call' = NoCall
    /\ GiveUp
    /\ failed' \/ Len(served) = call.len
    /\ result' = IF failed' THEN <<>> ELSE Read(served, call)
    /\ UNCHANGED served

(* What was read is the caller's, and may be gone before the next call.     *)
Forget ==
    /\ call = NoCall
    /\ result' = <<>> /\ failed' = FALSE
    /\ UNCHANGED <<call, served, bombed>>

DevBusNext == (\E c \in Calls : Issue(c)) \/ Proceed \/ Return \/ Forget

DevBusSpec == DevBusInit /\ [][DevBusNext]_devbusVars
=============================================================================
