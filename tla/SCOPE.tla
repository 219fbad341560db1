------------------------------- MODULE SCOPE -------------------------------
(***************************************************************************)
(* The host software: class SCOPE of sw/scopecls.cpp as the main programs   *)
(* of sw/cfgscope.cpp and doc/examples/hdmi-eddc/edidrxscope.cpp use it, on *)
(* the DEVBUS of WB_TB.  Each run of such a program makes a new object,     *)
(* asks whether the scope is ready and, if so, reads all of its memory and  *)
(* prints it and writes it to a VCD file, neither of which takes part in    *)
(* what follows: they are the operators of ScopeTrace.  Between the runs    *)
(* the user restarts the scope, and may have the interrupt waited for; a    *)
(* program told that way that the capture is over writes it out at once.   *)
(***************************************************************************)
EXTENDS WB_TB

CONSTANTS
    Settings,           \* the control words the scope is restarted with
    VECTOR_READS,       \* the values of m_vector_read
    Length(_),          \* the 1 << ((v>>20)&0x1f) of a control word
    Unread              \* the content of a word of m_data not read

WBSCOPE == 0
WBSCOPEDATA == WBSCOPE + 4

VARIABLES
    at,             \* the method of SCOPE that is running, or "shell"
    m_vector_read,
    m_scoplen, m_holdoff, m_data

scopeVars == <<at, m_vector_read, m_scoplen, m_holdoff, m_data>>

SCOPEInit ==
    /\ at = "shell"
    /\ m_vector_read \in VECTOR_READS
    /\ m_scoplen = 0 /\ m_holdoff = 0 /\ m_data = <<>>

(* The DEVBUS call a method makes, and where it is answered.               *)
Calls(c, o, method) == Invoke(c, o) /\ at' = method
Answered(method) == pc = "ready" /\ at = method /\ UNCHANGED tbVars
v == answers[1]

-----------------------------------------------------------------------------
(* The user restarts the scope, and has the interrupt waited for.           *)
Arm(o) ==
    /\ at = "shell"
    /\ \E w \in Settings : Calls(writeio(WBSCOPE, w), o, "arming")
    /\ UNCHANGED <<m_vector_read, m_scoplen, m_holdoff, m_data>>

Armed ==
    /\ Answered("arming")
    /\ at' \in {"shell", "armed"}
    /\ UNCHANGED <<m_vector_read, m_scoplen, m_holdoff, m_data>>

ClearInterrupt ==
    /\ at = "armed" /\ at' = "cleared"
    /\ clear
    /\ UNCHANGED <<m_vector_read, m_scoplen, m_holdoff, m_data>>

Wait(o) ==
    /\ at = "cleared"
    /\ Calls(wait, o, "waiting")
    /\ UNCHANGED <<m_vector_read, m_scoplen, m_holdoff, m_data>>

(* new SCOPE(fpga, WBSCOPE, compressed, vecread).  m_holdoff, not set there, *)
(* is zero here until it is.                                               *)
New ==
    /\ m_vector_read' \in VECTOR_READS
    /\ m_scoplen' = 0 /\ m_holdoff' = 0 /\ m_data' = <<>>

(* main() begins with ready(), or, after the interrupt, with writevcd(),    *)
(* whose rawread() asks for scoplen() first.                               *)
Main(o) ==
    /\ at = "shell"
    /\ Calls(readio(WBSCOPE), o, "ready")
    /\ New

MainAfterInterrupt(o) ==
    /\ at = "waiting"
    /\ Calls(readio(WBSCOPE), o, "scoplen")
    /\ New

-----------------------------------------------------------------------------
(* rawread() once the length is known: a scope of four words or less is not *)
(* read, and print() and writevcd() then go through a null pointer.        *)
Rawread(length) == at' = IF length <= 4 THEN "crash" ELSE "rawread"

ready_BUG ==
    /\ Answered("ready")
    /\ IF m_scoplen = 0
       THEN m_scoplen' = Length(v)
       ELSE UNCHANGED m_scoplen
    /\ IF v.stopped /\ v.triggered THEN Rawread(m_scoplen') ELSE at' = "not ready"
    /\ UNCHANGED <<m_holdoff, m_vector_read, m_data>>

ready ==
    /\ Answered("ready")
    /\ IF m_scoplen = 0
       THEN m_scoplen' = Length(v) /\ m_holdoff' = v.holdoff
       ELSE UNCHANGED <<m_scoplen, m_holdoff>>
    /\ IF v.stopped /\ v.triggered THEN Rawread(m_scoplen') ELSE at' = "not ready"
    /\ UNCHANGED <<m_vector_read, m_data>>

(* The length stays zero where no scope is installed: lgln = 0.             *)
scoplen ==
    /\ Answered("scoplen")
    /\ m_holdoff' = v.holdoff
    /\ m_scoplen' = IF Length(v) = 1 THEN 0 ELSE Length(v)
    /\ Rawread(m_scoplen')
    /\ UNCHANGED <<m_vector_read, m_data>>

decode_control(o) ==
    \/ /\ at = "not ready"
       /\ Calls(readio(WBSCOPE), o, "decode_control")
       /\ UNCHANGED <<m_vector_read, m_scoplen, m_holdoff, m_data>>
    \/ /\ Answered("decode_control")
       /\ at' = "shell"
       /\ UNCHANGED <<m_vector_read, m_scoplen, m_holdoff, m_data>>

rawread_BUG(o) ==
    \/ /\ at = "rawread"
       /\ Calls(IF m_vector_read THEN readz(WBSCOPEDATA, m_scoplen)
                ELSE readio(WBSCOPEDATA), o, "reading")
       /\ UNCHANGED <<m_vector_read, m_scoplen, m_holdoff, m_data>>
    \/ /\ Answered("reading")
       /\ m_data' = IF m_vector_read
                    THEN [i \in 1 .. m_scoplen |->
                             IF i <= Len(answers) THEN answers[i] ELSE Unread]
                    ELSE Append(m_data, v)
       /\ at' = IF Len(m_data') > m_scoplen THEN "written" ELSE "rawread"
       /\ UNCHANGED <<m_vector_read, m_scoplen, m_holdoff>>

(* rawread(): one vector read of the data register, or a loop of single     *)
(* ones.                                                                   *)
rawread(o) ==
    \/ /\ at = "rawread"
       /\ Calls(IF m_vector_read THEN readz(WBSCOPEDATA, m_scoplen)
                ELSE readio(WBSCOPEDATA), o, "reading")
       /\ UNCHANGED <<m_vector_read, m_scoplen, m_holdoff, m_data>>
    \/ /\ Answered("reading")
       /\ m_data' = IF m_vector_read
                    THEN [i \in 1 .. m_scoplen |->
                             IF i <= Len(answers) THEN answers[i] ELSE Unread]
                    ELSE Append(m_data, v)
       /\ at' = IF Len(m_data') = m_scoplen THEN "written" ELSE "rawread"
       /\ UNCHANGED <<m_vector_read, m_scoplen, m_holdoff>>

(* Printed and written (the second of the two finds m_data read), and done. *)
Exit ==
    /\ at = "written" /\ at' = "shell"
    /\ m_scoplen' = 0 /\ m_holdoff' = 0 /\ m_data' = <<>>
    /\ UNCHANGED <<tbVars, m_vector_read>>

(* A step of the software that takes no clock.                             *)
SoftwareStep(o) ==
    \/ Arm(o) \/ Armed \/ ClearInterrupt \/ Wait(o)
    \/ Main(o) \/ MainAfterInterrupt(o)
    \/ ready \/ scoplen \/ decode_control(o) \/ rawread(o) \/ Exit

-----------------------------------------------------------------------------
(* operator[].                                                             *)
Item(addr) ==
    IF m_data # <<>> /\ m_scoplen > 0 THEN m_data[(addr % m_scoplen) + 1] ELSE Unread
=============================================================================
