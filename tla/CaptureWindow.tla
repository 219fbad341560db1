---------------------------- MODULE CaptureWindow ----------------------------
(***************************************************************************)
(* What a scope promises about the samples it captures, with no ring, no   *)
(* pipeline and no clock domains: a window over the last LEN samples,      *)
(* oldest first, that slides until the holdoff has been counted after the  *)
(* trigger and then stays as it is until the next reset.                   *)
(*                                                                         *)
(* The sample accepted last ("newest") is not yet in the window: a sample  *)
(* enters when its successor arrives.  What the code does when there is no *)
(* successor on the clock of the stop is the action Cut: the window then   *)
(* ends one sample early.  A scope whose clock enable is always high has   *)
(* no such step.                                                           *)
(***************************************************************************)
EXTENDS Naturals

CONSTANTS
    LEN,        \* the length of the window
    HOLDOFFS,
    WORDS,
    RETUNE      \* whether the holdoff may change without a reset

VARIABLES
    phase,      \* "reset", "collecting", "triggered" or "stopped"
    fill,       \* how many samples the window holds
    window,     \* the samples, oldest first
    newest,     \* the sample accepted last
    trigger,    \* the sample that carried the trigger
    since,      \* the samples that entered the window from that one on
    holdoff

windowVars == <<phase, fill, window, newest, trigger, since, holdoff>>

(* The holdoff during a step that is no reset.  Where it may be retuned,    *)
(* the step that does so counts against either value.                      *)
Retuned   == RETUNE /\ holdoff' \in HOLDOFFS \ {holdoff}
Kept      == holdoff' = holdoff
Counting  == (since < holdoff /\ Kept) \/ Retuned
Counted   == (since >= holdoff /\ Kept) \/ Retuned

(* The window after one more sample.                                       *)
Slide(s) ==
    IF fill < LEN
    THEN /\ fill' = fill + 1
         /\ window' = [i \in 1 .. fill + 1 |-> IF i <= fill THEN window[i] ELSE s]
    ELSE /\ fill' = fill
         /\ window' = [i \in 1 .. LEN |-> IF i < LEN THEN window[i + 1] ELSE s]

WindowInit ==
    /\ phase = "reset"
    /\ fill = 0
    /\ window = [i \in 1 .. 0 |-> CHOOSE w \in WORDS : TRUE]
    /\ newest \in WORDS
    /\ trigger \in WORDS
    /\ since = 0
    /\ holdoff \in HOLDOFFS

(* A reset may come at any time, and is where the holdoff may change.      *)
Restart ==
    /\ phase' = "reset"
    /\ fill' = 0
    /\ window' = [i \in 1 .. 0 |-> CHOOSE w \in WORDS : TRUE]
    /\ newest' \in WORDS
    /\ trigger' \in WORDS
    /\ since' = 0
    /\ holdoff' \in HOLDOFFS

(* Recording starts over with an empty window; until then the holdoff may   *)
(* still change.                                                           *)
Start ==
    /\ phase = "reset"
    /\ phase' = "collecting"
    /\ newest' \in WORDS
    /\ trigger' \in WORDS
    /\ UNCHANGED <<fill, window, since>>
    /\ holdoff' \in HOLDOFFS

(* Only the holdoff changes.                                               *)
Retune == Retuned /\ UNCHANGED <<phase, fill, window, newest, trigger, since>>

(* A sample before the trigger.                                            *)
Collect(s) ==
    /\ phase = "collecting"
    /\ newest' = s
    /\ Slide(newest)
    /\ UNCHANGED <<phase, trigger, since>>
    /\ Kept \/ Retuned

(* The sample that carries the trigger: only once the window is full.      *)
Accept(s) ==
    /\ phase = "collecting" /\ fill = LEN
    /\ phase' = "triggered"
    /\ newest' = s /\ trigger' = s
    /\ Slide(newest)
    /\ UNCHANGED since
    /\ Kept \/ Retuned

(* A sample after it.                                                      *)
Follow(s) ==
    /\ phase = "triggered" /\ Counting
    /\ newest' = s
    /\ Slide(newest)
    /\ since' = since + 1
    /\ UNCHANGED <<phase, trigger>>

(* The sample that ends the holdoff enters the window, and it is closed.   *)
Finish(s) ==
    /\ phase = "triggered" /\ Counted
    /\ phase' = "stopped"
    /\ newest' = s
    /\ Slide(newest)
    /\ since' = since + 1
    /\ UNCHANGED trigger

(* The window is closed without it.                                        *)
Cut ==
    /\ phase = "triggered" /\ Counted
    /\ phase' = "stopped"
    /\ UNCHANGED <<fill, window, newest, trigger, since>>

(* A sample that comes too late.                                           *)
Ignore(s) ==
    /\ phase = "stopped"
    /\ newest' = s
    /\ UNCHANGED <<phase, fill, window, trigger, since>>
    /\ Kept \/ Retuned

WindowNext ==
    \/ Restart \/ Start \/ Cut \/ Retune
    \/ \E s \in WORDS : Collect(s) \/ Accept(s) \/ Follow(s) \/ Finish(s) \/ Ignore(s)

WindowSpec == WindowInit /\ [][WindowNext]_windowVars
=============================================================================
