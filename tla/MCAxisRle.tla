----------------------------- MODULE MCAxisRle -----------------------------
(***************************************************************************)
(* The stream encoder on a small instance: run words of two bits' count.    *)
(***************************************************************************)
EXTENDS AxisRle

CONSTANT NSAMPLES

MCSamples  == 1 .. NSAMPLES
MCControls == {<<FALSE, TRUE>>, <<TRUE, TRUE>>, <<FALSE, FALSE>>}
=============================================================================
