----------------------------- MODULE MCLiveView -----------------------------
(* A small instance of LiveView for TLC: a span with raw samples and one that *)
(* is downsampled, a retention that is shorter than the longer one.           *)
EXTENDS LiveView

MCSpans == {2, 4}
=============================================================================
