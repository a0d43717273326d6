---------------------------- MODULE MCBrowserReview ----------------------------
(* One completed run.  Two tabs show the first conversation and compete for its claims; no tab shows    *)
(* the second, where a request only waits.                                                              *)
EXTENDS BrowserReview

CONSTANTS b1, b2, t1, t2

BothFirst == [t \in Tabs |-> b1]
=============================================================================
