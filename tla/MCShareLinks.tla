---------------------------- MODULE MCShareLinks ----------------------------
(* Two requests of any kind and the sweep, over one or two links.           *)
EXTENDS ShareLinks

CONSTANTS l1, l2, r1, r2, sweep

MCOneLink  == {l1}
MCTwoLinks == {l1, l2}
MCRequest  == {r1, r2}

\* Requests are alike: the first one begins first.
InOrder == At(r1, "idle") => At(r2, "idle")

\* An overwritten record is followed without failures.
OneTrouble == overwritten => faults = 0
=============================================================================
