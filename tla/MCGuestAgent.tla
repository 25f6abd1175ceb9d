---------------------------- MODULE MCGuestAgent ----------------------------
(* A small instance of the guest agent for TLC. *)
EXTENDS GuestAgent, TLC

\* Three calls on two slots: an id that turns up on both, and a second
\* execution sent to the first of them.
CONSTANTS c1, c2, c3, i1, i2
SplitIds   == c1 :> i1 @@ c2 :> i1 @@ c3 :> i2
SplitSlots == c1 :> 0 @@ c2 :> 1 @@ c3 :> 0
=============================================================================
