--------------------------- MODULE MCSlotProvision ---------------------------
(* A small instance of slot provisioning for TLC. *)
EXTENDS SlotProvision

AnyOccupant == {"absent", "baked", "link", "stuck"}
=============================================================================
