----------------------------- MODULE GuestSlots -----------------------------
(***************************************************************************)
(* What a guest agent promises the broker about its slots: one execution   *)
(* per slot, an execution id on one slot at a time, and nothing new once   *)
(* it drains.  This is the guest the runner pool's dispatches rely on.     *)
(***************************************************************************)
CONSTANTS Slots, Ids, None

VARIABLES
  occupant,  \* occupant[s]: the execution running on slot s
  refusing   \* the agent drains

slotVars == <<occupant, refusing>>

Init == occupant = [s \in Slots |-> None] /\ refusing = FALSE

Begin(s, i) ==
  /\ ~refusing
  /\ occupant[s] = None
  /\ \A t \in Slots : occupant[t] # i
  /\ occupant' = [occupant EXCEPT ![s] = i]
  /\ UNCHANGED refusing

End(s) ==
  /\ occupant[s] # None
  /\ occupant' = [occupant EXCEPT ![s] = None]
  /\ UNCHANGED refusing

Refuse == refusing' = TRUE /\ UNCHANGED occupant

Next ==
  \/ \E s \in Slots : End(s) \/ \E i \in Ids : Begin(s, i)
  \/ Refuse

Spec == Init /\ [][Next]_slotVars
=============================================================================
