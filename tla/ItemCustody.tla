----------------------------- MODULE ItemCustody -----------------------------
(***************************************************************************)
(* What the server promises about items: each lies in its world, or is in  *)
(* somebody's inventory, or does not exist, and never two of these at once *)
(* (item_transfer.rs: a pickup or drop is one atomic change of form).      *)
(* Anyone may pick up what lies about; what is in an inventory comes out   *)
(* of it only as its holder's.                                             *)
(***************************************************************************)
CONSTANTS Items, Holder

VARIABLE custody   \* where each item is

Places == {"nowhere"} \X {0} \cup {"lying", "carried"} \X Holder

CustodyTypeOK == custody \in [Items -> Places]

Init == custody = [i \in Items |-> <<"nowhere", 0>>]

\* An item comes into being or is gone.
Appears(i) == custody[i][1] = "nowhere"
Vanishes(i) == custody'[i] = <<"nowhere", 0>>

PickedUp(i) == custody[i][1] = "lying" /\ custody'[i][1] = "carried"

Dropped(i) ==
  /\ custody[i][1] = "carried"
  /\ custody'[i] = <<"lying", custody[i][2]>>

\* Several items may vanish in one step, when a player leaves its world.
Next ==
  /\ custody' \in [Items -> Places]
  /\ \A i \in Items :
       \/ custody'[i] = custody[i]
       \/ Appears(i)
       \/ Vanishes(i)
       \/ PickedUp(i)
       \/ Dropped(i)

Spec == Init /\ [][Next]_custody
=============================================================================
