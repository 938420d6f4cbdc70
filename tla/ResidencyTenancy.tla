-------------------------- MODULE ResidencyTenancy --------------------------
(***************************************************************************)
(* Residency, used in turns, implements Tenancy: a move happens at the tap *)
(* on Save, when its writes are issued.  The abstract state is the         *)
(* database as it will be when the writes still on their way are applied.  *)
(***************************************************************************)
EXTENDS Residency

Abstract == INSTANCE Tenancy WITH
  lives <- [u \in Users |-> Ahead.users[u].house],
  open <- {h \in Houses : Ahead.houses[h] # NoHouse}

(* Used in turns, saving in PickHouse and NewHouse is one atomic move, and *)
(* nothing else (loads, the schedule's upkeep, ending the app) moves       *)
(* anybody or opens or closes a house.                                     *)
MovesAreAtomic == Abstract!Spec
=============================================================================
