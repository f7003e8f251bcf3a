---------------------------- MODULE ServiceObjects ----------------------------
(***************************************************************************)
(* The objects that can serve a UE (model/sat-mac-common.h,                *)
(* ServiceObjectId): ground cells and beams, told apart by their numbers.  *)
(***************************************************************************)
EXTENDS Naturals

CONSTANTS
  Ue,       (* The UEs.                                                    *)
  Ground,   (* Ground cells, numbered.                                     *)
  Beam      (* Beams, numbered after the ground cells.                     *)

ASSUME ObjectAssumption ==
  /\ Ground \subseteq Nat \ {0}
  /\ Beam \subseteq Nat \ {0}
  /\ \A g \in Ground, b \in Beam : g < b

Object == Ground \cup Beam

(* The absence of a message to or from a UE.                               *)
Nothing == [kind |-> "nothing", from |-> 0, to |-> 0]
=============================================================================
