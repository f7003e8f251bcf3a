---------------------------- MODULE RlcDelivery ----------------------------
(***************************************************************************)
(* What an RLC bearer promises to PDCP.  SDUs come out of the receiving    *)
(* entity in the order in which they went into the transmitting one, each  *)
(* at most once.  In acknowledged mode (AM) none is skipped either; in     *)
(* unacknowledged mode (UM) an SDU that is overtaken is given up.  An SDU  *)
(* is named by its position in the submission order, 1 .. sent.            *)
(***************************************************************************)
EXTENDS Naturals, Sequences

CONSTANTS
  MaxSdu,          (* Bound: SDUs submitted to the bearer.     *)
  Modes            (* The modes a bearer is configured with.   *)

VARIABLES
  mode,            (* "UM" or "AM", fixed per bearer           *)
  sent,            (* how many SDUs PDCP has submitted         *)
  delivered        (* the SDUs handed up, in order of arrival  *)

vars == <<mode, sent, delivered>>

Init ==
  /\ mode \in Modes
  /\ sent = 0
  /\ delivered = << >>

Submit ==
  /\ sent < MaxSdu
  /\ sent' = sent + 1
  /\ UNCHANGED <<mode, delivered>>

(* AM: filling one gap may release several buffered SDUs in a single step. *)
DeliverNext(n) ==
  /\ mode = "AM"
  /\ delivered' = delivered \o [i \in 1..n |-> Len(delivered) + i]
  /\ UNCHANGED <<mode, sent>>

(* UM: any SDU later than all those delivered so far. *)
DeliverLater(sdu) ==
  /\ mode = "UM"
  /\ \A i \in 1..Len(delivered) : delivered[i] < sdu
  /\ delivered' = Append(delivered, sdu)
  /\ UNCHANGED <<mode, sent>>

Next ==
  \/ Submit
  \/ \E n \in 1..(sent - Len(delivered)) : DeliverNext(n)
  \/ \E sdu \in 1..sent : DeliverLater(sdu)

Spec == Init /\ [][Next]_vars
=============================================================================
