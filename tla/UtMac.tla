-------------------------------- MODULE UtMac --------------------------------
(***************************************************************************)
(* The data path of a connected UE's MAC (model/sat-ut-mac.cc): its state, *)
(* what its buffer holds, the flag that a scheduling request is out, and   *)
(* the calls it has left with the simulator.  The operations are functions *)
(* of that record; what they send is for the module that uses them.        *)
(***************************************************************************)
EXTENDS Naturals

(* `grants` counts the scheduled DoTransmit calls, `receptions` those of   *)
(* ReceiveData and `ends` those of SwitchState (MAC_CONNECTED).            *)
Mac == [state : {"connected", "tx", "rx"}, buffer : Nat, srPending : BOOLEAN,
        grants : Nat, receptions : Nat, ends : Nat]

IdleMac == [state |-> "connected", buffer |-> 0, srPending |-> FALSE,
            grants |-> 0, receptions |-> 0, ends |-> 0]

RequestsGrant(mac) == mac.state = "connected" /\ ~mac.srPending

NotifyDataBuffered(mac, bytes) ==
  [mac EXCEPT !.buffer = @ + bytes, !.srPending = @ \/ RequestsGrant(mac)]

ProcessUplinkDci(mac) == [mac EXCEPT !.state = "tx", !.grants = @ + 1]

ProcessDownlinkDci(mac) == [mac EXCEPT !.state = "rx", !.receptions = @ + 1]

(* All of the buffer goes, whatever the grant would carry, and a padding   *)
(* packet when there is nothing.                                           *)
PduBytes(mac, padding) == IF mac.buffer > 0 THEN mac.buffer ELSE padding

DoTransmit(mac) ==
  [mac EXCEPT !.state = "tx", !.buffer = 0, !.grants = @ - 1, !.ends = @ + 1]

ReceiveData(mac) ==
  [mac EXCEPT !.state = "rx", !.receptions = @ - 1, !.ends = @ + 1]

(* The end of one transfer, even if another is under way.                  *)
SwitchState(mac) == [mac EXCEPT !.state = "connected", !.ends = @ - 1]
=============================================================================
