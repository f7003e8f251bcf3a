----------------------------- MODULE UeReporting -----------------------------
(***************************************************************************)
(* What the RRC of a UE promises the network, whatever it measures: one    *)
(* measurement report at a time.  After a report the UE stays silent until *)
(* it has been reconfigured or its guard timer has given the answer up,    *)
(* so that a report never crosses a reconfiguration of the same UE.        *)
(*                                                                         *)
(* A message takes 300 ms in each direction and the guard 1500 ms, so the  *)
(* guard expires when neither a report nor a command is under way.         *)
(***************************************************************************)
EXTENDS ServiceObjects

VARIABLES
  serving,  (* m_servingObject of each UE, 0 for none                      *)
  pending,  (* m_handoverPending, the guard timer runs                     *)
  flight    (* the report or the command under way for each UE             *)

reportingVars == <<serving, pending, flight>>

Report(from, to) == [kind |-> "report", from |-> from, to |-> to]
Command(from, to) == [kind |-> "command", from |-> from, to |-> to]

Message ==
  [kind : {"nothing", "report", "command"}, from : Object \cup {0}, to : Object \cup {0}]

Init ==
  /\ serving \in [Ue -> Object \cup {0}]
  /\ pending = [u \in Ue |-> FALSE]
  /\ flight = [u \in Ue |-> Nothing]

-----------------------------------------------------------------------------

(* The first object a UE measures becomes its serving object. *)
Adopt(u, o) ==
  /\ serving[u] = 0
  /\ serving' = [serving EXCEPT ![u] = o]
  /\ UNCHANGED <<pending, flight>>

(* A UE reports an object it would rather be served by. *)
SendReport(u, o) ==
  /\ serving[u] \notin {0, o}
  /\ ~pending[u]
  /\ flight[u] = Nothing
  /\ pending' = [pending EXCEPT ![u] = TRUE]
  /\ flight' = [flight EXCEPT ![u] = Report(serving[u], o)]
  /\ UNCHANGED serving

(* The network answers with a command, or not at all. *)
Answer(u) ==
  /\ flight[u].kind = "report"
  /\ flight' \in {[flight EXCEPT ![u] = Nothing],
                  [flight EXCEPT ![u] = Command(@.from, @.to)]}
  /\ UNCHANGED <<serving, pending>>

(* SetServingObject: the command is applied and the guard stopped. *)
Reconfigure(u) ==
  /\ flight[u].kind = "command"
  /\ serving' = [serving EXCEPT ![u] = flight[u].to]
  /\ pending' = [pending EXCEPT ![u] = FALSE]
  /\ flight' = [flight EXCEPT ![u] = Nothing]

(* The guard timer expires. *)
GiveUp(u) ==
  /\ pending[u]
  /\ flight[u] = Nothing
  /\ pending' = [pending EXCEPT ![u] = FALSE]
  /\ UNCHANGED <<serving, flight>>

Next ==
  \E u \in Ue :
    \/ \E o \in Object : Adopt(u, o) \/ SendReport(u, o)
    \/ Answer(u)
    \/ Reconfigure(u)
    \/ GiveUp(u)

Spec == Init /\ [][Next]_reportingVars
=============================================================================
