-------------------------------- MODULE UtRrc --------------------------------
(***************************************************************************)
(* The RRC of a UE (model/sat-ut-rrc.cc): measurements of ground cells and *)
(* beams, the A3 event with its time to trigger and minimum dwell time,    *)
(* emergency reports when the serving object is unavailable, the guard     *)
(* against duplicate handovers, and the connection states with inactivity  *)
(* timer and paging.  The network (examples/ntn-nr-ground-handover-demo.cc *)
(* wires it) answers a report with a command or not at all.                *)
(*                                                                         *)
(* A filtered metric is one of a few levels, 0 is -140 dBm, not measured.  *)
(***************************************************************************)
EXTENDS ServiceObjects

CONSTANTS
  MaxLevel,   (* Highest level of a metric.                                *)
  Hysteresis  (* Levels between serving and neighbour for A3: a3Offset     *)
              (* plus hysteresis.                                          *)

ASSUME UtRrcAssumption ==
  /\ MaxLevel \in Nat
  /\ Hysteresis \in Nat

VARIABLES
  rrc,     (* measurement control of each UE                               *)
  state,   (* m_state                                                      *)
  inactivityTimer,  (* m_inactivityTimer is running                        *)
  paged,            (* m_pagingReceivedTime is set                         *)
  signal   (* the report or the command under way for each UE              *)

connectionVars == <<state, inactivityTimer, paged>>
rrcVars == <<rrc, connectionVars, signal>>

Level == 0..MaxLevel

(* m_tttEvent is running iff `ttt`, the guard timer iff `pending`.  `dwelt` *)
(* is HasSatisfiedMinDwellTime.  m_isConditionMet is written only.         *)
Rrc ==
  [serving : Object \cup {0}, metric : [Object -> Level],
   groundAvailable : BOOLEAN, satelliteAvailable : BOOLEAN, dwelt : BOOLEAN,
   tttCandidate : Object \cup {0}, ttt : BOOLEAN,
   lastReported : Object \cup {0}, pending : BOOLEAN]

(* IDLE_CELL_SEARCH, CONNECTED_HANDOVER and CONNECTED_PHY_PROBLEM are       *)
(* declared but no code enters them.                                       *)
State == {"IDLE_START", "IDLE_CAMPED_NORMALLY", "IDLE_RANDOM_ACCESS",
          "CONNECTED_NORMALLY", "RRC_INACTIVE"}

RrcInit ==
  /\ \E o \in Object \cup {0} :
       rrc = [u \in Ue |->
                [serving |-> o, metric |-> [p \in Object |-> 0],
                 groundAvailable |-> TRUE, satelliteAvailable |-> TRUE, dwelt |-> FALSE,
                 tttCandidate |-> 0, ttt |-> FALSE, lastReported |-> 0, pending |-> FALSE]]
  /\ state = [u \in Ue |-> "IDLE_START"]
  /\ inactivityTimer = [u \in Ue |-> FALSE]
  /\ paged = [u \in Ue |-> FALSE]
  /\ signal = [u \in Ue |-> Nothing]

-----------------------------------------------------------------------------
(* What a UE knows of the objects.                                         *)

IsObjectAvailable(r, o) ==
  \/ o \in Ground /\ r.groundAvailable
  \/ o \in Beam /\ r.satelliteAvailable

GetFilteredMetric(r, o) == IF o = 0 THEN 0 ELSE r.metric[o]

(* The measured, available object with the best metric, the first in the  *)
(* order of the map among equals; 0 if there is none.                      *)
FindBestNeighborObject(r) ==
  LET neighbors == {o \in Object \ {r.serving} : r.metric[o] > 0 /\ IsObjectAvailable(r, o)}
      best == {o \in neighbors : \A p \in neighbors : r.metric[p] <= r.metric[o]}
  IN IF best = {} THEN 0 ELSE CHOOSE o \in best : \A p \in best : o <= p

A3ConditionMet(r, o) ==
  o # 0 /\ GetFilteredMetric(r, o) >= GetFilteredMetric(r, r.serving) + Hysteresis

-----------------------------------------------------------------------------
(* Evaluation and report.  Each operator yields the new state of the UE    *)
(* and what it sends.                                                      *)

Quiet(r) == [rrc |-> r, sent |-> Nothing]

StopTtt(r) == [r EXCEPT !.ttt = FALSE, !.tttCandidate = 0]

(* Faulty variant: the guard is not set. *)
SendUnguarded(r, o) ==
  [rrc |-> [r EXCEPT !.lastReported = o],
   sent |-> [kind |-> "report", from |-> r.serving, to |-> o]]

(* The report leaves and the UE waits, at most for the guard time. *)
Send(r, o) ==
  [rrc |-> [r EXCEPT !.lastReported = o, !.pending = TRUE],
   sent |-> [kind |-> "report", from |-> r.serving, to |-> o]]

(* The candidate of the time to trigger, or the best neighbour without one, *)
(* is reported if the reason to report it still holds.                     *)
TriggerMeasurementReport(r) ==
  LET candidate == IF r.tttCandidate # 0 THEN r.tttCandidate ELSE FindBestNeighborObject(r)
      stillValid == IF IsObjectAvailable(r, r.serving)
                    THEN /\ candidate = FindBestNeighborObject(r)
                         /\ r.dwelt
                         /\ A3ConditionMet(r, candidate)
                    ELSE TRUE
  IN IF r.serving = 0
     THEN Quiet(r)
     ELSE IF stillValid /\ IsObjectAvailable(r, candidate)
     THEN Send(r, candidate)
     ELSE Quiet([r EXCEPT !.tttCandidate = 0])

(* Without service the best neighbour is reported at once, unless it is    *)
(* the one that has been reported.                                         *)
EvaluateEmergency(r) ==
  LET best == FindBestNeighborObject(r)
  IN IF best \notin {0, r.lastReported}
     THEN TriggerMeasurementReport([StopTtt(r) EXCEPT !.tttCandidate = best])
     ELSE Quiet(StopTtt(r))

(* Faulty variant: a candidate that is followed keeps its time to trigger. *)
EvaluateA3Sticky(r) ==
  LET best == FindBestNeighborObject(r)
  IN IF A3ConditionMet(r, best) /\ r.dwelt
     THEN Quiet([r EXCEPT !.ttt = TRUE, !.tttCandidate = IF r.ttt THEN @ ELSE best])
     ELSE Quiet(StopTtt(r))

(* A3 for the best neighbour starts the time to trigger, or restarts it   *)
(* for another one; without A3 it stops.                                   *)
EvaluateA3(r) ==
  LET best == FindBestNeighborObject(r)
  IN IF A3ConditionMet(r, best) /\ r.dwelt
     THEN Quiet([r EXCEPT !.ttt = TRUE, !.tttCandidate = best])
     ELSE Quiet(StopTtt(r))

EvaluateMeasurementEvents(r) ==
  IF r.serving = 0 \/ r.pending
  THEN Quiet(r)
  ELSE IF ~IsObjectAvailable(r, r.serving)
  THEN EvaluateEmergency(r)
  ELSE EvaluateA3(r)

(* The UE takes on what an evaluation yields. *)
Apply(u, result) ==
  /\ rrc' = [rrc EXCEPT ![u] = result.rrc]
  /\ signal' = IF result.sent = Nothing
               THEN signal
               ELSE [signal EXCEPT ![u] = result.sent]
  /\ UNCHANGED connectionVars

-----------------------------------------------------------------------------
(* Measurement control.                                                    *)

(* The first sample is the metric, a later one moves it towards itself. *)
Filtered(old, raw) ==
  IF old = 0 THEN {raw}
  ELSE {level \in Level : (old <= level /\ level <= raw) \/ (raw <= level /\ level <= old)}

(* ProcessRawMeasurement: the metric is filtered, a first object adopted. *)
Measure(u, o, raw) ==
  \E level \in Filtered(rrc[u].metric[o], raw) :
    LET r == [rrc[u] EXCEPT !.metric[o] = level,
                            !.serving = IF @ = 0 THEN o ELSE @]
    IN Apply(u, EvaluateMeasurementEvents(r))

SetGroundAvailabilityOf(u) ==
  Apply(u, EvaluateMeasurementEvents([rrc[u] EXCEPT !.groundAvailable = ~@]))

SetSatelliteAvailability(u) ==
  Apply(u, EvaluateMeasurementEvents([rrc[u] EXCEPT !.satelliteAvailable = ~@]))

(* The minimum dwell time has passed. *)
Dwell(u) ==
  /\ rrc[u].serving # 0 /\ ~rrc[u].dwelt
  /\ Apply(u, Quiet([rrc[u] EXCEPT !.dwelt = TRUE]))

TttExpires(u) ==
  /\ rrc[u].ttt
  /\ Apply(u, TriggerMeasurementReport([rrc[u] EXCEPT !.ttt = FALSE]))

(* Faulty variant: the guard stays set. *)
GuardStuck(r) == r

GuardCleared(r) == [r EXCEPT !.pending = FALSE]

GuardExpires(u) ==
  /\ rrc[u].pending /\ signal[u] = Nothing
  /\ Apply(u, Quiet(GuardCleared(rrc[u])))

(* Another serving object: time to trigger, last report and guard reset. *)
SetServingObject(r, o) ==
  IF r.serving = o
  THEN r
  ELSE [StopTtt(r) EXCEPT !.serving = o, !.dwelt = FALSE, !.lastReported = 0,
                          !.pending = FALSE]

(* The command arrives. *)
TakeOn(u) ==
  /\ signal[u].kind = "command"
  /\ rrc' = [rrc EXCEPT ![u] = SetServingObject(@, signal[u].to)]
  /\ signal' = [signal EXCEPT ![u] = Nothing]
  /\ UNCHANGED connectionVars

(* The network has the report: it sends a command for the reported object, *)
(* or nothing.                                                             *)
Decide(u) ==
  /\ signal[u].kind = "report"
  /\ signal' \in {[signal EXCEPT ![u] = Nothing], [signal EXCEPT ![u].kind = "command"]}
  /\ UNCHANGED <<rrc, connectionVars>>

-----------------------------------------------------------------------------
(* Connection states.                                                      *)

(* CONNECTED_NORMALLY ends a wait after paging and starts the timer, any   *)
(* other state stops it.                                                   *)
Switch(u, newState) ==
  /\ newState # state[u]
  /\ state' = [state EXCEPT ![u] = newState]
  /\ paged' = [paged EXCEPT ![u] = @ /\ newState # "CONNECTED_NORMALLY"]
  /\ inactivityTimer' = [inactivityTimer EXCEPT ![u] = (newState = "CONNECTED_NORMALLY")]
  /\ UNCHANGED <<rrc, signal>>

(* SwitchToState by the upper layers. *)
SwitchToState(u) == \E newState \in State : Switch(u, newState)

InactivityTimeout(u) == inactivityTimer[u] /\ Switch(u, "RRC_INACTIVE")

(* SendPaging of the gateway reaches the UE at once. *)
ReceivePagingMessage(u) ==
  /\ state[u] \in {"RRC_INACTIVE", "IDLE_CAMPED_NORMALLY"}
  /\ state' = [state EXCEPT ![u] = "IDLE_RANDOM_ACCESS"]
  /\ paged' = [paged EXCEPT ![u] = TRUE]
  /\ UNCHANGED <<rrc, signal, inactivityTimer>>

-----------------------------------------------------------------------------

RrcNext ==
  \E u \in Ue :
    \/ \E o \in Object, raw \in 1..MaxLevel : Measure(u, o, raw)
    \/ SetGroundAvailabilityOf(u) \/ SetSatelliteAvailability(u)
    \/ Dwell(u) \/ TttExpires(u) \/ GuardExpires(u)
    \/ Decide(u) \/ TakeOn(u)
    \/ SwitchToState(u) \/ InactivityTimeout(u) \/ ReceivePagingMessage(u)

(* Every object that has been measured is sampled again and again, so what *)
(* an evaluation of the metrics as they are would do is done; timers       *)
(* expire; messages arrive and are handled.  The network need not answer   *)
(* with a command, and metrics need not change.                            *)
RrcFairness ==
  \A u \in Ue :
    /\ \A o \in Object :
         WF_rrcVars(rrc[u].metric[o] > 0 /\ Measure(u, o, rrc[u].metric[o]))
    /\ WF_rrcVars(Dwell(u)) /\ WF_rrcVars(TttExpires(u)) /\ WF_rrcVars(GuardExpires(u))
    /\ WF_rrcVars(Decide(u)) /\ WF_rrcVars(TakeOn(u))

RrcSpec == RrcInit /\ [][RrcNext]_rrcVars
RrcFairSpec == RrcSpec /\ RrcFairness

-----------------------------------------------------------------------------
(* Properties.                                                             *)

(* The variables have the values their C++ types and roles allow. *)
RrcTypeOK ==
  /\ rrc \in [Ue -> Rrc]
  /\ state \in [Ue -> State]
  /\ inactivityTimer \in [Ue -> BOOLEAN]
  /\ paged \in [Ue -> BOOLEAN]
  /\ signal \in [Ue -> [kind : {"nothing", "report", "command"},
                        from : Object \cup {0}, to : Object \cup {0}]]

(* The time to trigger runs for the object that is the best neighbour at   *)
(* this moment and meets A3: changes of metrics, of availability and of    *)
(* the serving object all reach it, so the report at its expiry is right.  *)
TttIsWarranted ==
  \A u \in Ue :
    LET r == rrc[u]
    IN r.ttt => /\ ~r.pending /\ r.dwelt
                /\ IsObjectAvailable(r, r.serving)
                /\ r.tttCandidate = FindBestNeighborObject(r)
                /\ A3ConditionMet(r, r.tttCandidate)

(* A UE whose connection is paged or idle burns no inactivity timer, one   *)
(* that is connected always has it running, and a page is remembered until *)
(* the UE is connected again.                                              *)
InactivityIsWatched ==
  \A u \in Ue :
    /\ inactivityTimer[u] <=> state[u] = "CONNECTED_NORMALLY"
    /\ paged[u] => state[u] # "CONNECTED_NORMALLY"

(* What runs in a UE over time runs for a reason that still holds: the     *)
(* time to trigger and the inactivity timer.                               *)
WatchesAreSound == TttIsWarranted /\ InactivityIsWatched

(* Seen from the network the UE is one that sends one report at a time and *)
(* waits for its answer (sat-ut-rrc.h: "Prevents duplicate handovers").    *)
Reporting == INSTANCE UeReporting WITH
  serving <- [u \in Ue |-> rrc[u].serving],
  pending <- [u \in Ue |-> rrc[u].pending],
  flight <- signal

ImplementsReporting == Reporting!Spec

(* A UE for which the same neighbour stays better than the serving object  *)
(* reports it again and again: neither a refusal of the network nor the    *)
(* guard silences it.                                                      *)
A3Persists(u, o) ==
  LET r == rrc[u]
  IN /\ r.serving # 0 /\ IsObjectAvailable(r, r.serving)
     /\ FindBestNeighborObject(r) = o /\ A3ConditionMet(r, o)

A3ReportsRepeat ==
  \A u \in Ue, o \in Object :
    <>[]A3Persists(u, o) => []<>(signal[u].kind = "report")

(* A UE that stays without service while it measures an available          *)
(* neighbour reports again and again (sat-ut-rrc.cc:638: reports are       *)
(* suppressed "until reconfiguration is applied (SetServingObject) or the  *)
(* guard timeout elapses").                                                *)
IsWithoutService(u) ==
  LET r == rrc[u]
  IN /\ r.serving # 0 /\ ~IsObjectAvailable(r, r.serving)
     /\ FindBestNeighborObject(r) # 0

OutageReportsRepeat ==
  \A u \in Ue : <>[]IsWithoutService(u) => []<>(signal[u].kind = "report")
=============================================================================
