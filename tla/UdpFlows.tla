------------------------------ MODULE UdpFlows ------------------------------
(***************************************************************************)
(* The flows the generator drives itself (helper/traffic-models.cc): the   *)
(* two legs of a VoIP session, which take turns to talk, and a full-buffer *)
(* flow.  A flow runs from its start to the end of the window or a reset;  *)
(* its driver sends a packet and schedules itself.  The legs share the     *)
(* state of their session and each advances it when it wakes.              *)
(*                                                                         *)
(* Times are counted down to from now, in units; spurts and gaps take at   *)
(* least one.  Packets, RTP headers and byte counts are left out.          *)
(***************************************************************************)
EXTENDS TrafficRate, Functions, FiniteSets

CONSTANTS
  FrameInterval, SilenceInterval,  (* Of a leg that talks, and of one that does not. *)
  Talk, Gap,                       (* What talk spurts and turn gaps may take. *)
  FullBufferInterval               (* baseInterval of a full-buffer flow. *)

UdpAssumption ==
  /\ {FrameInterval, SilenceInterval, FullBufferInterval} \subseteq Nat \ {0}
  /\ Talk \subseteq Nat \ {0} /\ Gap \subseteq Nat \ {0} /\ Talk # {} /\ Gap # {}

VARIABLES
  installed,   (* The flows that were installed: legs "A", "B", or "F". *)
  flows,       (* m_flows: [started, active, wake, voiceActive] of each. *)
  session,     (* VoipSessionState *)
  multiplier,  (* m_currentRateMultiplier *)
  reports      (* Queue reports left. *)

vars == <<installed, flows, session, multiplier, reports>>

(* InstallVoipRtp, between two nodes or within one; InstallFullBuffer. *)
Init ==
  /\ installed \in {{"A"}, {"A", "B"}, {"F"}}
  /\ flows = [f \in installed |->
                [started |-> FALSE, active |-> FALSE, wake |-> 0, voiceActive |-> TRUE]]
  /\ session = [legATalking |-> TRUE, inMutualSilence |-> FALSE,
                primed |-> FALSE, stateChange |-> 0, advancedNow |-> FALSE]

-----------------------------------------------------------------------------
(* PrimeVoipSession: the first spurt begins when a leg first runs. *)
Primed(s, talk) ==
  IF s.primed THEN s ELSE [s EXCEPT !.primed = TRUE, !.stateChange = talk]

(* Faulty variant: after a gap the same leg talks on. *)
TurnedBack(s, talk, gap) ==
  IF s.inMutualSilence
  THEN [s EXCEPT !.inMutualSilence = FALSE, !.stateChange = talk]
  ELSE [s EXCEPT !.inMutualSilence = TRUE, !.stateChange = gap]

(* One turn of the loop: talk, mutual silence, talk of the other leg. *)
Turned(s, talk, gap) ==
  IF s.inMutualSilence
  THEN [s EXCEPT !.inMutualSilence = FALSE, !.legATalking = ~@, !.stateChange = talk]
  ELSE [s EXCEPT !.inMutualSilence = TRUE, !.stateChange = gap]

(* AdvanceVoipSession, idempotent within an instant. *)
AdvanceVoipSession(s, talk, gap) ==
  LET p == Primed(s, talk) IN
  IF p.advancedNow THEN p
  ELSE [(IF p.stateChange <= 0 THEN Turned(p, talk, gap) ELSE p) EXCEPT !.advancedNow = TRUE]

Talks(f, s) == ~s.inMutualSilence /\ ((f = "A") = s.legATalking)

(* Faulty variant: a leg sleeps through a change of the session. *)
NextWakePaced(voiceActive, s) == IF voiceActive THEN FrameInterval ELSE SilenceInterval

NextWake(voiceActive, s) ==
  Smaller(IF voiceActive THEN FrameInterval ELSE SilenceInterval, s.stateChange)

(* FlowState::driver of a VoIP leg and of a full-buffer flow. *)
Driver(f) ==
  \/ /\ f # "F"
     /\ \E talk \in Talk, gap \in Gap :
          session' = AdvanceVoipSession(session, talk, gap)
     /\ LET voice == Talks(f, session') IN
        flows' = [flows EXCEPT ![f] =
                    [started |-> TRUE, active |-> TRUE, voiceActive |-> voice,
                     wake |-> NextWake(voice, session')]]
  \/ /\ f = "F"
     /\ flows' = [flows EXCEPT ![f] =
                    [started |-> TRUE, active |-> TRUE, voiceActive |-> TRUE,
                     wake |-> ScaledInterval(FullBufferInterval, multiplier)]]
     /\ UNCHANGED session

-----------------------------------------------------------------------------
(* Actions. *)

(* StartCallback, at m_appStartTime. *)
Start(f) ==
  /\ ~flows[f].started
  /\ Driver(f)
  /\ UNCHANGED <<installed, multiplier, reports>>

(* The driver as it scheduled itself. *)
Wake(f) ==
  /\ flows[f].active /\ flows[f].wake = 0
  /\ Driver(f)
  /\ UNCHANGED <<installed, multiplier, reports>>

(* StopCallback, at m_appStopTime, with PruneInactiveFlows: what is driven *)
(* later finds its flow gone. *)
Stop(f) ==
  /\ flows[f].started
  /\ flows' = Restrict(flows, DOMAIN flows \ {f})
  /\ UNCHANGED <<installed, session, multiplier, reports>>

ResetStats ==
  /\ flows # <<>>
  /\ flows' = <<>>
  /\ multiplier' = 100
  /\ UNCHANGED <<installed, session, reports>>

ReportQueueUtilization ==
  /\ reports > 0
  /\ reports' = reports - 1
  /\ \E level \in Levels : multiplier' = Adjusted(multiplier, level)
  /\ UNCHANGED <<installed, flows, session>>

(* All flows start, and stop, at the same time; nobody oversleeps. *)
Elapse ==
  /\ DOMAIN flows = installed
  /\ \A f \in installed : flows[f].active /\ flows[f].wake > 0
  /\ flows' = [f \in installed |-> [flows[f] EXCEPT !.wake = @ - 1]]
  /\ session' = [session EXCEPT !.advancedNow = FALSE,
                   !.stateChange = IF session.primed THEN @ - 1 ELSE @]
  /\ UNCHANGED <<installed, multiplier, reports>>

Next ==
  \/ \E f \in DOMAIN flows : Start(f) \/ Wake(f) \/ Stop(f)
  \/ ResetStats \/ ReportQueueUtilization \/ Elapse

-----------------------------------------------------------------------------
(* Properties. *)

TypeOK ==
  /\ installed \subseteq {"A", "B", "F"} /\ DOMAIN flows \subseteq installed
  /\ \A f \in DOMAIN flows :
       flows[f] \in [started : BOOLEAN, active : BOOLEAN, voiceActive : BOOLEAN, wake : Nat]
  /\ session.stateChange \in Nat
  /\ multiplier \in 50..300

(* "Both legs see the very same state at a change of turn, none has        *)
(* switched while the other has not": once every leg that is due has run,  *)
(* each sends what the session says of it; and never do both talk.         *)
LegsAgree ==
  LET legs == DOMAIN flows \cap {"A", "B"} IN
  /\ (\A f \in legs : flows[f].active /\ flows[f].wake > 0)
       => \A f \in legs : flows[f].voiceActive = Talks(f, session)
  /\ legs = {"A", "B"} /\ (\A f \in legs : flows[f].started)
       => ~(flows["A"].voiceActive /\ flows["B"].voiceActive)

(* While the session goes on each leg gets its turn to talk again and      *)
(* again.                                                                  *)
TurnsAlternate ==
  LET gone(f) == DOMAIN flows # installed \/ f \notin installed
  IN \A f \in {"A", "B"} :
       ~gone(f) ~> (gone(f) \/ (flows[f].started /\ flows[f].voiceActive))
=============================================================================
