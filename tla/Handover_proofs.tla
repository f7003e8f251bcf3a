---------------------------- MODULE Handover_proofs ----------------------------
(***************************************************************************)
(* Theorems about UtRrc, for every number of UEs, objects and levels: what *)
(* runs in a UE runs for a reason, and the UE implements UeReporting; and  *)
(* about Handover, for every number of UEs, cells and beams and whatever   *)
(* admission control decides: the UEs keep to UeReporting, the gateway's   *)
(* record of the serving object is the UE's own, all records of where a UE *)
(* is agree until it is moved past the RRC, every UE registered is counted, *)
(* and balancing the load comes to an end.                                 *)
(***************************************************************************)
EXTENDS Handover, UtRrc, FiniteSetTheorems, WellFoundedInduction, TLAPS

LEMMA ZeroIsNoObject == 0 \notin Object
BY ObjectAssumption DEF Object

-----------------------------------------------------------------------------
(* The best neighbour.                                                     *)

(* A set of objects has a least member. *)
LEMMA LeastObject ==
  ASSUME NEW S \in SUBSET Object, S # {}
  PROVE  \E o \in S : \A p \in S : o <= p
<1>1. S \subseteq Nat
  BY ObjectAssumption DEF Object
<1>2. PICK o \in S : \A p \in S : ~ (<<p, o>> \in OpToRel(<, Nat))
  BY <1>1, NatLessThanWellFounded, WFMin
<1>3. \A p \in S : ~ (p < o)
  BY <1>1, <1>2 DEF OpToRel
<1>4. QED
  BY <1>1, <1>3

(* The neighbour found, if any, is a measured object other than the        *)
(* serving one, and available.                                             *)
LEMMA BestIsNeighbor ==
  ASSUME NEW r \in Rrc, FindBestNeighborObject(r) # 0
  PROVE  /\ FindBestNeighborObject(r) \in Object \ {r.serving}
         /\ IsObjectAvailable(r, FindBestNeighborObject(r))
         /\ r.metric[FindBestNeighborObject(r)] > 0
<1> DEFINE neighbors == {o \in Object \ {r.serving} : r.metric[o] > 0 /\ IsObjectAvailable(r, o)}
           best == {o \in neighbors : \A p \in neighbors : r.metric[p] <= r.metric[o]}
<1>1. best # {} /\ FindBestNeighborObject(r) = CHOOSE o \in best : \A p \in best : o <= p
  BY DEF FindBestNeighborObject
<1>2. best \in SUBSET Object
  OBVIOUS
<1> HIDE DEF best
<1>3. FindBestNeighborObject(r) \in best
  BY <1>1, <1>2, LeastObject
<1>4. QED
  BY <1>3 DEF best

(* What does not change serving object, metrics or availability changes no *)
(* judgement that rests on them.                                           *)
LEMMA SameView ==
  ASSUME NEW r \in Rrc, NEW s \in Rrc,
         s.serving = r.serving, s.metric = r.metric,
         s.groundAvailable = r.groundAvailable,
         s.satelliteAvailable = r.satelliteAvailable
  PROVE  /\ \A o : IsObjectAvailable(s, o) <=> IsObjectAvailable(r, o)
         /\ FindBestNeighborObject(s) = FindBestNeighborObject(r)
         /\ \A o : A3ConditionMet(s, o) <=> A3ConditionMet(r, o)
<1>1. \A o : IsObjectAvailable(s, o) <=> IsObjectAvailable(r, o)
  BY DEF IsObjectAvailable
<1>2. \A o : A3ConditionMet(s, o) <=> A3ConditionMet(r, o)
  BY DEF A3ConditionMet, GetFilteredMetric
<1> DEFINE neighbors(x) == {o \in Object \ {x.serving} : x.metric[o] > 0 /\ IsObjectAvailable(x, o)}
           best(x) == {o \in neighbors(x) : \A p \in neighbors(x) : x.metric[p] <= x.metric[o]}
<1>3. neighbors(s) = neighbors(r)
  BY <1>1
<1> HIDE DEF neighbors
<1>4. best(s) = best(r)
  BY <1>3
<1> DEFINE first(B) == IF B = {} THEN 0 ELSE CHOOSE o \in B : \A p \in B : o <= p
<1>5. /\ FindBestNeighborObject(r) = first(best(r))
      /\ FindBestNeighborObject(s) = first(best(s))
  BY DEF FindBestNeighborObject, neighbors
<1> HIDE DEF best, first
<1>6. FindBestNeighborObject(s) = FindBestNeighborObject(r)
  BY <1>4, <1>5
<1>7. QED
  BY <1>1, <1>2, <1>6

-----------------------------------------------------------------------------
(* What an evaluation does to a UE.                                        *)

(* TttIsWarranted of one UE. *)
Warranted(r) ==
  r.ttt => /\ ~r.pending /\ r.dwelt
           /\ IsObjectAvailable(r, r.serving)
           /\ r.tttCandidate = FindBestNeighborObject(r)
           /\ A3ConditionMet(r, r.tttCandidate)

SameObjects(r, s) ==
  /\ s.serving = r.serving /\ s.metric = r.metric
  /\ s.groundAvailable = r.groundAvailable
  /\ s.satelliteAvailable = r.satelliteAvailable

(* A report of another object leaves a UE that waits for none, or nothing  *)
(* leaves and it waits as before.                                          *)
Outcome(r, result) ==
  /\ result.rrc \in Rrc /\ SameObjects(r, result.rrc) /\ Warranted(result.rrc)
  /\ \/ result.sent = Nothing /\ result.rrc.pending = r.pending
     \/ /\ ~r.pending /\ r.serving # 0 /\ result.rrc.pending
        /\ \E o \in Object \ {r.serving} :
             result.sent = [kind |-> "report", from |-> r.serving, to |-> o]

LEMMA QuietOutcome ==
  ASSUME NEW r \in Rrc, NEW s \in Rrc, SameObjects(r, s), s.pending = r.pending, Warranted(s)
  PROVE  Outcome(r, Quiet(s))
BY DEF Outcome, Quiet

(* A time to trigger that stops is warranted. *)
LEMMA Stopped ==
  ASSUME NEW r \in Rrc
  PROVE  /\ StopTtt(r) \in Rrc /\ ~StopTtt(r).ttt
         /\ SameObjects(r, StopTtt(r)) /\ StopTtt(r).pending = r.pending
BY DEF StopTtt, Rrc, SameObjects

(* The report that the time to trigger or an outage leads to. *)
LEMMA TriggerOutcome ==
  ASSUME NEW r \in Rrc, ~r.ttt, ~r.pending,
         r.tttCandidate # 0 => r.tttCandidate = FindBestNeighborObject(r)
  PROVE  Outcome(r, TriggerMeasurementReport(r))
<1> DEFINE candidate == IF r.tttCandidate # 0 THEN r.tttCandidate ELSE FindBestNeighborObject(r)
           dropped == [r EXCEPT !.tttCandidate = 0]
<1>1. Outcome(r, Quiet(r))
  BY QuietOutcome DEF SameObjects, Warranted
<1>2. Outcome(r, Quiet(dropped))
  <2>1. dropped \in Rrc /\ SameObjects(r, dropped) /\ dropped.pending = r.pending /\ ~dropped.ttt
    BY DEF Rrc, SameObjects
  <2>2. QED
    BY <2>1, QuietOutcome DEF Warranted
<1>3. ASSUME IsObjectAvailable(r, candidate), r.serving # 0
      PROVE  Outcome(r, Send(r, candidate))
  <2>1. candidate \in Object \ {r.serving}
    <3>1. candidate = FindBestNeighborObject(r)
      OBVIOUS
    <3>2. candidate # 0
      BY <1>3, ZeroIsNoObject DEF IsObjectAvailable, Object
    <3>3. QED
      BY <3>1, <3>2, BestIsNeighbor
  <2> HIDE DEF candidate
  <2>2. Send(r, candidate).rrc \in Rrc
    BY <2>1 DEF Send, Rrc
  <2>3. /\ SameObjects(r, Send(r, candidate).rrc)
        /\ Warranted(Send(r, candidate).rrc)
        /\ Send(r, candidate).rrc.pending
        /\ Send(r, candidate).sent = [kind |-> "report", from |-> r.serving, to |-> candidate]
    BY DEF Send, SameObjects, Warranted, Rrc
  <2>4. QED
    BY <1>3, <2>1, <2>2, <2>3 DEF Outcome
<1>4. \/ TriggerMeasurementReport(r) \in {Quiet(r), Quiet(dropped)}
      \/ /\ IsObjectAvailable(r, candidate) /\ r.serving # 0
         /\ TriggerMeasurementReport(r) = Send(r, candidate)
  BY DEF TriggerMeasurementReport
<1>5. QED
  BY <1>1, <1>2, <1>3, <1>4

LEMMA EmergencyOutcome ==
  ASSUME NEW r \in Rrc, ~r.pending
  PROVE  Outcome(r, EvaluateEmergency(r))
<1> DEFINE best == FindBestNeighborObject(r)
           stopped == StopTtt(r)
           following == [stopped EXCEPT !.tttCandidate = best]
<1>1. Outcome(r, Quiet(stopped))
  BY Stopped, QuietOutcome DEF Warranted
<1>2. ASSUME best # 0
      PROVE  Outcome(r, TriggerMeasurementReport(following))
  <2>1. best \in Object
    BY <1>2, BestIsNeighbor
  <2>2. /\ following \in Rrc /\ SameObjects(r, following)
        /\ ~following.ttt /\ following.pending = r.pending /\ following.tttCandidate = best
    BY <2>1, Stopped DEF Rrc, SameObjects
  <2>3. FindBestNeighborObject(following) = best
    BY <2>2, SameView DEF SameObjects
  <2> HIDE DEF following
  <2>4. Outcome(following, TriggerMeasurementReport(following))
    BY <2>2, <2>3, TriggerOutcome
  <2>5. QED
    BY <2>2, <2>4 DEF Outcome, SameObjects
<1>3. \/ EvaluateEmergency(r) = Quiet(stopped)
      \/ best # 0 /\ EvaluateEmergency(r) = TriggerMeasurementReport(following)
  BY DEF EvaluateEmergency
<1>4. QED
  BY <1>1, <1>2, <1>3

LEMMA A3Outcome ==
  ASSUME NEW r \in Rrc, ~r.pending, IsObjectAvailable(r, r.serving)
  PROVE  Outcome(r, EvaluateA3(r))
<1> DEFINE best == FindBestNeighborObject(r)
           watching == [r EXCEPT !.ttt = TRUE, !.tttCandidate = best]
<1>1. Outcome(r, Quiet(StopTtt(r)))
  BY Stopped, QuietOutcome DEF Warranted
<1>2. ASSUME A3ConditionMet(r, best), r.dwelt
      PROVE  Outcome(r, Quiet(watching))
  <2>1. best \in Object
    BY <1>2, BestIsNeighbor DEF A3ConditionMet
  <2>2. /\ watching \in Rrc /\ SameObjects(r, watching) /\ watching.pending = r.pending
        /\ watching.dwelt /\ watching.tttCandidate = best
    BY <1>2, <2>1 DEF Rrc, SameObjects
  <2> HIDE DEF watching
  <2>3. Warranted(watching)
    BY <1>2, <2>2, SameView DEF Warranted, SameObjects
  <2>4. QED
    BY <2>2, <2>3, QuietOutcome
<1>3. \/ EvaluateA3(r) = Quiet(StopTtt(r))
      \/ A3ConditionMet(r, best) /\ r.dwelt /\ EvaluateA3(r) = Quiet(watching)
  BY DEF EvaluateA3
<1>4. QED
  BY <1>1, <1>2, <1>3

LEMMA EvaluationOutcome ==
  ASSUME NEW r \in Rrc, r.serving = 0 \/ r.pending => ~r.ttt
  PROVE  Outcome(r, EvaluateMeasurementEvents(r))
<1>1. CASE r.serving = 0 \/ r.pending
  BY <1>1, QuietOutcome DEF EvaluateMeasurementEvents, SameObjects, Warranted
<1>2. CASE r.serving # 0 /\ ~r.pending /\ ~IsObjectAvailable(r, r.serving)
  BY <1>2, EmergencyOutcome DEF EvaluateMeasurementEvents
<1>3. CASE r.serving # 0 /\ ~r.pending /\ IsObjectAvailable(r, r.serving)
  BY <1>3, A3Outcome DEF EvaluateMeasurementEvents
<1>4. QED
  BY <1>1, <1>2, <1>3

-----------------------------------------------------------------------------
(* The invariant.  A UE with a message under way waits for it, and the     *)
(* message speaks of its serving object and of another one; a UE without a *)
(* serving object has measured nothing.                                    *)

MessageType ==
  [kind : {"nothing", "report", "command"}, from : Object \cup {0}, to : Object \cup {0}]

Sound(r, message) ==
  /\ r \in Rrc /\ message \in MessageType
  /\ Warranted(r)
  /\ r.serving = 0 => \A o \in Object : r.metric[o] = 0
  /\ message # Nothing =>
       /\ r.pending /\ r.serving # 0
       /\ message.from = r.serving /\ message.to \in Object \ {r.serving}

ConnectionSound ==
  /\ state \in [Ue -> State]
  /\ inactivityTimer \in [Ue -> BOOLEAN]
  /\ paged \in [Ue -> BOOLEAN]
  /\ InactivityIsWatched

RrcSound ==
  /\ rrc \in [Ue -> Rrc] /\ signal \in [Ue -> MessageType]
  /\ \A u \in Ue : Sound(rrc[u], signal[u])

UtRrcInv == RrcSound /\ ConnectionSound

LEMMA UtRrcInvImplies == UtRrcInv => RrcTypeOK /\ WatchesAreSound
BY DEF UtRrcInv, RrcSound, Sound, Warranted, ConnectionSound, RrcTypeOK, MessageType,
       WatchesAreSound, TttIsWarranted

(* A step of one UE. *)
LEMMA StepSound ==
  ASSUME RrcSound, NEW u \in Ue, NEW r, NEW message, Sound(r, message),
         rrc' = [rrc EXCEPT ![u] = r], signal' = [signal EXCEPT ![u] = message]
  PROVE  RrcSound'
<1>1. rrc' \in [Ue -> Rrc] /\ signal' \in [Ue -> MessageType]
  BY DEF RrcSound, Sound
<1>2. \A v \in Ue : \/ rrc'[v] = rrc[v] /\ signal'[v] = signal[v]
                    \/ rrc'[v] = r /\ signal'[v] = message
  BY DEF RrcSound
<1>3. \A v \in Ue : Sound(rrc'[v], signal'[v])
  BY <1>2 DEF RrcSound
<1>4. QED
  BY <1>1, <1>3 DEF RrcSound

(* What the step of one UE looks like from the network. *)
LEMMA SeenFromNetwork ==
  ASSUME RrcSound, NEW u \in Ue, NEW r \in Rrc, rrc' = [rrc EXCEPT ![u] = r]
  PROVE  /\ [v \in Ue |-> rrc[v].serving]' = [[v \in Ue |-> rrc[v].serving] EXCEPT ![u] = r.serving]
         /\ [v \in Ue |-> rrc[v].pending]' = [[v \in Ue |-> rrc[v].pending] EXCEPT ![u] = r.pending]
BY DEF RrcSound

Stutters ==
  UNCHANGED <<[v \in Ue |-> rrc[v].serving], [v \in Ue |-> rrc[v].pending], signal>>

Implements == Reporting!Next \/ Stutters

(* An evaluation whose outcome a UE takes on. *)
LEMMA ApplyStep ==
  ASSUME RrcSound, NEW u \in Ue, NEW r \in Rrc, NEW result, Outcome(r, result),
         r.serving = rrc[u].serving, r.pending = rrc[u].pending,
         r.serving = 0 => \A o \in Object : r.metric[o] = 0,
         Apply(u, result)
  PROVE  RrcSound' /\ Implements
<1> DEFINE message == IF result.sent = Nothing THEN signal[u] ELSE result.sent
<1>1. Sound(rrc[u], signal[u]) /\ signal[u] \in MessageType
  BY DEF RrcSound
<1>2. /\ rrc' = [rrc EXCEPT ![u] = result.rrc]
      /\ signal' = [signal EXCEPT ![u] = message]
      /\ result.sent = Nothing => signal' = signal
  BY DEF Apply, RrcSound
<1>3. result.rrc \in Rrc /\ result.rrc.serving = r.serving /\ result.rrc.metric = r.metric
  BY DEF Outcome, SameObjects
<1>4. CASE result.sent = Nothing /\ result.rrc.pending = r.pending
  <2>1. Sound(result.rrc, message)
    BY <1>1, <1>3, <1>4 DEF Sound, Outcome
  <2>2. RrcSound'
    BY <1>2, <2>1, StepSound
  <2>3. Stutters
    BY <1>2, <1>3, <1>4, SeenFromNetwork DEF Stutters, RrcSound
  <2>4. QED
    BY <2>2, <2>3 DEF Implements
<1>5. ASSUME ~r.pending, r.serving # 0, result.rrc.pending,
             NEW o \in Object \ {r.serving},
             result.sent = [kind |-> "report", from |-> r.serving, to |-> o]
      PROVE  RrcSound' /\ Implements
  <2>1. message = [kind |-> "report", from |-> r.serving, to |-> o] /\ message # Nothing
    BY <1>5 DEF Nothing
  <2>2. message \in MessageType
    BY <2>1 DEF MessageType, Rrc
  <2>3. Sound(result.rrc, message)
    BY <1>3, <1>5, <2>1, <2>2 DEF Sound, Outcome
  <2>4. RrcSound'
    BY <1>2, <2>3, StepSound
  <2>5. signal[u] = Nothing
    BY <1>1, <1>5 DEF Sound
  <2>6. result.rrc.pending = TRUE
    BY <1>3, <1>5 DEF Rrc
  <2>7. Reporting!SendReport(u, o)
    <3>1. signal' = [signal EXCEPT ![u] = Reporting!Report(rrc[u].serving, o)]
      BY <1>2, <2>1 DEF Reporting!Report
    <3>2. [v \in Ue |-> rrc[v].pending]' = [[v \in Ue |-> rrc[v].pending] EXCEPT ![u] = TRUE]
      BY <1>2, <1>3, <2>6, SeenFromNetwork
    <3>3. UNCHANGED [v \in Ue |-> rrc[v].serving]
      BY <1>2, <1>3, SeenFromNetwork DEF RrcSound
    <3>4. QED
      BY <1>5, <2>5, <3>1, <3>2, <3>3
      DEF Reporting!SendReport, Reporting!Nothing, Nothing
  <2>8. Implements
    BY <1>5, <2>7 DEF Implements, Reporting!Next, Reporting!Object, Object
  <2>9. QED
    BY <2>4, <2>8
<1>6. QED
  BY <1>4, <1>5 DEF Outcome

-----------------------------------------------------------------------------
(* The actions.                                                            *)

(* What the invariant says of a UE before a step. *)
LEMMA Before ==
  ASSUME RrcSound, NEW u \in Ue
  PROVE  /\ rrc[u] \in Rrc /\ Sound(rrc[u], signal[u])
         /\ rrc[u].serving = 0 \/ rrc[u].pending => ~rrc[u].ttt
         /\ signal[u].kind # "nothing" => signal[u] # Nothing
BY ZeroIsNoObject DEF RrcSound, Sound, Warranted, IsObjectAvailable, Object, Nothing

(* The first object measured is adopted and nothing is reported. *)
LEMMA AdoptStep ==
  ASSUME RrcSound, NEW u \in Ue, NEW o \in Object, NEW level \in Level, rrc[u].serving = 0,
         NEW r, r = [rrc[u] EXCEPT !.metric = [@ EXCEPT ![o] = level], !.serving = o],
         Apply(u, EvaluateMeasurementEvents(r))
  PROVE  RrcSound' /\ Implements
<1> DEFINE result == EvaluateMeasurementEvents(r)
<1>1. /\ r \in Rrc /\ r.serving = o /\ r.pending = rrc[u].pending /\ r.ttt = rrc[u].ttt
      /\ \A p \in Object \ {o} : r.metric[p] = 0
  BY Before DEF Rrc, Sound
<1>2. Outcome(r, result)
  BY <1>1, Before, EvaluationOutcome
<1>3. FindBestNeighborObject(r) = 0
  <2>1. SUFFICES ASSUME FindBestNeighborObject(r) # 0 PROVE FALSE
    OBVIOUS
  <2>2. /\ FindBestNeighborObject(r) \in Object \ {o}
        /\ r.metric[FindBestNeighborObject(r)] > 0
    BY <1>1, <2>1, BestIsNeighbor
  <2>3. QED
    BY <1>1, <2>2
<1>4. result \in {Quiet(r), Quiet(StopTtt(r))}
  BY <1>3 DEF EvaluateMeasurementEvents, EvaluateEmergency, EvaluateA3, A3ConditionMet
<1> HIDE DEF result
<1>5. result.sent = Nothing /\ result.rrc.pending = rrc[u].pending
  <2>1. CASE result = Quiet(r)
    BY <1>1, <2>1 DEF Quiet
  <2>2. CASE result = Quiet(StopTtt(r))
    BY <1>1, <2>2, Stopped DEF Quiet
  <2>3. QED
    BY <1>4, <2>1, <2>2
<1>6. signal[u] = Nothing
  BY Before DEF Sound
<1>7. /\ rrc' = [rrc EXCEPT ![u] = result.rrc]
      /\ signal' = signal /\ signal' = [signal EXCEPT ![u] = Nothing]
  BY <1>5, <1>6 DEF Apply, RrcSound, result
<1>8. result.rrc \in Rrc /\ result.rrc.serving = o
  BY <1>1, <1>2 DEF Outcome, SameObjects
<1>9. Sound(result.rrc, Nothing)
  BY <1>2, <1>6, <1>8, ZeroIsNoObject, Before DEF Sound, Outcome
<1>10. RrcSound'
  BY <1>7, <1>9, StepSound
<1>11. Reporting!Adopt(u, o)
  <2>1. UNCHANGED [v \in Ue |-> rrc[v].pending]
    BY <1>5, <1>7, <1>8, SeenFromNetwork DEF RrcSound
  <2>2. [v \in Ue |-> rrc[v].serving]' = [[v \in Ue |-> rrc[v].serving] EXCEPT ![u] = o]
    BY <1>7, <1>8, SeenFromNetwork
  <2>3. QED
    BY <1>7, <2>1, <2>2 DEF Reporting!Adopt
<1>12. QED
  BY <1>10, <1>11 DEF Implements, Reporting!Next, Reporting!Object, Object

LEMMA MeasureStep ==
  ASSUME RrcSound, NEW u \in Ue, NEW o \in Object, NEW raw \in 1..MaxLevel, Measure(u, o, raw)
  PROVE  RrcSound' /\ Implements
<1>1. PICK level \in Filtered(rrc[u].metric[o], raw) :
        Apply(u, EvaluateMeasurementEvents(
                   [rrc[u] EXCEPT !.metric[o] = level, !.serving = IF @ = 0 THEN o ELSE @]))
  BY DEF Measure
<1> DEFINE r == [rrc[u] EXCEPT !.metric = [@ EXCEPT ![o] = level],
                               !.serving = IF @ = 0 THEN o ELSE @]
<1>2. level \in Level
  BY UtRrcAssumption DEF Filtered, Level
<1>3. Apply(u, EvaluateMeasurementEvents(r))
  BY <1>1
<1>4. CASE rrc[u].serving = 0
  <2>1. r = [rrc[u] EXCEPT !.metric = [@ EXCEPT ![o] = level], !.serving = o]
    BY <1>4, Before DEF Rrc
  <2>2. QED
    BY <1>2, <1>3, <1>4, <2>1, AdoptStep
<1>5. CASE rrc[u].serving # 0
  <2>1. r \in Rrc /\ r.serving = rrc[u].serving /\ r.pending = rrc[u].pending /\ r.ttt = rrc[u].ttt
    BY <1>2, <1>5, Before DEF Rrc
  <2> HIDE DEF r
  <2>2. Outcome(r, EvaluateMeasurementEvents(r))
    BY <2>1, Before, EvaluationOutcome
  <2>3. QED
    BY <1>3, <1>5, <2>1, <2>2, ApplyStep
<1>6. QED
  BY <1>4, <1>5

LEMMA AvailabilityStep ==
  ASSUME RrcSound, NEW u \in Ue, SetGroundAvailabilityOf(u) \/ SetSatelliteAvailability(u)
  PROVE  RrcSound' /\ Implements
<1>1. PICK r \in {[rrc[u] EXCEPT !.groundAvailable = ~@], [rrc[u] EXCEPT !.satelliteAvailable = ~@]} :
        Apply(u, EvaluateMeasurementEvents(r))
  BY DEF SetGroundAvailabilityOf, SetSatelliteAvailability
<1>2. /\ r \in Rrc /\ r.serving = rrc[u].serving /\ r.pending = rrc[u].pending
      /\ r.ttt = rrc[u].ttt /\ r.metric = rrc[u].metric
  BY Before DEF Rrc
<1>3. Outcome(r, EvaluateMeasurementEvents(r))
  BY <1>2, Before, EvaluationOutcome
<1>4. QED
  BY <1>1, <1>2, <1>3, ApplyStep, Before DEF Sound

LEMMA DwellStep ==
  ASSUME RrcSound, NEW u \in Ue, Dwell(u)
  PROVE  RrcSound' /\ Implements
<1> DEFINE r == [rrc[u] EXCEPT !.dwelt = TRUE]
<1>1. /\ r \in Rrc /\ SameObjects(r, r) /\ r.serving = rrc[u].serving
      /\ r.pending = rrc[u].pending /\ r.metric = rrc[u].metric /\ r.ttt = rrc[u].ttt
  BY Before DEF Rrc, SameObjects
<1>2. Apply(u, Quiet(r)) /\ ~rrc[u].dwelt /\ rrc[u].serving # 0
  BY DEF Dwell
<1> HIDE DEF r
<1>3. ~r.ttt
  BY <1>1, <1>2, Before DEF Sound, Warranted
<1>4. Outcome(r, Quiet(r))
  BY <1>1, <1>3, QuietOutcome DEF Warranted
<1>5. QED
  BY <1>1, <1>2, <1>4, ApplyStep

LEMMA TttStep ==
  ASSUME RrcSound, NEW u \in Ue, TttExpires(u)
  PROVE  RrcSound' /\ Implements
<1> DEFINE r == [rrc[u] EXCEPT !.ttt = FALSE]
<1>1. /\ r \in Rrc /\ SameObjects(rrc[u], r) /\ ~r.ttt
      /\ r.pending = rrc[u].pending /\ r.tttCandidate = rrc[u].tttCandidate
  BY Before DEF Rrc, SameObjects
<1>2. Apply(u, TriggerMeasurementReport(r)) /\ rrc[u].ttt
  BY DEF TttExpires
<1> HIDE DEF r
<1>3. ~rrc[u].pending /\ rrc[u].tttCandidate = FindBestNeighborObject(rrc[u])
  BY <1>2, Before DEF Sound, Warranted
<1>4. FindBestNeighborObject(r) = FindBestNeighborObject(rrc[u])
  BY <1>1, Before, SameView DEF SameObjects
<1>5. Outcome(r, TriggerMeasurementReport(r))
  BY <1>1, <1>3, <1>4, TriggerOutcome
<1>6. QED
  BY <1>1, <1>2, <1>5, ApplyStep, Before DEF SameObjects, Sound

LEMMA GuardStep ==
  ASSUME RrcSound, NEW u \in Ue, GuardExpires(u)
  PROVE  RrcSound' /\ Implements
<1> DEFINE r == GuardCleared(rrc[u])
<1>1. /\ r \in Rrc /\ SameObjects(rrc[u], r) /\ r.ttt = rrc[u].ttt /\ r.pending = FALSE
  BY Before DEF GuardCleared, Rrc, SameObjects
<1>2. /\ rrc[u].pending /\ signal[u] = Nothing
      /\ rrc' = [rrc EXCEPT ![u] = r] /\ signal' = signal
  BY DEF GuardExpires, Apply, Quiet
<1> HIDE DEF r
<1>3. Sound(r, Nothing)
  BY <1>1, <1>2, Before DEF Sound, Warranted, SameObjects
<1>4. RrcSound'
  BY <1>2, <1>3, StepSound DEF RrcSound
<1>5. Reporting!GiveUp(u)
  <2>1. [v \in Ue |-> rrc[v].pending]' = [[v \in Ue |-> rrc[v].pending] EXCEPT ![u] = FALSE]
    BY <1>1, <1>2, SeenFromNetwork
  <2>2. UNCHANGED [v \in Ue |-> rrc[v].serving]
    BY <1>1, <1>2, SeenFromNetwork DEF SameObjects, RrcSound
  <2>3. QED
    BY <1>2, <2>1, <2>2 DEF Reporting!GiveUp, Reporting!Nothing, Nothing
<1>6. QED
  BY <1>4, <1>5 DEF Implements, Reporting!Next

LEMMA ReconfigureStep ==
  ASSUME RrcSound, NEW u \in Ue, TakeOn(u)
  PROVE  RrcSound' /\ Implements
<1> DEFINE r == SetServingObject(rrc[u], signal[u].to)
<1>1. /\ signal[u].kind = "command" /\ rrc' = [rrc EXCEPT ![u] = r]
      /\ signal' = [signal EXCEPT ![u] = Nothing]
  BY DEF TakeOn, RrcSound
<1>2. signal[u].to \in Object /\ signal[u].to # rrc[u].serving
  BY <1>1, Before DEF Sound
<1>3. /\ r \in Rrc /\ ~r.ttt /\ r.serving = signal[u].to /\ r.pending = FALSE
      /\ r.metric = rrc[u].metric
  BY <1>2, Before DEF SetServingObject, StopTtt, Rrc
<1> HIDE DEF r
<1>4. Nothing \in MessageType
  BY DEF Nothing, MessageType
<1>5. Sound(r, Nothing)
  BY <1>2, <1>3, <1>4, ZeroIsNoObject DEF Sound, Warranted
<1>6. RrcSound'
  BY <1>1, <1>5, StepSound
<1>7. Reporting!Reconfigure(u)
  BY <1>1, <1>3, SeenFromNetwork DEF Reporting!Reconfigure, Reporting!Nothing, Nothing
<1>8. QED
  BY <1>6, <1>7 DEF Implements, Reporting!Next

LEMMA AnswerStep ==
  ASSUME RrcSound, NEW u \in Ue, Decide(u)
  PROVE  RrcSound' /\ Implements
<1> DEFINE command == [signal[u] EXCEPT !.kind = "command"]
<1>1. /\ signal[u].kind = "report" /\ rrc' = rrc /\ rrc' = [rrc EXCEPT ![u] = rrc[u]]
      /\ \/ signal' = [signal EXCEPT ![u] = Nothing]
         \/ signal' = [signal EXCEPT ![u] = command]
  BY DEF Decide, RrcSound
<1>2. signal[u] # Nothing /\ signal[u] \in MessageType
  BY <1>1, Before DEF Sound
<1>3. /\ command \in MessageType /\ command.from = signal[u].from /\ command.to = signal[u].to
      /\ command = Reporting!Command(signal[u].from, signal[u].to)
      /\ Nothing \in MessageType /\ Nothing = Reporting!Nothing
  BY <1>2 DEF MessageType, Reporting!Command, Reporting!Nothing, Nothing
<1> HIDE DEF command
<1>4. Sound(rrc[u], Nothing) /\ Sound(rrc[u], command)
  BY <1>2, <1>3, Before DEF Sound
<1>5. RrcSound'
  BY <1>1, <1>4, StepSound
<1>6. Reporting!Answer(u)
  BY <1>1, <1>3 DEF Reporting!Answer
<1>7. QED
  BY <1>5, <1>6 DEF Implements, Reporting!Next

(* A step of the connection states. *)
LEMMA ConnectionStep ==
  ASSUME ConnectionSound, NEW u \in Ue,
         SwitchToState(u) \/ InactivityTimeout(u) \/ ReceivePagingMessage(u)
  PROVE  ConnectionSound' /\ UNCHANGED <<rrc, signal>>
<1>1. ASSUME NEW newState \in State, Switch(u, newState)
      PROVE  ConnectionSound' /\ UNCHANGED <<rrc, signal>>
  BY <1>1 DEF Switch, ConnectionSound, InactivityIsWatched
<1>2. CASE SwitchToState(u)
  BY <1>1, <1>2 DEF SwitchToState
<1>3. CASE InactivityTimeout(u)
  BY <1>1, <1>3 DEF InactivityTimeout, State
<1>4. CASE ReceivePagingMessage(u)
  BY <1>4 DEF ReceivePagingMessage, ConnectionSound, InactivityIsWatched, State
<1>5. QED
  BY <1>2, <1>3, <1>4

LEMMA InitSound == RrcInit => UtRrcInv /\ Reporting!Init
<1> SUFFICES ASSUME RrcInit PROVE UtRrcInv /\ Reporting!Init
  OBVIOUS
<1>1. PICK o \in Object \cup {0} :
        rrc = [u \in Ue |->
                [serving |-> o, metric |-> [p \in Object |-> 0],
                 groundAvailable |-> TRUE, satelliteAvailable |-> TRUE, dwelt |-> FALSE,
                 tttCandidate |-> 0, ttt |-> FALSE, lastReported |-> 0, pending |-> FALSE]]
  BY DEF RrcInit
<1>2. signal = [u \in Ue |-> Nothing] /\ Nothing \in MessageType
  BY DEF RrcInit, Nothing, MessageType
<1>3. rrc \in [Ue -> Rrc]
  BY <1>1, UtRrcAssumption DEF Rrc, Level
<1>4. \A u \in Ue : Sound(rrc[u], signal[u])
  BY <1>1, <1>2, <1>3 DEF Sound, Warranted
<1>5. RrcSound
  BY <1>2, <1>3, <1>4 DEF RrcSound
<1>6. ConnectionSound
  BY DEF RrcInit, ConnectionSound, InactivityIsWatched, State
<1>7. Reporting!Init
  BY <1>1, <1>2 DEF Reporting!Init, Reporting!Nothing, Nothing, Reporting!Object, Object
<1>8. QED
  BY <1>5, <1>6, <1>7 DEF UtRrcInv

LEMMA NextSound == UtRrcInv /\ [RrcNext]_rrcVars => UtRrcInv' /\ Implements
<1> SUFFICES ASSUME UtRrcInv, [RrcNext]_rrcVars PROVE UtRrcInv' /\ Implements
  OBVIOUS
<1> USE DEF UtRrcInv
<1>1. ASSUME UNCHANGED connectionVars
      PROVE  ConnectionSound'
  BY <1>1 DEF connectionVars, ConnectionSound, InactivityIsWatched
<1>2. ASSUME UNCHANGED <<rrc, signal>>
      PROVE  RrcSound' /\ Implements
  BY <1>2 DEF RrcSound, Implements, Stutters
<1>3. CASE UNCHANGED rrcVars
  BY <1>1, <1>2, <1>3 DEF rrcVars
<1>4. ASSUME NEW u \in Ue, NEW o \in Object, NEW raw \in 1..MaxLevel, Measure(u, o, raw)
      PROVE  UtRrcInv' /\ Implements
  BY <1>1, <1>4, MeasureStep DEF Measure, Apply
<1>5. ASSUME NEW u \in Ue, SetGroundAvailabilityOf(u) \/ SetSatelliteAvailability(u)
      PROVE  UtRrcInv' /\ Implements
  BY <1>1, <1>5, AvailabilityStep DEF SetGroundAvailabilityOf, SetSatelliteAvailability, Apply
<1>6. ASSUME NEW u \in Ue, Dwell(u)
      PROVE  UtRrcInv' /\ Implements
  BY <1>1, <1>6, DwellStep DEF Dwell, Apply
<1>7. ASSUME NEW u \in Ue, TttExpires(u)
      PROVE  UtRrcInv' /\ Implements
  BY <1>1, <1>7, TttStep DEF TttExpires, Apply
<1>8. ASSUME NEW u \in Ue, GuardExpires(u)
      PROVE  UtRrcInv' /\ Implements
  BY <1>1, <1>8, GuardStep DEF GuardExpires, Apply
<1>9. ASSUME NEW u \in Ue, Decide(u)
      PROVE  UtRrcInv' /\ Implements
  BY <1>1, <1>9, AnswerStep DEF Decide
<1>10. ASSUME NEW u \in Ue, TakeOn(u)
       PROVE  UtRrcInv' /\ Implements
  BY <1>1, <1>10, ReconfigureStep DEF TakeOn
<1>11. ASSUME NEW u \in Ue, SwitchToState(u) \/ InactivityTimeout(u) \/ ReceivePagingMessage(u)
       PROVE  UtRrcInv' /\ Implements
  BY <1>2, <1>11, ConnectionStep
<1>12. QED
  BY <1>3, <1>4, <1>5, <1>6, <1>7, <1>8, <1>9, <1>10, <1>11 DEF RrcNext

LEMMA UtRrcInvCorrect == RrcSpec => []UtRrcInv
<1>1. RrcInit => UtRrcInv
  BY InitSound
<1>2. UtRrcInv /\ [RrcNext]_rrcVars => UtRrcInv'
  BY NextSound
<1>3. QED
  BY <1>1, <1>2, PTL DEF RrcSpec

-----------------------------------------------------------------------------
(* Theorems.                                                               *)

(* The variables keep the values their C++ types and roles allow. *)
THEOREM UtRrcTypeCorrect == RrcSpec => []RrcTypeOK
BY UtRrcInvCorrect, UtRrcInvImplies, PTL

(* The time to trigger runs for the best neighbour only, and for a reason  *)
(* that still holds, and the inactivity timer for connected UEs only.      *)
THEOREM WatchesAreSoundCorrect == RrcSpec => []WatchesAreSound
BY UtRrcInvCorrect, UtRrcInvImplies, PTL

(* Seen from the network, the UE sends one report at a time and waits for  *)
(* its answer: UtRrc implements UeReporting.                               *)
THEOREM ImplementsReportingCorrect == RrcSpec => ImplementsReporting
<1>1. RrcInit => Reporting!Init
  BY InitSound
<1>2. UtRrcInv /\ [RrcNext]_rrcVars => [Reporting!Next]_(Reporting!reportingVars)
  BY NextSound DEF Implements, Stutters, Reporting!reportingVars
<1>3. QED
  BY <1>1, <1>2, UtRrcInvCorrect, PTL DEF RrcSpec, ImplementsReporting, Reporting!Spec

-----------------------------------------------------------------------------
(* What the gateway's operators leave alone.                               *)

(* A record of what the gateway keeps, whatever is in it. *)
IsGateway(gw) == DOMAIN gw = {"scheduler", "account", "serving"}

(* Only the RRC writes the serving object on record. *)
SameRecord(gw, next) == IsGateway(next) /\ next.serving = gw.serving

(* The record with `o` as the serving object of a UE. *)
WithServing(gw, u, o) == [gw.serving EXCEPT ![u] = o]

LEMMA AddUeContextKeeps ==
  ASSUME NEW gw, IsGateway(gw), NEW u
  PROVE  SameRecord(gw, AddUeContext(gw, u))
BY DEF AddUeContext, SameRecord, IsGateway

LEMMA AddUeInfoKeeps ==
  ASSUME NEW gw, IsGateway(gw), NEW u, NEW b
  PROVE  SameRecord(gw, AddUeInfo(gw, u, b))
BY DEF AddUeInfo, SameRecord, IsGateway

LEMMA RemoveUtKeeps ==
  ASSUME NEW gw, IsGateway(gw), NEW u
  PROVE  SameRecord(gw, RemoveUt(gw, u))
BY DEF RemoveUt, SameRecord, IsGateway

(* The serving object on record follows the report. *)
LEMMA EnsureFollowsReport ==
  ASSUME NEW gw, IsGateway(gw), NEW u, NEW report
  PROVE  /\ IsGateway(EnsureUeContextFromReport(gw, u, report))
         /\ EnsureUeContextFromReport(gw, u, report).serving
              = WithServing(gw, u, report.from)
<1> DEFINE served == [gw EXCEPT !.serving[u] = report.from]
           context == AddUeContext(served, u)
           ensured == EnsureUeContextFromReport(gw, u, report)
<1>1. IsGateway(served) /\ served.serving = [gw.serving EXCEPT ![u] = report.from]
  BY DEF IsGateway
<1>2. \/ ensured = served
      \/ ensured = AddUeInfo(context, u, report.from)
      \/ ensured = [context EXCEPT !.account = RegisterUeToGround(@, u, report.from)]
  BY DEF EnsureUeContextFromReport
<1> HIDE DEF served, ensured
<1>3. SameRecord(served, context)
  BY <1>1, AddUeContextKeeps
<1> HIDE DEF context
<1>4. SameRecord(served, AddUeInfo(context, u, report.from))
  BY <1>3, AddUeInfoKeeps DEF SameRecord
<1>5. SameRecord(served, [context EXCEPT !.account = RegisterUeToGround(@, u, report.from)])
  BY <1>3 DEF SameRecord, IsGateway
<1>6. IsGateway(ensured) /\ ensured.serving = WithServing(gw, u, report.from)
  BY <1>1, <1>2, <1>4, <1>5 DEF SameRecord, WithServing
<1>7. QED
  BY <1>6 DEF ensured

(* Load balancing and redirections go past the RRC. *)
LEMMA RebalancedKeeps ==
  ASSUME NEW gw, IsGateway(gw), NEW move
  PROVE  SameRecord(gw, Rebalanced(gw, move))
BY DEF Rebalanced, SameRecord, IsGateway

(* A handover executed is on record, whatever its direction. *)
LEMMA ExecutedIsOnRecord ==
  ASSUME NEW gw, IsGateway(gw), NEW u, NEW report
  PROVE  /\ IsGateway(ExecuteHandover(gw, u, report))
         /\ ExecuteHandover(gw, u, report).serving = WithServing(gw, u, report.to)
<1> DEFINE removed == RemoveUt(gw, u)
           moved1 == AddUeInfo(removed, u, report.to)
           left == [gw EXCEPT !.account = UnregisterUeFromGround(@, u, report.from)]
           entered == AddUeInfo(left, u, report.to)
<1>1. SameRecord(gw, removed)
  BY RemoveUtKeeps
<1>2. SameRecord(gw, moved1)
  <2> HIDE DEF removed
  <2>1. QED
    BY <1>1, AddUeInfoKeeps DEF SameRecord
<1>3. SameRecord(gw, left)
  BY DEF SameRecord, IsGateway
<1>4. SameRecord(gw, entered)
  <2> HIDE DEF left
  <2>1. QED
    BY <1>3, AddUeInfoKeeps DEF SameRecord
<1>5. PICK next \in {removed, moved1, entered} : \E account1 :
        ExecuteHandover(gw, u, report)
          = [next EXCEPT !.serving[u] = report.to, !.account = account1]
  BY DEF ExecuteHandover, ExecuteBeamHandover, ExecuteGroundToSatHandover,
         ExecuteSatToGroundHandover, MoveUe
<1>6. PICK account1 :
        ExecuteHandover(gw, u, report)
          = [next EXCEPT !.serving[u] = report.to, !.account = account1]
  BY <1>5
<1>7. SameRecord(gw, next)
  BY <1>1, <1>2, <1>4
<1> HIDE DEF removed, moved1, left, entered
<1> DEFINE executed == ExecuteHandover(gw, u, report)
<1>8. executed = [next EXCEPT !.serving[u] = report.to, !.account = account1]
  BY <1>6
<1> HIDE DEF executed
<1>9. IsGateway(executed) /\ executed.serving = WithServing(gw, u, report.to)
  BY <1>7, <1>8 DEF SameRecord, IsGateway, WithServing
<1>10. QED
  BY <1>9 DEF executed

-----------------------------------------------------------------------------
(* The invariant of the UEs: one with a message under way waits for it,    *)
(* and the message speaks of its serving object and of another one.        *)

Waits(u) ==
  flight[u] # Nothing =>
    /\ pending[u] /\ serving[u] # 0
    /\ flight[u].from = serving[u] /\ flight[u].to \in Object \ {serving[u]}

ReportingInv ==
  /\ serving \in [Ue -> Object \cup {0}]
  /\ pending \in [Ue -> BOOLEAN]
  /\ flight \in [Ue -> Message]
  /\ \A u \in Ue : Waits(u)

LEMMA NothingIsMessage == Nothing \in Message
BY DEF Nothing, Message

LEMMA ReportingInit == Init => ReportingInv
BY NothingIsMessage DEF Init, ReportingInv, Waits

LEMMA ReportingNext == ReportingInv /\ [Next]_reportingVars => ReportingInv'
<1> SUFFICES ASSUME ReportingInv, [Next]_reportingVars PROVE ReportingInv'
  OBVIOUS
<1>1. CASE UNCHANGED reportingVars
  BY <1>1 DEF reportingVars, ReportingInv, Waits
<1>2. ASSUME NEW u \in Ue, NEW o \in Object, Adopt(u, o)
      PROVE  ReportingInv'
  <2>1. flight[u] = Nothing
    BY <1>2 DEF Adopt, ReportingInv, Waits
  <2>2. QED
    BY <1>2, <2>1 DEF Adopt, ReportingInv, Waits
<1>3. ASSUME NEW u \in Ue, NEW o \in Object, SendReport(u, o)
      PROVE  ReportingInv'
  <2>1. Report(serving[u], o) \in Message
    BY DEF Report, Message, ReportingInv
  <2>2. flight' \in [Ue -> Message] /\ pending' \in [Ue -> BOOLEAN]
    BY <1>3, <2>1 DEF SendReport, ReportingInv
  <2>3. Waits(u)'
    BY <1>3 DEF SendReport, Report, ReportingInv, Waits
  <2>4. \A v \in Ue \ {u} : Waits(v)'
    BY <1>3 DEF SendReport, ReportingInv, Waits
  <2>5. QED
    BY <1>3, <2>2, <2>3, <2>4 DEF SendReport, ReportingInv
<1>4. ASSUME NEW u \in Ue, Answer(u)
      PROVE  ReportingInv'
  <2>1. PICK answer \in {Nothing, Command(flight[u].from, flight[u].to)} :
          flight' = [flight EXCEPT ![u] = answer]
    BY <1>4 DEF Answer
  <2>2. flight[u] # Nothing
    BY <1>4 DEF Answer, Nothing
  <2>3. answer \in Message
    BY NothingIsMessage DEF Command, Message, ReportingInv
  <2>4. answer # Nothing => answer.from = flight[u].from /\ answer.to = flight[u].to
    BY DEF Command
  <2>5. Waits(u)'
    BY <1>4, <2>1, <2>2, <2>4 DEF Answer, ReportingInv, Waits
  <2>6. \A v \in Ue \ {u} : Waits(v)'
    BY <1>4, <2>1 DEF Answer, ReportingInv, Waits
  <2>7. QED
    BY <1>4, <2>1, <2>3, <2>5, <2>6 DEF Answer, ReportingInv
<1>5. ASSUME NEW u \in Ue, Reconfigure(u)
      PROVE  ReportingInv'
  <2>1. flight[u].to \in Object
    BY <1>5 DEF Reconfigure, Nothing, ReportingInv, Waits
  <2>2. QED
    BY <1>5, <2>1, NothingIsMessage DEF Reconfigure, ReportingInv, Waits
<1>6. ASSUME NEW u \in Ue, GiveUp(u)
      PROVE  ReportingInv'
  BY <1>6 DEF GiveUp, ReportingInv, Waits
<1>7. QED
  BY <1>1, <1>2, <1>3, <1>4, <1>5, <1>6 DEF Next

-----------------------------------------------------------------------------
(* The gateway.                                                            *)

RecordInv == ueServingObject \in [Ue -> Object \cup {0}] /\ RecordAgrees

HandoverInv == ReportingInv /\ RecordInv

(* A report that arrives is answered as UeReporting says, and the record   *)
(* of the serving object is what the answer says.                          *)
LEMMA ReceivedIsAnswered ==
  ASSUME HandoverInv, NEW u \in Ue, ReceiveMeasReport(u)
  PROVE  Answer(u) /\ RecordInv'
<1> DEFINE report == flight[u]
           ensured == EnsureUeContextFromReport(Gateway, u, report)
<1>1. PICK decision \in Decisions(ensured, u, report) :
        LET balanced == Rebalanced(ensured, decision.move)
            gw == IF decision.admit THEN ExecuteHandover(balanced, u, report) ELSE balanced
        IN /\ ueServingObject' = gw.serving
           /\ flight' = [flight EXCEPT ![u] = AnswerTo(gw, u, report)]
  BY DEF ReceiveMeasReport
<1> DEFINE balanced == Rebalanced(ensured, decision.move)
           gw == IF decision.admit THEN ExecuteHandover(balanced, u, report) ELSE balanced
<1>2. /\ report.kind = "report" /\ UNCHANGED <<serving, pending>>
      /\ report \in Message /\ report.from = serving[u] /\ serving[u] # 0
      /\ report.to \in Object \ {serving[u]}
  BY DEF ReceiveMeasReport, HandoverInv, ReportingInv, Waits, Nothing
<1>3. ueServingObject' = gw.serving /\ flight' = [flight EXCEPT ![u] = AnswerTo(gw, u, report)]
  BY <1>1
<1>4. IsGateway(Gateway) /\ Gateway.serving = ueServingObject
  BY DEF IsGateway, Gateway
<1>5. IsGateway(ensured) /\ ensured.serving = [ueServingObject EXCEPT ![u] = report.from]
  <2>1. IsGateway(ensured) /\ ensured.serving = WithServing(Gateway, u, report.from)
    BY <1>4, EnsureFollowsReport
  <2>2. QED
    BY <1>4, <2>1 DEF WithServing
<1> HIDE DEF ensured
<1>6. IsGateway(balanced) /\ balanced.serving = ensured.serving
  BY <1>5, RebalancedKeeps DEF SameRecord, IsGateway
<1> HIDE DEF balanced
<1>7. PICK o \in {report.from, report.to} : gw.serving = [ueServingObject EXCEPT ![u] = o]
  <2>1. CASE decision.admit
    <3>1. ExecuteHandover(balanced, u, report).serving = WithServing(balanced, u, report.to)
      BY <1>6, ExecutedIsOnRecord
    <3>2. QED
      BY <1>5, <1>6, <2>1, <3>1 DEF HandoverInv, RecordInv, WithServing
  <2>2. CASE ~decision.admit
    BY <1>5, <1>6, <2>2
  <2>3. QED
    BY <2>1, <2>2
<1> HIDE DEF gw, report
<1>8. gw.serving[u] = o
  BY <1>7 DEF HandoverInv, RecordInv
<1>9. AnswerTo(gw, u, report)
        = IF o = report.to THEN Command(report.from, report.to) ELSE Nothing
  BY <1>8 DEF AnswerTo, GetServingObjectForUe
<1>10. Answer(u)
  BY <1>2, <1>3, <1>9 DEF Answer, report
<1>11. RecordInv'
  <2>1. o \in Object
    BY <1>2, <1>7 DEF Message
  <2>2. ueServingObject' \in [Ue -> Object \cup {0}]
    BY <1>3, <1>7, <2>1 DEF HandoverInv, RecordInv
  <2>3. /\ ueServingObject'[u] = o /\ serving'[u] = report.from
        /\ flight'[u] = AnswerTo(gw, u, report)
    BY <1>2, <1>3, <1>8 DEF HandoverInv, ReportingInv
  <2>4. CASE o = report.to
    <3>1. flight'[u].kind = "command" /\ flight'[u].to = o
      BY <1>9, <2>3, <2>4 DEF Command
    <3>2. QED
      BY <1>2, <1>3, <1>7, <2>2, <2>3, <3>1
      DEF HandoverInv, ReportingInv, RecordInv, RecordAgrees
  <2>5. CASE o = report.from /\ o # report.to
    <3>1. flight'[u].kind # "command"
      BY <1>9, <2>3, <2>5 DEF Nothing
    <3>2. QED
      BY <1>2, <1>3, <1>7, <2>2, <2>3, <2>5, <3>1
      DEF HandoverInv, ReportingInv, RecordInv, RecordAgrees
  <2>6. QED
    BY <1>7, <2>4, <2>5
<1>12. QED
  BY <1>10, <1>11

(* What a UE does by itself leaves the record true. *)
LEMMA UeStepRecord ==
  ASSUME HandoverInv, NEW u \in Ue, UeStep(u)
  PROVE  Next /\ RecordInv'
<1> USE DEF HandoverInv, ReportingInv, RecordInv, RecordAgrees
<1>1. ueServingObject' = ueServingObject
  BY DEF UeStep, gatewayVars
<1>2. ASSUME NEW o \in Object, Adopt(u, o)
      PROVE  Next /\ RecordInv'
  <2>1. flight[u] = Nothing
    BY <1>2 DEF Adopt, Waits
  <2>2. ueServingObject[u] = 0
    BY <1>2, <2>1 DEF Adopt, Nothing
  <2>3. QED
    BY <1>1, <1>2, <2>2 DEF Adopt, Next
<1>3. ASSUME NEW o \in Object, SendReport(u, o)
      PROVE  Next /\ RecordInv'
  <2>1. flight[u].kind # "command" /\ flight'[u].kind # "command"
    BY <1>3 DEF SendReport, Report, Nothing
  <2>2. \A v \in Ue \ {u} : flight'[v] = flight[v]
    BY <1>3 DEF SendReport
  <2>3. serving' = serving
    BY <1>3 DEF SendReport
  <2>4. QED
    BY <1>1, <1>3, <2>1, <2>2, <2>3 DEF Next
<1>4. CASE Reconfigure(u)
  BY <1>1, <1>4 DEF Reconfigure, Nothing, Next
<1>5. CASE GiveUp(u)
  BY <1>1, <1>5 DEF GiveUp, Next
<1>6. QED
  BY <1>2, <1>3, <1>4, <1>5 DEF UeStep

LEMMA HandoverInit1 == HandoverInit => HandoverInv
BY ReportingInit DEF HandoverInit, HandoverInv, RecordInv, RecordAgrees

LEMMA HandoverNext1 ==
  HandoverInv /\ [HandoverNext]_vars => HandoverInv' /\ [Next]_reportingVars
<1> SUFFICES ASSUME HandoverInv, [HandoverNext]_vars
             PROVE  RecordInv' /\ [Next]_reportingVars
  BY ReportingNext DEF HandoverInv
<1>1. ASSUME UNCHANGED <<reportingVars, ueServingObject>>
      PROVE  RecordInv' /\ [Next]_reportingVars
  BY <1>1 DEF HandoverInv, RecordInv, RecordAgrees, reportingVars
<1>2. ASSUME NEW u \in Ue, UeStep(u)
      PROVE  RecordInv' /\ [Next]_reportingVars
  BY <1>2, UeStepRecord
<1>3. ASSUME NEW u \in Ue, ReceiveMeasReport(u)
      PROVE  RecordInv' /\ [Next]_reportingVars
  BY <1>3, ReceivedIsAnswered DEF Next
<1>4. ASSUME NEW u \in Ue, RebalanceForEver(u) \/ Attach(u)
      PROVE  RecordInv' /\ [Next]_reportingVars
  BY <1>1, <1>4 DEF RebalanceForEver, Attach
<1>8. ASSUME NEW b \in Beam, RunScheduler(b)
      PROVE  RecordInv' /\ [Next]_reportingVars
  BY <1>1, <1>8 DEF RunScheduler
<1>5. ASSUME NEW g \in Ground, SetGroundAvailability(g)
      PROVE  RecordInv' /\ [Next]_reportingVars
  BY <1>1, <1>5 DEF SetGroundAvailability
<1>6. CASE UNCHANGED vars
  BY <1>1, <1>6 DEF vars, gatewayVars
<1>7. QED
  BY <1>2, <1>3, <1>4, <1>5, <1>6, <1>8 DEF HandoverNext

-----------------------------------------------------------------------------
(* Theorems.                                                               *)

(* The invariant of the composition. *)
LEMMA HandoverInvCorrect == HandoverSpec => []HandoverInv
BY HandoverInit1, HandoverNext1, PTL DEF HandoverSpec

(* While no command is under way the gateway's record of the serving       *)
(* object is the UE's own, whatever admission control decides, whomever    *)
(* load balancing moves and whenever a guard gives up.                     *)
THEOREM RecordAgreesCorrect == HandoverSpec => []RecordAgrees
BY HandoverInvCorrect, PTL DEF HandoverInv, RecordInv

(* The gateway answers reports as UeReporting says, so what UtRrc          *)
(* implements is what the gateway was composed with.                       *)
THEOREM HandoverKeepsToReporting == HandoverSpec => Spec
<1>1. HandoverInit => Init
  BY DEF HandoverInit
<1>2. QED
  BY <1>1, HandoverNext1, HandoverInvCorrect, PTL DEF HandoverSpec, Spec

LEMMA CellsApart == Ground \cap Beam = {} /\ Ground \subseteq Object /\ Beam \subseteq Object
BY ObjectAssumption DEF Object

-----------------------------------------------------------------------------
(* Accounts: where UEs are registered and what is counted.                 *)

LEMMA CountedFinite ==
  ASSUME NEW of \in Account
  PROVE  IsFiniteSet(Counted(of)) /\ Cardinality(Counted(of)) \in Nat
<1> DEFINE parts == {{b} \X (1..of.active[b]) : b \in Beam}
           part == [b \in Beam |-> {b} \X (1..of.active[b])]
<1>1. part \in Surjection(Beam, parts)
  BY DEF Surjection
<1>2. IsFiniteSet(parts)
  BY <1>1, FS_Surjection, HandoverAssumption
<1>3. ASSUME NEW p \in parts PROVE IsFiniteSet(p)
  <2>1. PICK b \in Beam : p = {b} \X (1..of.active[b])
    OBVIOUS
  <2>2. of.active[b] \in Nat
    BY CellsApart DEF Account
  <2>3. IsFiniteSet({b}) /\ IsFiniteSet(1..of.active[b])
    <3>1. IsFiniteSet({b})
      BY FS_Singleton
    <3>2. \A n \in Nat : IsFiniteSet(1..n)
      BY FS_Interval
    <3>3. QED
      BY <2>2, <3>1, <3>2
  <2>4. QED
    BY <2>1, <2>3, FS_Product
<1>4. IsFiniteSet(UNION parts)
  BY <1>2, <1>3, FS_UNION
<1>5. QED
  BY <1>4, FS_CardinalityType DEF Counted

(* The UEs registered to one of some objects.                              *)
Placed(of, S) == {u \in Ue : of.place[u] \in S}

LEMMA PlacedFinite ==
  ASSUME NEW of, NEW S
  PROVE  IsFiniteSet(Placed(of, S)) /\ Cardinality(Placed(of, S)) \in Nat
<1>1. Placed(of, S) \in SUBSET Ue
  BY DEF Placed
<1>2. IsFiniteSet(Placed(of, S))
  BY <1>1, FS_Subset, HandoverAssumption
<1>3. QED
  BY <1>2, FS_CardinalityType

LEMMA PlacedMoves ==
  ASSUME NEW of \in Account, NEW to, NEW u \in Ue, NEW o, NEW S,
         to.place = [of.place EXCEPT ![u] = o]
  PROVE  Cardinality(Placed(to, S)) =
           Cardinality(Placed(of, S)) - (IF of.place[u] \in S THEN 1 ELSE 0)
                                      + (IF o \in S THEN 1 ELSE 0)
<1>1. \A v \in Ue : to.place[v] = IF v = u THEN o ELSE of.place[v]
  BY DEF Account
<1>2. CASE o \in S
  <2>1. Placed(to, S) = Placed(of, S) \cup {u}
    BY <1>1, <1>2 DEF Placed
  <2>2. u \in Placed(of, S) <=> of.place[u] \in S
    BY DEF Placed
  <2>3. Cardinality(Placed(of, S) \cup {u}) =
          IF u \in Placed(of, S) THEN Cardinality(Placed(of, S)) ELSE Cardinality(Placed(of, S)) + 1
    BY PlacedFinite, FS_AddElement
  <2>4. QED
    BY <1>2, <2>1, <2>2, <2>3, PlacedFinite
<1>3. CASE o \notin S
  <2>1. Placed(to, S) = Placed(of, S) \ {u}
    BY <1>1, <1>3 DEF Placed
  <2>2. u \in Placed(of, S) <=> of.place[u] \in S
    BY DEF Placed
  <2>3. Cardinality(Placed(of, S) \ {u}) =
          IF u \in Placed(of, S) THEN Cardinality(Placed(of, S)) - 1
          ELSE Cardinality(Placed(of, S))
    BY PlacedFinite, FS_RemoveElement
  <2>4. QED
    BY <1>3, <2>1, <2>2, <2>3, PlacedFinite
<1>4. QED
  BY <1>2, <1>3

(* Every UE registered is counted, as CountsCover says of the present.     *)
Covers(of) ==
  /\ Cardinality(Placed(of, Beam)) <= Cardinality(Counted(of))
  /\ \A g \in Ground : Cardinality(Placed(of, {g})) <= of.active[g]

(* A beam counts one more, or one less unless it counts none.              *)
LEMMA CountedMore ==
  ASSUME NEW of \in Account, NEW to \in Account, NEW b \in Beam,
         to.active = [of.active EXCEPT ![b] = @ + 1]
  PROVE  Cardinality(Counted(to)) = Cardinality(Counted(of)) + 1
<1> DEFINE n == of.active[b]
<1>1. n \in Nat /\ of.active \in [Object -> Nat] /\ b \in Object
  BY CellsApart DEF Account
<1>2. <<b, n + 1>> \notin Counted(of)
  BY <1>1 DEF Counted
<1>3. Counted(to) = Counted(of) \cup {<<b, n + 1>>}
  <2>1. \A c \in Beam : to.active[c] = IF c = b THEN n + 1 ELSE of.active[c]
    BY <1>1, CellsApart
  <2>2. 1..(n + 1) = 1..n \cup {n + 1}
    BY <1>1
  <2>3. \A c \in Beam : {c} \X (1..to.active[c]) =
          ({c} \X (1..of.active[c])) \cup (IF c = b THEN {<<b, n + 1>>} ELSE {})
    BY <2>1, <2>2
  <2>4. QED
    BY <2>3 DEF Counted
<1>4. QED
  BY <1>2, <1>3, CountedFinite, FS_AddElement

LEMMA CountedLess ==
  ASSUME NEW of \in Account, NEW to \in Account, NEW b \in Beam,
         to.active = [of.active EXCEPT ![b] = Excess(@, 1)]
  PROVE  /\ Cardinality(Counted(to)) <= Cardinality(Counted(of))
         /\ Cardinality(Counted(to)) >= Cardinality(Counted(of)) - 1
<1> DEFINE n == of.active[b]
<1>1. n \in Nat /\ of.active \in [Object -> Nat] /\ b \in Object
  BY CellsApart DEF Account
<1>2. \A c \in Beam : to.active[c] = IF c = b THEN Excess(n, 1) ELSE of.active[c]
  BY <1>1, CellsApart
<1>3. Counted(to) = Counted(of) \ {<<b, n>>}
  <2>1. 1..Excess(n, 1) = (1..n) \ {n}
    BY <1>1 DEF Excess
  <2>2. \A c \in Beam : {c} \X (1..to.active[c]) =
          ({c} \X (1..of.active[c])) \ (IF c = b THEN {<<b, n>>} ELSE {})
    BY <1>2, <2>1
  <2>3. QED
    BY <2>2 DEF Counted
<1>4. Cardinality(Counted(of) \ {<<b, n>>}) =
        IF <<b, n>> \in Counted(of) THEN Cardinality(Counted(of)) - 1
        ELSE Cardinality(Counted(of))
  BY CountedFinite, FS_RemoveElement
<1>5. QED
  BY <1>3, <1>4, CountedFinite

(* The counters of the beams but for `b` are those of another account.     *)
LEMMA CountedSame ==
  ASSUME NEW of, NEW to, \A b \in Beam : to.active[b] = of.active[b]
  PROVE  Counted(to) = Counted(of)
BY DEF Counted

LEMMA ExcessType == \A m, n \in Nat : Excess(m, n) \in Nat
BY DEF Excess

LEMMA RaisedEffect ==
  ASSUME NEW of \in Account, NEW u, NEW b \in Beam
  PROVE  LET to == Raised(of, u, b)
         IN  /\ to \in Account /\ to.place = of.place
             /\ to.active = [of.active EXCEPT ![b] = @ + 1]
<1>1. b \in Object /\ of.active[b] + 1 \in Nat /\ of.emergency[b] \in Nat
  BY CellsApart DEF Account
<1> DEFINE n == IF u \in EmergencyUe THEN of.emergency[b] + 1 ELSE of.emergency[b]
<1>2. n \in Nat
  BY <1>1
<1>3. Raised(of, u, b) = [of EXCEPT !.active[b] = @ + 1, !.emergency[b] = n]
  BY DEF Raised
<1> HIDE DEF n
<1> DEFINE to == Raised(of, u, b)
<1>4. /\ to = [active |-> to.active, place |-> of.place, emergency |-> to.emergency]
      /\ to.active = [of.active EXCEPT ![b] = @ + 1]
      /\ to.emergency = [of.emergency EXCEPT ![b] = n]
  BY <1>3 DEF Account
<1> HIDE DEF to
<1>5. to.active \in [Object -> Nat] /\ to.emergency \in [Beam -> Nat]
  BY <1>1, <1>2, <1>4 DEF Account
<1>6. to \in Account /\ to.place = of.place
  BY <1>4, <1>5 DEF Account
<1>7. QED
  BY <1>4, <1>6 DEF to

LEMMA LoweredEffect ==
  ASSUME NEW of \in Account, NEW u, NEW b \in Beam
  PROVE  LET to == Lowered(of, u, b)
         IN  /\ to \in Account /\ to.place = of.place
             /\ to.active = [of.active EXCEPT ![b] = Excess(@, 1)]
<1>1. b \in Object /\ of.active[b] \in Nat /\ of.emergency[b] \in Nat
  BY CellsApart DEF Account
<1>2. Excess(of.active[b], 1) \in Nat /\ Excess(of.emergency[b], 1) \in Nat
  BY <1>1, ExcessType
<1>3. QED
  BY <1>1, <1>2 DEF Lowered, Account

LEMMA RegisteredToBeam ==
  ASSUME NEW of \in Account, NEW u \in Ue, NEW b \in Beam
  PROVE  LET to == RegisterUeToBeam(of, u, b)
         IN  /\ to \in Account /\ to.place = [of.place EXCEPT ![u] = b]
             /\ Covers(of) => Covers(to)
<1> DEFINE to == RegisterUeToBeam(of, u, b)
           placed == [of EXCEPT !.place[u] = b]
           old == of.place[u]
           left == Lowered(placed, u, old)
<1>1. CASE old = b
  <2>1. to = of /\ of.place = [of.place EXCEPT ![u] = b]
    BY <1>1 DEF RegisterUeToBeam, Account
  <2>2. QED
    BY <2>1
<1>2. CASE old # b
  <2>1. placed \in Account /\ placed.place = [of.place EXCEPT ![u] = b]
        /\ placed.active = of.active
    BY CellsApart DEF Account
  <2>2. to = Raised(left, u, b)
    BY <1>2 DEF RegisterUeToBeam
  <2> HIDE DEF placed
  <2>3. /\ left \in Account /\ left.place = placed.place
        /\ IF old \in Beam THEN left.active = [placed.active EXCEPT ![old] = Excess(@, 1)]
                           ELSE left.active = placed.active
    <3>1. CASE old \in Beam
      BY <2>1, <3>1, LoweredEffect
    <3>2. CASE old \notin Beam
      BY <2>1, <3>2 DEF Lowered
    <3>3. QED
      BY <3>1, <3>2
  <2> HIDE DEF left
  <2>4. /\ to \in Account /\ to.place = left.place
        /\ to.active = [left.active EXCEPT ![b] = @ + 1]
    BY <2>2, <2>3, RaisedEffect
  <2> HIDE DEF to
  <2>5. ASSUME Covers(of) PROVE Covers(to)
    <3>1. Cardinality(Placed(to, Beam)) =
            Cardinality(Placed(of, Beam)) + (IF old \in Beam THEN 0 ELSE 1)
      <4>1. to.place = [of.place EXCEPT ![u] = b]
        BY <2>1, <2>3, <2>4
      <4>2. QED
        BY <4>1, PlacedMoves, PlacedFinite
    <3>2. Counted(placed) = Counted(of)
      BY <2>1, CountedSame
    <3>3. Cardinality(Counted(left)) >= Cardinality(Counted(of)) - (IF old \in Beam THEN 1 ELSE 0)
      <4>1. CASE old \in Beam
        BY <2>1, <2>3, <3>2, <4>1, CountedLess
      <4>2. CASE old \notin Beam
        <5>1. Counted(left) = Counted(placed)
          BY <2>3, <4>2, CountedSame
        <5>2. QED
          BY <3>2, <4>2, <5>1, CountedFinite
      <4>3. QED
        BY <4>1, <4>2
    <3>4. Cardinality(Counted(to)) = Cardinality(Counted(left)) + 1
      BY <2>3, <2>4, CountedMore
    <3>5. Cardinality(Placed(to, Beam)) <= Cardinality(Counted(to))
      BY <2>3, <2>4, <2>5, <3>1, <3>3, <3>4, PlacedFinite, CountedFinite DEF Covers
    <3>6. ASSUME NEW g \in Ground
          PROVE  Cardinality(Placed(to, {g})) <= to.active[g]
      <4>1. g \notin Beam /\ g \in Object /\ of.active[g] \in Nat
        BY CellsApart DEF Account
      <4>2. to.active[g] = of.active[g]
        BY <2>1, <2>3, <2>4, <4>1 DEF Account
      <4>3. Cardinality(Placed(to, {g})) <= Cardinality(Placed(of, {g}))
        <5>1. to.place = [of.place EXCEPT ![u] = b]
          BY <2>1, <2>3, <2>4
        <5>2. Cardinality(Placed(to, {g})) =
                Cardinality(Placed(of, {g})) - (IF old \in {g} THEN 1 ELSE 0)
          BY <4>1, <5>1, PlacedMoves, PlacedFinite
        <5>3. QED
          BY <5>2, PlacedFinite
      <4>4. QED
        BY <2>5, <4>1, <4>2, <4>3, PlacedFinite DEF Covers
    <3>7. QED
      BY <3>5, <3>6 DEF Covers
  <2>6. QED
    BY <2>1, <2>3, <2>4, <2>5 DEF to
<1>3. QED
  BY <1>1, <1>2

LEMMA RegisteredToGround ==
  ASSUME NEW of \in Account, NEW u \in Ue, NEW g \in Ground
  PROVE  LET to == RegisterUeToGround(of, u, g)
         IN  /\ to \in Account /\ to.place = [of.place EXCEPT ![u] = g]
             /\ Covers(of) => Covers(to)
<1> DEFINE to == RegisterUeToGround(of, u, g)
<1>1. g \in Object \ Beam /\ of.active[g] \in Nat /\ of.active[g] + 1 \in Nat
  BY CellsApart DEF Account
<1>2. /\ to \in Account /\ to.place = [of.place EXCEPT ![u] = g]
      /\ to.active = [of.active EXCEPT ![g] = @ + 1]
  BY <1>1 DEF RegisterUeToGround, Account
<1> HIDE DEF to
<1>3. ASSUME Covers(of) PROVE Covers(to)
  <2>1. \A S : Cardinality(Placed(to, S)) =
          Cardinality(Placed(of, S)) - (IF of.place[u] \in S THEN 1 ELSE 0)
                                     + (IF g \in S THEN 1 ELSE 0)
    BY <1>2, PlacedMoves
  <2>2. Cardinality(Placed(to, Beam)) <= Cardinality(Placed(of, Beam))
    BY <1>1, <2>1, PlacedFinite
  <2>3. Counted(to) = Counted(of)
    <3>1. \A b \in Beam : to.active[b] = of.active[b]
      BY <1>1, <1>2, CellsApart DEF Account
    <3>2. QED
      BY <3>1, CountedSame
  <2>4. ASSUME NEW h \in Ground
        PROVE  Cardinality(Placed(to, {h})) <= to.active[h]
    <3>1. h \in Object /\ to.active[h] = of.active[h] + (IF h = g THEN 1 ELSE 0)
          /\ of.active[h] \in Nat
      BY <1>1, <1>2, CellsApart DEF Account
    <3>2. Cardinality(Placed(to, {h})) <=
            Cardinality(Placed(of, {h})) + (IF h = g THEN 1 ELSE 0)
      BY <2>1, PlacedFinite
    <3>3. Cardinality(Placed(of, {h})) <= of.active[h]
      BY <1>3 DEF Covers
    <3>4. QED
      BY <3>1, <3>2, <3>3, PlacedFinite
  <2>5. QED
    BY <1>3, <2>2, <2>3, <2>4, PlacedFinite, CountedFinite, <1>2 DEF Covers
<1>4. QED
  BY <1>2, <1>3 DEF to

(* A UE registered to a beam may be unregistered from any beam, for that    *)
(* lowers the sum by one at most.                                          *)
LEMMA UnregisteredFromBeam ==
  ASSUME NEW of \in Account, NEW u \in Ue, NEW b
  PROVE  LET to == UnregisterUeFromBeam(of, u, b)
         IN  /\ to \in Account /\ to.place = [of.place EXCEPT ![u] = 0]
             /\ Covers(of) /\ (of.place[u] \in Beam \/ b \notin Beam) => Covers(to)
<1> DEFINE to == UnregisterUeFromBeam(of, u, b)
           placed == [of EXCEPT !.place[u] = 0]
           old == of.place[u]
<1>1. CASE old = 0
  <2>1. to = of /\ of.place = [of.place EXCEPT ![u] = 0]
    BY <1>1 DEF UnregisterUeFromBeam, Account
  <2>2. QED
    BY <2>1
<1>2. CASE old # 0
  <2>1. placed \in Account /\ placed.place = [of.place EXCEPT ![u] = 0]
        /\ placed.active = of.active
    BY DEF Account
  <2>2. to = Lowered(placed, u, b)
    BY <1>2 DEF UnregisterUeFromBeam
  <2> HIDE DEF placed
  <2>3. /\ to \in Account /\ to.place = placed.place
        /\ IF b \in Beam THEN to.active = [placed.active EXCEPT ![b] = Excess(@, 1)]
                         ELSE to.active = placed.active
    <3>1. CASE b \in Beam
      BY <2>1, <2>2, <3>1, LoweredEffect
    <3>2. CASE b \notin Beam
      BY <2>1, <2>2, <3>2 DEF Lowered
    <3>3. QED
      BY <3>1, <3>2
  <2> HIDE DEF to
  <2>4. ASSUME Covers(of), old \in Beam \/ b \notin Beam
        PROVE  Covers(to)
    <3>1. \A S : 0 \notin S =>
            Cardinality(Placed(to, S)) =
              Cardinality(Placed(of, S)) - (IF old \in S THEN 1 ELSE 0)
      <4>1. to.place = [of.place EXCEPT ![u] = 0]
        BY <2>1, <2>3
      <4>2. QED
        BY <4>1, PlacedMoves, PlacedFinite
    <3>2. Counted(placed) = Counted(of)
      BY <2>1, CountedSame
    <3>3. Cardinality(Counted(to)) >= Cardinality(Counted(of)) - (IF b \in Beam THEN 1 ELSE 0)
      <4>1. CASE b \in Beam
        BY <2>1, <2>3, <3>2, <4>1, CountedLess
      <4>2. CASE b \notin Beam
        BY <2>3, <3>2, <4>2, CountedSame, CountedFinite
      <4>3. QED
        BY <4>1, <4>2
    <3>4. Cardinality(Placed(to, Beam)) <= Cardinality(Counted(to))
      <4>1. 0 \notin Beam
        BY ZeroIsNoObject, CellsApart
      <4>2. QED
        BY <2>3, <2>4, <3>1, <3>3, <4>1, PlacedFinite, CountedFinite DEF Covers
    <3>5. ASSUME NEW g \in Ground
          PROVE  Cardinality(Placed(to, {g})) <= to.active[g]
      <4>1. g # 0 /\ g \notin Beam /\ g \in Object /\ of.active[g] \in Nat
        BY CellsApart, ZeroIsNoObject DEF Account
      <4>2. to.active[g] = of.active[g]
        BY <2>1, <2>3, <4>1 DEF Account
      <4>3. Cardinality(Placed(to, {g})) <= Cardinality(Placed(of, {g}))
        BY <3>1, <4>1, PlacedFinite
      <4>4. QED
        BY <2>4, <4>1, <4>2, <4>3, PlacedFinite DEF Covers
    <3>6. QED
      BY <3>4, <3>5 DEF Covers
  <2>5. QED
    BY <2>1, <2>3, <2>4 DEF to
<1>3. QED
  BY <1>1, <1>2

LEMMA UnregisteredFromGround ==
  ASSUME NEW of \in Account, NEW u \in Ue, NEW g \in Ground
  PROVE  LET to == UnregisterUeFromGround(of, u, g)
         IN  /\ to \in Account /\ to.place = [of.place EXCEPT ![u] = 0]
             /\ Covers(of) /\ of.place[u] = g => Covers(to)
<1> DEFINE to == UnregisterUeFromGround(of, u, g)
<1>1. g \in Object \ Beam /\ of.active[g] \in Nat /\ Excess(of.active[g], 1) \in Nat
  BY CellsApart, ExcessType DEF Account
<1>2. /\ to \in Account /\ to.place = [of.place EXCEPT ![u] = 0]
      /\ to.active = [of.active EXCEPT ![g] = Excess(@, 1)]
  BY <1>1 DEF UnregisterUeFromGround, Account
<1> HIDE DEF to
<1>3. ASSUME Covers(of), of.place[u] = g PROVE Covers(to)
  <2>1. \A S : 0 \notin S =>
          Cardinality(Placed(to, S)) = Cardinality(Placed(of, S)) - (IF g \in S THEN 1 ELSE 0)
    BY <1>2, <1>3, PlacedMoves, PlacedFinite
  <2>2. Cardinality(Placed(to, Beam)) = Cardinality(Placed(of, Beam))
    BY <1>1, <2>1, CellsApart, ZeroIsNoObject, PlacedFinite
  <2>3. Counted(to) = Counted(of)
    <3>1. \A b \in Beam : to.active[b] = of.active[b]
      BY <1>1, <1>2, CellsApart DEF Account
    <3>2. QED
      BY <3>1, CountedSame
  <2>4. ASSUME NEW h \in Ground
        PROVE  Cardinality(Placed(to, {h})) <= to.active[h]
    <3>1. /\ h \in Object /\ h # 0 /\ of.active[h] \in Nat
          /\ to.active[h] = IF h = g THEN Excess(of.active[h], 1) ELSE of.active[h]
      BY <1>1, <1>2, CellsApart, ZeroIsNoObject DEF Account
    <3>2. Cardinality(Placed(to, {h})) =
            Cardinality(Placed(of, {h})) - (IF h = g THEN 1 ELSE 0)
      BY <2>1, <3>1
    <3>3. Cardinality(Placed(of, {h})) <= of.active[h]
      BY <1>3 DEF Covers
    <3>4. QED
      BY <3>1, <3>2, <3>3, PlacedFinite DEF Excess
  <2>5. QED
    BY <1>3, <2>2, <2>3, <2>4 DEF Covers
<1>4. QED
  BY <1>2, <1>3 DEF to

-----------------------------------------------------------------------------
(* What the gateway's operators do to what is known of one UE.             *)

Gateways ==
  [scheduler : Scheduler, account : Account, serving : [Ue -> Object \cup {0}]]

(* ContextsAgree of one UE, without the RRC's record.                      *)
Agrees(gw, u) ==
  LET in(b) == u \in gw.scheduler.known /\ gw.scheduler.beam[u] = b
  IN /\ \A b \in Beam : gw.scheduler.ues[b][u] = (IF in(b) THEN 1 ELSE 0)
     /\ \A b \in Beam : gw.account.place[u] = b <=> in(b)
     /\ u \notin gw.scheduler.known => gw.scheduler.beam[u] = 0

SameUe(gw, next, u) ==
  /\ u \in next.scheduler.known <=> u \in gw.scheduler.known
  /\ next.scheduler.beam[u] = gw.scheduler.beam[u]
  /\ \A b \in Beam : next.scheduler.ues[b][u] = gw.scheduler.ues[b][u]
  /\ next.account.place[u] = gw.account.place[u]

OthersSame(gw, next, u) == \A v \in Ue \ {u} : SameUe(gw, next, v)

LEMMA SameAgrees ==
  ASSUME NEW gw, NEW next, NEW u, SameUe(gw, next, u), Agrees(gw, u)
  PROVE  Agrees(next, u)
BY DEF SameUe, Agrees

LEMMA OthersSameTransitive ==
  ASSUME NEW gw, NEW next, NEW last, NEW u, OthersSame(gw, next, u), OthersSame(next, last, u)
  PROVE  OthersSame(gw, last, u)
BY DEF OthersSame, SameUe

(* The UE is known, in beam `b` and registered there.                      *)
InBeam(gw, u, b) ==
  /\ u \in gw.scheduler.known
  /\ gw.scheduler.beam[u] = b /\ gw.account.place[u] = b

(* What the operators do to a UE: where it is afterwards, that all agree on *)
(* it, that the others stay where they are and that all are still counted. *)
LEMMA SchedulerUpdated ==
  ASSUME NEW sc \in Scheduler, NEW k \in SUBSET Ue, NEW beam \in [Ue -> Beam \cup {0}],
         NEW ues \in [Beam -> [Ue -> Nat]]
  PROVE  [sc EXCEPT !.known = k, !.beam = beam, !.ues = ues] \in Scheduler
BY DEF Scheduler

LEMMA AddUeInfoEffect ==
  ASSUME NEW gw \in Gateways, NEW u \in Ue, NEW b \in Beam,
         \A c \in Beam : gw.scheduler.ues[c][u] = 0
  PROVE  LET next == AddUeInfo(gw, u, b)
         IN  /\ next \in Gateways /\ next.serving = gw.serving
             /\ InBeam(next, u, b) /\ Agrees(next, u) /\ OthersSame(gw, next, u)
             /\ Covers(gw.account) => Covers(next.account)
<1> DEFINE next == AddUeInfo(gw, u, b)
           of == gw.account
           sc == gw.scheduler
           known1 == sc.known \cup {u}
           beam1 == [sc.beam EXCEPT ![u] = b]
           ues1 == [sc.ues EXCEPT ![b][u] = @ + 1]
           scheduler1 == [sc EXCEPT !.known = known1, !.beam = beam1, !.ues = ues1]
           account1 == RegisterUeToBeam(of, u, b)
<1>1. of \in Account /\ sc \in Scheduler
  BY DEF Gateways
<1>2. next.scheduler = scheduler1
  BY DEF AddUeInfo, Gateways
<1>record. next = [f \in {"scheduler", "account", "serving"} |-> next[f]]
  <2>1. DOMAIN next = DOMAIN gw
    BY DEF AddUeInfo
  <2>2. DOMAIN gw = {"scheduler", "account", "serving"}
    BY DEF Gateways
  <2>3. next = [f \in DOMAIN next |-> next[f]]
    BY DEF AddUeInfo
  <2> QED
    BY <2>1, <2>2, <2>3
<1>3. /\ next.serving = gw.serving /\ next.account = account1
      /\ next.scheduler.known = known1 /\ next.scheduler.beam = beam1
      /\ next.scheduler.ues = ues1
  BY DEF AddUeInfo, Gateways, Scheduler
<1>4. \A c \in Beam : sc.ues[c][u] = 0
  OBVIOUS
<1> HIDE DEF next, of, sc, account1
<1>5. /\ account1 \in Account /\ account1.place = [of.place EXCEPT ![u] = b]
      /\ Covers(of) => Covers(account1)
  BY <1>1, RegisteredToBeam DEF account1
<1>6. known1 \in SUBSET Ue /\ beam1 \in [Ue -> Beam \cup {0}] /\ ues1 \in [Beam -> [Ue -> Nat]]
  BY <1>1 DEF Scheduler
<1>7. \A c \in Beam : /\ ues1[c][u] = (IF c = b THEN 1 ELSE 0)
                      /\ \A v \in Ue \ {u} : ues1[c][v] = sc.ues[c][v]
  BY <1>1, <1>4 DEF Scheduler
<1>8. beam1[u] = b /\ \A v \in Ue \ {u} : beam1[v] = sc.beam[v]
  BY <1>1 DEF Scheduler
<1>9. account1.place[u] = b /\ \A v \in Ue \ {u} : account1.place[v] = of.place[v]
  BY <1>1, <1>5 DEF Account
<1> HIDE DEF beam1, ues1
<1>10. scheduler1 \in Scheduler
  BY <1>1, <1>6, SchedulerUpdated, Zenon
<1> HIDE DEF scheduler1
<1>12. next \in Gateways
  <2>1. /\ next["scheduler"] \in Scheduler /\ next["account"] \in Account
        /\ next["serving"] \in [Ue -> Object \cup {0}]
    BY <1>2, <1>3, <1>5, <1>10 DEF Gateways
  <2>2. QED
    BY <1>record, <2>1 DEF Gateways
<1>13. InBeam(next, u, b)
  BY <1>3, <1>8, <1>9 DEF InBeam
<1>14. Agrees(next, u)
  BY <1>3, <1>7, <1>8, <1>9 DEF Agrees
<1>15. OthersSame(gw, next, u)
  BY <1>3, <1>7, <1>8, <1>9 DEF OthersSame, SameUe, of, sc
<1>16. QED
  BY <1>3, <1>5, <1>12, <1>13, <1>14, <1>15 DEF next, of

LEMMA RemoveUtEffect ==
  ASSUME NEW gw \in Gateways, NEW u \in Ue, Agrees(gw, u)
  PROVE  LET next == RemoveUt(gw, u)
         IN  /\ next \in Gateways /\ next.serving = gw.serving
             /\ u \notin next.scheduler.known /\ next.scheduler.beam[u] = 0
             /\ next.account.place[u] = 0
             /\ Agrees(next, u) /\ OthersSame(gw, next, u)
             /\ Covers(gw.account) => Covers(next.account)
<1> DEFINE next == RemoveUt(gw, u)
           of == gw.account
           sc == gw.scheduler
           beam == sc.beam[u]
           known1 == sc.known \ {u}
           beam1 == [sc.beam EXCEPT ![u] = 0]
           ues1 == [b \in Beam |-> IF b = beam THEN [sc.ues[b] EXCEPT ![u] = 0] ELSE sc.ues[b]]
           scheduler1 == [sc EXCEPT !.known = known1, !.beam = beam1, !.ues = ues1]
           account1 == UnregisterUeFromBeam(of, u, beam)
<1>1. of \in Account /\ sc \in Scheduler
  BY DEF Gateways
<1>2. next.scheduler = scheduler1
  BY DEF RemoveUt, Gateways
<1>record. next = [f \in {"scheduler", "account", "serving"} |-> next[f]]
  BY DEF RemoveUt, Gateways
<1>3. /\ next.serving = gw.serving /\ next.account = account1
      /\ next.scheduler.known = known1 /\ next.scheduler.beam = beam1
      /\ next.scheduler.ues = ues1
  BY DEF RemoveUt, Gateways, Scheduler
<1>4. 0 \notin Beam
  BY CellsApart, ZeroIsNoObject
<1>5. /\ of.place[u] \in Beam \/ beam \notin Beam
      /\ \A b \in Beam : b # beam => sc.ues[b][u] = 0
  BY <1>4 DEF Agrees
<1> HIDE DEF next, of, sc, beam, account1
<1>6. /\ account1 \in Account /\ account1.place = [of.place EXCEPT ![u] = 0]
      /\ Covers(of) => Covers(account1)
  BY <1>1, <1>5, UnregisteredFromBeam DEF account1
<1>7. known1 \in SUBSET Ue /\ beam1 \in [Ue -> Beam \cup {0}] /\ ues1 \in [Beam -> [Ue -> Nat]]
  BY <1>1 DEF Scheduler
<1>8. \A c \in Beam : /\ ues1[c][u] = 0
                      /\ \A v \in Ue \ {u} : ues1[c][v] = sc.ues[c][v]
  BY <1>1, <1>5 DEF Scheduler
<1>9. beam1[u] = 0 /\ \A v \in Ue \ {u} : beam1[v] = sc.beam[v]
  BY <1>1 DEF Scheduler
<1>10. account1.place[u] = 0 /\ \A v \in Ue \ {u} : account1.place[v] = of.place[v]
  BY <1>1, <1>6 DEF Account
<1> HIDE DEF beam1, ues1
<1>11. scheduler1 \in Scheduler
  BY <1>1, <1>7, SchedulerUpdated, Zenon
<1> HIDE DEF scheduler1
<1>13. next \in Gateways
  <2>1. /\ next["scheduler"] \in Scheduler /\ next["account"] \in Account
        /\ next["serving"] \in [Ue -> Object \cup {0}]
    BY <1>2, <1>3, <1>6, <1>11 DEF Gateways
  <2>2. QED
    BY <1>record, <2>1 DEF Gateways
<1>14. Agrees(next, u)
  BY <1>3, <1>4, <1>8, <1>9, <1>10 DEF Agrees
<1>15. OthersSame(gw, next, u)
  BY <1>3, <1>8, <1>9, <1>10 DEF OthersSame, SameUe, of, sc
<1>16. QED
  BY <1>3, <1>6, <1>9, <1>10, <1>13, <1>14, <1>15 DEF next, of

LEMMA MoveUeEffect ==
  ASSUME NEW gw \in Gateways, NEW u \in Ue, NEW b \in Beam, Agrees(gw, u)
  PROVE  LET next == MoveUe(gw, u, b)
         IN  /\ next \in Gateways /\ next.serving = gw.serving
             /\ InBeam(next, u, b) /\ Agrees(next, u) /\ OthersSame(gw, next, u)
             /\ Covers(gw.account) => Covers(next.account)
<1> DEFINE removed == RemoveUt(gw, u)
           next == AddUeInfo(removed, u, b)
<1>1. /\ removed \in Gateways /\ removed.serving = gw.serving
      /\ Agrees(removed, u) /\ u \notin removed.scheduler.known
      /\ OthersSame(gw, removed, u)
      /\ Covers(gw.account) => Covers(removed.account)
  BY RemoveUtEffect
<1> HIDE DEF removed
<1>2. \A c \in Beam : removed.scheduler.ues[c][u] = 0
  BY <1>1 DEF Agrees
<1>3. /\ next \in Gateways /\ next.serving = removed.serving
      /\ InBeam(next, u, b) /\ Agrees(next, u) /\ OthersSame(removed, next, u)
      /\ Covers(removed.account) => Covers(next.account)
  BY <1>1, <1>2, AddUeInfoEffect
<1>4. MoveUe(gw, u, b) = next
  BY DEF MoveUe, removed
<1> HIDE DEF next
<1>5. OthersSame(gw, next, u)
  BY <1>1, <1>3, OthersSameTransitive
<1>6. QED
  BY <1>1, <1>3, <1>4, <1>5

-----------------------------------------------------------------------------
(* The fold over the UEs that load balancing moves.                        *)

(* Induction over a finite set, for sets: what holds of {}, and of a set    *)
(* whenever it holds of the set without some member, holds of all subsets.  *)
LEMMA SubsetInduction ==
  ASSUME NEW S, IsFiniteSet(S), NEW T, {} \in T,
         \A A \in SUBSET S : A # {} /\ (\A x \in A : A \ {x} \in T) => A \in T
  PROVE  SUBSET S \subseteq T
<1> DEFINE Bad == {A \in FiniteSubsetsOf(S) : A \notin T}
<1>1. SUBSET S = FiniteSubsetsOf(S)
  BY FS_Subset DEF FiniteSubsetsOf
<1>2. SUFFICES ASSUME Bad # {} PROVE FALSE
  BY <1>1
<1>3. IsWellFoundedOn(StrictSubsetOrdering(S), FiniteSubsetsOf(S))
  BY FS_StrictSubsetOrderingWellFounded
<1>4. PICK A \in Bad : \A B \in Bad : ~(<<B, A>> \in StrictSubsetOrdering(S))
  BY <1>2, <1>3, WFMin
<1>5. ASSUME NEW x \in A PROVE A \ {x} \in T
  <2>1. A \ {x} \in SUBSET S /\ A \in SUBSET S
    BY <1>1
  <2>2. <<A \ {x}, A>> \in StrictSubsetOrdering(S)
    BY <2>1, <1>5 DEF StrictSubsetOrdering
  <2>3. QED
    BY <1>1, <1>4, <2>1, <2>2
<1>6. A \in T
  BY <1>1, <1>5
<1>7. QED
  BY <1>6

(* One move more: the fold is the function that satisfies this equation.   *)
MoveStep(gw, move, f, s) ==
  IF s = {} THEN gw
  ELSE LET u == CHOOSE x \in s : TRUE IN MoveUe(f[s \ {u}], u, move[u])

LEMMA FoldUnfolded ==
  ASSUME NEW gw, NEW move
  PROVE  FoldSet(LAMBDA u, g : MoveUe(g, u, move[u]), gw, DOMAIN move) =
         LET f[s \in SUBSET DOMAIN move] == MoveStep(gw, move, f, s) IN f[DOMAIN move]
BY DEF FoldSet, MapThenFoldSet, MoveStep

(* Induction over the naturals, for a set.                                 *)
LEMMA NatSetInduction ==
  ASSUME NEW T, 0 \in T, \A n \in Nat : n \in T => n + 1 \in T
  PROVE  Nat \subseteq T
<1>1. SUFFICES ASSUME Nat \ T # {} PROVE FALSE
  OBVIOUS
<1>2. IsWellFoundedOn(OpToRel(<, Nat), Nat)
  BY NatLessThanWellFounded, Zenon
<1>3. PICK n \in Nat \ T : \A m \in Nat \ T : ~(<<m, n>> \in OpToRel(<, Nat))
  <2>1. Nat \ T \subseteq Nat
    OBVIOUS
  <2>2. QED
    BY <1>1, <1>2, <2>1, WFMin, Zenon
<1>4. n - 1 \in Nat /\ n - 1 < n /\ (n - 1) + 1 = n
  OBVIOUS
<1>5. <<n - 1, n>> \in OpToRel(<, Nat)
  BY <1>4, Zenon DEF OpToRel
<1>6. n - 1 \in T
  BY <1>3, <1>4, <1>5
<1>7. QED
  BY <1>4, <1>6

(* There is such a function: what solves the equation for all sets of n    *)
(* UEs solves it, put in once more, for those of n + 1.                    *)
LEMMA MoveStepSolvable ==
  ASSUME NEW gw, NEW move, IsFiniteSet(DOMAIN move)
  PROVE  \E f : f = [s \in SUBSET DOMAIN move |-> MoveStep(gw, move, f, s)]
<1> DEFINE S == DOMAIN move
           Next1(f) == [s \in SUBSET S |-> MoveStep(gw, move, f, s)]
           UpTo(f, n) == \A s \in SUBSET S : Cardinality(s) <= n => f[s] = Next1(f)[s]
           T == {n \in Nat : \E f : UpTo(Next1(f), n)}
<1>1. ASSUME NEW s \in SUBSET S
      PROVE  /\ IsFiniteSet(s) /\ Cardinality(s) \in Nat /\ Cardinality(s) <= Cardinality(S)
             /\ s # {} => /\ (CHOOSE x \in s : TRUE) \in s
                          /\ \A x \in s : Cardinality(s \ {x}) = Cardinality(s) - 1
             /\ Cardinality(s) = 0 => s = {}
  BY FS_Subset, FS_CardinalityType, FS_RemoveElement, FS_EmptySet
<1>2. ASSUME NEW n \in Nat, NEW f, UpTo(f, n), NEW s \in SUBSET S, Cardinality(s) <= n + 1
      PROVE  MoveStep(gw, move, f, s) = MoveStep(gw, move, Next1(f), s)
  <2>1. CASE s = {}
    BY <2>1 DEF MoveStep
  <2>2. CASE s # {}
    <3> DEFINE u == CHOOSE x \in s : TRUE
    <3>0. u \in s /\ Cardinality(s \ {u}) = Cardinality(s) - 1 /\ Cardinality(s) \in Nat
      BY <1>1, <2>2
    <3>1. s \ {u} \in SUBSET S /\ Cardinality(s \ {u}) <= n
      <4> HIDE DEF u
      <4>1. QED BY <1>2, <3>0
    <3> HIDE DEF u
    <3>2. f[s \ {u}] = Next1(f)[s \ {u}]
      BY <1>2, <3>1
    <3>3. QED
      BY <2>2, <3>2 DEF MoveStep, u
  <2>3. QED
    BY <2>1, <2>2
<1>3. 0 \in T
  <2>1. UpTo(Next1(<<>>), 0)
    BY <1>1 DEF MoveStep
  <2>2. QED
    BY <2>1
<1>4. ASSUME NEW n \in Nat, n \in T
      PROVE  n + 1 \in T
  <2>1. PICK f : UpTo(Next1(f), n)
    BY <1>4
  <2> DEFINE g == Next1(f)
  <2>2. ASSUME NEW s \in SUBSET S, Cardinality(s) <= n + 1
        PROVE  Next1(g)[s] = Next1(Next1(g))[s]
    <3>1. MoveStep(gw, move, g, s) = MoveStep(gw, move, Next1(g), s)
      BY <1>2, <2>1, <2>2
    <3>2. QED
      BY <3>1
  <2>3. UpTo(Next1(g), n + 1)
    BY <2>2
  <2>4. n + 1 \in Nat
    OBVIOUS
  <2> HIDE DEF UpTo, Next1, g
  <2>5. \E h : UpTo(Next1(h), n + 1)
    BY <2>3, Zenon
  <2>6. QED
    BY <2>4, <2>5, Zenon
<1>5. Cardinality(S) \in T
  BY <1>1, <1>3, <1>4, NatSetInduction
<1>6. PICK f : UpTo(Next1(f), Cardinality(S))
  BY <1>5
<1>7. Next1(f) = Next1(Next1(f))
  BY <1>1, <1>6
<1>8. QED
  BY <1>7

(* What is known of the UEs once those of `s` have been moved.              *)
Moved(gw, move, s, g) ==
  /\ g \in Gateways /\ g.serving = gw.serving
  /\ \A u \in Ue : Agrees(g, u)
  /\ \A u \in s : InBeam(g, u, move[u])
  /\ \A u \in Ue \ s : SameUe(gw, g, u)
  /\ Covers(gw.account) => Covers(g.account)

LEMMA FoldedMoves ==
  ASSUME NEW gw \in Gateways, \A u \in Ue : Agrees(gw, u),
         NEW movers \in SUBSET Ue, NEW move \in [movers -> Beam]
  PROVE  Moved(gw, move, movers,
               FoldSet(LAMBDA u, g : MoveUe(g, u, move[u]), gw, DOMAIN move))
<1> DEFINE f == CHOOSE f : f = [s \in SUBSET DOMAIN move |-> MoveStep(gw, move, f, s)]
           T == {s \in SUBSET movers : Moved(gw, move, s, f[s])}
<1>1. DOMAIN move = movers /\ IsFiniteSet(movers)
  BY FS_Subset, HandoverAssumption
<1>2. f = [s \in SUBSET movers |-> MoveStep(gw, move, f, s)]
  BY <1>1, MoveStepSolvable
<1>3. FoldSet(LAMBDA u, g : MoveUe(g, u, move[u]), gw, DOMAIN move) = f[movers]
  BY <1>1, FoldUnfolded
<1> HIDE DEF f
<1>4. {} \in T
  <2>1. f[{}] = gw
    BY <1>2 DEF MoveStep
  <2>2. Moved(gw, move, {}, gw)
    BY DEF Moved, SameUe
  <2>3. QED
    BY <2>1, <2>2
<1>5. ASSUME NEW s \in SUBSET movers, s # {}, \A x \in s : s \ {x} \in T
      PROVE  s \in T
  <2> DEFINE u == CHOOSE x \in s : TRUE
             g == f[s \ {u}]
             next == MoveUe(g, u, move[u])
  <2>1. u \in s
    BY <1>5
  <2>2. f[s] = next
    BY <1>2, <1>5 DEF MoveStep
  <2> HIDE DEF u
  <2>3. u \in Ue /\ move[u] \in Beam /\ Moved(gw, move, s \ {u}, g)
    BY <1>5, <2>1
  <2> HIDE DEF g
  <2>4. g \in Gateways /\ Agrees(g, u)
    BY <2>3 DEF Moved
  <2>5. /\ next \in Gateways /\ next.serving = g.serving
        /\ InBeam(next, u, move[u]) /\ Agrees(next, u) /\ OthersSame(g, next, u)
        /\ Covers(g.account) => Covers(next.account)
    BY <2>3, <2>4, MoveUeEffect
  <2> HIDE DEF next
  <2>6. \A v \in Ue : Agrees(next, v)
    BY <2>3, <2>5, SameAgrees DEF Moved, OthersSame
  <2>7. \A v \in s : InBeam(next, v, move[v])
    BY <2>3, <2>5 DEF Moved, OthersSame, SameUe, InBeam
  <2>8. \A v \in Ue \ s : SameUe(gw, next, v)
    BY <2>1, <2>3, <2>5 DEF Moved, OthersSame, SameUe
  <2>9. Moved(gw, move, s, next)
    BY <2>3, <2>5, <2>6, <2>7, <2>8 DEF Moved
  <2>10. QED
    BY <2>2, <2>9
<1>6. SUBSET movers \subseteq T
  <2> HIDE DEF T
  <2>1. QED
    BY <1>1, <1>4, <1>5, SubsetInduction
<1>7. QED
  BY <1>3, <1>6

LEMMA RebalancedEffect ==
  ASSUME NEW gw \in Gateways, \A u \in Ue : Agrees(gw, u),
         NEW movers \in SUBSET Ue, NEW move \in [movers -> Beam]
  PROVE  Moved(gw, move, movers, Rebalanced(gw, move))
<1> DEFINE g == FoldSet(LAMBDA u, g : MoveUe(g, u, move[u]), gw, DOMAIN move)
           next == Rebalanced(gw, move)
<1>1. Moved(gw, move, movers, g)
  BY FoldedMoves
<1>2. next = [gw EXCEPT !.scheduler = g.scheduler, !.account = g.account]
  BY DEF Rebalanced
<1> HIDE DEF g, next
<1>3. /\ next \in Gateways
      /\ next.scheduler = g.scheduler /\ next.account = g.account /\ next.serving = gw.serving
  BY <1>1, <1>2 DEF Moved, Gateways
<1>4. Moved(gw, move, movers, next)
  BY <1>1, <1>3 DEF Moved, Agrees, InBeam, SameUe
<1>5. QED
  BY <1>4 DEF next

-----------------------------------------------------------------------------
(* What the gateway knows of a UE.                                         *)

(* Where a UE is, by all that the gateway keeps: its serving object is      *)
(* `own`, the message under way for it of `kind`, and those of `away` were  *)
(* moved past the RRC since their handover.                                *)
Located(gw, u, own, kind, away) ==
  LET known == u \in gw.scheduler.known
      beam == gw.scheduler.beam[u]
      recorded == gw.serving[u]
  IN /\ Agrees(gw, u)
     /\ recorded = 0 =>
          /\ kind # "command"
          /\ known => own \in Beam /\ beam \in Beam /\ (u \notin away => beam = own)
     /\ recorded \in Ground => beam = 0 /\ (known => gw.account.place[u] = recorded)
     /\ known /\ beam = 0 => recorded \in Ground
     /\ recorded # 0 /\ u \notin away => beam = (IF recorded \in Beam THEN recorded ELSE 0)

(* UEs of beams that are moved to beams stay where they are known.         *)
LEMMA LocatedMoved ==
  ASSUME NEW gw \in Gateways, NEW next, NEW movers, NEW move \in [movers -> Beam],
         Moved(gw, move, movers, next), \A v \in movers : gw.account.place[v] \in Beam,
         NEW u \in Ue, NEW own, NEW kind, NEW away, Located(gw, u, own, kind, away)
  PROVE  Located(next, u, own, kind, away \cup movers)
<1>1. next.serving = gw.serving /\ Agrees(next, u) /\ 0 \notin Beam /\ Ground \cap Beam = {}
  BY CellsApart, ZeroIsNoObject DEF Moved
<1>2. CASE u \in movers
  <2>1. u \in gw.scheduler.known /\ gw.scheduler.beam[u] \in Beam
    BY <1>2 DEF Located, Agrees
  <2>2. u \in next.scheduler.known /\ next.scheduler.beam[u] \in Beam
    BY <1>2 DEF Moved, InBeam
  <2>3. gw.serving[u] \notin Ground
    BY <1>1, <1>2, <2>1 DEF Located
  <2>4. QED
    BY <1>1, <1>2, <2>1, <2>2, <2>3 DEF Located
<1>3. CASE u \notin movers
  <2>1. SameUe(gw, next, u)
    BY <1>3 DEF Moved
  <2>2. QED
    BY <1>1, <1>3, <2>1 DEF Located, SameUe
<1>4. QED
  BY <1>2, <1>3

(* A UE whose neighbour's entries change stays where it is.                *)
LEMMA LocatedSame ==
  ASSUME NEW gw, NEW next, NEW u, SameUe(gw, next, u), next.serving[u] = gw.serving[u],
         NEW own, NEW kind, NEW away, NEW away1, u \in away <=> u \in away1,
         Located(gw, u, own, kind, away)
  PROVE  Located(next, u, own, kind, away1)
<1>1. Agrees(next, u)
  BY SameAgrees DEF Located
<1>2. QED
  BY <1>1 DEF Located, SameUe

LEMMA AddUeContextEffect ==
  ASSUME NEW gw \in Gateways, NEW u \in Ue, u \notin gw.scheduler.known
  PROVE  LET next == AddUeContext(gw, u)
         IN  /\ next \in Gateways /\ next.account = gw.account /\ next.serving = gw.serving
             /\ next.scheduler.known = gw.scheduler.known \cup {u}
             /\ next.scheduler.beam = [gw.scheduler.beam EXCEPT ![u] = 0]
             /\ next.scheduler.ues = gw.scheduler.ues
<1> DEFINE next == AddUeContext(gw, u)
           sc == gw.scheduler
           known1 == sc.known \cup {u}
           beam1 == [sc.beam EXCEPT ![u] = 0]
           scheduler1 == [sc EXCEPT !.known = known1, !.beam = beam1, !.ues = sc.ues]
<1>1. sc \in Scheduler /\ gw.account \in Account /\ gw.serving \in [Ue -> Object \cup {0}]
  BY DEF Gateways
<1>2. /\ next.serving = gw.serving /\ next.account = gw.account
      /\ next.scheduler.known = known1 /\ next.scheduler.beam = beam1
      /\ next.scheduler.ues = sc.ues
  BY DEF AddUeContext, Gateways, Scheduler
<1>3. next = [f \in {"scheduler", "account", "serving"} |-> next[f]]
  BY DEF AddUeContext, Gateways
<1>4. next.scheduler = [f \in {"known", "beam", "ues"} |-> next.scheduler[f]]
  BY DEF AddUeContext, Gateways, Scheduler
<1> HIDE DEF next, sc
<1>5. known1 \in SUBSET Ue /\ beam1 \in [Ue -> Beam \cup {0}] /\ sc.ues \in [Beam -> [Ue -> Nat]]
  BY <1>1, CellsApart DEF Scheduler
<1>6. next.scheduler \in Scheduler
  BY <1>2, <1>4, <1>5 DEF Scheduler
<1>7. next \in Gateways
  BY <1>1, <1>2, <1>3, <1>6 DEF Gateways
<1>8. QED
  BY <1>2, <1>7 DEF next, sc

(* The UE has a context where the report says it is served.                *)
LEMMA EnsuredEffect ==
  ASSUME NEW gw \in Gateways, NEW u \in Ue, NEW report, report.from \in Object,
         NEW away, Located(gw, u, report.from, "report", away),
         gw.serving[u] \in {0, report.from}
  PROVE  LET next == EnsureUeContextFromReport(gw, u, report)
         IN  /\ next \in Gateways /\ next.serving = WithServing(gw, u, report.from)
             /\ u \in next.scheduler.known
             /\ Located(next, u, report.from, "report", away) /\ OthersSame(gw, next, u)
             /\ Covers(gw.account) => Covers(next.account)
<1> DEFINE from == report.from
           served == [gw EXCEPT !.serving[u] = from]
           context == AddUeContext(served, u)
           next == EnsureUeContextFromReport(gw, u, report)
<1>1. /\ served \in Gateways
      /\ served.scheduler = gw.scheduler /\ served.account = gw.account
      /\ served.serving = [gw.serving EXCEPT ![u] = from]
  BY DEF Gateways
<1>2. /\ from # 0 /\ 0 \notin Beam /\ Ground \cap Beam = {} /\ from \in Ground \cup Beam
      /\ gw.serving \in [Ue -> Object \cup {0}] /\ gw.account \in Account
      /\ gw.scheduler \in Scheduler
  BY CellsApart, ZeroIsNoObject DEF Object, Gateways
<1>3. CASE u \in gw.scheduler.known
  <2>1. next = served
    BY <1>3 DEF EnsureUeContextFromReport
  <2> HIDE DEF next, served
  <2>2. Located(next, u, from, "report", away)
    BY <1>1, <1>2, <1>3, <2>1 DEF Located, Agrees
  <2>3. OthersSame(gw, next, u) /\ Covers(gw.account) => Covers(next.account)
    BY <1>1, <2>1 DEF OthersSame, SameUe
  <2>4. OthersSame(gw, next, u) /\ next.serving = WithServing(gw, u, from)
    BY <1>1, <2>1 DEF OthersSame, SameUe, WithServing
  <2>5. QED
    BY <1>1, <1>3, <2>1, <2>2, <2>3, <2>4 DEF next
<1>4. CASE u \notin gw.scheduler.known
  <2>1. /\ context \in Gateways
        /\ context.scheduler.known = gw.scheduler.known \cup {u}
        /\ context.scheduler.beam = gw.scheduler.beam
        /\ context.scheduler.ues = gw.scheduler.ues
        /\ context.account = gw.account
        /\ context.serving = WithServing(gw, u, from)
    <3> HIDE DEF served, context
    <3>1. gw.scheduler.beam = [gw.scheduler.beam EXCEPT ![u] = 0]
      BY <1>2, <1>4 DEF Located, Agrees, Scheduler
    <3>2. /\ context \in Gateways /\ context.account = served.account
          /\ context.serving = served.serving
          /\ context.scheduler.known = served.scheduler.known \cup {u}
          /\ context.scheduler.beam = [served.scheduler.beam EXCEPT ![u] = 0]
          /\ context.scheduler.ues = served.scheduler.ues
      BY <1>1, <1>4, AddUeContextEffect DEF context
    <3>3. QED
      BY <1>1, <3>1, <3>2 DEF WithServing
  <2>2. OthersSame(gw, context, u)
    BY <2>1 DEF OthersSame, SameUe
  <2> HIDE DEF served, context
  <2>3. CASE from \in Beam
    <3>1. next = AddUeInfo(context, u, from)
      BY <1>4, <2>3 DEF EnsureUeContextFromReport, context, served
    <3> HIDE DEF next
    <3>2. \A c \in Beam : context.scheduler.ues[c][u] = 0
      BY <1>4, <2>1 DEF Located, Agrees
    <3>3. /\ next \in Gateways /\ next.serving = context.serving
          /\ InBeam(next, u, from) /\ Agrees(next, u) /\ OthersSame(context, next, u)
          /\ Covers(context.account) => Covers(next.account)
      BY <2>1, <2>3, <3>1, <3>2, AddUeInfoEffect
    <3>4. OthersSame(gw, next, u)
      BY <2>2, <3>3, OthersSameTransitive
    <3>5. next.serving[u] = from
      BY <1>2, <2>1, <3>3 DEF WithServing
    <3>6. Located(next, u, from, "report", away)
      BY <1>2, <2>3, <3>3, <3>5 DEF Located, InBeam
    <3>7. QED
      BY <2>1, <3>3, <3>4, <3>6 DEF next, InBeam
  <2>4. CASE from \in Ground
    <3> DEFINE account1 == RegisterUeToGround(gw.account, u, from)
    <3>1. next = [context EXCEPT !.account = account1]
      BY <1>2, <1>4, <2>1, <2>4 DEF EnsureUeContextFromReport, context, served, Gateways
    <3>2. /\ account1 \in Account /\ account1.place = [gw.account.place EXCEPT ![u] = from]
          /\ Covers(gw.account) => Covers(account1)
      BY <1>2, <2>4, RegisteredToGround
    <3> HIDE DEF next, account1
    <3>3. /\ next \in Gateways /\ next.account = account1
          /\ next.scheduler = context.scheduler /\ next.serving = context.serving
      BY <2>1, <3>1, <3>2 DEF Gateways
    <3>4. account1.place[u] = from /\ \A v \in Ue \ {u} : account1.place[v] = gw.account.place[v]
      BY <1>2, <3>2 DEF Account
    <3>5. OthersSame(gw, next, u)
      BY <2>1, <3>3, <3>4 DEF OthersSame, SameUe
    <3>6. next.serving[u] = from
      BY <1>2, <2>1, <3>3 DEF WithServing
    <3>7. /\ next.scheduler.beam[u] = 0 /\ u \in next.scheduler.known
          /\ \A c \in Beam : next.scheduler.ues[c][u] = 0
      BY <1>4, <2>1, <3>3 DEF Located, Agrees
    <3>8. Located(next, u, from, "report", away)
      BY <1>2, <2>4, <3>3, <3>4, <3>6, <3>7 DEF Located, Agrees
    <3>9. QED
      BY <2>1, <3>2, <3>3, <3>5, <3>7, <3>8 DEF next
  <2>5. QED
    BY <1>2, <2>3, <2>4
<1>5. QED
  BY <1>3, <1>4

(* A UE handed over is where its command sends it, and load balancing has   *)
(* not moved it since.                                                     *)
LEMMA ExecutedEffect ==
  ASSUME NEW gw \in Gateways, NEW u \in Ue, NEW report,
         report.from \in Object, report.to \in Object \ {report.from},
         report.to \in Ground => report.from \in Beam,
         NEW away, Located(gw, u, report.from, "report", away),
         gw.serving[u] = report.from, u \in gw.scheduler.known
  PROVE  LET next == ExecuteHandover(gw, u, report)
         IN  /\ next \in Gateways
             /\ Located(next, u, report.from, "command", away \ {u}) /\ OthersSame(gw, next, u)
             /\ Covers(gw.account) => Covers(next.account)
<1> DEFINE from == report.from
           to == report.to
           next == ExecuteHandover(gw, u, report)
<1>1. /\ 0 \notin Beam \cup Ground /\ Ground \cap Beam = {} /\ to \in Object
      /\ from \in Ground \cup Beam /\ to \in Ground \cup Beam /\ to # from
  BY CellsApart, ZeroIsNoObject DEF Object
<1>2. Agrees(gw, u)
  BY DEF Located
<1>3. CASE to \in Ground
  <2> DEFINE removed == RemoveUt(gw, u)
             account1 == RegisterUeToGround(removed.account, u, to)
  <2>1. /\ removed \in Gateways /\ removed.serving = gw.serving
        /\ u \notin removed.scheduler.known /\ removed.scheduler.beam[u] = 0
        /\ Agrees(removed, u) /\ OthersSame(gw, removed, u)
        /\ Covers(gw.account) => Covers(removed.account)
    BY <1>2, RemoveUtEffect
  <2>2. next = [removed EXCEPT !.serving[u] = to, !.account = account1]
    <3>1. IsGateway(removed)
      BY <2>1 DEF Gateways, IsGateway
    <3>2. next = [removed EXCEPT !.serving[u] = to, !.account = RegisterUeToGround(@, u, to)]
      BY <1>3 DEF ExecuteHandover, ExecuteSatToGroundHandover
    <3> HIDE DEF removed, next
    <3>3. QED
      BY <3>1, <3>2 DEF IsGateway
  <2> HIDE DEF removed
  <2>3. removed.account \in Account
    BY <2>1 DEF Gateways
  <2>4. /\ account1 \in Account /\ account1.place = [removed.account.place EXCEPT ![u] = to]
        /\ Covers(removed.account) => Covers(account1)
    BY <1>3, <2>3, RegisteredToGround
  <2> HIDE DEF account1, next
  <2>5. /\ next \in Gateways /\ next.scheduler = removed.scheduler /\ next.account = account1
        /\ next.serving = [gw.serving EXCEPT ![u] = to]
    BY <1>1, <2>1, <2>2, <2>4 DEF Gateways
  <2>6. /\ account1.place[u] = to
        /\ \A v \in Ue \ {u} : account1.place[v] = removed.account.place[v]
    BY <2>3, <2>4 DEF Account
  <2>7. next.serving[u] = to
    BY <2>5 DEF Gateways
  <2>8. OthersSame(gw, next, u)
    <3>1. OthersSame(removed, next, u)
      BY <2>5, <2>6 DEF OthersSame, SameUe
    <3>2. QED
      BY <2>1, <3>1, OthersSameTransitive
  <2>9. Agrees(next, u)
    BY <1>1, <1>3, <2>1, <2>5, <2>6 DEF Agrees
  <2>10. Located(next, u, from, "command", away \ {u})
    BY <1>1, <1>3, <2>1, <2>5, <2>7, <2>9 DEF Located
  <2>11. QED
    BY <2>1, <2>4, <2>5, <2>8, <2>10 DEF next
<1>4. ASSUME NEW entered \in Gateways, entered.serving = gw.serving, InBeam(entered, u, to),
             Agrees(entered, u), OthersSame(gw, entered, u),
             Covers(gw.account) => Covers(entered.account), to \in Beam,
             NEW of, of = entered.account \/ of = UnregisterUeFromBeam(entered.account, u, from),
             next = [entered EXCEPT !.serving[u] = to, !.account = RegisterUeToBeam(of, u, to)]
      PROVE  /\ next \in Gateways
             /\ Located(next, u, report.from, "command", away \ {u}) /\ OthersSame(gw, next, u)
             /\ Covers(gw.account) => Covers(next.account)
  <2> DEFINE account1 == RegisterUeToBeam(of, u, to)
  <2>1. entered.account \in Account
    BY DEF Gateways
  <2>2. /\ of \in Account
        /\ \A v \in Ue \ {u} : of.place[v] = entered.account.place[v]
        /\ Covers(entered.account) => Covers(of)
    <3>1. CASE of = entered.account
      BY <2>1, <3>1
    <3>2. CASE of = UnregisterUeFromBeam(entered.account, u, from)
      <4>1. /\ of \in Account /\ of.place = [entered.account.place EXCEPT ![u] = 0]
            /\ Covers(entered.account) => Covers(of)
        BY <1>4, <2>1, <3>2, UnregisteredFromBeam DEF InBeam
      <4>2. QED
        BY <2>1, <4>1 DEF Account
    <3>3. QED
      BY <1>4, <3>1, <3>2
  <2>3. /\ account1 \in Account /\ account1.place = [of.place EXCEPT ![u] = to]
        /\ Covers(of) => Covers(account1)
    BY <1>4, <2>2, RegisteredToBeam
  <2> HIDE DEF account1, next
  <2>4. /\ next \in Gateways /\ next.scheduler = entered.scheduler /\ next.account = account1
        /\ next.serving = [gw.serving EXCEPT ![u] = to]
    BY <1>1, <1>4, <2>3 DEF account1, Gateways
  <2>5. /\ account1.place[u] = to
        /\ \A v \in Ue \ {u} : account1.place[v] = entered.account.place[v]
    BY <2>2, <2>3 DEF Account
  <2>6. next.serving[u] = to
    BY <2>4 DEF Gateways
  <2>7. OthersSame(gw, next, u)
    <3>1. OthersSame(entered, next, u)
      BY <2>4, <2>5 DEF OthersSame, SameUe
    <3>2. QED
      BY <1>4, <3>1, OthersSameTransitive
  <2>8. Agrees(next, u)
    BY <1>4, <2>4, <2>5 DEF Agrees, InBeam
  <2>9. Located(next, u, from, "command", away \ {u})
    BY <1>1, <1>4, <2>4, <2>6, <2>8 DEF Located, InBeam
  <2>10. QED
    BY <1>4, <2>2, <2>3, <2>4, <2>7, <2>9
<1>5. CASE to \in Beam /\ from \in Beam
  <2> DEFINE entered == MoveUe(gw, u, to)
             of == UnregisterUeFromBeam(entered.account, u, from)
  <2>1. /\ entered \in Gateways /\ entered.serving = gw.serving
        /\ InBeam(entered, u, to) /\ Agrees(entered, u) /\ OthersSame(gw, entered, u)
        /\ Covers(gw.account) => Covers(entered.account)
    BY <1>2, <1>5, MoveUeEffect
  <2>2. next = [entered EXCEPT !.serving[u] = to,
                               !.account =
                                 RegisterUeToBeam(UnregisterUeFromBeam(@, u, from), u, to)]
    BY <1>1, <1>5 DEF ExecuteHandover, ExecuteBeamHandover
  <2> HIDE DEF entered, next
  <2>3. next = [entered EXCEPT !.serving[u] = to, !.account = RegisterUeToBeam(of, u, to)]
    BY <2>1, <2>2 DEF Gateways
  <2> HIDE DEF of
  <2>4. of = UnregisterUeFromBeam(entered.account, u, from)
    BY DEF of
  <2>5. QED
    BY <1>4, <1>5, <2>1, <2>3, <2>4 DEF next
<1>6. CASE to \in Beam /\ from \in Ground
  <2> DEFINE left == [gw EXCEPT !.account = UnregisterUeFromGround(@, u, from)]
             entered == AddUeInfo(left, u, to)
  <2>1. gw.account \in Account /\ gw.scheduler.beam[u] = 0 /\ gw.account.place[u] = from
    BY <1>1, <1>6 DEF Located, Gateways
  <2>2. /\ UnregisterUeFromGround(gw.account, u, from) \in Account
        /\ UnregisterUeFromGround(gw.account, u, from).place = [gw.account.place EXCEPT ![u] = 0]
        /\ Covers(gw.account) => Covers(UnregisterUeFromGround(gw.account, u, from))
    BY <1>6, <2>1, UnregisteredFromGround
  <2>3. /\ left \in Gateways /\ left.serving = gw.serving /\ left.scheduler = gw.scheduler
        /\ left.account = UnregisterUeFromGround(gw.account, u, from)
    BY <2>2 DEF Gateways
  <2>4. next = [entered EXCEPT !.serving[u] = to, !.account = RegisterUeToBeam(@, u, to)]
    BY <1>1, <1>6 DEF ExecuteHandover, ExecuteGroundToSatHandover
  <2> HIDE DEF left, next
  <2>5. \A c \in Beam : left.scheduler.ues[c][u] = 0
    BY <1>1, <1>2, <2>1, <2>3 DEF Agrees
  <2>6. OthersSame(gw, left, u)
    BY <2>1, <2>2, <2>3 DEF OthersSame, SameUe, Account
  <2>7. /\ entered \in Gateways /\ entered.serving = gw.serving
        /\ InBeam(entered, u, to) /\ Agrees(entered, u) /\ OthersSame(left, entered, u)
        /\ Covers(left.account) => Covers(entered.account)
    BY <1>6, <2>3, <2>5, AddUeInfoEffect
  <2> HIDE DEF entered
  <2>8. OthersSame(gw, entered, u)
    BY <2>6, <2>7, OthersSameTransitive
  <2>9. next = [entered EXCEPT !.serving[u] = to,
                               !.account = RegisterUeToBeam(entered.account, u, to)]
    BY <2>4, <2>7 DEF Gateways
  <2>10. QED
    BY <1>4, <1>6, <2>2, <2>3, <2>7, <2>8, <2>9 DEF next
<1>7. QED
  BY <1>1, <1>3, <1>5, <1>6

LEMMA GatewayIs ==
  ASSUME NEW gw \in Gateways
  PROVE  gw = [scheduler |-> gw.scheduler, account |-> gw.account, serving |-> gw.serving]
BY DEF Gateways

(* Load balancing moves UEs registered to beams, each to a beam, and a      *)
(* handover to the ground comes from a beam.                               *)
LEMMA DecisionEffect ==
  ASSUME NEW gw, NEW u, NEW report, NEW decision \in Decisions(gw, u, report)
  PROVE  /\ \E movers \in SUBSET Ue :
              /\ decision.move \in [movers -> Beam]
              /\ \A v \in movers : gw.account.place[v] \in Beam
         /\ decision.admit /\ report.to \in Ground => report.from \in Beam
<1>1. <<>> \in [{} -> Beam] /\ {} \in SUBSET Ue
  OBVIOUS
<1>2. CASE report.to \in Ground
  <2>1. decision.move = <<>> /\ (decision.admit => report.from \in Beam)
    BY <1>2 DEF Decisions
  <2>2. QED
    BY <1>1, <2>1
<1>3. CASE report.to \notin Ground
  <2>1. PICK remaining \in [Beam -> RemainingRbs], rbs \in Requests,
             asked \in EstimateRequiredRbs(u) :
          decision \in CanHandoverUe(gw.account, remaining, rbs, report.from, report.to, u, asked)
    BY <1>3 DEF Decisions
  <2>2. decision.move = <<>> \/ decision.move \in Rebalancings(gw.account, remaining, rbs)
    <3> DEFINE direct == CanAdmitUe(gw.account.emergency, remaining, report.to, u, asked, FALSE)
               gain == IsBeneficial(remaining, report.from, report.to, u, asked, FALSE)
               spread == IsImbalanced(remaining)
    <3>1. CASE direct /\ gain
      <4>1. decision \in {[admit |-> TRUE, move |-> <<>>, returns |-> TRUE]}
        BY <2>1, <3>1, Zenon DEF CanHandoverUe
      <4>2. QED
        BY <4>1
    <3>2. CASE ~(direct /\ gain) /\ spread
      <4> DEFINE admit == /\ direct
                          /\ ~IsRedirected(remaining, report.from, report.to, u, asked, FALSE)
      <4>1. decision \in {[admit |-> admit, move |-> move,
                           returns |-> ~IsEndless(gw.account, remaining, rbs, move)] :
                            move \in Rebalancings(gw.account, remaining, rbs)}
        BY <2>1, <3>2, Zenon DEF CanHandoverUe
      <4> HIDE DEF admit
      <4>2. QED
        BY <4>1
    <3>3. CASE ~(direct /\ gain) /\ ~spread
      <4> DEFINE admit == /\ direct
                          /\ ~IsRedirected(remaining, report.from, report.to, u, asked, FALSE)
      <4>1. decision \in {[admit |-> admit, move |-> <<>>, returns |-> TRUE]}
        BY <2>1, <3>3, Zenon DEF CanHandoverUe
      <4> HIDE DEF admit
      <4>2. QED
        BY <4>1
    <3>4. QED
      BY <3>1, <3>2, <3>3
  <2>3. CASE decision.move \in Rebalancings(gw.account, remaining, rbs)
    <3> DEFINE movers ==
          {v \in Ue : RebalancingTargets(gw.account, remaining, rbs, v) # {}}
    <3>1. decision.move \in [movers -> Beam]
      BY <2>3 DEF Rebalancings
    <3>2. \A v \in movers : gw.account.place[v] \in Beam
      BY DEF RebalancingTargets
    <3>3. movers \in SUBSET Ue
      OBVIOUS
    <3> HIDE DEF movers
    <3>4. QED
      BY <1>3, <3>1, <3>2, <3>3
  <2>4. QED
    BY <1>1, <1>3, <2>2, <2>3
<1>4. QED
  BY <1>2, <1>3

-----------------------------------------------------------------------------
(* The invariant.                                                          *)

AgreeInv ==
  /\ Gateway \in Gateways
  /\ moved \subseteq Ue
  /\ \A u \in Ue : Located(Gateway, u, serving[u], flight[u].kind, moved)
  /\ Covers(account)

LEMMA GatewayFields ==
  /\ Gateway.scheduler = scheduler /\ Gateway.account = account
  /\ Gateway.serving = ueServingObject
BY DEF Gateway

(* AgreeInv strengthens RecordsAgree and CountsCover by what is known of a  *)
(* UE not on record, one on the ground, and one moved past the RRC.        *)
LEMMA AgreeInit == HandoverInit => AgreeInv
<1> SUFFICES ASSUME HandoverInit PROVE AgreeInv
  OBVIOUS
<1>1. 0 \notin Beam \cup Ground
  BY CellsApart, ZeroIsNoObject
<1>2. scheduler \in Scheduler
  BY DEF HandoverInit, Scheduler
<1>3. account \in Account
  BY DEF HandoverInit, EmptyAccount, Account
<1>4. Gateway \in Gateways
  BY <1>2, <1>3 DEF HandoverInit, Gateway, Gateways
<1>5. ASSUME NEW u \in Ue PROVE Located(Gateway, u, serving[u], flight[u].kind, moved)
  <2>1. /\ Gateway.scheduler.known = {} /\ Gateway.scheduler.beam[u] = 0
        /\ \A b \in Beam : Gateway.scheduler.ues[b][u] = 0
        /\ Gateway.account.place[u] = 0 /\ Gateway.serving[u] = 0
    BY GatewayFields DEF HandoverInit, EmptyAccount
  <2>2. flight[u].kind # "command"
    BY DEF HandoverInit, Init, Nothing
  <2>3. QED
    BY <1>1, <2>1, <2>2 DEF Located, Agrees
<1>6. Covers(account)
  <2>1. \A S : 0 \notin S => Placed(account, S) = {}
    BY DEF HandoverInit, EmptyAccount, Placed
  <2>2. Cardinality(Placed(account, Beam)) = 0
        /\ \A g \in Ground : Cardinality(Placed(account, {g})) = 0
    BY <1>1, <2>1, FS_EmptySet
  <2>3. \A g \in Ground : account.active[g] = 0
    BY CellsApart DEF HandoverInit, EmptyAccount
  <2>4. QED
    BY <1>3, <2>2, <2>3, CountedFinite DEF Covers
<1>7. QED
  BY <1>4, <1>5, <1>6 DEF AgreeInv, HandoverInit

(* A report that arrives: context, load balancing, handover.               *)
LEMMA ReceivedAgree ==
  ASSUME AgreeInv, HandoverInv, NEW u \in Ue, ReceiveMeasReport(u)
  PROVE  AgreeInv'
<1> DEFINE report == flight[u]
           ensured == EnsureUeContextFromReport(Gateway, u, report)
<1>1. PICK decision \in Decisions(ensured, u, report) :
        LET balanced == Rebalanced(ensured, decision.move)
            gw == IF decision.admit THEN ExecuteHandover(balanced, u, report) ELSE balanced
        IN /\ scheduler' = gw.scheduler
           /\ account' = gw.account
           /\ ueServingObject' = gw.serving
           /\ moved' = (moved \cup DOMAIN decision.move) \ (IF decision.admit THEN {u} ELSE {})
           /\ flight' = [flight EXCEPT ![u] = AnswerTo(gw, u, report)]
  BY DEF ReceiveMeasReport
<1> DEFINE balanced == Rebalanced(ensured, decision.move)
           gw == IF decision.admit THEN ExecuteHandover(balanced, u, report) ELSE balanced
<1>2. /\ scheduler' = gw.scheduler /\ account' = gw.account /\ ueServingObject' = gw.serving
      /\ moved' = (moved \cup DOMAIN decision.move) \ (IF decision.admit THEN {u} ELSE {})
      /\ flight' = [flight EXCEPT ![u] = AnswerTo(gw, u, report)]
  BY <1>1
<1>3. /\ report.kind = "report" /\ serving' = serving
      /\ report.from = serving[u] /\ report.from \in Object
      /\ report.to \in Object \ {report.from}
  BY DEF ReceiveMeasReport, HandoverInv, ReportingInv, Waits, Nothing
<1>4. Gateway \in Gateways /\ Gateway.serving[u] \in {0, report.from}
      /\ Located(Gateway, u, report.from, "report", moved)
  BY <1>3, GatewayFields DEF AgreeInv, HandoverInv, RecordInv, RecordAgrees
<1>5. /\ ensured \in Gateways /\ ensured.serving = WithServing(Gateway, u, report.from)
      /\ u \in ensured.scheduler.known
      /\ Located(ensured, u, report.from, "report", moved) /\ OthersSame(Gateway, ensured, u)
      /\ Covers(Gateway.account) => Covers(ensured.account)
  BY <1>3, <1>4, EnsuredEffect
<1>6. PICK movers \in SUBSET Ue :
        /\ decision.move \in [movers -> Beam]
        /\ \A v \in movers : ensured.account.place[v] \in Beam
        /\ decision.admit /\ report.to \in Ground => report.from \in Beam
  BY DecisionEffect
<1>7. /\ ensured.serving[u] = report.from
      /\ \A v \in Ue \ {u} : ensured.serving[v] = Gateway.serving[v]
  BY <1>4, <1>5 DEF WithServing, Gateways
<1>8. \A v \in Ue : Located(ensured, v, serving[v], flight[v].kind, moved)
  <2> SUFFICES ASSUME NEW v \in Ue \ {u}
               PROVE  Located(ensured, v, serving[v], flight[v].kind, moved)
    BY <1>3, <1>5
  <2>1. SameUe(Gateway, ensured, v) /\ ensured.serving[v] = Gateway.serving[v]
    BY <1>5, <1>7 DEF OthersSame
  <2>2. Located(Gateway, v, serving[v], flight[v].kind, moved)
    BY DEF AgreeInv
  <2> HIDE DEF ensured, report
  <2>3. QED
    BY <2>1, <2>2, LocatedSame
<1> HIDE DEF ensured
<1>9. Moved(ensured, decision.move, movers, balanced)
  BY <1>5, <1>6, <1>8, RebalancedEffect DEF Located
<1> HIDE DEF balanced
<1>10. \A v \in Ue : Located(balanced, v, serving[v], flight[v].kind, moved \cup movers)
  BY <1>5, <1>6, <1>8, <1>9, LocatedMoved
<1>11. /\ balanced \in Gateways /\ balanced.serving[u] = report.from
       /\ Located(balanced, u, report.from, "report", moved \cup movers)
       /\ u \in balanced.scheduler.known
       /\ Covers(ensured.account) => Covers(balanced.account)
  <2>1. balanced \in Gateways /\ balanced.serving = ensured.serving
        /\ (Covers(ensured.account) => Covers(balanced.account))
    BY <1>9 DEF Moved
  <2>2. u \in balanced.scheduler.known
    BY <1>5, <1>9 DEF Moved, SameUe, InBeam
  <2>3. QED
    BY <1>3, <1>7, <1>10, <2>1, <2>2
<1>12. Covers(Gateway.account) /\ DOMAIN decision.move = movers
  BY <1>6, GatewayFields DEF AgreeInv
<1>13. CASE decision.admit
  <2> DEFINE next == ExecuteHandover(balanced, u, report)
  <2>1. /\ next \in Gateways
        /\ Located(next, u, report.from, "command", (moved \cup movers) \ {u})
        /\ OthersSame(balanced, next, u)
        /\ Covers(balanced.account) => Covers(next.account)
    BY <1>3, <1>6, <1>11, <1>13, ExecutedEffect
  <2>2. next.serving = [balanced.serving EXCEPT ![u] = report.to]
    <3>1. IsGateway(balanced)
      BY <1>11 DEF Gateways, IsGateway
    <3>2. next.serving = WithServing(balanced, u, report.to)
      BY <3>1, ExecutedIsOnRecord
    <3> HIDE DEF next
    <3>3. QED
      BY <3>2 DEF WithServing
  <2>3. gw = next
    BY <1>13
  <2> HIDE DEF next, gw, report
  <2>4. next.serving[u] = report.to
        /\ \A v \in Ue \ {u} : next.serving[v] = balanced.serving[v]
    BY <1>11, <2>2 DEF Gateways
  <2>5. moved' = (moved \cup movers) \ {u}
    BY <1>2, <1>12, <1>13
  <2>6. Gateway' = next
    BY <1>2, <2>1, <2>3, GatewayIs DEF Gateway
  <2>7. flight'[u].kind = "command" /\ \A v \in Ue \ {u} : flight'[v] = flight[v]
    BY <1>2, <2>3, <2>4 DEF HandoverInv, ReportingInv, AnswerTo, GetServingObjectForUe, Command
  <2>8. ASSUME NEW v \in Ue PROVE Located(Gateway', v, serving'[v], flight'[v].kind, moved')
    <3>1. CASE v = u
      BY <1>3, <2>1, <2>5, <2>6, <2>7, <3>1
    <3>2. CASE v # u
      <4>1. SameUe(balanced, next, v) /\ next.serving[v] = balanced.serving[v]
            /\ (v \in moved \cup movers <=> v \in (moved \cup movers) \ {u})
        BY <2>1, <2>4, <3>2 DEF OthersSame
      <4>2. Located(next, v, serving[v], flight[v].kind, (moved \cup movers) \ {u})
        BY <1>10, <4>1, LocatedSame
      <4>3. QED
        BY <1>3, <2>5, <2>6, <2>7, <3>2, <4>2
    <3>3. QED
      BY <3>1, <3>2
  <2>9. Covers(account') /\ moved' \subseteq Ue
    BY <1>2, <1>5, <1>11, <1>12, <2>1, <2>3, <2>5 DEF AgreeInv
  <2>10. QED
    BY <2>1, <2>6, <2>8, <2>9 DEF AgreeInv
<1>14. CASE ~decision.admit
  <2>1. gw = balanced /\ moved' = moved \cup movers
    BY <1>2, <1>12, <1>14
  <2> HIDE DEF gw, report
  <2>2. Gateway' = balanced
    BY <1>2, <1>11, <2>1, GatewayIs DEF Gateway
  <2>3. flight'[u].kind = "nothing" /\ \A v \in Ue \ {u} : flight'[v] = flight[v]
    BY <1>2, <1>3, <1>11, <2>1
    DEF HandoverInv, ReportingInv, AnswerTo, GetServingObjectForUe, Nothing
  <2>4. ASSUME NEW v \in Ue PROVE Located(Gateway', v, serving'[v], flight'[v].kind, moved')
    <3>1. CASE v = u
      <4>1. balanced.serving[u] # 0
        BY <1>3, <1>11, ZeroIsNoObject
      <4>2. QED
        BY <1>10, <2>1, <2>2, <3>1, <4>1 DEF Located
    <3>2. CASE v # u
      BY <1>3, <1>10, <2>1, <2>2, <2>3, <3>2
    <3>3. QED
      BY <3>1, <3>2
  <2>5. Covers(account') /\ moved' \subseteq Ue
    BY <1>2, <1>5, <1>11, <1>12, <2>1 DEF AgreeInv
  <2>6. QED
    BY <1>11, <2>2, <2>4, <2>5 DEF AgreeInv
<1>15. QED
  BY <1>13, <1>14

LEMMA AttachedAgree ==
  ASSUME AgreeInv, HandoverInv, NEW u \in Ue, Attach(u)
  PROVE  AgreeInv'
<1> DEFINE context == AddUeContext(Gateway, u)
           next == AddUeInfo(context, u, serving[u])
<1>1. /\ serving[u] \in Beam /\ u \notin scheduler.known /\ ueServingObject[u] = 0
      /\ scheduler' = next.scheduler /\ account' = next.account
      /\ UNCHANGED <<reportingVars, ueServingObject, moved>>
  BY DEF Attach
<1>2. Gateway \in Gateways /\ Located(Gateway, u, serving[u], flight[u].kind, moved)
      /\ Covers(Gateway.account)
  BY GatewayFields DEF AgreeInv
<1>3. /\ context \in Gateways /\ context.account = Gateway.account
      /\ context.serving = Gateway.serving
      /\ context.scheduler.known = Gateway.scheduler.known \cup {u}
      /\ context.scheduler.beam = [Gateway.scheduler.beam EXCEPT ![u] = 0]
      /\ context.scheduler.ues = Gateway.scheduler.ues
  BY <1>1, <1>2, GatewayFields, AddUeContextEffect
<1> HIDE DEF context
<1>4. \A v \in Ue \ {u} : context.scheduler.beam[v] = Gateway.scheduler.beam[v]
  BY <1>2, <1>3 DEF Gateways, Scheduler
<1>5. OthersSame(Gateway, context, u)
  BY <1>3, <1>4 DEF OthersSame, SameUe
<1>6. \A c \in Beam : context.scheduler.ues[c][u] = 0
  BY <1>1, <1>2, <1>3, GatewayFields DEF Located, Agrees
<1>7. /\ next \in Gateways /\ next.serving = context.serving
      /\ InBeam(next, u, serving[u]) /\ Agrees(next, u) /\ OthersSame(context, next, u)
      /\ Covers(context.account) => Covers(next.account)
  BY <1>1, <1>3, <1>6, AddUeInfoEffect
<1> HIDE DEF next
<1>8. OthersSame(Gateway, next, u)
  BY <1>5, <1>7, OthersSameTransitive
<1>9. Gateway' = next
  BY <1>1, <1>3, <1>7, GatewayFields, GatewayIs DEF Gateway
<1>10. serving' = serving /\ flight' = flight /\ moved' = moved
  BY <1>1 DEF reportingVars
<1>11. ASSUME NEW v \in Ue PROVE Located(next, v, serving[v], flight[v].kind, moved)
  <2>1. CASE v = u
    <3>1. next.serving[u] = 0 /\ 0 \notin Ground \cup Beam
      BY <1>1, <1>3, <1>7, GatewayFields, CellsApart, ZeroIsNoObject
    <3>2. flight[u].kind # "command"
      BY <1>1, <1>2, GatewayFields DEF Located
    <3>3. QED
      BY <1>1, <1>7, <2>1, <3>1, <3>2 DEF Located, InBeam
  <2>2. CASE v # u
    <3>1. SameUe(Gateway, next, v) /\ next.serving[v] = Gateway.serving[v]
      BY <1>3, <1>7, <1>8, <2>2 DEF OthersSame
    <3>2. Located(Gateway, v, serving[v], flight[v].kind, moved)
      BY DEF AgreeInv
    <3>3. QED
      BY <3>1, <3>2, LocatedSame
  <2>3. QED
    BY <2>1, <2>2
<1>12. QED
  BY <1>1, <1>2, <1>3, <1>7, <1>9, <1>10, <1>11 DEF AgreeInv

(* What a UE does by itself changes what it is served by only where the     *)
(* gateway has nothing of it on record or has sent the command itself.     *)
LEMMA UeStepAgree ==
  ASSUME AgreeInv, HandoverInv, NEW u \in Ue, UeStep(u)
  PROVE  AgreeInv'
<1>1. Gateway' = Gateway /\ moved' = moved /\ account' = account
  BY DEF UeStep, gatewayVars, Gateway
<1>2. /\ \A v \in Ue \ {u} : serving'[v] = serving[v] /\ flight'[v] = flight[v]
      /\ \/ ueServingObject[u] # 0
         \/ u \notin scheduler.known /\ flight'[u].kind # "command"
         \/ serving'[u] = serving[u] /\ flight'[u].kind # "command"
  <2>1. ASSUME NEW o \in Object, Adopt(u, o)
        PROVE  /\ \A v \in Ue \ {u} : serving'[v] = serving[v] /\ flight'[v] = flight[v]
               /\ u \notin scheduler.known /\ flight'[u].kind # "command"
    <3>1. flight[u] = Nothing
      BY <2>1 DEF Adopt, HandoverInv, ReportingInv, Waits
    <3>2. ueServingObject[u] = 0
      BY <2>1, <3>1 DEF Adopt, Nothing, HandoverInv, RecordInv, RecordAgrees
    <3>3. serving[u] \notin Beam
      BY <2>1, CellsApart, ZeroIsNoObject DEF Adopt
    <3>4. u \notin scheduler.known
      BY <3>2, <3>3, GatewayFields DEF AgreeInv, Located
    <3>5. QED
      BY <2>1, <3>1, <3>4 DEF Adopt, Nothing, HandoverInv, ReportingInv
  <2>2. ASSUME NEW o \in Object, SendReport(u, o)
        PROVE  /\ \A v \in Ue \ {u} : serving'[v] = serving[v] /\ flight'[v] = flight[v]
               /\ serving'[u] = serving[u] /\ flight'[u].kind # "command"
    BY <2>2 DEF SendReport, Report, HandoverInv, ReportingInv
  <2>3. CASE Reconfigure(u)
    <3>1. ueServingObject[u] # 0
      BY <2>3, GatewayFields DEF Reconfigure, AgreeInv, Located
    <3>2. QED
      BY <2>3, <3>1 DEF Reconfigure, HandoverInv, ReportingInv
  <2>4. CASE GiveUp(u)
    BY <2>4 DEF GiveUp, Nothing
  <2>5. QED
    BY <2>1, <2>2, <2>3, <2>4 DEF UeStep
<1>3. ASSUME NEW v \in Ue PROVE Located(Gateway, v, serving'[v], flight'[v].kind, moved)
  <2>1. Located(Gateway, v, serving[v], flight[v].kind, moved)
    BY DEF AgreeInv
  <2>2. CASE v # u
    BY <1>2, <2>1, <2>2
  <2>3. CASE v = u
    BY <1>2, <2>1, <2>3, GatewayFields DEF Located
  <2>4. QED
    BY <2>2, <2>3
<1>4. QED
  BY <1>1, <1>3 DEF AgreeInv

(* The redirections of a round: UEs of the beam's list, each to a beam.     *)
LEMMA RedirectionsMove ==
  ASSUME NEW b \in Beam, NEW move \in Redirections(b)
  PROVE  \E movers \in SUBSET Ue :
           /\ move \in [movers -> Beam]
           /\ \A u \in movers : scheduler.ues[b][u] > 0
<1> DEFINE listed == {u \in Ue : scheduler.ues[b][u] > 0}
<1>1. PICK movers \in SUBSET listed : move \in [movers -> Beam]
  BY DEF Redirections
<1>2. movers \in SUBSET Ue /\ \A u \in movers : scheduler.ues[b][u] > 0
  OBVIOUS
<1>3. QED
  BY <1>1, <1>2

LEMMA RedirectedAgree ==
  ASSUME AgreeInv, NEW b \in Beam, RunScheduler(b)
  PROVE  AgreeInv'
<1>1. PICK move \in Redirections(b) :
        /\ scheduler' = Rebalanced(Gateway, move).scheduler
        /\ account' = Rebalanced(Gateway, move).account
        /\ moved' = moved \cup DOMAIN move
  BY DEF RunScheduler
<1>2. /\ serving' = serving /\ flight' = flight /\ ueServingObject' = ueServingObject
  BY DEF RunScheduler, reportingVars
<1>3. PICK movers \in SUBSET Ue : /\ move \in [movers -> Beam]
                                  /\ \A u \in movers : scheduler.ues[b][u] > 0
  BY RedirectionsMove
<1> DEFINE next == Rebalanced(Gateway, move)
<1>4. Gateway \in Gateways /\ \A u \in Ue : Agrees(Gateway, u)
  BY DEF AgreeInv, Located
<1>5. \A u \in movers : Gateway.account.place[u] \in Beam
  <2> TAKE u \in movers
  <2>1. u \in Ue /\ Gateway.scheduler.ues[b][u] # 0
    BY <1>3, GatewayFields
  <2>2. Gateway.account.place[u] = b
    BY <1>4, <2>1 DEF Agrees
  <2>3. QED
    BY <2>2
<1>6. Moved(Gateway, move, movers, next)
  BY <1>3, <1>4, RebalancedEffect
<1>7. Gateway' = [scheduler |-> next.scheduler, account |-> next.account,
                  serving |-> ueServingObject]
  BY <1>1, <1>2 DEF Gateway
<1> HIDE DEF next
<1>8. next \in Gateways /\ next.serving = ueServingObject
  BY <1>6, GatewayFields DEF Moved
<1>9. Gateway' = next
  BY <1>7, <1>8, GatewayIs
<1>10. moved' = moved \cup movers /\ moved' \subseteq Ue
  BY <1>1, <1>3 DEF AgreeInv
<1>11. ASSUME NEW u \in Ue PROVE Located(Gateway', u, serving'[u], flight'[u].kind, moved')
  <2>1. Located(Gateway, u, serving[u], flight[u].kind, moved)
    BY DEF AgreeInv
  <2>2. Located(next, u, serving[u], flight[u].kind, moved \cup movers)
    BY <1>3, <1>4, <1>5, <1>6, <2>1, LocatedMoved
  <2>3. QED
    BY <1>2, <1>9, <1>10, <2>2
<1>12. Covers(account')
  BY <1>1, <1>6, GatewayFields DEF AgreeInv, Moved, next
<1>13. QED
  BY <1>8, <1>9, <1>10, <1>11, <1>12 DEF AgreeInv

LEMMA AgreeNext ==
  ASSUME AgreeInv, HandoverInv, [HandoverNext]_vars
  PROVE  AgreeInv'
<1>1. ASSUME UNCHANGED <<reportingVars, ueServingObject, scheduler, account, moved>>
      PROVE  AgreeInv'
  BY <1>1 DEF AgreeInv, Gateway, reportingVars
<1>2. ASSUME NEW u \in Ue, UeStep(u)
      PROVE  AgreeInv'
  BY <1>2, UeStepAgree
<1>3. ASSUME NEW u \in Ue, ReceiveMeasReport(u)
      PROVE  AgreeInv'
  BY <1>3, ReceivedAgree
<1>4. ASSUME NEW u \in Ue, RebalanceForEver(u)
      PROVE  AgreeInv'
  BY <1>1, <1>4 DEF RebalanceForEver
<1>5. ASSUME NEW u \in Ue, Attach(u)
      PROVE  AgreeInv'
  BY <1>5, AttachedAgree
<1>6. ASSUME NEW g \in Ground, SetGroundAvailability(g)
      PROVE  AgreeInv'
  BY <1>1, <1>6 DEF SetGroundAvailability
<1>7. CASE UNCHANGED vars
  BY <1>1, <1>7 DEF vars, gatewayVars
<1>8. ASSUME NEW b \in Beam, RunScheduler(b)
      PROVE  AgreeInv'
  BY <1>8, RedirectedAgree
<1>9. QED
  BY <1>2, <1>3, <1>4, <1>5, <1>6, <1>7, <1>8 DEF HandoverNext

LEMMA AgreeInvCorrect == HandoverSpec => []AgreeInv
<1>1. HandoverInv /\ AgreeInv /\ [HandoverNext]_vars => AgreeInv'
  BY AgreeNext
<1>2. QED
  BY AgreeInit, <1>1, HandoverInvCorrect, PTL DEF HandoverSpec

(* The scheduler's contexts and lists, the registrations of admission      *)
(* control and the RRC's record agree on where a UE is, for every number of *)
(* UEs and whatever handovers, load balancing and redirections there are;  *)
(* of a UE moved past the RRC, all but the RRC's record.                   *)
THEOREM RecordsAgreeCorrect == HandoverSpec => []RecordsAgree
<1>1. AgreeInv /\ RecordAgrees => RecordsAgree
  <2> SUFFICES ASSUME AgreeInv, RecordAgrees PROVE RecordsAgree
    OBVIOUS
  <2>1. \A u \in Ue : Located(Gateway, u, serving[u], flight[u].kind, moved)
    BY DEF AgreeInv
  <2>2. ListedOnce
    BY <2>1, GatewayFields DEF ListedOnce, Located, Agrees
  <2>3. RegisteredWhereServed
    BY <2>1, GatewayFields DEF RegisteredWhereServed, Located, Agrees
  <2>4. ServedWhereRecorded
    BY <2>1, GatewayFields DEF ServedWhereRecorded, Located
  <2>5. QED
    BY <2>2, <2>3, <2>4 DEF RecordsAgree, ContextsAgree
<1>2. QED
  BY <1>1, AgreeInvCorrect, RecordAgreesCorrect, PTL

(* No registration is missing from the counts: handovers between beams      *)
(* unregister and register a UE twice, and still all that are registered    *)
(* are counted.                                                            *)
THEOREM CountsCoverCorrect == HandoverSpec => []CountsCover
<1>1. AgreeInv => CountsCover
  <2> SUFFICES ASSUME AgreeInv PROVE CountsCover
    OBVIOUS
  <2>1. Covers(account)
    BY DEF AgreeInv
  <2>2. \A g : {u \in Ue : account.place[u] = g} = {u \in Ue : account.place[u] \in {g}}
    OBVIOUS
  <2>3. QED
    BY <2>1, <2>2 DEF Covers, Placed, CountsCover
<1>2. QED
  BY <1>1, AgreeInvCorrect, PTL

(* The variables that AgreeInv does not speak of have their types.          *)
CountersOK ==
  groundAvailable \in [Ground -> BOOLEAN] /\ handovers \in Nat /\ endless \in BOOLEAN

LEMMA ExecutedIsNat ==
  ASSUME NEW gw, NEW u, NEW report, NEW decision \in Decisions(gw, u, report)
  PROVE  Executed(decision) \in Nat
<1>1. PICK movers \in SUBSET Ue : decision.move \in [movers -> Beam]
  BY DecisionEffect
<1>2. IsFiniteSet(movers) /\ DOMAIN decision.move = movers
  BY <1>1, FS_Subset, HandoverAssumption
<1>3. Cardinality(DOMAIN decision.move) \in Nat
  BY <1>2, FS_CardinalityType
<1>4. QED
  BY <1>3 DEF Executed

(* The variables have the values their C++ types and roles allow.          *)
THEOREM HandoverTypeCorrect == HandoverSpec => []TypeOK
<1>1. HandoverInit => CountersOK
  <2> SUFFICES ASSUME HandoverInit PROVE CountersOK
    OBVIOUS
  <2>1. groundAvailable = [g \in Ground |-> TRUE] /\ handovers = 0 /\ endless = FALSE
    BY Zenon DEF HandoverInit
  <2>2. groundAvailable \in [Ground -> BOOLEAN]
    BY <2>1
  <2>3. endless \in BOOLEAN
    BY <2>1, Zenon
  <2>4. QED
    BY <2>1, <2>2, <2>3 DEF CountersOK
<1>2. CountersOK /\ [HandoverNext]_vars => CountersOK'
  <2> SUFFICES ASSUME CountersOK, [HandoverNext]_vars PROVE CountersOK'
    OBVIOUS
  <2>1. ASSUME UNCHANGED gatewayVars PROVE CountersOK'
    BY <2>1 DEF CountersOK, gatewayVars
  <2>2. ASSUME NEW u \in Ue, ReceiveMeasReport(u) PROVE CountersOK'
    <3> DEFINE ensured == EnsureUeContextFromReport(Gateway, u, flight[u])
    <3>1. /\ UNCHANGED <<groundAvailable, endless>>
          /\ \E decision \in Decisions(ensured, u, flight[u]) :
               handovers' = handovers + Executed(decision)
      BY <2>2 DEF ReceiveMeasReport
    <3> HIDE DEF ensured
    <3>2. PICK decision \in Decisions(ensured, u, flight[u]) :
            handovers' = handovers + Executed(decision)
      BY <3>1
    <3>3. Executed(decision) \in Nat
      BY ExecutedIsNat
    <3>4. QED
      BY <3>1, <3>2, <3>3 DEF CountersOK
  <2>3. ASSUME NEW u \in Ue, RebalanceForEver(u) \/ Attach(u) PROVE CountersOK'
    BY <2>3 DEF RebalanceForEver, Attach, CountersOK
  <2>4. ASSUME NEW g \in Ground, SetGroundAvailability(g) PROVE CountersOK'
    BY <2>4 DEF SetGroundAvailability, CountersOK
  <2>5. ASSUME NEW b \in Beam, RunScheduler(b) PROVE CountersOK'
    <3>1. PICK move \in Redirections(b) : handovers' = handovers + Cardinality(DOMAIN move)
      BY <2>5 DEF RunScheduler
    <3>2. PICK movers \in SUBSET Ue : move \in [movers -> Beam]
      BY RedirectionsMove
    <3>3. Cardinality(DOMAIN move) \in Nat
      BY <3>2, FS_Subset, FS_CardinalityType, HandoverAssumption
    <3>4. UNCHANGED <<groundAvailable, endless>>
      BY <2>5 DEF RunScheduler
    <3>5. QED
      BY <3>1, <3>3, <3>4 DEF CountersOK
  <2>6. QED
    BY <2>1, <2>2, <2>3, <2>4, <2>5 DEF HandoverNext, UeStep, vars
<1>3. AgreeInv /\ HandoverInv /\ CountersOK => TypeOK
  BY GatewayFields DEF AgreeInv, HandoverInv, ReportingInv, RecordInv, CountersOK, Gateways, TypeOK
<1>4. QED
  BY <1>1, <1>2, <1>3, AgreeInvCorrect, HandoverInvCorrect, PTL DEF HandoverSpec

-----------------------------------------------------------------------------
(* Load balancing.                                                         *)

(* What a UE may ask for leaves a beam with low load what is reserved and   *)
(* is less than 39 % of the budget: so it is with the defaults of the code, *)
(* 25 RBs, of which 6 are the PRACH's, and requests of at most 4, 6 with    *)
(* high capacity.                                                          *)
RequestsAreSmall ==
  \A u \in Ue : \A rbs \in EstimateRequiredRbs(u) :
    LET effective == CalculateEffectiveRequiredRbs(u, rbs, u \in HighCapacityUe)
    IN /\ 10 * (effective + DlReservedRbs + EmergencyReservedRbs + VoiceReservedRbs)
            <= 6 * DlBeamBudgetRbs
       /\ 100 * effective <= 39 * DlBeamBudgetRbs

LEMMA MinOfTwo ==
  ASSUME NEW m \in Nat, NEW n \in Nat
  PROVE  Min({m, n}) = (IF m <= n THEN m ELSE n)
<1>1. \E x \in {m, n} : \A y \in {m, n} : x <= y
  OBVIOUS
<1>2. Min({m, n}) \in {m, n} /\ \A y \in {m, n} : Min({m, n}) <= y
  BY <1>1 DEF Min
<1>3. QED
  BY <1>2

LEMMA EffectiveIsNat ==
  ASSUME NEW u \in Ue, NEW rbs \in EstimateRequiredRbs(u), NEW high \in BOOLEAN
  PROVE  CalculateEffectiveRequiredRbs(u, rbs, high) \in Nat
<1>1. rbs \in Nat
  <2> DEFINE cap == IF u \in EmergencyUe THEN 3 ELSE IF u \in VoiceUe THEN 2 ELSE DataAdmitRbCap
  <2>1. PICK raw \in RawRequiredRbs : rbs = Min({cap, raw})
    BY DEF EstimateRequiredRbs
  <2>2. cap \in Nat /\ raw \in Nat
    BY AdmitAssumption
  <2> HIDE DEF cap
  <2>3. QED
    BY <2>1, <2>2, MinOfTwo
<1> DEFINE wanted == IF high /\ u \notin EmergencyUe THEN (3 * rbs + 1) \div 2 ELSE rbs
<1>2. wanted \in Nat /\ DlBeamBudgetRbs \in Nat
  BY <1>1, AdmitAssumption
<1>3. CalculateEffectiveRequiredRbs(u, rbs, high) = Min({DlBeamBudgetRbs, wanted})
  BY DEF CalculateEffectiveRequiredRbs
<1> HIDE DEF wanted
<1>4. QED
  BY <1>2, <1>3, MinOfTwo

(* A beam with low load takes a UE of a beam with high load, to the good of *)
(* both, unless it counts too many emergency UEs.                          *)
LEMMA LowLoadTakes ==
  ASSUME RequestsAreSmall, NEW of, NEW emergency,
         NEW remaining \in [Beam -> RemainingRbs], NEW rbs \in Requests, NEW u \in Ue,
         NEW t \in RebalancingTargets(of, remaining, rbs, u)
  PROVE  /\ IsBeneficial(remaining, of.place[u], t, u, rbs[u], u \in HighCapacityUe)
         /\ \/ CanAdmitUe(emergency, remaining, t, u, rbs[u], u \in HighCapacityUe)
            \/ u \in EmergencyUe /\ ~CheckEmergencyCapacity(emergency, t)
<1> DEFINE s == of.place[u]
           high == u \in HighCapacityUe
           e == CalculateEffectiveRequiredRbs(u, rbs[u], high)
           B == DlBeamBudgetRbs
<1>1. /\ s \in Beam /\ t \in Beam /\ IsHighLoad(remaining, s) /\ IsLowLoad(remaining, t)
      /\ e <= GetAvailableRbs(remaining, u, t)
  BY DEF RebalancingTargets, GetRecommendedBeams
<1>2. /\ remaining[s] \in Nat /\ remaining[t] \in Nat
      /\ remaining[s] <= B /\ remaining[t] <= B /\ B \in Nat \ {0} /\ DlReservedRbs \in Nat
  <2>1. RemainingRbs \subseteq 0..B /\ B \in Nat \ {0} /\ DlReservedRbs \in Nat
    BY AdmitAssumption
  <2>2. remaining[s] \in RemainingRbs /\ remaining[t] \in RemainingRbs
    <3> HIDE DEF s
    <3>1. QED
      BY <1>1
  <2>3. \A x \in RemainingRbs : x \in Nat /\ x <= B
    BY <2>1
  <2> HIDE DEF s
  <2>4. QED
    BY <2>1, <2>2, <2>3, Zenon
<1>3. /\ e \in Nat
      /\ 10 * (e + DlReservedRbs + 3) <= 6 * B /\ 100 * e <= 39 * B
  <2>1. rbs[u] \in EstimateRequiredRbs(u)
    BY DEF Requests
  <2>2. e \in Nat
    <3>1. high \in BOOLEAN
      OBVIOUS
    <3> HIDE DEF high
    <3>2. QED
      BY <2>1, <3>1, EffectiveIsNat, Zenon
  <2>3. /\ 10 * (e + DlReservedRbs + EmergencyReservedRbs + VoiceReservedRbs) <= 6 * B
        /\ 100 * e <= 39 * B
    BY <2>1 DEF RequestsAreSmall
  <2> HIDE DEF e
  <2>4. QED
    BY <1>2, <2>2, <2>3 DEF EmergencyReservedRbs, VoiceReservedRbs
<1>4. 10 * remaining[s] < 2 * B /\ 10 * remaining[t] > 6 * B
  BY <1>1, <1>2 DEF IsHighLoad, IsLowLoad, UsedRbs, GetPhysicalRemainingRbs
<1> HIDE DEF e, s
<1>5. IsBeneficial(remaining, s, t, u, rbs[u], high)
  <2>1. UsedRbs(remaining, s) = B - remaining[s] /\ B - remaining[s] \in Nat
    BY <1>2 DEF UsedRbs, GetPhysicalRemainingRbs
  <2>2. Min({e, UsedRbs(remaining, s)}) = e
    BY <1>2, <1>3, <1>4, <2>1, MinOfTwo
  <2>3. Excess(remaining[t], e) = remaining[t] - e
    BY <1>2, <1>3, <1>4 DEF Excess
  <2>4. \A m \in {0, B}, n \in {0, B} :
          20 * (remaining[t] - e) + 10 * e + m > 20 * remaining[s] + 3 * B + n
    BY <1>2, <1>3, <1>4
  <2>5. /\ (IF u \in EmergencyUe THEN DlBeamBudgetRbs ELSE 0) \in {0, B}
        /\ (IF high THEN DlBeamBudgetRbs ELSE 0) \in {0, B}
    OBVIOUS
  <2>6. 20 * Excess(remaining[t], e) + 10 * Min({e, UsedRbs(remaining, s)})
          + (IF u \in EmergencyUe THEN DlBeamBudgetRbs ELSE 0)
        > 20 * remaining[s] + 3 * DlBeamBudgetRbs + (IF high THEN DlBeamBudgetRbs ELSE 0)
    BY <2>2, <2>3, <2>4, <2>5
  <2>7. QED
    BY <1>1, <2>6 DEF IsBeneficial, e, s
<1>6. ASSUME u \in EmergencyUe => CheckEmergencyCapacity(emergency, t)
      PROVE  CanAdmitUe(emergency, remaining, t, u, rbs[u], high)
  <2>1. e <= GetGuaranteedAvailableRbs(remaining, t)
    BY <1>2, <1>3, <1>4
    DEF GetGuaranteedAvailableRbs, Excess, GetPhysicalRemainingRbs, EmergencyReservedRbs,
        VoiceReservedRbs
  <2>2. 100 * (UsedRbs(remaining, t) + e) <= GetAdmissionThreshold(u, high) * B
    <3> DEFINE n == GetAdmissionThreshold(u, high)
    <3>1. n \in {90, 87, 82, 79}
      BY DEF GetAdmissionThreshold
    <3>2. 79 * B <= n * B
      <4> HIDE DEF n
      <4>1. QED
        BY <1>2, <3>1
    <3>3. 100 * (B - remaining[t] + e) <= 79 * B
      BY <1>2, <1>3, <1>4
    <3>4. n * B \in Nat
      <4> HIDE DEF n
      <4>1. QED
        BY <1>2, <3>1
    <3> HIDE DEF n
    <3>5. 100 * (B - remaining[t] + e) <= n * B
      BY <1>2, <1>3, <3>2, <3>3, <3>4
    <3>6. QED
      BY <3>5 DEF UsedRbs, GetPhysicalRemainingRbs, n
  <2>3. QED
    BY <1>1, <1>6, <2>1, <2>2 DEF CanAdmitUe, e
<1>7. QED
  BY <1>5, <1>6 DEF s

(* What EnsureUeContextFromReport registers raises one emergency count at   *)
(* most, of the beam reported, if the UE is an emergency UE that is there   *)
(* from now on.                                                            *)
LEMMA EnsuredEmergency ==
  ASSUME NEW gw \in Gateways, NEW u \in Ue, NEW report, report.from \in Object,
         NEW b \in Beam
  PROVE  LET next == EnsureUeContextFromReport(gw, u, report)
         IN  \/ next.account.emergency[b] <= gw.account.emergency[b]
             \/ /\ next.account.emergency[b] = gw.account.emergency[b] + 1
                /\ u \in EmergencyUe /\ next.account.place[u] = b
<1> DEFINE of == gw.account
           from == report.from
           next == EnsureUeContextFromReport(gw, u, report)
           to == RegisterUeToBeam(of, u, from)
           down == RegisterUeToGround(of, u, from)
<1>1. of \in Account /\ of.emergency \in [Beam -> Nat] /\ of.emergency[b] \in Nat
  BY DEF Gateways, Account
<1>2. \/ next.account = of
      \/ from \in Beam /\ next.account = to
      \/ next.account = down
  BY DEF EnsureUeContextFromReport, AddUeContext, AddUeInfo, Gateways
<1>3. down.emergency = of.emergency
  BY <1>1 DEF RegisterUeToGround, Account
<1> HIDE DEF of, next, from, down
<1>4. ASSUME from \in Beam
      PROVE  \/ to.emergency[b] <= of.emergency[b]
             \/ to.emergency[b] = of.emergency[b] + 1 /\ u \in EmergencyUe /\ to.place[u] = b
  <2>1. CASE of.place[u] = from
    BY <1>1, <2>1 DEF RegisterUeToBeam
  <2>2. CASE of.place[u] # from
    <3> DEFINE placed == [of EXCEPT !.place[u] = from]
               left == Lowered(placed, u, of.place[u])
    <3>1. placed \in Account /\ placed.emergency = of.emergency /\ placed.place[u] = from
      BY <1>1, <1>4, CellsApart DEF Account
    <3>2. to = Raised(left, u, from)
      BY <2>2 DEF RegisterUeToBeam
    <3> HIDE DEF placed
    <3>3. left \in Account /\ left.place = placed.place
          /\ left.emergency[b] <= placed.emergency[b]
      <4>1. CASE of.place[u] \in Beam
        <5>1. left \in Account /\ left.place = placed.place
              /\ left.active = [placed.active EXCEPT ![of.place[u]] = Excess(@, 1)]
          BY <3>1, <4>1, LoweredEffect
        <5>2. left.emergency =
                [placed.emergency EXCEPT ![of.place[u]] =
                   IF u \in EmergencyUe THEN Excess(@, 1) ELSE @]
          BY <3>1, <4>1 DEF Lowered, Account
        <5>3. left.emergency[b] <= placed.emergency[b]
          BY <1>1, <3>1, <5>2 DEF Excess
        <5>4. QED
          BY <5>1, <5>3
      <4>2. CASE of.place[u] \notin Beam
        BY <1>1, <3>1, <4>2 DEF Lowered
      <4>3. QED
        BY <4>1, <4>2
    <3> HIDE DEF left, to
    <3>4. to.place = left.place /\ to.active = [left.active EXCEPT ![from] = @ + 1]
      BY <1>4, <3>2, <3>3, RaisedEffect
    <3>5. to.emergency =
            [left.emergency EXCEPT ![from] = IF u \in EmergencyUe THEN @ + 1 ELSE @]
      BY <3>2, <3>3 DEF Raised, Account
    <3>6. left.emergency \in [Beam -> Nat]
      BY <3>3 DEF Account
    <3>7. to.emergency[b] = IF b = from /\ u \in EmergencyUe THEN left.emergency[b] + 1
                            ELSE left.emergency[b]
      BY <1>4, <3>5, <3>6
    <3>8. QED
      BY <1>1, <3>1, <3>3, <3>4, <3>6, <3>7
  <2>3. QED
    BY <2>1, <2>2
<1> HIDE DEF to, down
<1>5. QED
  BY <1>1, <1>2, <1>3, <1>4 DEF next, of, from, down

(* Only emergency UEs can be refused, so a rebalancing that does not end    *)
(* has as many of them in a beam, and in the movers to it, as are allowed.  *)
LEMMA EndlessIsCrowded ==
  ASSUME RequestsAreSmall, AgreeInv, HandoverInv, NEW u \in Ue, flight[u].kind = "report",
         NEW decision \in Decisions(EnsureUeContextFromReport(Gateway, u, flight[u]), u, flight[u]),
         ~decision.returns
  PROVE  \E b \in Beam : account.emergency[b] + Cardinality(EmergencyUe) > EmergencyUserCap
<1> DEFINE report == flight[u]
           ensured == EnsureUeContextFromReport(Gateway, u, report)
           of == ensured.account
<1>1. report.from \in Object /\ Gateway \in Gateways
      /\ Gateway.serving[u] \in {0, report.from}
      /\ Located(Gateway, u, report.from, "report", moved)
  BY GatewayFields DEF AgreeInv, HandoverInv, ReportingInv, Waits, Nothing, RecordInv, RecordAgrees
<1>2. ensured \in Gateways
  BY <1>1, EnsuredEffect
<1>3. of \in Account
  BY <1>2 DEF Gateways
<1>4. \A b \in Beam :
        \/ of.emergency[b] <= account.emergency[b]
        \/ of.emergency[b] = account.emergency[b] + 1 /\ u \in EmergencyUe /\ of.place[u] = b
  BY <1>1, EnsuredEmergency, GatewayFields
<1>5. decision \in Decisions(ensured, u, report)
  OBVIOUS
<1> HIDE DEF ensured
<1>6. PICK remaining \in [Beam -> RemainingRbs], rbs \in Requests :
        \E move \in Rebalancings(of, remaining, rbs) : IsEndless(of, remaining, rbs, move)
  <2>1. report.to \notin Ground
    BY <1>5 DEF Decisions
  <2>2. PICK remaining \in [Beam -> RemainingRbs], rbs \in Requests,
             asked \in EstimateRequiredRbs(u) :
          decision \in CanHandoverUe(of, remaining, rbs, report.from, report.to, u, asked)
    BY <1>5, <2>1 DEF Decisions
  <2> DEFINE direct == CanAdmitUe(of.emergency, remaining, report.to, u, asked, FALSE)
             gain == IsBeneficial(remaining, report.from, report.to, u, asked, FALSE)
             admit == /\ direct
                      /\ ~IsRedirected(remaining, report.from, report.to, u, asked, FALSE)
  <2>3. \/ decision \in {[admit |-> TRUE, move |-> <<>>, returns |-> TRUE]}
        \/ decision \in {[admit |-> admit, move |-> move,
                          returns |-> ~IsEndless(of, remaining, rbs, move)] :
                           move \in Rebalancings(of, remaining, rbs)}
        \/ decision \in {[admit |-> admit, move |-> <<>>, returns |-> TRUE]}
    BY <2>2, Zenon DEF CanHandoverUe
  <2> HIDE DEF admit
  <2>4. \E move \in Rebalancings(of, remaining, rbs) : IsEndless(of, remaining, rbs, move)
    <3> DEFINE ends(move) == ~IsEndless(of, remaining, rbs, move)
    <3>1. /\ [admit |-> TRUE, move |-> <<>>, returns |-> TRUE].returns = TRUE
          /\ [admit |-> admit, move |-> <<>>, returns |-> TRUE].returns = TRUE
      OBVIOUS
    <3>2. PICK move \in Rebalancings(of, remaining, rbs) :
            decision = [admit |-> admit, move |-> move, returns |-> ends(move)]
      BY <2>3, <3>1, Zenon
    <3>3. decision.returns = ends(move)
      <4> HIDE DEF ends
      <4>1. QED
        BY <3>2
    <3>4. ~ends(move)
      BY <3>3, Zenon
    <3>5. QED
      BY <3>4, Zenon
  <2>5. QED
    BY <2>4
<1>7. PICK move \in Rebalancings(of, remaining, rbs) : IsEndless(of, remaining, rbs, move)
  BY <1>6
<1>8. \A v \in DOMAIN move : v \in Ue /\ move[v] \in RebalancingTargets(of, remaining, rbs, v)
  BY <1>7 DEF Rebalancings
<1> DEFINE M(t) == {v \in DOMAIN move \cap EmergencyUe : move[v] = t}
           filled == [b \in Beam |-> of.emergency[b] + Cardinality(M(b))]
           before(v) == [filled EXCEPT ![move[v]] = Excess(@, 1)]
<1>9. PICK v \in DOMAIN move :
        \/ ~CanAdmitUe(before(v), remaining, move[v], v, rbs[v], v \in HighCapacityUe)
        \/ ~IsBeneficial(remaining, of.place[v], move[v], v, rbs[v], v \in HighCapacityUe)
  BY <1>7 DEF IsEndless
<1> DEFINE t == move[v]
<1>10. v \in EmergencyUe /\ ~CheckEmergencyCapacity(before(v), t)
  <2> HIDE DEF before
  <2>1. QED
    BY <1>6, <1>8, <1>9, LowLoadTakes
<1>11. t \in Beam /\ \A w \in M(t) : of.place[w] # t
  BY <1>8 DEF RebalancingTargets, GetRecommendedBeams
<1>12. /\ IsFiniteSet(EmergencyUe) /\ M(t) \in SUBSET EmergencyUe /\ v \in M(t)
  BY <1>10, AdmitAssumption, HandoverAssumption, FS_Subset
<1>13. /\ IsFiniteSet(M(t)) /\ Cardinality(M(t)) \in Nat
       /\ Cardinality(M(t)) <= Cardinality(EmergencyUe) /\ Cardinality(EmergencyUe) \in Nat
  BY <1>12, FS_Subset, FS_CardinalityType
<1>14. Cardinality(M(t)) >= 1
  BY <1>12, <1>13, FS_EmptySet
<1>15. of.emergency[t] \in Nat /\ account.emergency[t] \in Nat /\ EmergencyUserCap \in Nat
  BY <1>1, <1>3, <1>11, GatewayFields, AdmitAssumption DEF Gateways, Account
<1>16. of.emergency[t] + Cardinality(M(t)) - 1 >= EmergencyUserCap
  <2> HIDE DEF M, of
  <2>1. before(v)[t] = Excess(of.emergency[t] + Cardinality(M(t)), 1)
    BY <1>11
  <2>2. ~(before(v)[t] < EmergencyUserCap)
    BY <1>10 DEF CheckEmergencyCapacity
  <2> HIDE DEF before
  <2>3. QED
    BY <1>13, <1>14, <1>15, <2>1, <2>2 DEF Excess
<1>17. account.emergency[t] + Cardinality(EmergencyUe) > EmergencyUserCap
  <2>1. CASE of.emergency[t] <= account.emergency[t]
    <3> HIDE DEF M, of, t
    <3>1. QED
      BY <1>13, <1>15, <1>16, <2>1
  <2>2. CASE of.emergency[t] = account.emergency[t] + 1 /\ u \in EmergencyUe /\ of.place[u] = t
    <3>1. M(t) \in SUBSET (EmergencyUe \ {u})
      BY <1>11, <1>12, <2>2
    <3>2. /\ IsFiniteSet(EmergencyUe \ {u})
          /\ Cardinality(EmergencyUe \ {u}) = Cardinality(EmergencyUe) - 1
      BY <1>12, <2>2, FS_RemoveElement
    <3>3. Cardinality(M(t)) <= Cardinality(EmergencyUe \ {u})
      BY <3>1, <3>2, FS_Subset
    <3> HIDE DEF M, of, t
    <3>4. QED
      BY <1>13, <1>15, <1>16, <2>2, <3>2, <3>3
  <2>3. QED
    BY <1>4, <1>11, <2>1, <2>2
<1>18. QED
  BY <1>11, <1>17

(* Where requests are small, load balancing comes to its end unless the     *)
(* emergency UEs are more than a beam may still take: CanHandoverUe calls   *)
(* itself for ever only over a refused emergency UE.                       *)
THEOREM BalancingEndsCorrect ==
  ASSUME RequestsAreSmall
  PROVE  HandoverSpec => []BalancingEnds
<1>1. HandoverInit => BalancingEnds
  BY DEF HandoverInit, BalancingEnds
<1>2. AgreeInv /\ HandoverInv /\ BalancingEnds /\ [HandoverNext]_vars => BalancingEnds'
  <2> SUFFICES ASSUME AgreeInv, HandoverInv, BalancingEnds, [HandoverNext]_vars
               PROVE  BalancingEnds'
    OBVIOUS
  <2>1. CASE UNCHANGED vars
    BY <2>1 DEF vars, gatewayVars, BalancingEnds
  <2>2. ASSUME ~endless, endless' = endless PROVE BalancingEnds'
    BY <2>2 DEF BalancingEnds
  <2>3. ASSUME NEW u \in Ue, RebalanceForEver(u) PROVE BalancingEnds'
    <3>1. account' = account /\ flight[u].kind = "report"
      BY <2>3 DEF RebalanceForEver
    <3>2. \E decision \in
            Decisions(EnsureUeContextFromReport(Gateway, u, flight[u]), u, flight[u]) :
              ~decision.returns
      BY <2>3 DEF RebalanceForEver
    <3>3. \E b \in Beam : account.emergency[b] + Cardinality(EmergencyUe) > EmergencyUserCap
      BY <3>1, <3>2, EndlessIsCrowded
    <3>4. QED
      BY <3>1, <3>3 DEF BalancingEnds
  <2>4. ASSUME ~endless, NEW u \in Ue, UeStep(u) PROVE BalancingEnds'
    BY <2>2, <2>4 DEF UeStep, gatewayVars
  <2>5. ASSUME ~endless, NEW u \in Ue, ReceiveMeasReport(u) PROVE BalancingEnds'
    BY <2>2, <2>5 DEF ReceiveMeasReport
  <2>6. ASSUME ~endless, NEW u \in Ue, Attach(u) PROVE BalancingEnds'
    BY <2>2, <2>6 DEF Attach
  <2>7. ASSUME ~endless, NEW g \in Ground, SetGroundAvailability(g) PROVE BalancingEnds'
    BY <2>2, <2>7 DEF SetGroundAvailability
  <2>8. ASSUME ~endless, NEW b \in Beam, RunScheduler(b) PROVE BalancingEnds'
    BY <2>2, <2>8 DEF RunScheduler
  <2>9. QED
    BY <2>1, <2>3, <2>4, <2>5, <2>6, <2>7, <2>8 DEF HandoverNext
<1>3. QED
  BY <1>1, <1>2, AgreeInvCorrect, HandoverInvCorrect, PTL DEF HandoverSpec
=============================================================================
