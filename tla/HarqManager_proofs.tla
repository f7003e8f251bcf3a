------------------------- MODULE HarqManager_proofs -------------------------
(***************************************************************************)
(* Theorems about HarqManager, for every number of UEs, processes,         *)
(* retransmissions and transmissions; at the end, about what the outcomes  *)
(* steer (LinkAdaptation).                                                 *)
(***************************************************************************)
EXTENDS HarqManager, LinkAdaptation, FiniteSetTheorems, SequenceTheorems,
        FunctionTheorems, TLAPS

-----------------------------------------------------------------------------
(* The number of processes.                                                *)

(* Supported is the powers of two up to MaxProcesses. *)
LEMMA LowerType ==
  ASSUME NEW count \in Nat
  PROVE  Lower(count) \in Supported
<1> DEFINE IsLower(n) == /\ n <= count \/ n = 1
                         /\ \A m \in Supported : m <= count => m <= n
<1>1. \E n \in Supported : IsLower(n)
  <2>1. CASE count < 2
    BY <2>1, HarqManagerAssumption DEF Supported
  <2>2. CASE count >= MaxProcesses
    BY <2>2, HarqManagerAssumption DEF Supported
  <2>3. CASE 2 <= count /\ count < 4 /\ count < MaxProcesses
    BY <2>3, HarqManagerAssumption DEF Supported
  <2>4. CASE 4 <= count /\ count < 8 /\ count < MaxProcesses
    BY <2>4, HarqManagerAssumption DEF Supported
  <2>5. CASE 8 <= count /\ count < 16 /\ count < MaxProcesses
    BY <2>5, HarqManagerAssumption DEF Supported
  <2>6. CASE 16 <= count /\ count < 32 /\ count < MaxProcesses
    BY <2>6, HarqManagerAssumption DEF Supported
  <2>7. QED
    BY <2>1, <2>2, <2>3, <2>4, <2>5, <2>6, HarqManagerAssumption
<1>2. Lower(count) = CHOOSE n \in Supported : IsLower(n)
  BY DEF Lower
<1> HIDE DEF IsLower
<1>3. QED
  BY <1>1, <1>2

(* Whatever count is asked for, a supported one is set. *)
LEMMA ResolveType ==
  ASSUME NEW count \in Nat
  PROVE  Resolve(count) \in Supported
<1>1. \A lower \in Supported : Upper(lower) \in Supported
  BY HarqManagerAssumption DEF Upper, Supported
<1>2. QED
  BY <1>1, LowerType DEF Resolve

-----------------------------------------------------------------------------
(* Types.                                                                  *)

(* A copy sent leaves well-typed answers behind. *)
LEMMA CopySentType ==
  ASSUME TypeOK, NEW k \in Key, NEW copy \in Copy, NEW pending \in SUBSET Feedback,
         copy = 0 => generation[k] < MaxTx,
         CopySent(k, copy, pending)
  PROVE  /\ feedbacks' \subseteq Feedback
         /\ generation' \in [Key -> 0..MaxTx]
         /\ decoded' \subseteq Key
<1> DEFINE gen == IF copy = 0 THEN generation[k] + 1 ELSE generation[k]
<1>1. gen \in 0..MaxTx
  BY HarqManagerAssumption DEF TypeOK
<1>2. PICK isDecoded \in BOOLEAN, answerArrives \in BOOLEAN :
        /\ generation' = [generation EXCEPT ![k] = gen]
        /\ decoded' = IF isDecoded THEN decoded \cup {k} ELSE decoded \ {k}
        /\ feedbacks' =
             IF answerArrives
             THEN pending \cup
                    {[key |-> k, ack |-> isDecoded, generation |-> gen, copy |-> copy]}
             ELSE pending
  BY DEF CopySent
<1>3. generation' \in [Key -> 0..MaxTx]
  BY <1>1, <1>2 DEF TypeOK
<1>4. [key |-> k, ack |-> isDecoded, generation |-> gen, copy |-> copy] \in Feedback
  BY <1>1 DEF Feedback
<1> HIDE DEF gen
<1>5. feedbacks' \subseteq Feedback
  BY <1>2, <1>4
<1>6. decoded' \subseteq Key
  BY <1>2 DEF TypeOK
<1>7. QED
  BY <1>3, <1>5, <1>6

(* A process that is not acknowledged keeps the types of what it touches.  *)
LEMMA RetransmitOrFailType ==
  ASSUME TypeOK, NEW k \in Key, NEW pending \in SUBSET Feedback,
         Drop(k, pending) \/ RetransmitOrFail(k, pending)
  PROVE  /\ process' \in [Key -> Process]
         /\ ackTimeoutEvent' \subseteq Key
         /\ {totalRetransmissions', totalDropped', failures'} \subseteq Nat
         /\ dlHarqProcessMap' \subseteq Key
         /\ dlHarqEverRetx' \subseteq Key
         /\ feedbacks' \subseteq Feedback
         /\ generation' \in [Key -> 0..MaxTx]
         /\ decoded' \subseteq Key
<1> USE HarqManagerAssumption
<1>1. ASSUME Fail(k, pending)
      PROVE  /\ process' \in [Key -> Process]
             /\ ackTimeoutEvent' \subseteq Key
             /\ totalRetransmissions' \in Nat /\ failures' \in Nat
             /\ dlHarqProcessMap' \subseteq Key
             /\ dlHarqEverRetx' \subseteq Key
             /\ feedbacks' \subseteq Feedback
             /\ generation' \in [Key -> 0..MaxTx]
             /\ decoded' \subseteq Key
  <2>1. process' \in [Key -> Process]
    BY <1>1 DEF Fail, Finalize, TypeOK, Process
  <2>2. QED
    BY <1>1, <2>1 DEF Fail, Finalize, TypeOK
<1>2. CASE Drop(k, pending)
  BY <1>1, <1>2 DEF Drop, TypeOK
<1>3. CASE RetransmitOrFail(k, pending) /\ Fail(k, pending) /\ UNCHANGED totalDropped
  BY <1>1, <1>3 DEF TypeOK
<1>4. CASE MayRetransmit(k) /\ Retransmit(k, pending)
  <2> DEFINE copy == process[k].retransmitCount + 1
  <2>1. copy \in Copy /\ copy # 0
    BY <1>4 DEF MayRetransmit, TypeOK, Process, Copy
  <2>2. process' \in [Key -> Process]
    BY <1>4, <2>1 DEF Retransmit, TypeOK, Process, Copy
  <2>3. CASE k \in dlHarqProcessMap
    <3>1. CopySent(k, copy, pending)
      BY <1>4, <2>3 DEF Retransmit
    <3> HIDE DEF copy
    <3>2. /\ feedbacks' \subseteq Feedback
          /\ generation' \in [Key -> 0..MaxTx]
          /\ decoded' \subseteq Key
      BY <2>1, <3>1, CopySentType
    <3>3. QED
      BY <1>4, <2>2, <2>3, <3>2 DEF Retransmit, Rearmed, Marked, TypeOK
  <2>4. CASE k \notin dlHarqProcessMap
    BY <1>4, <2>2, <2>4 DEF Retransmit, Rearmed, TypeOK
  <2>5. QED
    BY <2>3, <2>4
<1>5. QED
  BY <1>2, <1>3, <1>4 DEF RetransmitOrFail

(* Every variable keeps its type: no process sends more than MaxRetx       *)
(* copies beyond the first.                                                *)
THEOREM TypeCorrect == Spec => []TypeOK
<1> USE HarqManagerAssumption
<1>1. Init => TypeOK
  <2>1. [k \in Key |-> Absent] \in [Key -> Process]
    BY DEF Absent, Process
  <2>2. 0 \in 0..MaxTx
    OBVIOUS
  <2>3. [k \in Key |-> 0] \in [Key -> 0..MaxTx]
    BY <2>2
  <2> SUFFICES ASSUME Init PROVE TypeOK
    OBVIOUS
  <2>4. /\ harqEnabled \in BOOLEAN /\ wasReset \in BOOLEAN
        /\ process \in [Key -> Process]
        /\ generation \in [Key -> 0..MaxTx]
    BY <2>1, <2>3 DEF Init
  <2>5. /\ processCount \in Supported
        /\ totalTransmissions \in 0..MaxTx
        /\ {totalRetransmissions, totalAck, totalNack, totalDropped, failures} \subseteq Nat
    BY <2>2 DEF Init
  <2>6. /\ ackTimeoutEvent \subseteq Key /\ ueContexts \subseteq Rnti
        /\ dlHarqProcessMap \subseteq Key /\ dlHarqEverRetx \subseteq Key
        /\ feedbacks \subseteq Feedback /\ decoded \subseteq Key
    BY DEF Init
  <2>7. QED
    BY <2>4, <2>5, <2>6 DEF TypeOK
<1>2. TypeOK /\ [Next]_vars => TypeOK'
  <2> SUFFICES ASSUME TypeOK, [Next]_vars
               PROVE  TypeOK'
    OBVIOUS
  <2>1. ASSUME NEW rnti \in Rnti, NewTransmission(rnti)
        PROVE  TypeOK'
    <3>1. PICK k \in AllocateProcess(rnti) :
            /\ generation[k] < MaxTx
            /\ process' =
                 [process EXCEPT ![k] = [state |-> "WAITING_ACK", retransmitCount |-> 0]]
            /\ ackTimeoutEvent' = ackTimeoutEvent \cup {k}
            /\ dlHarqProcessMap' = dlHarqProcessMap \cup {k}
            /\ dlHarqEverRetx' = dlHarqEverRetx \ {k}
            /\ CopySent(k, 0, feedbacks)
      BY <2>1 DEF NewTransmission
    <3>2. k \in Key
      BY DEF AllocateProcess
    <3>3. /\ feedbacks' \subseteq Feedback
          /\ generation' \in [Key -> 0..MaxTx]
          /\ decoded' \subseteq Key
      BY <3>1, <3>2, CopySentType DEF TypeOK, Copy
    <3>4. process' \in [Key -> Process]
      BY <3>1, <3>2 DEF TypeOK, Process
    <3>5. totalTransmissions' \in 0..MaxTx
      BY <2>1 DEF NewTransmission, TypeOK
    <3>6. QED
      BY <2>1, <3>1, <3>2, <3>3, <3>4, <3>5 DEF NewTransmission, TypeOK, configVars
  <2>2. ASSUME NEW fb \in feedbacks, ReceiveAck(fb)
        PROVE  TypeOK'
    <3>1. process' \in [Key -> Process]
      BY <2>2 DEF ReceiveAck, Finalize, TypeOK, Process
    <3>2. QED
      BY <2>2, <3>1 DEF ReceiveAck, Finalize, TypeOK, configVars
  <2>3. ASSUME NEW fb \in feedbacks, ReceiveNack(fb)
        PROVE  TypeOK'
    <3>1. fb.key \in Key /\ feedbacks \ {fb} \in SUBSET Feedback
      BY DEF TypeOK, Feedback
    <3>2. Drop(fb.key, feedbacks \ {fb}) \/ RetransmitOrFail(fb.key, feedbacks \ {fb})
      BY <2>3 DEF ReceiveNack
    <3>3. /\ totalNack' = totalNack + 1
          /\ UNCHANGED <<configVars, totalTransmissions, totalAck, ueContexts>>
      BY <2>3 DEF ReceiveNack
    <3>4. QED
      BY <3>1, <3>2, <3>3, RetransmitOrFailType DEF TypeOK, configVars
  <2>4. ASSUME NEW fb \in feedbacks, IgnoreFeedback(fb)
        PROVE  TypeOK'
    BY <2>4 DEF IgnoreFeedback, TypeOK, managerVars, configVars, schedulerVars, totals
  <2>5. ASSUME NEW k \in Key, ProcessTimeout(k)
        PROVE  TypeOK'
    <3>1. Drop(k, feedbacks) \/ RetransmitOrFail(k, feedbacks)
      BY <2>5 DEF ProcessTimeout
    <3>2. /\ totalNack' = totalNack \/ totalNack' = totalNack + 1
          /\ UNCHANGED <<configVars, totalTransmissions, totalAck, ueContexts>>
      BY <2>5 DEF ProcessTimeout
    <3>3. totalNack' \in Nat /\ feedbacks \in SUBSET Feedback
      BY <3>2 DEF TypeOK
    <3>4. QED
      BY <3>1, <3>2, <3>3, RetransmitOrFailType DEF TypeOK, configVars
  <2>6. ASSUME NEW enable \in BOOLEAN, SetHarqEnabled(enable)
        PROVE  TypeOK'
    BY <2>6 DEF SetHarqEnabled, TypeOK, managerVars, schedulerVars, radioVars, totals
  <2>7. ASSUME NEW count \in Counts, SetProcessCount(count)
        PROVE  TypeOK'
    <3>1. processCount' \in Supported
      BY <2>7, ResolveType DEF SetProcessCount
    <3>2. process' \in [Key -> Process]
      BY <2>7 DEF SetProcessCount, TypeOK, Absent, Process
    <3>3. QED
      BY <2>7, <3>1, <3>2 DEF SetProcessCount, TypeOK, schedulerVars, radioVars, totals
  <2>8. CASE ResetStatistics
    <3>1. process' \in [Key -> Process]
      BY <2>8 DEF ResetStatistics, Absent, Process
    <3>2. QED
      BY <2>8, <3>1 DEF ResetStatistics, TypeOK, schedulerVars, radioVars
  <2>9. ASSUME NEW rnti \in Rnti, RemoveUt(rnti) \/ AddUeContext(rnti)
        PROVE  TypeOK'
    BY <2>9 DEF RemoveUt, AddUeContext, TypeOK, managerVars, configVars, radioVars, totals
  <2>10. CASE UNCHANGED vars
    BY <2>10 DEF vars, TypeOK, managerVars, configVars, schedulerVars, radioVars, totals
  <2>11. QED
    BY <2>1, <2>2, <2>3, <2>4, <2>5, <2>6, <2>7, <2>8, <2>9, <2>10
    DEF Next, ReceiveFeedback
<1>3. QED
  BY <1>1, <1>2, PTL DEF Spec

-----------------------------------------------------------------------------
(* Timers and the scheduler's cache.                                       *)

(* What a step may do to processes, timers and the cache. *)
Opens(k) ==
  /\ ~IsWaiting(k)
  /\ process' =
       [process EXCEPT ![k] = [state |-> "WAITING_ACK", retransmitCount |-> 0]]
  /\ ackTimeoutEvent' = ackTimeoutEvent \cup {k}
  /\ dlHarqProcessMap' = dlHarqProcessMap \cup {k}
  /\ dlHarqEverRetx' = dlHarqEverRetx \ {k}
  /\ wasReset' = wasReset

Finishes(k) ==
  /\ IsWaiting(k)
  /\ \E outcome \in {"SUCCESS", "FAILED"} : Finalize(k, outcome)
  /\ wasReset' = wasReset

Repeats(k) ==
  /\ IsWaiting(k)
  /\ process' =
       [process EXCEPT ![k].retransmitCount = process[k].retransmitCount + 1]
  /\ ackTimeoutEvent' = ackTimeoutEvent \cup {k}
  /\ dlHarqProcessMap' = dlHarqProcessMap
  /\ dlHarqEverRetx' = IF k \in dlHarqProcessMap THEN dlHarqEverRetx \cup {k}
                       ELSE dlHarqEverRetx
  /\ wasReset' = wasReset

KeepsProcesses ==
  /\ UNCHANGED <<process, ackTimeoutEvent, dlHarqEverRetx, wasReset>>
  /\ dlHarqProcessMap' \subseteq dlHarqProcessMap

ClearsFree ==
  /\ Waiting = {}
  /\ UNCHANGED <<ackTimeoutEvent, dlHarqProcessMap, dlHarqEverRetx, wasReset>>
  /\ process' = [k \in Key |-> Absent]

LEMMA NotAcknowledgedEffect ==
  ASSUME NEW k \in Key, NEW pending, IsWaiting(k), UNCHANGED wasReset,
         Drop(k, pending) \/ RetransmitOrFail(k, pending)
  PROVE  Finishes(k) \/ Repeats(k)
<1>1. CASE Drop(k, pending) \/ Fail(k, pending)
  <2>1. Finalize(k, "FAILED")
    BY <1>1 DEF Drop, Fail
  <2>2. QED
    BY <2>1 DEF Finishes
<1>2. CASE Retransmit(k, pending)
  BY <1>2 DEF Retransmit, Repeats, Rearmed, Marked
<1>3. QED
  BY <1>1, <1>2 DEF RetransmitOrFail

LEMMA StepEffect ==
  ASSUME TypeOK, [Next]_vars
  PROVE  \/ \E k \in Key : Opens(k) \/ Finishes(k) \/ Repeats(k)
         \/ KeepsProcesses
         \/ ClearsFree
         \/ ResetStatistics
<1>1. ASSUME NEW rnti \in Rnti, NewTransmission(rnti)
      PROVE  \E k \in Key : Opens(k)
  <2>1. PICK k \in AllocateProcess(rnti) :
          /\ process' =
               [process EXCEPT ![k] = [state |-> "WAITING_ACK", retransmitCount |-> 0]]
          /\ ackTimeoutEvent' = ackTimeoutEvent \cup {k}
          /\ dlHarqProcessMap' = dlHarqProcessMap \cup {k}
          /\ dlHarqEverRetx' = dlHarqEverRetx \ {k}
    BY <1>1 DEF NewTransmission
  <2>2. k \in Key /\ ~IsWaiting(k)
    BY DEF AllocateProcess, IsFree
  <2>3. wasReset' = wasReset
    BY <1>1 DEF NewTransmission, configVars
  <2>4. QED
    BY <2>1, <2>2, <2>3 DEF Opens
<1>2. ASSUME NEW fb \in feedbacks, ReceiveAck(fb)
      PROVE  \E k \in Key : Finishes(k)
  <2>1. fb.key \in Key
    BY DEF TypeOK, Feedback
  <2>2. Finishes(fb.key)
    BY <1>2 DEF ReceiveAck, Finishes, configVars
  <2>3. QED
    BY <2>1, <2>2
<1>3. ASSUME NEW fb \in feedbacks, ReceiveNack(fb)
      PROVE  \E k \in Key : Finishes(k) \/ Repeats(k)
  <2>1. fb.key \in Key
    BY DEF TypeOK, Feedback
  <2>2. Finishes(fb.key) \/ Repeats(fb.key)
    BY <1>3, <2>1, NotAcknowledgedEffect DEF ReceiveNack, configVars
  <2>3. QED
    BY <2>1, <2>2
<1>4. ASSUME NEW fb \in feedbacks, IgnoreFeedback(fb)
      PROVE  KeepsProcesses
  BY <1>4 DEF IgnoreFeedback, KeepsProcesses, managerVars, configVars, schedulerVars
<1>5. ASSUME NEW k \in Key, ProcessTimeout(k)
      PROVE  Finishes(k) \/ Repeats(k)
  BY <1>5, NotAcknowledgedEffect DEF ProcessTimeout, configVars
<1>6. ASSUME NEW enable \in BOOLEAN, SetHarqEnabled(enable)
      PROVE  KeepsProcesses
  BY <1>6 DEF SetHarqEnabled, KeepsProcesses, managerVars, schedulerVars
<1>7. ASSUME NEW count \in Counts, SetProcessCount(count)
      PROVE  KeepsProcesses \/ ClearsFree
  BY <1>7 DEF SetProcessCount, KeepsProcesses, ClearsFree, schedulerVars
<1>8. ASSUME NEW rnti \in Rnti, RemoveUt(rnti) \/ AddUeContext(rnti)
      PROVE  KeepsProcesses
  BY <1>8 DEF RemoveUt, AddUeContext, KeepsProcesses, managerVars, configVars
<1>9. CASE UNCHANGED vars
  BY <1>9 DEF vars, KeepsProcesses, managerVars, configVars, schedulerVars
<1>10. QED
  BY <1>1, <1>2, <1>3, <1>4, <1>5, <1>6, <1>7, <1>8, <1>9 DEF Next, ReceiveFeedback

(* What each kind of step does to the set of waiting processes. *)
LEMMA WaitingEffect ==
  ASSUME TypeOK
  PROVE  /\ \A k \in Key : Opens(k) => Waiting' = Waiting \cup {k}
         /\ \A k \in Key : Finishes(k) => Waiting' = Waiting \ {k}
         /\ \A k \in Key : Repeats(k) => k \in Waiting /\ Waiting' = Waiting
         /\ KeepsProcesses => Waiting' = Waiting
         /\ ClearsFree => Waiting = {} /\ Waiting' = {}
         /\ ResetStatistics => Waiting' = {}
<1>1. ASSUME NEW k \in Key, Opens(k)
      PROVE  Waiting' = Waiting \cup {k}
  BY <1>1 DEF Opens, Waiting, IsWaiting, TypeOK
<1>2. ASSUME NEW k \in Key, Finishes(k)
      PROVE  Waiting' = Waiting \ {k}
  BY <1>2 DEF Finishes, Finalize, Waiting, IsWaiting, TypeOK, Process
<1>3. ASSUME NEW k \in Key, Repeats(k)
      PROVE  k \in Waiting /\ Waiting' = Waiting
  BY <1>3 DEF Repeats, Waiting, IsWaiting, TypeOK, Process
<1>4. KeepsProcesses => Waiting' = Waiting
  BY DEF KeepsProcesses, Waiting, IsWaiting
<1>5. ClearsFree => Waiting = {} /\ Waiting' = {}
  BY DEF ClearsFree, Waiting, IsWaiting, Absent
<1>6. ResetStatistics => Waiting' = {}
  BY DEF ResetStatistics, Waiting, IsWaiting, Absent
<1>7. QED
  BY <1>1, <1>2, <1>3, <1>4, <1>5, <1>6

(* A process has a timer exactly as long as it waits.                      *)
THEOREM TimerIffWaitingCorrect == Spec => []TimerIffWaiting
<1>1. Init => TimerIffWaiting
  BY DEF Init, TimerIffWaiting, Waiting, IsWaiting, Absent
<1>2. TypeOK /\ TimerIffWaiting /\ [Next]_vars => TimerIffWaiting'
  <2> SUFFICES ASSUME TypeOK, ackTimeoutEvent = Waiting, [Next]_vars
               PROVE  ackTimeoutEvent' = Waiting'
    BY DEF TimerIffWaiting
  <2>1. ASSUME NEW k \in Key, Opens(k)
        PROVE  ackTimeoutEvent' = Waiting'
    BY <2>1, WaitingEffect DEF Opens
  <2>2. ASSUME NEW k \in Key, Finishes(k)
        PROVE  ackTimeoutEvent' = Waiting'
    BY <2>2, WaitingEffect DEF Finishes, Finalize
  <2>3. ASSUME NEW k \in Key, Repeats(k)
        PROVE  ackTimeoutEvent' = Waiting'
    BY <2>3, WaitingEffect DEF Repeats
  <2>4. CASE KeepsProcesses \/ ClearsFree
    BY <2>4, WaitingEffect DEF KeepsProcesses, ClearsFree
  <2>5. CASE ResetStatistics
    BY <2>5, WaitingEffect DEF ResetStatistics
  <2>6. QED
    BY <2>1, <2>2, <2>3, <2>4, <2>5, StepEffect
<1>3. QED
  BY <1>1, <1>2, TypeCorrect, PTL DEF Spec

(* The scheduler caches no DCI of a process that is free.                  *)
THEOREM CacheIsLiveCorrect == Spec => []CacheIsLive
<1>1. Init => CacheIsLive
  BY DEF Init, CacheIsLive
<1>2. TypeOK /\ CacheIsLive /\ [Next]_vars => CacheIsLive'
  <2> SUFFICES ASSUME TypeOK, CacheIsLive, [Next]_vars, ~wasReset'
               PROVE  dlHarqProcessMap' \subseteq Waiting'
    BY DEF CacheIsLive
  <2>1. ASSUME NEW k \in Key, Opens(k)
        PROVE  dlHarqProcessMap' \subseteq Waiting'
    BY <2>1, WaitingEffect DEF Opens, CacheIsLive
  <2>2. ASSUME NEW k \in Key, Finishes(k)
        PROVE  dlHarqProcessMap' \subseteq Waiting'
    BY <2>2, WaitingEffect DEF Finishes, Finalize, CacheIsLive
  <2>3. ASSUME NEW k \in Key, Repeats(k)
        PROVE  dlHarqProcessMap' \subseteq Waiting'
    BY <2>3, WaitingEffect DEF Repeats, CacheIsLive
  <2>4. CASE KeepsProcesses \/ ClearsFree
    BY <2>4, WaitingEffect DEF KeepsProcesses, ClearsFree, CacheIsLive
  <2>5. CASE ResetStatistics
    BY <2>5 DEF ResetStatistics
  <2>6. QED
    BY <2>1, <2>2, <2>3, <2>4, <2>5, StepEffect
<1>3. QED
  BY <1>1, <1>2, TypeCorrect, PTL DEF Spec

(* The scheduler's retransmission mark agrees with the manager's count.    *)
THEOREM EverRetxAgreesCorrect == Spec => []EverRetxAgrees
<1>1. Init => EverRetxAgrees
  BY DEF Init, EverRetxAgrees
<1>2. TypeOK /\ EverRetxAgrees /\ [Next]_vars => EverRetxAgrees'
  <2> SUFFICES ASSUME TypeOK, EverRetxAgrees, [Next]_vars,
                      NEW j \in dlHarqProcessMap', j \in Waiting'
               PROVE  j \in dlHarqEverRetx' <=> process'[j].retransmitCount > 0
    BY DEF EverRetxAgrees
  <2>0. j \in Key /\ process[j].retransmitCount \in Nat
    BY DEF Waiting, TypeOK, Process
  <2>1. ASSUME NEW k \in Key, Opens(k)
        PROVE  j \in dlHarqEverRetx' <=> process'[j].retransmitCount > 0
    <3>1. CASE j = k
      <4>1. process'[j].retransmitCount = 0 /\ j \notin dlHarqEverRetx'
        BY <2>0, <2>1, <3>1 DEF Opens, TypeOK
      <4>2. QED
        BY <4>1
    <3>2. CASE j # k
      <4>1. /\ process'[j] = process[j] /\ j \in dlHarqProcessMap /\ j \in Waiting
            /\ j \in dlHarqEverRetx' <=> j \in dlHarqEverRetx
        BY <2>0, <2>1, <3>2, WaitingEffect DEF Opens, TypeOK
      <4>2. QED
        BY <4>1 DEF EverRetxAgrees
    <3>3. QED
      BY <3>1, <3>2
  <2>2. ASSUME NEW k \in Key, Finishes(k)
        PROVE  j \in dlHarqEverRetx' <=> process'[j].retransmitCount > 0
    <3>1. j # k
      BY <2>2, WaitingEffect
    <3>2. /\ process'[j] = process[j] /\ j \in dlHarqProcessMap /\ j \in Waiting
          /\ j \in dlHarqEverRetx' <=> j \in dlHarqEverRetx
      BY <2>0, <2>2, <3>1, WaitingEffect DEF Finishes, Finalize, TypeOK
    <3>3. QED
      BY <3>2 DEF EverRetxAgrees
  <2>3. ASSUME NEW k \in Key, Repeats(k)
        PROVE  j \in dlHarqEverRetx' <=> process'[j].retransmitCount > 0
    <3>1. j \in dlHarqProcessMap /\ j \in Waiting
      BY <2>3, WaitingEffect DEF Repeats
    <3>2. CASE j = k
      <4>1. process'[j].retransmitCount = process[j].retransmitCount + 1
        BY <2>0, <2>3, <3>2 DEF Repeats, TypeOK, Process
      <4>2. j \in dlHarqEverRetx'
        BY <2>3, <3>1, <3>2 DEF Repeats
      <4>3. QED
        BY <2>0, <4>1, <4>2
    <3>3. CASE j # k
      <4>1. /\ process'[j] = process[j]
            /\ j \in dlHarqEverRetx' <=> j \in dlHarqEverRetx
        BY <2>0, <2>3, <3>3 DEF Repeats, TypeOK
      <4>2. QED
        BY <3>1, <4>1 DEF EverRetxAgrees
    <3>4. QED
      BY <3>2, <3>3
  <2>4. CASE KeepsProcesses
    <3>1. /\ process'[j] = process[j] /\ j \in dlHarqProcessMap /\ j \in Waiting
          /\ dlHarqEverRetx' = dlHarqEverRetx
      BY <2>4, WaitingEffect DEF KeepsProcesses
    <3>2. QED
      BY <3>1 DEF EverRetxAgrees
  <2>5. CASE ClearsFree \/ ResetStatistics
    BY <2>5, WaitingEffect
  <2>6. QED
    BY <2>1, <2>2, <2>3, <2>4, <2>5, StepEffect
<1>3. QED
  BY <1>1, <1>2, TypeCorrect, PTL DEF Spec

-----------------------------------------------------------------------------
(* Counters.                                                               *)

(* A step leaves the counters alone, clears them, opens a process, or      *)
(* settles one outcome.                                                    *)
LEMMA NotAcknowledgedCounts ==
  ASSUME TypeOK, NEW k \in Key, NEW pending, IsWaiting(k),
         Drop(k, pending) \/ RetransmitOrFail(k, pending)
  PROVE  \/ /\ totalDropped' = totalDropped + 1 /\ failures' = failures + 1
            /\ totalRetransmissions' = totalRetransmissions
            /\ Waiting' = Waiting \ {k} /\ ~harqEnabled
         \/ /\ totalDropped' = totalDropped /\ failures' = failures + 1
            /\ totalRetransmissions' = totalRetransmissions
            /\ Waiting' = Waiting \ {k} /\ harqEnabled
         \/ /\ totalDropped' = totalDropped /\ failures' = failures
            /\ totalRetransmissions' = totalRetransmissions + 1
            /\ Waiting' = Waiting /\ harqEnabled
<1>1. Fail(k, pending) => /\ failures' = failures + 1
                          /\ totalRetransmissions' = totalRetransmissions
                          /\ Waiting' = Waiting \ {k}
  BY DEF Fail, Finalize, Waiting, IsWaiting, TypeOK, Process
<1>2. Retransmit(k, pending) => /\ failures' = failures
                                /\ totalDropped' = totalDropped
                                /\ totalRetransmissions' = totalRetransmissions + 1
                                /\ Waiting' = Waiting
  BY DEF Retransmit, Waiting, IsWaiting, TypeOK, Process
<1>3. CASE Drop(k, pending)
  BY <1>1, <1>3 DEF Drop
<1>4. CASE RetransmitOrFail(k, pending)
  BY <1>1, <1>2, <1>4 DEF RetransmitOrFail
<1>5. QED
  BY <1>3, <1>4

(* Every NACK and every timeout leads to a retransmission or a failure.    *)
THEOREM EveryNackActedOnCorrect == Spec => []EveryNackActedOn
<1>1. Init => EveryNackActedOn
  BY DEF Init, EveryNackActedOn
<1>2. TypeOK /\ EveryNackActedOn /\ [Next]_vars => EveryNackActedOn'
  <2> SUFFICES ASSUME TypeOK, EveryNackActedOn, [Next]_vars
               PROVE  EveryNackActedOn'
    OBVIOUS
  <2>0. /\ totalNack \in Nat /\ totalRetransmissions \in Nat
        /\ failures \in Nat /\ totalDropped \in Nat
    BY DEF TypeOK
  <2>1. UNCHANGED <<totalNack, totalRetransmissions, failures, totalDropped>>
          => EveryNackActedOn'
    BY DEF EveryNackActedOn
  <2>2. ASSUME NEW rnti \in Rnti, NewTransmission(rnti)
        PROVE  EveryNackActedOn'
    BY <2>1, <2>2 DEF NewTransmission
  <2>3. ASSUME NEW fb \in feedbacks, ReceiveAck(fb)
        PROVE  EveryNackActedOn'
    BY <2>1, <2>3 DEF ReceiveAck
  <2>4. ASSUME NEW fb \in feedbacks, ReceiveNack(fb)
        PROVE  EveryNackActedOn'
    <3>1. fb.key \in Key
      BY DEF TypeOK, Feedback
    <3>2. totalNack' = totalNack + 1
      BY <2>4 DEF ReceiveNack
    <3>3. \/ /\ totalDropped' = totalDropped + 1 /\ failures' = failures + 1
             /\ totalRetransmissions' = totalRetransmissions
          \/ /\ totalDropped' = totalDropped /\ failures' = failures + 1
             /\ totalRetransmissions' = totalRetransmissions
          \/ /\ totalDropped' = totalDropped /\ failures' = failures
             /\ totalRetransmissions' = totalRetransmissions + 1
      BY <2>4, <3>1, NotAcknowledgedCounts DEF ReceiveNack
    <3>4. QED
      BY <2>0, <3>2, <3>3 DEF EveryNackActedOn
  <2>5. ASSUME NEW fb \in feedbacks, IgnoreFeedback(fb)
        PROVE  EveryNackActedOn'
    BY <2>1, <2>5 DEF IgnoreFeedback, managerVars, totals
  <2>6. ASSUME NEW k \in Key, ProcessTimeout(k)
        PROVE  EveryNackActedOn'
    <3>1. CASE Drop(k, feedbacks) /\ UNCHANGED totalNack
      <4>1. /\ totalDropped' = totalDropped + 1 /\ failures' = failures + 1
            /\ totalRetransmissions' = totalRetransmissions
        BY <3>1 DEF Drop, Fail
      <4>2. QED
        BY <2>0, <3>1, <4>1 DEF EveryNackActedOn
    <3>2. CASE RetransmitOrFail(k, feedbacks) /\ totalNack' = totalNack + 1
      <4>1. harqEnabled /\ IsWaiting(k)
        BY <2>6, <3>2 DEF RetransmitOrFail, ProcessTimeout
      <4>2. \/ /\ totalDropped' = totalDropped /\ failures' = failures + 1
               /\ totalRetransmissions' = totalRetransmissions
            \/ /\ totalDropped' = totalDropped /\ failures' = failures
               /\ totalRetransmissions' = totalRetransmissions + 1
        BY <3>2, <4>1, NotAcknowledgedCounts
      <4>3. QED
        BY <2>0, <3>2, <4>2 DEF EveryNackActedOn
    <3>3. QED
      BY <2>6, <3>1, <3>2 DEF ProcessTimeout
  <2>7. ASSUME NEW enable \in BOOLEAN, SetHarqEnabled(enable)
        PROVE  EveryNackActedOn'
    BY <2>1, <2>7 DEF SetHarqEnabled, managerVars, totals
  <2>8. ASSUME NEW count \in Counts, SetProcessCount(count)
        PROVE  EveryNackActedOn'
    BY <2>1, <2>8 DEF SetProcessCount, totals
  <2>9. CASE ResetStatistics
    BY <2>9 DEF ResetStatistics, EveryNackActedOn
  <2>10. ASSUME NEW rnti \in Rnti, RemoveUt(rnti) \/ AddUeContext(rnti)
         PROVE  EveryNackActedOn'
    BY <2>1, <2>10 DEF RemoveUt, AddUeContext, managerVars, totals
  <2>11. CASE UNCHANGED vars
    BY <2>1, <2>11 DEF vars, managerVars, totals
  <2>12. QED
    BY <2>2, <2>3, <2>4, <2>5, <2>6, <2>7, <2>8, <2>9, <2>10, <2>11
    DEF Next, ReceiveFeedback
<1>3. QED
  BY <1>1, <1>2, TypeCorrect, PTL DEF Spec

(* There are finitely many processes. *)
LEMMA WaitingFinite == IsFiniteSet(Waiting)
<1>1. IsFiniteSet(Pid)
  BY FS_Interval, HarqManagerAssumption DEF Pid
<1>2. IsFiniteSet(Key)
  BY <1>1, FS_Product, HarqManagerAssumption DEF Key
<1>3. QED
  BY <1>2, FS_Subset DEF Waiting

(* Every transmission is reported exactly once.                            *)
THEOREM EachReportedOnceCorrect == Spec => []EachReportedOnce
<1>1. Init => EachReportedOnce
  <2> SUFFICES ASSUME Init PROVE EachReportedOnce
    OBVIOUS
  <2>1. Waiting = {}
    BY DEF Init, Waiting, IsWaiting, Absent
  <2>2. Cardinality(Waiting) = 0
    BY <2>1, FS_EmptySet
  <2>3. QED
    BY <2>2 DEF Init, EachReportedOnce
<1>2. TypeOK /\ EachReportedOnce /\ [Next]_vars => EachReportedOnce'
  <2> SUFFICES ASSUME TypeOK, EachReportedOnce, [Next]_vars
               PROVE  EachReportedOnce'
    OBVIOUS
  <2> DEFINE n == Cardinality(Waiting)
  <2>0. /\ totalTransmissions \in Nat /\ totalAck \in Nat /\ failures \in Nat
        /\ n \in Nat /\ totalTransmissions = totalAck + failures + n
    <3>1. n \in Nat
      BY WaitingFinite, FS_CardinalityType
    <3>2. QED
      BY <3>1 DEF TypeOK, EachReportedOnce
  <2>1. UNCHANGED <<totalTransmissions, totalAck, failures>> /\ Waiting' = Waiting
          => EachReportedOnce'
    BY DEF EachReportedOnce
  <2>2. \A k \in Waiting : Cardinality(Waiting \ {k}) = n - 1
    BY WaitingFinite, FS_RemoveElement
  <2>3. \A k \in Key \ Waiting : Cardinality(Waiting \cup {k}) = n + 1
    BY WaitingFinite, FS_AddElement
  <2> HIDE DEF n
  <2>4. ASSUME NEW rnti \in Rnti, NewTransmission(rnti)
        PROVE  EachReportedOnce'
    <3>1. PICK k \in AllocateProcess(rnti) :
            process' =
              [process EXCEPT ![k] = [state |-> "WAITING_ACK", retransmitCount |-> 0]]
      BY <2>4 DEF NewTransmission
    <3>2. k \in Key \ Waiting
      BY DEF AllocateProcess, IsFree, Waiting
    <3>3. Waiting' = Waiting \cup {k}
      BY <3>1, <3>2 DEF Waiting, IsWaiting, TypeOK
    <3>4. /\ totalTransmissions' = totalTransmissions + 1
          /\ totalAck' = totalAck /\ failures' = failures
      BY <2>4 DEF NewTransmission
    <3>5. Cardinality(Waiting') = n + 1
      BY <2>3, <3>2, <3>3
    <3>6. QED
      BY <2>0, <3>4, <3>5 DEF EachReportedOnce
  <2>5. ASSUME NEW fb \in feedbacks, ReceiveAck(fb)
        PROVE  EachReportedOnce'
    <3>1. fb.key \in Waiting
      BY <2>5 DEF ReceiveAck, Waiting, TypeOK, Feedback
    <3>2. Waiting' = Waiting \ {fb.key}
      BY <2>5, <3>1 DEF ReceiveAck, Finalize, Waiting, IsWaiting, TypeOK, Process
    <3>3. Cardinality(Waiting') = n - 1
      BY <2>2, <3>1, <3>2
    <3>4. /\ totalTransmissions' = totalTransmissions
          /\ totalAck' = totalAck + 1 /\ failures' = failures
      BY <2>5 DEF ReceiveAck
    <3>5. QED
      BY <2>0, <3>3, <3>4 DEF EachReportedOnce
  <2>6. ASSUME NEW k \in Key, NEW pending, IsWaiting(k),
               UNCHANGED <<totalTransmissions, totalAck>>,
               Drop(k, pending) \/ RetransmitOrFail(k, pending)
        PROVE  EachReportedOnce'
    <3>1. \/ failures' = failures + 1 /\ Waiting' = Waiting \ {k}
          \/ failures' = failures /\ Waiting' = Waiting
      BY <2>6, NotAcknowledgedCounts
    <3>2. k \in Waiting
      BY <2>6 DEF Waiting
    <3>3. CASE failures' = failures + 1 /\ Waiting' = Waiting \ {k}
      <4>1. Cardinality(Waiting') = n - 1
        BY <2>2, <3>2, <3>3
      <4>2. QED
        BY <2>0, <2>6, <3>3, <4>1 DEF EachReportedOnce
    <3>4. QED
      BY <2>1, <2>6, <3>1, <3>3
  <2>7. ASSUME NEW fb \in feedbacks, ReceiveNack(fb)
        PROVE  EachReportedOnce'
    <3>1. fb.key \in Key
      BY DEF TypeOK, Feedback
    <3>2. QED
      BY <2>6, <2>7, <3>1 DEF ReceiveNack
  <2>8. ASSUME NEW k \in Key, ProcessTimeout(k)
        PROVE  EachReportedOnce'
    BY <2>6, <2>8 DEF ProcessTimeout
  <2>9. ASSUME UNCHANGED <<process, totalTransmissions, totalAck, failures>>
        PROVE  EachReportedOnce'
    BY <2>1, <2>9 DEF Waiting, IsWaiting
  <2>10. ASSUME NEW fb \in feedbacks, IgnoreFeedback(fb)
         PROVE  EachReportedOnce'
    BY <2>9, <2>10 DEF IgnoreFeedback, managerVars, totals
  <2>11. ASSUME NEW enable \in BOOLEAN, SetHarqEnabled(enable)
         PROVE  EachReportedOnce'
    BY <2>9, <2>11 DEF SetHarqEnabled, managerVars, totals
  <2>12. ASSUME NEW count \in Counts, SetProcessCount(count)
         PROVE  EachReportedOnce'
    <3>1. Waiting' = Waiting
      BY <2>12 DEF SetProcessCount, Waiting, IsWaiting, Absent
    <3>2. QED
      BY <2>1, <2>12, <3>1 DEF SetProcessCount, totals
  <2>13. CASE ResetStatistics
    <3>1. Waiting' = {}
      BY <2>13 DEF ResetStatistics, Waiting, IsWaiting, Absent
    <3>2. Cardinality(Waiting') = 0
      BY <3>1, FS_EmptySet
    <3>3. QED
      BY <2>13, <3>2 DEF ResetStatistics, EachReportedOnce
  <2>14. ASSUME NEW rnti \in Rnti, RemoveUt(rnti) \/ AddUeContext(rnti)
         PROVE  EachReportedOnce'
    BY <2>9, <2>14 DEF RemoveUt, AddUeContext, managerVars, totals
  <2>15. CASE UNCHANGED vars
    BY <2>9, <2>15 DEF vars, managerVars, totals
  <2>16. QED
    BY <2>4, <2>5, <2>7, <2>8, <2>10, <2>11, <2>12, <2>13, <2>14, <2>15
    DEF Next, ReceiveFeedback
<1>3. QED
  BY <1>1, <1>2, TypeCorrect, PTL DEF Spec

-----------------------------------------------------------------------------
(* A success is owed to the last copy.                                     *)

(* The invariant without its premise. *)
AnswersMatch ==
  /\ \A fb \in feedbacks :
       /\ IsWaiting(fb.key)
       /\ fb.ack => fb.key \in decoded
       /\ IsOf(fb.key, feedbacks) = {fb}
  /\ \A k \in Key : process[k].state = "SUCCESS" => k \in decoded

(* A copy sent for a waiting process without an answer under way. *)
LEMMA CopySentMatches ==
  ASSUME TypeOK, AnswersMatch, NEW k \in Key, NEW copy, NEW pending,
         pending \subseteq feedbacks, IsOf(k, pending) = {},
         \A fb \in feedbacks : fb.key # k => fb \in pending,
         CopySent(k, copy, pending),
         \A j \in Key \ {k} : process'[j] = process[j],
         process'[k].state = "WAITING_ACK"
  PROVE  AnswersMatch'
<1>1. PICK isDecoded, answer :
        /\ isDecoded \in BOOLEAN
        /\ decoded' = IF isDecoded THEN decoded \cup {k} ELSE decoded \ {k}
        /\ feedbacks' = pending \/ feedbacks' = pending \cup {answer}
        /\ answer.key = k /\ (answer.ack => isDecoded)
  <2>1. PICK isDecoded \in BOOLEAN, answerArrives \in BOOLEAN :
          LET gen == IF copy = 0 THEN generation[k] + 1 ELSE generation[k]
          IN /\ decoded' = IF isDecoded THEN decoded \cup {k} ELSE decoded \ {k}
             /\ feedbacks' =
                  IF answerArrives
                  THEN pending \cup {[key |-> k, ack |-> isDecoded,
                                      generation |-> gen, copy |-> copy]}
                  ELSE pending
    BY DEF CopySent
  <2> DEFINE gen == IF copy = 0 THEN generation[k] + 1 ELSE generation[k]
             answer == [key |-> k, ack |-> isDecoded, generation |-> gen, copy |-> copy]
  <2>2. answer.key = k /\ (answer.ack => isDecoded)
    OBVIOUS
  <2>3. feedbacks' = pending \/ feedbacks' = pending \cup {answer}
    BY <2>1
  <2> HIDE DEF answer
  <2>4. QED
    BY <2>1, <2>2, <2>3
<1>2. ASSUME NEW fb \in feedbacks'
      PROVE  /\ IsWaiting(fb.key)'
             /\ fb.ack => fb.key \in decoded'
             /\ IsOf(fb.key, feedbacks') = {fb}
  <2>1. CASE fb \in pending
    <3>1. fb \in feedbacks /\ fb.key # k /\ fb.key \in Key
      BY <2>1 DEF IsOf, TypeOK, Feedback
    <3>2. IsWaiting(fb.key)'
      BY <3>1 DEF AnswersMatch, IsWaiting
    <3>3. fb.ack => fb.key \in decoded'
      BY <1>1, <3>1 DEF AnswersMatch
    <3>4. IsOf(fb.key, feedbacks') = {fb}
      <4>1. IsOf(fb.key, feedbacks) = {fb}
        BY <3>1 DEF AnswersMatch
      <4>2. IsOf(fb.key, feedbacks') = IsOf(fb.key, pending)
        BY <1>1, <3>1 DEF IsOf
      <4>3. QED
        BY <2>1, <4>1, <4>2 DEF IsOf
    <3>5. QED
      BY <3>2, <3>3, <3>4
  <2>2. CASE fb \notin pending
    <3>1. fb = answer /\ fb.key = k /\ feedbacks' = pending \cup {fb}
      BY <1>1, <2>2
    <3>2. IsOf(k, feedbacks') = {fb}
      BY <3>1 DEF IsOf
    <3>3. QED
      BY <1>1, <3>1, <3>2 DEF IsWaiting
  <2>3. QED
    BY <2>1, <2>2
<1>3. ASSUME NEW j \in Key, process'[j].state = "SUCCESS"
      PROVE  j \in decoded'
  <2>1. j # k
    BY <1>3
  <2>2. QED
    BY <1>1, <1>3, <2>1 DEF AnswersMatch
<1>4. QED
  BY <1>2, <1>3 DEF AnswersMatch

(* A process that ends with no answer under way. *)
LEMMA FinalizeMatches ==
  ASSUME TypeOK, AnswersMatch, NEW k \in Key,
         feedbacks' \subseteq feedbacks, IsOf(k, feedbacks') = {},
         NEW outcome, outcome = "SUCCESS" => k \in decoded,
         Finalize(k, outcome), decoded' = decoded
  PROVE  AnswersMatch'
<1>1. \A j \in Key \ {k} : process'[j] = process[j]
  BY DEF Finalize, TypeOK
<1>2. process'[k].state = outcome
  BY DEF Finalize, TypeOK, Process
<1>3. ASSUME NEW fb \in feedbacks'
      PROVE  /\ IsWaiting(fb.key)'
             /\ fb.ack => fb.key \in decoded'
             /\ IsOf(fb.key, feedbacks') = {fb}
  <2>1. fb \in feedbacks /\ fb.key # k /\ fb.key \in Key
    BY <1>3 DEF IsOf, TypeOK, Feedback
  <2>2. IsWaiting(fb.key)'
    BY <1>1, <2>1 DEF AnswersMatch, IsWaiting
  <2>3. IsOf(fb.key, feedbacks) = {fb} /\ (fb.ack => fb.key \in decoded)
    BY <2>1 DEF AnswersMatch
  <2>4. QED
    BY <1>3, <2>2, <2>3 DEF IsOf
<1>4. ASSUME NEW j \in Key, process'[j].state = "SUCCESS"
      PROVE  j \in decoded'
  BY <1>1, <1>2, <1>4 DEF AnswersMatch
<1>5. QED
  BY <1>3, <1>4 DEF AnswersMatch

(* A process that is not acknowledged, its answer consumed. *)
LEMMA NotAcknowledgedMatches ==
  ASSUME TypeOK, AnswersMatch, NEW k \in Key, IsWaiting(k), NEW pending,
         pending \subseteq feedbacks, IsOf(k, pending) = {},
         \A fb \in feedbacks : fb.key # k => fb \in pending,
         Drop(k, pending) \/ RetransmitOrFail(k, pending)
  PROVE  AnswersMatch'
<1>1. CASE Fail(k, pending)
  <2>1. Finalize(k, "FAILED") /\ feedbacks' = pending /\ decoded' = decoded
    BY <1>1 DEF Fail
  <2>2. QED
    BY <2>1, FinalizeMatches
<1>2. CASE Retransmit(k, pending)
  <2>1. /\ \A j \in Key \ {k} : process'[j] = process[j]
        /\ process'[k].state = "WAITING_ACK"
    BY <1>2 DEF Retransmit, IsWaiting, TypeOK, Process
  <2>2. CASE k \in dlHarqProcessMap
    BY <1>2, <2>1, <2>2, CopySentMatches DEF Retransmit
  <2>3. CASE k \notin dlHarqProcessMap
    <3>1. feedbacks' = pending /\ decoded' = decoded \ {k}
      BY <1>2, <2>3 DEF Retransmit
    <3>2. ASSUME NEW fb \in feedbacks'
          PROVE  /\ IsWaiting(fb.key)'
                 /\ fb.ack => fb.key \in decoded'
                 /\ IsOf(fb.key, feedbacks') = {fb}
      <4>1. fb \in feedbacks /\ fb.key # k /\ fb.key \in Key
        BY <3>1, <3>2 DEF IsOf, TypeOK, Feedback
      <4>2. IsWaiting(fb.key)'
        BY <2>1, <4>1 DEF AnswersMatch, IsWaiting
      <4>3. IsOf(fb.key, feedbacks) = {fb} /\ (fb.ack => fb.key \in decoded)
        BY <4>1 DEF AnswersMatch
      <4>4. QED
        BY <3>1, <3>2, <4>1, <4>2, <4>3 DEF IsOf
    <3>3. \A j \in Key : process'[j].state = "SUCCESS" => j \in decoded'
      BY <2>1, <3>1 DEF AnswersMatch
    <3>4. QED
      BY <3>2, <3>3 DEF AnswersMatch
  <2>4. QED
    BY <2>2, <2>3
<1>3. QED
  BY <1>1, <1>2 DEF Drop, RetransmitOrFail

(* While answers beat the timeout, a process that succeeds owes it to its  *)
(* last copy.                                                              *)
THEOREM AckedCopyWasDecodedCorrect == Spec => []AckedCopyWasDecoded
<1> DEFINE Inv == ~FeedbackLate /\ ~wasReset => AnswersMatch
<1>1. Init => Inv
  BY DEF Init, AnswersMatch, Absent
<1>2. TypeOK /\ Inv /\ [Next]_vars => Inv'
  <2> SUFFICES ASSUME TypeOK, Inv, [Next]_vars, ~FeedbackLate, ~wasReset'
               PROVE  AnswersMatch'
    OBVIOUS
  <2>1. AnswersMatch
    BY DEF Next, NewTransmission, ReceiveFeedback, ReceiveAck, ReceiveNack,
      IgnoreFeedback, ProcessTimeout, SetHarqEnabled, SetProcessCount,
      ResetStatistics, RemoveUt, AddUeContext, configVars, vars
  <2>2. ASSUME UNCHANGED <<process, feedbacks, decoded>>
        PROVE  AnswersMatch'
    BY <2>1, <2>2 DEF AnswersMatch, IsWaiting
  <2>3. ASSUME NEW rnti \in Rnti, NewTransmission(rnti)
        PROVE  AnswersMatch'
    <3>1. PICK k \in AllocateProcess(rnti) :
            /\ process' =
                 [process EXCEPT ![k] = [state |-> "WAITING_ACK", retransmitCount |-> 0]]
            /\ CopySent(k, 0, feedbacks)
      BY <2>3 DEF NewTransmission
    <3>2. k \in Key /\ ~IsWaiting(k)
      BY DEF AllocateProcess, IsFree
    <3>3. IsOf(k, feedbacks) = {}
      BY <2>1, <3>2 DEF AnswersMatch, IsOf
    <3>4. /\ \A j \in Key \ {k} : process'[j] = process[j]
          /\ process'[k].state = "WAITING_ACK"
      BY <3>1, <3>2 DEF TypeOK
    <3>5. QED
      BY <2>1, <3>1, <3>2, <3>3, <3>4, CopySentMatches
  <2>4. ASSUME NEW fb \in feedbacks
        PROVE  /\ fb.key \in Key
               /\ IsOf(fb.key, feedbacks \ {fb}) = {}
               /\ \A g \in feedbacks : g.key # fb.key => g \in feedbacks \ {fb}
               /\ fb.ack => fb.key \in decoded
               /\ IsWaiting(fb.key)
    BY <2>1 DEF AnswersMatch, IsOf, TypeOK, Feedback
  <2>5. ASSUME NEW fb \in feedbacks, ReceiveAck(fb)
        PROVE  AnswersMatch'
    <3>1. /\ Finalize(fb.key, "SUCCESS") /\ fb.ack
          /\ feedbacks' = feedbacks \ {fb} /\ decoded' = decoded
      BY <2>5 DEF ReceiveAck
    <3>2. QED
      BY <2>1, <2>4, <3>1, FinalizeMatches
  <2>6. ASSUME NEW fb \in feedbacks, ReceiveNack(fb)
        PROVE  AnswersMatch'
    <3>1. /\ Drop(fb.key, feedbacks \ {fb}) \/ RetransmitOrFail(fb.key, feedbacks \ {fb})
          /\ feedbacks \ {fb} \subseteq feedbacks
      BY <2>6 DEF ReceiveNack
    <3>2. QED
      BY <2>1, <2>4, <3>1, NotAcknowledgedMatches
  <2>7. ASSUME NEW fb \in feedbacks, IgnoreFeedback(fb)
        PROVE  AnswersMatch'
    BY <2>4, <2>7 DEF IgnoreFeedback
  <2>8. ASSUME NEW k \in Key, ProcessTimeout(k)
        PROVE  AnswersMatch'
    <3>1. /\ Drop(k, feedbacks) \/ RetransmitOrFail(k, feedbacks)
          /\ IsOf(k, feedbacks) = {} /\ IsWaiting(k)
      BY <2>8 DEF ProcessTimeout
    <3>2. QED
      BY <2>1, <3>1, NotAcknowledgedMatches
  <2>9. ASSUME NEW count \in Counts, SetProcessCount(count)
        PROVE  AnswersMatch'
    <3>1. /\ feedbacks' = feedbacks /\ decoded' = decoded /\ Waiting = {}
          /\ process' = process \/ process' = [k \in Key |-> Absent]
      BY <2>9 DEF SetProcessCount, radioVars
    <3>2. feedbacks = {}
      BY <2>4, <3>1 DEF Waiting
    <3>3. QED
      BY <2>1, <3>1, <3>2 DEF AnswersMatch, Absent
  <2>10. ~ResetStatistics
    BY DEF ResetStatistics
  <2>11. ASSUME NEW enable \in BOOLEAN, SetHarqEnabled(enable)
         PROVE  AnswersMatch'
    BY <2>2, <2>11 DEF SetHarqEnabled, managerVars, radioVars
  <2>12. ASSUME NEW rnti \in Rnti, RemoveUt(rnti) \/ AddUeContext(rnti)
         PROVE  AnswersMatch'
    BY <2>2, <2>12 DEF RemoveUt, AddUeContext, managerVars, radioVars
  <2>13. CASE UNCHANGED vars
    BY <2>2, <2>13 DEF vars, managerVars, radioVars
  <2>14. QED
    BY <2>3, <2>5, <2>6, <2>7, <2>8, <2>9, <2>10, <2>11, <2>12, <2>13
    DEF Next, ReceiveFeedback
<1>3. Inv => AckedCopyWasDecoded
  BY DEF AnswersMatch, AckedCopyWasDecoded
<1>4. QED
  BY <1>1, <1>2, <1>3, TypeCorrect, PTL DEF Spec

-----------------------------------------------------------------------------
(* The outer loop that outcomes steer (LinkAdaptation).                    *)

LEMMA AdaptConstants ==
  /\ MaxCqi \in Nat /\ MaxPredictDelta \in Nat /\ DeltaMax \in Nat /\ MaxRetxN \in Nat
  /\ MaxStray \in Nat /\ Paths \subseteq {"loop", "system"}
  /\ SafeBackOff \in Nat /\ AggrBias \in Nat /\ FixedN \in Nat
  /\ DefaultCqi \in Cqis /\ StepDown \in Nat \ {0} /\ MaxFlight \in Nat \ {0}
  /\ Schemes \subseteq {"a", "b", "c", "d"}
BY CqiAmcAssumption, HarqPolicyAssumption, LinkAssumption DEF Cqis

ControllerStates ==
  [level : Int, trend : Trends, initialized : BOOLEAN, delta : (-DeltaMax)..DeltaMax]

Controllers == [{"own", "external"} -> [Ue -> ControllerStates]]

Blocks == [ue : Ue, mcs : Cqis, off : BOOLEAN, maxRetx : Nat, attempt : Nat \ {0}]

(* The types, in the form that steps are reasoned about.                   *)
AdaptTypes ==
  /\ scheme \in {"a", "b", "c", "d"}
  /\ adapter \in {"direct", "own", "external"}
  /\ useAdapter \in BOOLEAN /\ applied \in BOOLEAN /\ amc \in BOOLEAN
  /\ controller \in Controllers
  /\ chan \in [Ue -> 1..MaxCqi]
  /\ reports \in [Ue -> Seq(Cqis)] /\ latest \in [Ue -> Int]
  /\ blocks \in Seq(Blocks)

AdaptInv ==
  /\ AdaptTypes
  /\ \A u \in Ue : Len(reports[u]) <= MaxFlight /\ Cardinality(InFlight(u)) <= MaxFlight
  /\ \A i \in DOMAIN blocks : blocks[i].attempt <= blocks[i].maxRetx + 1

-----------------------------------------------------------------------------
(* How many elements of a sequence are in a set.                           *)

CountIn(s, P) == Cardinality({i \in DOMAIN s : s[i] \in P})

LEMMA PlacesFinite ==
  ASSUME NEW S, NEW s \in Seq(S), NEW P
  PROVE  IsFiniteSet({i \in DOMAIN s : s[i] \in P}) /\ CountIn(s, P) \in Nat
<1>1. IsFiniteSet(1..Len(s)) /\ DOMAIN s = 1..Len(s)
  BY FS_Interval
<1>2. IsFiniteSet({i \in DOMAIN s : s[i] \in P})
  BY <1>1, FS_Subset
<1> QED BY <1>2, FS_CardinalityType DEF CountIn

LEMMA AppendCount ==
  ASSUME NEW S, NEW s \in Seq(S), NEW e \in S, NEW P
  PROVE  CountIn(Append(s, e), P) = CountIn(s, P) + (IF e \in P THEN 1 ELSE 0)
<1> DEFINE A == {i \in DOMAIN s : s[i] \in P}
           B == {i \in DOMAIN Append(s, e) : Append(s, e)[i] \in P}
           n == Len(s) + 1
<1>1. /\ DOMAIN s = 1..Len(s) /\ Len(s) \in Nat
      /\ DOMAIN Append(s, e) = 1..(Len(s) + 1)
      /\ Append(s, e)[Len(s) + 1] = e
      /\ \A i \in DOMAIN s : Append(s, e)[i] = s[i]
  BY AppendProperties
<1>2. n \notin A /\ n \in Nat /\ DOMAIN Append(s, e) = DOMAIN s \cup {n}
  BY <1>1
<1>3. IsFiniteSet(A) /\ Cardinality(A) \in Nat
  BY PlacesFinite DEF CountIn
<1>4. CASE e \in P
  <2>1. B = A \cup {n}
    BY <1>1, <1>2, <1>4
  <2> HIDE DEF A, B, n
  <2>2. Cardinality(B) = Cardinality(A) + 1
    BY <1>2, <1>3, <2>1, FS_AddElement
  <2> QED BY <1>4, <2>2 DEF CountIn, A, B
<1>5. CASE e \notin P
  <2>1. B = A
    BY <1>1, <1>2, <1>5
  <2>2. CountIn(Append(s, e), P) = CountIn(s, P)
    BY <2>1 DEF CountIn
  <2>3. CountIn(s, P) \in Nat
    BY PlacesFinite
  <2> QED BY <1>5, <2>2, <2>3
<1> QED BY <1>4, <1>5

LEMMA RemovedType ==
  ASSUME NEW S, NEW s \in Seq(S), NEW k \in DOMAIN s
  PROVE  /\ RemoveAt(s, k) \in Seq(S)
         /\ Len(RemoveAt(s, k)) = Len(s) - 1
         /\ \A j \in 1..(Len(s) - 1) :
              RemoveAt(s, k)[j] = IF j < k THEN s[j] ELSE s[j + 1]
<1>1. k \in 1..Len(s) /\ Len(s) \in Nat /\ \A i \in 1..Len(s) : s[i] \in S
  OBVIOUS
<1> DEFINE l == SubSeq(s, 1, k - 1)
           r == SubSeq(s, k + 1, Len(s))
<1>2. /\ l \in Seq(S) /\ Len(l) = k - 1
      /\ \A i \in 1..(k - 1) : l[i] = s[i]
  <2>1. \A i \in 1..(k - 1) : s[i] \in S
    BY <1>1
  <2>2. 1 \in Int /\ k - 1 \in Int
    BY <1>1
  <2>3. /\ l \in Seq(S) /\ Len(l) = IF 1 <= k - 1 THEN (k - 1) - 1 + 1 ELSE 0
        /\ \A i \in 1..((k - 1) - 1 + 1) : l[i] = s[1 + i - 1]
    BY <2>1, <2>2, SubSeqProperties
  <2> QED BY <1>1, <2>3
<1>3. /\ r \in Seq(S) /\ Len(r) = Len(s) - k
      /\ \A i \in 1..(Len(s) - k) : r[i] = s[k + i]
  <2>1. \A i \in (k + 1)..Len(s) : s[i] \in S
    BY <1>1
  <2>2. k + 1 \in Int /\ Len(s) \in Int
    BY <1>1
  <2>3. /\ r \in Seq(S) /\ Len(r) = IF k + 1 <= Len(s) THEN Len(s) - (k + 1) + 1 ELSE 0
        /\ \A i \in 1..(Len(s) - (k + 1) + 1) : r[i] = s[(k + 1) + i - 1]
    BY <2>1, <2>2, SubSeqProperties
  <2> QED BY <1>1, <2>3
<1> HIDE DEF l, r
<1>4. /\ l \o r \in Seq(S) /\ Len(l \o r) = Len(s) - 1
      /\ \A i \in 1..(Len(s) - 1) : (l \o r)[i] = IF i <= k - 1 THEN l[i] ELSE r[i - (k - 1)]
  <2>1. /\ l \o r \in Seq(S) /\ Len(l \o r) = Len(l) + Len(r)
        /\ \A i \in 1..Len(l) + Len(r) :
             (l \o r)[i] = IF i <= Len(l) THEN l[i] ELSE r[i - Len(l)]
    BY <1>2, <1>3, ConcatProperties
  <2>2. Len(l) = k - 1 /\ Len(l) + Len(r) = Len(s) - 1
    BY <1>1, <1>2, <1>3
  <2> QED BY <2>1, <2>2
<1>5. \A j \in 1..(Len(s) - 1) : (l \o r)[j] = IF j < k THEN s[j] ELSE s[j + 1]
  <2> SUFFICES ASSUME NEW j \in 1..(Len(s) - 1)
               PROVE  (l \o r)[j] = IF j < k THEN s[j] ELSE s[j + 1]
    OBVIOUS
  <2>1. CASE j < k
    <3>1. j \in 1..(k - 1)
      BY <1>1, <2>1
    <3>2. (l \o r)[j] = IF j <= k - 1 THEN l[j] ELSE r[j - (k - 1)]
      BY <1>4
    <3>3. j <= k - 1
      BY <1>1, <2>1
    <3>4. (l \o r)[j] = l[j]
      BY <3>2, <3>3
    <3>5. l[j] = s[j]
      BY <1>2, <3>1
    <3> QED BY <2>1, <3>4, <3>5
  <2>2. CASE j >= k
    <3>1. j - (k - 1) \in 1..(Len(s) - k) /\ k + (j - (k - 1)) = j + 1 /\ ~(j <= k - 1)
      BY <1>1, <2>2
    <3>2. (l \o r)[j] = IF j <= k - 1 THEN l[j] ELSE r[j - (k - 1)]
      BY <1>4
    <3>3. (l \o r)[j] = r[j - (k - 1)]
      BY <3>1, <3>2
    <3>4. r[j - (k - 1)] = s[k + (j - (k - 1))]
      BY <1>3, <3>1
    <3>5. (l \o r)[j] = s[j + 1] /\ ~(j < k)
      BY <1>1, <2>2, <3>1, <3>3, <3>4
    <3> QED BY <3>5
  <2>3. j < k \/ j >= k
    BY <1>1
  <2> QED BY <2>1, <2>2, <2>3
<1> QED BY <1>4, <1>5 DEF RemoveAt, l, r

LEMMA RemovedCount ==
  ASSUME NEW S, NEW s \in Seq(S), NEW k \in DOMAIN s, NEW P
  PROVE  CountIn(RemoveAt(s, k), P) = CountIn(s, P) - (IF s[k] \in P THEN 1 ELSE 0)
<1> DEFINE t == RemoveAt(s, k)
           A == {i \in DOMAIN s : s[i] \in P}
           B == {i \in DOMAIN t : t[i] \in P}
           f == [i \in A \ {k} |-> IF i < k THEN i ELSE i - 1]
<1>1. /\ t \in Seq(S) /\ Len(t) = Len(s) - 1
      /\ \A j \in 1..(Len(s) - 1) : t[j] = IF j < k THEN s[j] ELSE s[j + 1]
  BY RemovedType
<1>2. DOMAIN s = 1..Len(s) /\ DOMAIN t = 1..(Len(s) - 1) /\ Len(s) \in Nat /\ k \in 1..Len(s)
  BY <1>1
<1>3. IsFiniteSet(A) /\ Cardinality(A) \in Nat
  BY PlacesFinite DEF CountIn
<1> HIDE DEF t
<1>4. \A i \in A \ {k} : f[i] \in B
  <2> SUFFICES ASSUME NEW i \in A \ {k} PROVE f[i] \in B
    OBVIOUS
  <2>1. CASE i < k
    <3>1. f[i] = i /\ i \in 1..(Len(s) - 1) /\ t[i] = s[i]
      BY <1>1, <1>2, <2>1
    <3> QED BY <1>2, <3>1
  <2>2. CASE i > k
    <3>1. f[i] = i - 1 /\ i - 1 \in 1..(Len(s) - 1) /\ ~(i - 1 < k) /\ (i - 1) + 1 = i
      BY <1>2, <2>2
    <3>2. t[i - 1] = s[i]
      BY <1>1, <3>1
    <3> QED BY <1>2, <3>1, <3>2
  <2> QED BY <1>2, <2>1, <2>2
<1>5. f \in [A \ {k} -> B]
  BY <1>4
<1>6. \A a, b \in A \ {k} : f[a] = f[b] => a = b
  BY <1>2
<1>7. \A j \in B : \E i \in A \ {k} : f[i] = j
  <2> SUFFICES ASSUME NEW j \in B PROVE \E i \in A \ {k} : f[i] = j
    OBVIOUS
  <2>0. j \in 1..(Len(s) - 1) /\ t[j] \in P
    BY <1>2
  <2>1. CASE j < k
    <3>1. j \in A \ {k}
      BY <1>1, <1>2, <2>0, <2>1
    <3> QED BY <2>1, <3>1
  <2>2. CASE j >= k
    <3>1. t[j] = s[j + 1] /\ j + 1 \in 1..Len(s) /\ j + 1 # k
      BY <1>1, <1>2, <2>0, <2>2
    <3>2. j + 1 \in A \ {k}
      BY <1>2, <2>0, <3>1
    <3>3. f[j + 1] = j
      BY <1>2, <2>0, <2>2, <3>2
    <3> QED BY <3>2, <3>3
  <2> QED BY <1>2, <2>0, <2>1, <2>2
<1>8. f \in Bijection(A \ {k}, B)
  <2> HIDE DEF f, A, B
  <2> QED BY <1>5, <1>6, <1>7, Fun_IsBij
<1> HIDE DEF f, A, B
<1>9. IsFiniteSet(A \ {k}) /\ Cardinality(A \ {k}) = IF k \in A THEN Cardinality(A) - 1 ELSE Cardinality(A)
  BY <1>3, FS_RemoveElement
<1>10. Cardinality(B) = Cardinality(A \ {k})
  BY <1>8, <1>9, FS_Bijection DEF ExistsBijection
<1>11. k \in A <=> s[k] \in P
  BY DEF A
<1> QED BY <1>3, <1>9, <1>10, <1>11 DEF CountIn, A, B, t

-----------------------------------------------------------------------------
(* A report.                                                               *)

(* What a report may make of the controllers: their offsets stay.          *)
Kept == {n \in Controllers : \A c \in {"own", "external"}, u \in Ue :
           n[c][u].delta = controller[c][u].delta}

LEMMA OnCqiReportType ==
  ASSUME NEW s \in ControllerStates, NEW z \in Int, NEW n \in OnCqiReport(s, z)
  PROVE  n \in ControllerStates /\ n.delta = s.delta
<1>1. MaxCqi \in Nat /\ MaxStray \in Nat /\ MaxPredictDelta \in Nat
  BY AdaptConstants
<1>2. CASE s.initialized
  <2>1. PICK p \in KalmanPredictTo(s) : n \in Corrected(s, p, z)
    BY <1>2 DEF OnCqiReport
  <2>2. PICK l \in -MaxStray..(MaxCqi + MaxStray), t \in Trends :
          n = [level |-> l, trend |-> t, initialized |-> TRUE, delta |-> s.delta]
    BY <2>1 DEF Corrected
  <2>3. l \in Int
    BY <1>1, <2>2
  <2> QED BY <2>2, <2>3 DEF ControllerStates
<1>3. CASE ~s.initialized
  <2>1. n = [s EXCEPT !.level = z, !.trend = 0, !.initialized = TRUE]
    BY <1>3 DEF OnCqiReport
  <2>2. 0 \in Trends
    BY <1>1 DEF Trends
  <2> QED BY <2>1, <2>2 DEF ControllerStates
<1> QED BY <1>2, <1>3

LEMMA FedOne ==
  ASSUME AdaptTypes PROVE FedByReport \subseteq {"own", "external"}
BY DEF AdaptTypes, FedByReport

LEMMA ReportKeeps ==
  ASSUME AdaptTypes, NEW u \in Ue, NEW z \in Int
  PROVE  UpdateUeDlCqi(u, z) \in SUBSET Kept
<1>1. controller \in Controllers
  BY DEF AdaptTypes
<1>2. CASE FedByReport = {}
  BY <1>1, <1>2 DEF UpdateUeDlCqi, Kept
<1>3. CASE FedByReport # {}
  <2> SUFFICES ASSUME NEW c \in FedByReport, NEW n \in OnCqiReport(controller[c][u], z)
               PROVE  [controller EXCEPT ![c][u] = n] \in Kept
    BY <1>3 DEF UpdateUeDlCqi
  <2>1. c \in {"own", "external"} /\ controller[c][u] \in ControllerStates
    BY <1>1, FedOne DEF Controllers
  <2>2. n \in ControllerStates /\ n.delta = controller[c][u].delta
    BY <2>1, OnCqiReportType
  <2>3. [controller EXCEPT ![c][u] = n] \in Controllers
    BY <1>1, <2>1, <2>2 DEF Controllers
  <2>4. ASSUME NEW d \in {"own", "external"}, NEW v \in Ue
        PROVE  [controller EXCEPT ![c][u] = n][d][v].delta = controller[d][v].delta
    <3>1. CASE d = c /\ v = u
      BY <1>1, <2>1, <2>2, <3>1 DEF Controllers
    <3>2. CASE ~(d = c /\ v = u)
      BY <1>1, <2>1, <3>2 DEF Controllers
    <3> QED BY <3>1, <3>2
  <2> QED BY <2>3, <2>4 DEF Kept
<1> QED BY <1>2, <1>3

LEMMA RecordedType ==
  ASSUME AdaptTypes, NEW u \in Ue, NEW z \in Int, Recorded(u, z)
  PROVE  controller' \in Kept /\ latest' \in [Ue -> Int]
BY ReportKeeps DEF Recorded, AdaptTypes

-----------------------------------------------------------------------------
(* The blocks in flight.                                                   *)

OfUe(u) == {b \in Blocks : b.ue = u}
ToJudge(u) == {b \in Blocks : b.ue = u /\ (path = "loop" => b.attempt = 1)}

LEMMA InFlightCounts ==
  ASSUME AdaptTypes, NEW u
  PROVE  /\ Cardinality(InFlight(u)) = CountIn(blocks, OfUe(u))
         /\ Unjudged(u) = CountIn(blocks, ToJudge(u))
<1>1. \A i \in DOMAIN blocks : blocks[i] \in Blocks
  BY DEF AdaptTypes
<1>2. InFlight(u) = {i \in DOMAIN blocks : blocks[i] \in OfUe(u)}
  BY <1>1 DEF InFlight, OfUe
<1>3. {i \in InFlight(u) : path = "loop" => blocks[i].attempt = 1}
        = {i \in DOMAIN blocks : blocks[i] \in ToJudge(u)}
  BY <1>1 DEF InFlight, ToJudge
<1> QED BY <1>2, <1>3 DEF CountIn, Unjudged

LEMMA InFlightCountsNext ==
  ASSUME blocks' \in Seq(Blocks), path' = path, NEW u
  PROVE  /\ Cardinality(InFlight(u))' = CountIn(blocks', OfUe(u))
         /\ Unjudged(u)' = CountIn(blocks', ToJudge(u))
<1>1. \A i \in DOMAIN blocks' : blocks'[i] \in Blocks
  OBVIOUS
<1>2. InFlight(u)' = {i \in DOMAIN blocks' : blocks'[i] \in OfUe(u)}
  BY <1>1 DEF InFlight, OfUe
<1>3. {i \in InFlight(u)' : path' = "loop" => blocks'[i].attempt = 1}
        = {i \in DOMAIN blocks' : blocks'[i] \in ToJudge(u)}
  BY <1>1 DEF InFlight, ToJudge
<1> QED BY <1>2, <1>3 DEF CountIn, Unjudged

(* What the invariant says of the blocks.                                  *)
BlocksBounded ==
  /\ \A u \in Ue : Cardinality(InFlight(u)) <= MaxFlight
  /\ \A i \in DOMAIN blocks : blocks[i].attempt <= blocks[i].maxRetx + 1

LEMMA BlockAdded ==
  ASSUME AdaptInv, path' = path, NEW u \in Ue, NEW b \in Blocks, b.ue = u, b.attempt = 1,
         Cardinality(InFlight(u)) < MaxFlight, blocks' = Append(blocks, b)
  PROVE  blocks' \in Seq(Blocks) /\ BlocksBounded'
<1>1. AdaptTypes /\ blocks \in Seq(Blocks)
  BY DEF AdaptInv, AdaptTypes
<1>2. /\ blocks' \in Seq(Blocks)
      /\ DOMAIN blocks' = DOMAIN blocks \cup {Len(blocks) + 1}
      /\ blocks'[Len(blocks) + 1] = b
      /\ \A i \in DOMAIN blocks : blocks'[i] = blocks[i]
  BY <1>1, AppendProperties
<1>3. b.maxRetx \in Nat
  BY DEF Blocks
<1>4. \A i \in DOMAIN blocks' : blocks'[i].attempt <= blocks'[i].maxRetx + 1
  BY <1>2, <1>3 DEF AdaptInv
<1>5. ASSUME NEW v \in Ue PROVE Cardinality(InFlight(v))' <= MaxFlight
  <2>1. CountIn(blocks', OfUe(v)) = CountIn(blocks, OfUe(v)) + (IF b \in OfUe(v) THEN 1 ELSE 0)
    BY <1>1, AppendCount
  <2>2. CountIn(blocks, OfUe(v)) \in Nat /\ MaxFlight \in Nat
    BY <1>1, PlacesFinite, AdaptConstants
  <2>3. /\ Cardinality(InFlight(v))' = CountIn(blocks', OfUe(v))
        /\ Cardinality(InFlight(v)) = CountIn(blocks, OfUe(v))
    BY <1>1, <1>2, InFlightCounts, InFlightCountsNext
  <2>4. CountIn(blocks, OfUe(v)) <= MaxFlight
    BY <2>3 DEF AdaptInv
  <2>5. b \in OfUe(v) => CountIn(blocks, OfUe(v)) < MaxFlight
    BY <2>3 DEF OfUe
  <2> QED BY <2>1, <2>2, <2>3, <2>4, <2>5
<1> QED BY <1>2, <1>4, <1>5 DEF BlocksBounded

LEMMA BlockRemoved ==
  ASSUME AdaptInv, path' = path, NEW k \in DOMAIN blocks, blocks' = RemoveAt(blocks, k)
  PROVE  /\ blocks' \in Seq(Blocks) /\ BlocksBounded'
         /\ \A u : Unjudged(u)' = Unjudged(u) - (IF blocks[k] \in ToJudge(u) THEN 1 ELSE 0)
<1>1. AdaptTypes /\ blocks \in Seq(Blocks)
  BY DEF AdaptInv, AdaptTypes
<1>2. /\ blocks' \in Seq(Blocks) /\ Len(blocks') = Len(blocks) - 1
      /\ \A j \in 1..(Len(blocks) - 1) :
           blocks'[j] = IF j < k THEN blocks[j] ELSE blocks[j + 1]
  BY <1>1, RemovedType
<1>3. \A j \in DOMAIN blocks' : blocks'[j].attempt <= blocks'[j].maxRetx + 1
  <2> SUFFICES ASSUME NEW j \in DOMAIN blocks'
               PROVE  blocks'[j].attempt <= blocks'[j].maxRetx + 1
    OBVIOUS
  <2>1. /\ j \in 1..(Len(blocks) - 1) /\ j \in DOMAIN blocks /\ j + 1 \in DOMAIN blocks
    BY <1>1, <1>2
  <2>2. \E i \in DOMAIN blocks : blocks'[j] = blocks[i]
    BY <1>2, <2>1
  <2> QED BY <2>2 DEF AdaptInv
<1>4. ASSUME NEW P
      PROVE  /\ CountIn(blocks', P) = CountIn(blocks, P) - (IF blocks[k] \in P THEN 1 ELSE 0)
             /\ CountIn(blocks, P) \in Nat
  BY <1>1, RemovedCount, PlacesFinite
<1>5. ASSUME NEW v \in Ue PROVE Cardinality(InFlight(v))' <= MaxFlight
  <2>1. /\ Cardinality(InFlight(v))' = CountIn(blocks', OfUe(v))
        /\ Cardinality(InFlight(v)) = CountIn(blocks, OfUe(v))
    BY <1>1, <1>2, InFlightCounts, InFlightCountsNext
  <2>2. CountIn(blocks, OfUe(v)) <= MaxFlight /\ MaxFlight \in Nat
    BY <2>1, AdaptConstants DEF AdaptInv
  <2>3. CountIn(blocks', OfUe(v)) = CountIn(blocks, OfUe(v)) - (IF blocks[k] \in OfUe(v) THEN 1 ELSE 0)
        /\ CountIn(blocks, OfUe(v)) \in Nat
    BY <1>4
  <2> QED BY <2>1, <2>2, <2>3
<1>6. ASSUME NEW u
      PROVE  Unjudged(u)' = Unjudged(u) - (IF blocks[k] \in ToJudge(u) THEN 1 ELSE 0)
  <2>1. Unjudged(u)' = CountIn(blocks', ToJudge(u)) /\ Unjudged(u) = CountIn(blocks, ToJudge(u))
    BY <1>1, <1>2, InFlightCounts, InFlightCountsNext
  <2> QED BY <1>4, <2>1
<1> QED BY <1>2, <1>3, <1>5, <1>6 DEF BlocksBounded

LEMMA BlockSentAgain ==
  ASSUME AdaptInv, path' = path, NEW k \in DOMAIN blocks,
         blocks[k].attempt <= blocks[k].maxRetx, blocks' = SentAgain(k)
  PROVE  /\ blocks' \in Seq(Blocks) /\ BlocksBounded'
         /\ path = "loop" =>
              \A u : Unjudged(u)' = Unjudged(u) - (IF blocks[k] \in ToJudge(u) THEN 1 ELSE 0)
<1> DEFINE rest == RemoveAt(blocks, k)
           b == [blocks[k] EXCEPT !.attempt = blocks[k].attempt + 1]
<1>1. AdaptTypes /\ blocks \in Seq(Blocks) /\ blocks[k] \in Blocks
  BY DEF AdaptInv, AdaptTypes
<1>2. /\ rest \in Seq(Blocks) /\ Len(rest) = Len(blocks) - 1
      /\ \A j \in 1..(Len(blocks) - 1) :
           rest[j] = IF j < k THEN blocks[j] ELSE blocks[j + 1]
  BY <1>1, RemovedType
<1>3. /\ b \in Blocks /\ b.ue = blocks[k].ue /\ b.attempt # 1
      /\ b.attempt <= b.maxRetx + 1
  <2>1. /\ blocks[k].attempt \in Nat \ {0} /\ blocks[k].maxRetx \in Nat
        /\ blocks[k] = [ue |-> blocks[k].ue, mcs |-> blocks[k].mcs, off |-> blocks[k].off,
                        maxRetx |-> blocks[k].maxRetx, attempt |-> blocks[k].attempt]
    BY <1>1 DEF Blocks
  <2>2. /\ b.ue = blocks[k].ue /\ b.attempt = blocks[k].attempt + 1
        /\ b.maxRetx = blocks[k].maxRetx
    BY <1>1 DEF Blocks
  <2>3. b \in Blocks
    <3>1. blocks[k].attempt + 1 \in Nat \ {0}
      BY <2>1
    <3>2. \A B \in Blocks, a \in Nat \ {0} : [B EXCEPT !.attempt = a] \in Blocks
      BY DEF Blocks
    <3> QED BY <1>1, <3>1, <3>2
  <2> HIDE DEF b
  <2>4. b.attempt # 1 /\ b.attempt <= b.maxRetx + 1
    BY <2>1, <2>2
  <2> QED BY <2>2, <2>3, <2>4
<1>4. blocks' = Append(rest, b)
  BY DEF SentAgain
<1>5. ASSUME NEW P
      PROVE  /\ CountIn(rest, P) = CountIn(blocks, P) - (IF blocks[k] \in P THEN 1 ELSE 0)
             /\ CountIn(blocks, P) \in Nat /\ CountIn(rest, P) \in Nat
  BY <1>1, <1>2, RemovedCount, PlacesFinite
<1>6. \A j \in DOMAIN rest : rest[j].attempt <= rest[j].maxRetx + 1
  <2> SUFFICES ASSUME NEW j \in DOMAIN rest
               PROVE  rest[j].attempt <= rest[j].maxRetx + 1
    OBVIOUS
  <2>1. /\ j \in 1..(Len(blocks) - 1) /\ j \in DOMAIN blocks /\ j + 1 \in DOMAIN blocks
    BY <1>1, <1>2
  <2>2. \E i \in DOMAIN blocks : rest[j] = blocks[i]
    BY <1>2, <2>1
  <2> QED BY <2>2 DEF AdaptInv
<1> HIDE DEF rest, b
<1>7. /\ blocks' \in Seq(Blocks)
      /\ DOMAIN blocks' = DOMAIN rest \cup {Len(rest) + 1}
      /\ blocks'[Len(rest) + 1] = b
      /\ \A i \in DOMAIN rest : blocks'[i] = rest[i]
  BY <1>2, <1>3, <1>4, AppendProperties
<1>8. \A j \in DOMAIN blocks' : blocks'[j].attempt <= blocks'[j].maxRetx + 1
  BY <1>3, <1>6, <1>7
<1>9. ASSUME NEW P
      PROVE  CountIn(blocks', P) = CountIn(rest, P) + (IF b \in P THEN 1 ELSE 0)
  BY <1>2, <1>3, <1>4, AppendCount
<1>10. ASSUME NEW v \in Ue PROVE Cardinality(InFlight(v))' <= MaxFlight
  <2>1. /\ Cardinality(InFlight(v))' = CountIn(blocks', OfUe(v))
        /\ Cardinality(InFlight(v)) = CountIn(blocks, OfUe(v))
    BY <1>1, <1>7, InFlightCounts, InFlightCountsNext
  <2>2. CountIn(blocks, OfUe(v)) <= MaxFlight /\ MaxFlight \in Nat
    BY <2>1, AdaptConstants DEF AdaptInv
  <2>3. b \in OfUe(v) <=> blocks[k] \in OfUe(v)
    BY <1>1, <1>3 DEF OfUe
  <2>4. /\ CountIn(rest, OfUe(v)) = CountIn(blocks, OfUe(v)) - (IF blocks[k] \in OfUe(v) THEN 1 ELSE 0)
        /\ CountIn(blocks, OfUe(v)) \in Nat /\ CountIn(rest, OfUe(v)) \in Nat
    BY <1>5
  <2>5. CountIn(blocks', OfUe(v)) = CountIn(rest, OfUe(v)) + (IF b \in OfUe(v) THEN 1 ELSE 0)
    BY <1>9
  <2> QED BY <2>1, <2>2, <2>3, <2>4, <2>5
<1>11. ASSUME path = "loop", NEW u
       PROVE  Unjudged(u)' = Unjudged(u) - (IF blocks[k] \in ToJudge(u) THEN 1 ELSE 0)
  <2>1. Unjudged(u)' = CountIn(blocks', ToJudge(u)) /\ Unjudged(u) = CountIn(blocks, ToJudge(u))
    BY <1>1, <1>7, InFlightCounts, InFlightCountsNext
  <2>2. b \notin ToJudge(u)
    BY <1>3, <1>11 DEF ToJudge
  <2>3. CountIn(blocks', ToJudge(u)) = CountIn(rest, ToJudge(u))
    BY <1>5, <1>9, <2>2
  <2> QED BY <1>5, <2>1, <2>3
<1> QED BY <1>7, <1>8, <1>10, <1>11 DEF BlocksBounded

-----------------------------------------------------------------------------
(* The steps.                                                              *)

SteersOnce ==
  \A u \in Ue, c \in DOMAIN controller :
    controller'[c][u].delta # controller[c][u].delta => Unjudged(u)' = Unjudged(u) - 1

LEMMA KeptSteersNot ==
  ASSUME AdaptTypes, controller' \in Kept
  PROVE  SteersOnce /\ controller' \in Controllers
<1>1. DOMAIN controller = {"own", "external"}
  BY DEF AdaptTypes, Controllers
<1> QED BY <1>1 DEF Kept, SteersOnce

LEMMA SameSteersNot ==
  ASSUME controller' = controller PROVE SteersOnce
BY DEF SteersOnce

(* Whatever leaves the blocks alone keeps what the invariant says of them. *)
LEMMA SameBlocks ==
  ASSUME AdaptInv, blocks' = blocks
  PROVE  blocks' \in Seq(Blocks) /\ BlocksBounded'
BY DEF AdaptInv, AdaptTypes, BlocksBounded, InFlight

LEMMA WithBlocks ==
  ASSUME (AdaptTypes /\ BlocksBounded /\ \A u \in Ue : Len(reports[u]) <= MaxFlight)'
  PROVE  AdaptInv'
BY DEF AdaptInv, BlocksBounded

LEMMA AppliedType ==
  ASSUME AdaptTypes PROVE AdapterOnceApplied \in {"direct", "own", "external"}
BY DEF AdaptTypes, AdapterOnceApplied

LEMMA WiringStep ==
  ASSUME AdaptInv, Initialize \/ SetCqiAmcController \/ SetCqiPredictor
  PROVE  AdaptInv' /\ SteersOnce
<1>1. AdaptTypes
  BY DEF AdaptInv
<1>2. /\ adapter' \in {"direct", "own", "external"}
      /\ useAdapter' \in BOOLEAN /\ applied' \in BOOLEAN /\ amc' \in BOOLEAN
  BY <1>1, AppliedType DEF Initialize, SetCqiAmcController, SetCqiPredictor, AdaptTypes
<1>3. UNCHANGED <<path, scheme, controller, chan, reports, latest, blocks>>
  BY DEF Initialize, SetCqiAmcController, SetCqiPredictor, setup
<1>4. AdaptTypes'
  BY <1>1, <1>2, <1>3 DEF AdaptTypes, Controllers, Blocks
<1> QED BY <1>3, <1>4, SameBlocks, SameSteersNot, WithBlocks DEF AdaptInv

LEMMA FadeStep ==
  ASSUME AdaptInv, NEW u \in Ue, Fade(u)
  PROVE  AdaptInv' /\ SteersOnce
<1>1. AdaptTypes
  BY DEF AdaptInv
<1>2. UNCHANGED <<path, scheme, useAdapter, applied, adapter, amc, controller, reports,
                  latest, blocks>>
  BY DEF Fade, setup, wiring
<1>3. chan' \in [Ue -> 1..MaxCqi]
  BY <1>1 DEF Fade, AdaptTypes
<1>4. AdaptTypes'
  BY <1>1, <1>2, <1>3 DEF AdaptTypes, Controllers, Blocks
<1> QED BY <1>2, <1>4, SameBlocks, SameSteersNot, WithBlocks DEF AdaptInv

LEMMA SampleStep ==
  ASSUME AdaptInv, NEW u \in Ue, SampleCqiAtUe(u)
  PROVE  AdaptInv' /\ SteersOnce
<1>1. AdaptTypes /\ MaxCqi \in Nat /\ MaxFlight \in Nat
  BY AdaptConstants DEF AdaptInv
<1>2. UNCHANGED <<path, scheme, useAdapter, applied, adapter, amc, controller, chan,
                  latest, blocks>>
  BY DEF SampleCqiAtUe, setup, wiring
<1>3. chan[u] \in Cqis /\ reports[u] \in Seq(Cqis)
  BY <1>1 DEF AdaptTypes, Cqis
<1> DEFINE more == Append(reports[u], chan[u])
<1>4. more \in Seq(Cqis) /\ Len(more) = Len(reports[u]) + 1 /\ Len(reports[u]) \in Nat
  BY <1>3, AppendProperties
<1>5. reports' = [reports EXCEPT ![u] = more] /\ Len(reports[u]) < MaxFlight
  BY DEF SampleCqiAtUe
<1> HIDE DEF more
<1>6. reports' \in [Ue -> Seq(Cqis)]
  BY <1>1, <1>4, <1>5 DEF AdaptTypes
<1>7. \A v \in Ue : Len(reports'[v]) <= MaxFlight
  <2> TAKE v \in Ue
  <2>1. reports \in [Ue -> Seq(Cqis)] /\ Len(reports[v]) <= MaxFlight
    BY <1>1 DEF AdaptTypes, AdaptInv
  <2>2. CASE v = u
    BY <1>1, <1>4, <1>5, <2>1, <2>2
  <2>3. CASE v # u
    BY <1>5, <2>1, <2>3
  <2> QED BY <2>2, <2>3
<1>8. AdaptTypes'
  BY <1>1, <1>2, <1>6 DEF AdaptTypes, Controllers, Blocks
<1> QED BY <1>2, <1>7, <1>8, SameBlocks, SameSteersNot, WithBlocks DEF AdaptInv

LEMMA ArrivalKeeps ==
  ASSUME AdaptInv, NEW u \in Ue, Arrival(u)
  PROVE  /\ controller' \in Kept /\ latest' \in [Ue -> Int]
         /\ reports' \in [Ue -> Seq(Cqis)]
         /\ \A v \in Ue : Len(reports'[v]) <= MaxFlight
<1>1. AdaptTypes /\ MaxFlight \in Nat
  BY AdaptConstants DEF AdaptInv
<1>2. reports[u] \in Seq(Cqis) /\ reports[u] # <<>>
  BY <1>1 DEF AdaptTypes, Arrival
<1> DEFINE fewer == Tail(reports[u])
<1>3. /\ Head(reports[u]) \in Cqis /\ fewer \in Seq(Cqis)
      /\ Len(fewer) = Len(reports[u]) - 1 /\ Len(reports[u]) \in Nat
  BY <1>2, HeadTailProperties
<1>4. reports' = [reports EXCEPT ![u] = fewer] /\ Recorded(u, Head(reports[u]))
  BY DEF Arrival
<1> HIDE DEF fewer
<1>5. reports' \in [Ue -> Seq(Cqis)]
  BY <1>1, <1>3, <1>4 DEF AdaptTypes
<1>6. \A v \in Ue : Len(reports'[v]) <= MaxFlight
  <2> TAKE v \in Ue
  <2>1. reports \in [Ue -> Seq(Cqis)] /\ Len(reports[v]) <= MaxFlight
    BY <1>1 DEF AdaptTypes, AdaptInv
  <2>2. CASE v = u
    BY <1>1, <1>3, <1>4, <2>1, <2>2
  <2>3. CASE v # u
    BY <1>4, <2>1, <2>3
  <2> QED BY <2>2, <2>3
<1>7. Head(reports[u]) \in Int
  BY <1>3, AdaptConstants DEF Cqis
<1> QED BY <1>1, <1>4, <1>5, <1>6, <1>7, RecordedType

LEMMA AsCqiType ==
  ASSUME NEW v \in Int PROVE AsCqi(v) \in Cqis
BY AdaptConstants DEF AsCqi, Clamp, Cqis

LEMMA EffectiveCqi ==
  ASSUME NEW s \in ControllerStates
  PROVE  GetEffectiveCqi(s) \in Cqis /\ GetEffectiveCqi(s) \in Int
<1>1. MaxCqi \in Nat /\ MaxPredictDelta \in Nat /\ DeltaMax \in Nat /\ DefaultCqi \in Cqis
  BY AdaptConstants
<1>2. s.delta \in Int /\ s.level \in Int /\ s.trend \in Int
  BY <1>1 DEF ControllerStates, Trends
<1>3. PredictCqi(s) \in Cqis
  BY <1>1, <1>2, AsCqiType DEF PredictCqi
<1>4. PredictCqi(s) + s.delta \in Int
  BY <1>1, <1>2, <1>3 DEF Cqis
<1>5. GetEffectiveCqi(s) \in Cqis
  BY <1>4, AsCqiType DEF GetEffectiveCqi
<1> QED BY <1>1, <1>5 DEF Cqis

(* A policy is one of two kinds.                                           *)
LEMMA PolicyType ==
  ASSUME AdaptTypes, NEW u \in Ue, NEW p \in Policies(u)
  PROVE  /\ p.off \in BOOLEAN /\ p.maxRetx \in Nat
         /\ BlerTargetToCqiOffset(p.target) \in Int
<1>1. FixedN \in Nat /\ MaxRetxN \in Nat /\ SafeBackOff \in Nat /\ AggrBias \in Nat
  BY AdaptConstants
<1> DEFINE Policy == [off : BOOLEAN, maxRetx : Nat, target : {"safe", "nominal", "aggressive"}]
<1>2. MakeOff \in Policy /\ \A t \in {"nominal", "aggressive"} : MakeReactive(t) \in Policy
  BY <1>1 DEF MakeOff, MakeReactive
<1>3. p \in Policy
  <2>1. CASE scheme = "b"
    BY <1>2, <2>1 DEF Policies, MakeOff
  <2>2. CASE scheme \in {"a", "c"}
    BY <1>1, <1>2, <2>2 DEF Policies, MakeReactive
  <2>3. CASE scheme = "d"
    <3>1. PICK fresh, r : p = Decide(fresh, u \in voice, r, gate.thLow)
      BY <2>3 DEF Policies
    <3> QED BY <1>2, <3>1 DEF Decide
  <2> QED BY <2>1, <2>2, <2>3 DEF AdaptTypes
<1> QED BY <1>1, <1>3 DEF BlerTargetToCqiOffset

LEMMA NewBlock ==
  ASSUME NEW u \in Ue, NEW mcs \in Cqis, NEW off \in BOOLEAN, NEW maxRetx \in Nat
  PROVE  /\ Block(u, mcs, off, maxRetx) \in Blocks
         /\ Block(u, mcs, off, maxRetx).ue = u
         /\ Block(u, mcs, off, maxRetx).attempt = 1
BY DEF Block, Blocks

LEMMA OnCqiAtGwStep ==
  ASSUME AdaptInv, NEW u \in Ue, OnCqiAtGw(u)
  PROVE  AdaptInv' /\ SteersOnce
<1>1. AdaptTypes /\ MaxCqi \in Nat
  BY AdaptConstants DEF AdaptInv
<1>2. Arrival(u) /\ Cardinality(InFlight(u)) < MaxFlight
      /\ UNCHANGED <<path, scheme, useAdapter, applied, adapter, amc, chan>>
  BY DEF OnCqiAtGw, setup, wiring
<1>3. /\ controller' \in Kept /\ latest' \in [Ue -> Int]
      /\ reports' \in [Ue -> Seq(Cqis)]
      /\ \A v \in Ue : Len(reports'[v]) <= MaxFlight
  BY <1>2, ArrivalKeeps
<1>4. PICK p \in Policies(u) :
        blocks' = Append(blocks, Block(u, GetMcsForNewTx(controller', u,
                                            BlerTargetToCqiOffset(p.target)), p.off, p.maxRetx))
  BY DEF OnCqiAtGw
<1>6. p.off \in BOOLEAN /\ p.maxRetx \in Nat /\ BlerTargetToCqiOffset(p.target) \in Int
  BY <1>1, PolicyType
<1>7. controller'["external"][u] \in ControllerStates
  BY <1>3 DEF Kept, Controllers
<1> DEFINE mcs == GetMcsForNewTx(controller', u, BlerTargetToCqiOffset(p.target))
           q == IF amc THEN GetEffectiveCqi(controller'["external"][u]) ELSE latest'[u]
<1>8. mcs = AsCqi(q + BlerTargetToCqiOffset(p.target))
  BY DEF GetMcsForNewTx
<1>9. q \in Int
  <2>1. CASE amc
    BY <1>7, <2>1, EffectiveCqi
  <2>2. CASE ~amc
    BY <1>3, <2>2
  <2> QED BY <2>1, <2>2
<1> HIDE DEF q
<1>5. q + BlerTargetToCqiOffset(p.target) \in Int
  BY <1>6, <1>9
<1>10. mcs \in Cqis
  BY <1>5, <1>8, AsCqiType
<1> HIDE DEF mcs
<1> DEFINE b == Block(u, mcs, p.off, p.maxRetx)
<1>11. b \in Blocks /\ b.ue = u /\ b.attempt = 1
  BY <1>6, <1>10, NewBlock
<1> HIDE DEF b
<1>12. blocks' \in Seq(Blocks) /\ BlocksBounded'
  <2>1. blocks' = Append(blocks, b)
    BY <1>4 DEF b, mcs
  <2> QED BY <1>2, <1>11, <2>1, BlockAdded
<1>13. SteersOnce /\ controller' \in Controllers
  BY <1>1, <1>3, KeptSteersNot
<1>14. AdaptTypes'
  BY <1>1, <1>2, <1>3, <1>12, <1>13 DEF AdaptTypes
<1> QED BY <1>3, <1>12, <1>13, <1>14, WithBlocks

LEMMA PucchStep ==
  ASSUME AdaptInv, NEW u \in Ue, ReceivePucchInfo(u)
  PROVE  AdaptInv' /\ SteersOnce
<1>1. AdaptTypes
  BY DEF AdaptInv
<1>2. Arrival(u) /\ UNCHANGED <<path, scheme, useAdapter, applied, adapter, amc, chan, blocks>>
  BY DEF ReceivePucchInfo, setup, wiring
<1>3. /\ controller' \in Kept /\ latest' \in [Ue -> Int]
      /\ reports' \in [Ue -> Seq(Cqis)]
      /\ \A v \in Ue : Len(reports'[v]) <= MaxFlight
  BY <1>2, ArrivalKeeps
<1>4. SteersOnce /\ controller' \in Controllers
  BY <1>1, <1>3, KeptSteersNot
<1>5. blocks' \in Seq(Blocks) /\ BlocksBounded'
  BY <1>2, SameBlocks
<1>6. AdaptTypes'
  BY <1>1, <1>2, <1>3, <1>4, <1>5 DEF AdaptTypes
<1> QED BY <1>3, <1>4, <1>5, <1>6, WithBlocks

LEMMA UpdateUeCsiStep ==
  ASSUME AdaptInv, NEW u \in Ue, UpdateUeCsi(u)
  PROVE  AdaptInv' /\ SteersOnce
<1>1. AdaptTypes
  BY DEF AdaptInv
<1>2. PICK z \in Int : Recorded(u, z)
  BY AdaptConstants DEF UpdateUeCsi
<1>3. UNCHANGED <<path, scheme, useAdapter, applied, adapter, amc, chan, reports, blocks>>
  BY DEF UpdateUeCsi, setup, wiring
<1>4. controller' \in Kept /\ latest' \in [Ue -> Int]
  BY <1>1, <1>2, RecordedType
<1>5. SteersOnce /\ controller' \in Controllers
  BY <1>1, <1>4, KeptSteersNot
<1>6. blocks' \in Seq(Blocks) /\ BlocksBounded'
  BY <1>3, SameBlocks
<1>7. AdaptTypes'
  BY <1>1, <1>3, <1>4, <1>5, <1>6 DEF AdaptTypes
<1>8. (\A v \in Ue : Len(reports[v]) <= MaxFlight)'
  BY <1>3 DEF AdaptInv
<1> QED BY <1>5, <1>6, <1>7, <1>8, WithBlocks

LEMMA RunSchedulerStep ==
  ASSUME AdaptInv, NEW u \in Ue, RunScheduler(u)
  PROVE  AdaptInv' /\ SteersOnce
<1>1. AdaptTypes /\ MaxCqi \in Nat /\ FixedN \in Nat
  BY AdaptConstants DEF AdaptInv
<1>2. /\ Cardinality(InFlight(u)) < MaxFlight
      /\ applied' = TRUE /\ adapter' = AdapterOnceApplied
      /\ UNCHANGED <<path, scheme, useAdapter, amc, controller, chan, reports, latest>>
  BY DEF RunScheduler, setup
<1>3. adapter' \in {"direct", "own", "external"}
  BY <1>1, <1>2, AppliedType
<1>4. PICK mcs \in GetSchedulingCqi(adapter', u) :
        blocks' = Append(blocks, Block(u, mcs, FALSE, FixedN))
  BY DEF RunScheduler
<1>5. mcs \in Cqis
  <2>1. latest[u] \in Int /\ chan[u] \in 1..MaxCqi
    BY <1>1 DEF AdaptTypes
  <2>2. PICK q \in Int : mcs = Clamp(q, 1, MaxCqi)
    <3>1. CASE adapter' # "direct" /\ HasFreshEstimate(controller[adapter'][u])
      <4>1. controller[adapter'][u] \in ControllerStates
        BY <1>1, <1>3, <3>1 DEF AdaptTypes, Controllers
      <4> QED BY <1>4, <3>1, <4>1, EffectiveCqi DEF GetSchedulingCqi
    <3>2. CASE ~(adapter' # "direct" /\ HasFreshEstimate(controller[adapter'][u]))
      BY <1>1, <1>4, <2>1, <3>2 DEF GetSchedulingCqi, Cqis
    <3> QED BY <3>1, <3>2
  <2> QED BY <1>1, <2>1, <2>2 DEF Clamp, Cqis
<1> DEFINE b == Block(u, mcs, FALSE, FixedN)
<1>6. b \in Blocks /\ b.ue = u /\ b.attempt = 1
  BY <1>1, <1>5, NewBlock
<1> HIDE DEF b
<1>7. blocks' \in Seq(Blocks) /\ BlocksBounded'
  <2>1. blocks' = Append(blocks, b)
    BY <1>4 DEF b
  <2> QED BY <1>2, <1>6, <2>1, BlockAdded
<1>8. AdaptTypes'
  BY <1>1, <1>2, <1>3, <1>7 DEF AdaptTypes, Controllers
<1>9. (\A v \in Ue : Len(reports[v]) <= MaxFlight)'
  BY <1>2 DEF AdaptInv
<1> QED BY <1>2, <1>7, <1>8, <1>9, SameSteersNot, WithBlocks

(* An outcome moves the offsets of its own UE, in the controllers it goes  *)
(* to.                                                                     *)
LEMMA SteerEffect ==
  ASSUME AdaptTypes, NEW cs, NEW u \in Ue, NEW ack, Steer(cs, u, ack)
  PROVE  /\ controller' \in Controllers
         /\ \A c \in {"own", "external"}, v \in Ue :
              controller'[c][v] # controller[c][v] => c \in cs /\ v = u
<1>1. DeltaMax \in Nat /\ StepDown \in Nat
  BY AdaptConstants
<1>2. controller \in Controllers /\ DOMAIN controller = {"own", "external"}
  BY DEF AdaptTypes, Controllers
<1>3. ASSUME NEW s \in ControllerStates PROVE OnHarqFeedback(s, ack) \in ControllerStates
  <2>1. s.delta \in Int
    BY <1>1 DEF ControllerStates
  <2> DEFINE d == Clamp(IF ack THEN s.delta + 1 ELSE s.delta - StepDown, -DeltaMax, DeltaMax)
  <2>2. d \in (-DeltaMax)..DeltaMax
    BY <1>1, <2>1 DEF Clamp
  <2>3. OnHarqFeedback(s, ack) = [s EXCEPT !.delta = d]
    BY DEF OnHarqFeedback
  <2> HIDE DEF d
  <2> QED BY <2>2, <2>3 DEF ControllerStates
<1>4. ASSUME NEW c \in {"own", "external"}
      PROVE  /\ controller[c] \in [Ue -> ControllerStates]
             /\ controller'[c] = IF c \in cs
                                 THEN [controller[c] EXCEPT ![u] = OnHarqFeedback(controller[c][u], ack)]
                                 ELSE controller[c]
  BY <1>2 DEF Steer, Controllers
<1>5. \A c \in {"own", "external"} : controller'[c] \in [Ue -> ControllerStates]
  BY <1>3, <1>4
<1>6. controller' \in Controllers
  BY <1>2, <1>5 DEF Steer, Controllers
<1>7. ASSUME NEW c \in {"own", "external"}, NEW v \in Ue, controller'[c][v] # controller[c][v]
      PROVE  c \in cs /\ v = u
  BY <1>4, <1>7
<1> QED BY <1>6, <1>7

LEMMA BlockType ==
  ASSUME AdaptTypes, NEW k \in DOMAIN blocks
  PROVE  blocks[k] \in Blocks /\ blocks[k].ue \in Ue
<1>1. blocks[k] \in Blocks
  BY DEF AdaptTypes
<1> QED BY <1>1 DEF Blocks

LEMMA PolicyDecodeStep ==
  ASSUME AdaptInv, NEW k \in DOMAIN blocks, NEW ack \in BOOLEAN, PolicyDecode(k, ack)
  PROVE  AdaptInv' /\ SteersOnce
<1> DEFINE b == blocks[k]
           cs == IF IsNewTx(b) /\ Predicting THEN {"external"} ELSE {}
<1>1. AdaptTypes /\ b \in Blocks /\ b.ue \in Ue
  BY BlockType DEF AdaptInv
<1>2. /\ path = "loop" /\ Steer(cs, b.ue, ack)
      /\ UNCHANGED <<path, scheme, useAdapter, applied, adapter, amc, chan, reports, latest>>
  BY DEF PolicyDecode, setup, wiring
<1>3. \/ b.attempt <= b.maxRetx /\ blocks' = SentAgain(k)
      \/ blocks' = RemoveAt(blocks, k)
  BY DEF PolicyDecode
<1>4. /\ controller' \in Controllers
      /\ \A c \in {"own", "external"}, v \in Ue :
           controller'[c][v] # controller[c][v] => c \in cs /\ v = b.ue
  BY <1>1, <1>2, SteerEffect
<1>5. /\ blocks' \in Seq(Blocks) /\ BlocksBounded'
      /\ \A u : Unjudged(u)' = Unjudged(u) - (IF b \in ToJudge(u) THEN 1 ELSE 0)
  BY <1>2, <1>3, BlockRemoved, BlockSentAgain
<1>6. AdaptTypes'
  BY <1>1, <1>2, <1>4, <1>5 DEF AdaptTypes
<1>7. (\A v \in Ue : Len(reports[v]) <= MaxFlight)'
  BY <1>2 DEF AdaptInv
<1>8. ASSUME NEW v \in Ue, NEW c \in DOMAIN controller,
             controller'[c][v].delta # controller[c][v].delta
      PROVE  Unjudged(v)' = Unjudged(v) - 1
  <2>1. c \in {"own", "external"}
    BY <1>1 DEF AdaptTypes, Controllers
  <2>2. c \in cs /\ v = b.ue
    BY <1>4, <1>8, <2>1
  <2>3. b.attempt = 1
    BY <2>2 DEF IsNewTx
  <2>4. b \in ToJudge(v)
    BY <1>1, <2>2, <2>3 DEF ToJudge
  <2> QED BY <1>5, <2>4
<1> QED BY <1>5, <1>6, <1>7, <1>8, WithBlocks DEF SteersOnce

LEMMA HandleDlHarqFeedbackStep ==
  ASSUME AdaptInv, NEW k \in DOMAIN blocks, NEW ack \in BOOLEAN, HandleDlHarqFeedback(k, ack)
  PROVE  AdaptInv' /\ SteersOnce
<1> DEFINE b == blocks[k]
           initialAck == ack /\ b.attempt = 1
<1>1. AdaptTypes /\ b \in Blocks /\ b.ue \in Ue
  BY BlockType DEF AdaptInv
<1>2. /\ path = "system"
      /\ UNCHANGED <<path, scheme, useAdapter, applied, adapter, amc, chan, reports, latest>>
  BY DEF HandleDlHarqFeedback, setup, wiring
<1>3. \/ b.attempt <= b.maxRetx /\ blocks' = SentAgain(k) /\ controller' = controller
      \/ blocks' = RemoveAt(blocks, k) /\ Steer(FedByOutcome, b.ue, initialAck)
  BY DEF HandleDlHarqFeedback
<1>4. (\A v \in Ue : Len(reports[v]) <= MaxFlight)'
  BY <1>2 DEF AdaptInv
<1> HIDE DEF initialAck
<1>5. CASE b.attempt <= b.maxRetx /\ blocks' = SentAgain(k) /\ controller' = controller
  <2>1. blocks' \in Seq(Blocks) /\ BlocksBounded'
    BY <1>2, <1>5, BlockSentAgain
  <2>2. AdaptTypes'
    BY <1>1, <1>2, <1>5, <2>1 DEF AdaptTypes, Controllers
  <2> QED BY <1>4, <1>5, <2>1, <2>2, SameSteersNot, WithBlocks
<1>6. CASE blocks' = RemoveAt(blocks, k) /\ Steer(FedByOutcome, b.ue, initialAck)
  <2>1. /\ controller' \in Controllers
        /\ \A c \in {"own", "external"}, v \in Ue :
             controller'[c][v] # controller[c][v] => v = b.ue
    BY <1>1, <1>6, SteerEffect
  <2>2. /\ blocks' \in Seq(Blocks) /\ BlocksBounded'
        /\ \A u : Unjudged(u)' = Unjudged(u) - (IF b \in ToJudge(u) THEN 1 ELSE 0)
    BY <1>2, <1>6, BlockRemoved
  <2>3. AdaptTypes'
    BY <1>1, <1>2, <2>1, <2>2 DEF AdaptTypes
  <2>4. ASSUME NEW v \in Ue, NEW c \in DOMAIN controller,
               controller'[c][v].delta # controller[c][v].delta
        PROVE  Unjudged(v)' = Unjudged(v) - 1
    <3>1. c \in {"own", "external"}
      BY <1>1 DEF AdaptTypes, Controllers
    <3>2. v = b.ue
      BY <2>1, <2>4, <3>1
    <3>3. b \in ToJudge(v)
      BY <1>1, <1>2, <3>2 DEF ToJudge
    <3> QED BY <2>2, <3>3
  <2> QED BY <1>4, <2>2, <2>3, <2>4, WithBlocks DEF SteersOnce
<1> QED BY <1>3, <1>5, <1>6

LEMMA AdaptInitInv == ASSUME AdaptInit PROVE AdaptInv
<1> USE AdaptConstants DEF AdaptInit
<1>1. scheme \in {"a", "b", "c", "d"}
  OBVIOUS
<1>2. /\ adapter \in {"direct", "own", "external"}
      /\ useAdapter \in BOOLEAN /\ applied \in BOOLEAN /\ amc \in BOOLEAN
  OBVIOUS
<1>3. Unfed \in ControllerStates
  BY DEF Unfed, ControllerStates, Trends, Cqis
<1>4. controller \in Controllers /\ chan \in [Ue -> 1..MaxCqi]
  BY <1>3 DEF Controllers
<1>5. /\ reports \in [Ue -> Seq(Cqis)] /\ latest \in [Ue -> Int]
      /\ \A u \in Ue : Len(reports[u]) = 0
  BY EmptySeq DEF None
<1>6. blocks = <<>> /\ blocks \in Seq(Blocks)
  BY EmptySeq
<1>7. \A u \in Ue : InFlight(u) = {} /\ Cardinality(InFlight(u)) = 0
  BY <1>6, FS_EmptySet DEF InFlight
<1> QED BY <1>1, <1>2, <1>4, <1>5, <1>6, <1>7 DEF AdaptInv, AdaptTypes

LEMMA AdaptStep ==
  ASSUME AdaptInv, [AdaptNext]_adaptVars
  PROVE  AdaptInv' /\ SteersOnce
<1>1. CASE Initialize \/ SetCqiAmcController \/ SetCqiPredictor
  BY <1>1, WiringStep
<1>2. ASSUME NEW u \in Ue,
             \/ Fade(u) \/ SampleCqiAtUe(u)
             \/ OnCqiAtGw(u) \/ ReceivePucchInfo(u) \/ UpdateUeCsi(u) \/ RunScheduler(u)
      PROVE  AdaptInv' /\ SteersOnce
  BY <1>2, FadeStep, SampleStep, OnCqiAtGwStep, PucchStep, UpdateUeCsiStep, RunSchedulerStep
<1>3. ASSUME NEW k \in DOMAIN blocks, NEW ack \in BOOLEAN, Decode(k, ack)
      PROVE  AdaptInv' /\ SteersOnce
  BY <1>3, PolicyDecodeStep, HandleDlHarqFeedbackStep DEF Decode
<1>4. CASE UNCHANGED adaptVars
  <2>1. UNCHANGED <<path, scheme, useAdapter, applied, adapter, amc, controller, chan,
                    reports, latest, blocks>>
    BY <1>4 DEF adaptVars, setup, wiring
  <2>2. AdaptTypes'
    BY <2>1 DEF AdaptInv, AdaptTypes, Controllers, Blocks
  <2>3. (\A v \in Ue : Len(reports[v]) <= MaxFlight)'
    BY <2>1 DEF AdaptInv
  <2> QED BY <2>1, <2>2, <2>3, SameBlocks, SameSteersNot, WithBlocks
<1> QED BY <1>1, <1>2, <1>3, <1>4 DEF AdaptNext

LEMMA AdaptSpecInv == AdaptSpec => []AdaptInv
<1>1. AdaptInit => AdaptInv
  BY AdaptInitInv
<1>2. AdaptInv /\ [AdaptNext]_adaptVars => AdaptInv'
  BY AdaptStep
<1> QED BY <1>1, <1>2, PTL DEF AdaptSpec

(* Link adaptation keeps its types and bounds, in both paths and however   *)
(* the scheduler is wired: the filter may carry its level anywhere and a   *)
(* measurement report be no CQI at all, what is taken for the CQI of a UE  *)
(* and what sets the MCS of a block is one.                                *)
THEOREM AdaptTypeCorrect == AdaptSpec => []AdaptTypeOK
<1>1. ASSUME AdaptInv PROVE AdaptTypeOK
  <2>1. AdaptTypes /\ controller \in Controllers
    BY <1>1 DEF AdaptInv, AdaptTypes
  <2>2. ASSUME NEW c \in DOMAIN controller, NEW u \in Ue
        PROVE  /\ controller[c][u] \in ControllerStates
               /\ GetEffectiveCqi(controller[c][u]) \in Cqis
    BY <2>1, EffectiveCqi DEF Controllers
  <2>3. \A i \in DOMAIN blocks :
          blocks[i].mcs \in Cqis /\ blocks[i].attempt <= blocks[i].maxRetx + 1
    BY <1>1, <2>1, BlockType DEF AdaptInv, Blocks
  <2> QED BY <1>1, <2>1, <2>2, <2>3 DEF AdaptInv, AdaptTypes, AdaptTypeOK, ControllerStates
<1> QED BY <1>1, AdaptSpecInv, PTL

(* For every number of UEs, blocks in flight and attempts: an offset moves *)
(* only as a block of its UE is judged, once for each block.               *)
THEOREM EachBlockSteersOnceCorrect == AdaptSpec => EachBlockSteersOnce
<1>1. AdaptInv /\ [AdaptNext]_adaptVars =>
        [\A u \in Ue, c \in DOMAIN controller :
           controller'[c][u].delta # controller[c][u].delta
             => Unjudged(u)' = Unjudged(u) - 1]_adaptVars
  BY AdaptStep DEF SteersOnce
<1> QED BY <1>1, AdaptSpecInv, PTL DEF AdaptSpec, EachBlockSteersOnce
=============================================================================
