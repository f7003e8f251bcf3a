---------------------------- MODULE HarqManager ----------------------------
(***************************************************************************)
(* Downlink HARQ: the gateway's HarqManager (model/harq-manager.cc) and    *)
(* the scheduler state that follows it (m_dlHarqProcessMap and             *)
(* m_dlHarqEverRetx of model/geo-beam-scheduler.cc).  The scheduler opens  *)
(* a process for each downlink allocation and resends the cached DCI when  *)
(* the manager calls back.                                                 *)
(*                                                                         *)
(* A copy reaches the UE or not, and the UE's answer reaches the gateway   *)
(* or not.  The answer names the process and nothing else: not the packet, *)
(* and not which of its copies.  The buffered packet lives exactly as long *)
(* as its process waits, so the branches for a null packet are left out.   *)
(***************************************************************************)
EXTENDS Naturals, FiniteSets

CONSTANTS
  Rnti,          (* The UEs.                                               *)
  MaxProcesses,  (* The largest number of processes per UE (32).           *)
  Counts,        (* Arguments SetProcessCount is called with.              *)
  MaxRetx,       (* MAX_RETRANSMISSIONS (4).                               *)
  MaxTx,         (* Bound: new transmissions.                              *)
  FeedbackLate   (* Whether an answer may take longer to come back than    *)
                 (* HARQ_ACK_TIMEOUT.                                      *)

Supported == {1, 2, 4, 8, 16, 32} \cap 1..MaxProcesses

ASSUME HarqManagerAssumption ==
  /\ IsFiniteSet(Rnti)
  /\ MaxProcesses \in {1, 2, 4, 8, 16, 32}
  /\ Counts \subseteq Nat
  /\ MaxRetx \in Nat
  /\ MaxTx \in Nat
  /\ FeedbackLate \in BOOLEAN

VARIABLES
  harqEnabled,          (* m_harqEnabled                                   *)
  processCount,         (* m_processCount                                  *)
  process,              (* m_harqProcesses                                 *)
  ackTimeoutEvent,      (* the processes whose timer is running            *)
  totalTransmissions,
  totalRetransmissions,
  totalAck,
  totalNack,
  totalDropped,
  ueContexts,           (* the UEs the scheduler has a context for         *)
  dlHarqProcessMap,     (* the processes whose DCI the scheduler caches    *)
  dlHarqEverRetx,       (* those it has marked as retransmitted            *)
  feedbacks,            (* answers on their way to the gateway             *)
  generation,           (* history: packets a process has carried          *)
  decoded,              (* history: the processes whose latest copy the UE *)
                        (* has decoded                                     *)
  failures,             (* history: failures reported to the scheduler     *)
  wasReset              (* history: ResetStatistics was called             *)

totals == <<totalTransmissions, totalRetransmissions, totalAck, totalNack,
            totalDropped, failures>>
managerVars == <<process, ackTimeoutEvent, totals>>
configVars == <<harqEnabled, processCount, wasReset>>
schedulerVars == <<ueContexts, dlHarqProcessMap, dlHarqEverRetx>>
radioVars == <<feedbacks, generation, decoded>>
vars == <<managerVars, configVars, schedulerVars, radioVars>>

Pid == 0..(MaxProcesses - 1)
Key == Rnti \X Pid
Absent == [state |-> "NONE", retransmitCount |-> 0]     (* no map entry *)
Process == [state : {"NONE", "WAITING_ACK", "SUCCESS", "FAILED"},
            retransmitCount : 0..MaxRetx]
Copy == 0..MaxRetx        (* 0 is the first transmission of a packet *)
Feedback == [key : Key, ack : BOOLEAN, generation : 0..MaxTx, copy : Copy]

IsWaiting(k) == process[k].state = "WAITING_ACK"
Waiting == {k \in Key : IsWaiting(k)}

Init ==
  /\ harqEnabled \in BOOLEAN
  /\ processCount \in Supported
  /\ process = [k \in Key |-> Absent]
  /\ ackTimeoutEvent = {}
  /\ totalTransmissions = 0
  /\ totalRetransmissions = 0
  /\ totalAck = 0
  /\ totalNack = 0
  /\ totalDropped = 0
  /\ ueContexts = Rnti
  /\ dlHarqProcessMap = {}
  /\ dlHarqEverRetx = {}
  /\ feedbacks = {}
  /\ generation = [k \in Key |-> 0]
  /\ decoded = {}
  /\ failures = 0
  /\ wasReset = FALSE

-----------------------------------------------------------------------------
(* The radio: what becomes of a copy sent with its DCI, while the answers  *)
(* `pending` are under way.                                                *)

IsOf(k, answers) == {fb \in answers : fb.key = k}

CopySent(k, copy, pending) ==
  LET gen == IF copy = 0 THEN generation[k] + 1 ELSE generation[k]
  IN \E isDecoded, answerArrives \in BOOLEAN :
       /\ generation' = [generation EXCEPT ![k] = gen]
       /\ decoded' = IF isDecoded THEN decoded \cup {k} ELSE decoded \ {k}
       /\ feedbacks' =
            IF answerArrives
            THEN pending \cup
                   {[key |-> k, ack |-> isDecoded, generation |-> gen, copy |-> copy]}
            ELSE pending

-----------------------------------------------------------------------------
(* New transmissions.                                                      *)

(* Faulty variant: a process still waiting counts as free. *)
IsFreeAlways(k) == TRUE

(* No entry yet, or one in a terminal state. *)
IsFree(k) == ~IsWaiting(k)

(* The process AllocateProcess picks: the UE's free one with the lowest id. *)
AllocateProcess(rnti) ==
  {k \in Key : /\ k[1] = rnti
               /\ k[2] < processCount
               /\ IsFree(k)
               /\ \A pid \in 0..(k[2] - 1) : ~IsFree(<<rnti, pid>>)}

(* A downlink allocation (RunScheduler, EmitNomaFarGrant, ServeDlSpsGrant): *)
(* NewTransmission, then the scheduler caches the DCI and sends it.  With  *)
(* no free process nothing is opened.                                      *)
NewTransmission(rnti) ==
  /\ rnti \in ueContexts
  /\ totalTransmissions < MaxTx
  /\ \E k \in AllocateProcess(rnti) :
       /\ generation[k] < MaxTx
       /\ process' =
            [process EXCEPT ![k] = [state |-> "WAITING_ACK", retransmitCount |-> 0]]
       /\ ackTimeoutEvent' = ackTimeoutEvent \cup {k}
       /\ dlHarqProcessMap' = dlHarqProcessMap \cup {k}
       /\ dlHarqEverRetx' = dlHarqEverRetx \ {k}
       /\ CopySent(k, 0, feedbacks)
  /\ totalTransmissions' = totalTransmissions + 1
  /\ UNCHANGED <<configVars, totalRetransmissions, totalAck, totalNack,
                 totalDropped, failures, ueContexts>>

-----------------------------------------------------------------------------
(* The end of a process and retransmissions.                               *)

(* Faulty variant: the cached DCI is kept. *)
FinalizeKeepingDci(k, outcome) ==
  /\ process' = [process EXCEPT ![k].state = outcome]
  /\ ackTimeoutEvent' = ackTimeoutEvent \ {k}
  /\ UNCHANGED <<dlHarqProcessMap, dlHarqEverRetx>>

(* FinalizeProcess, then m_feedbackCallback: the scheduler drops what it   *)
(* kept for the process (HandleDlHarqFeedbackResult).                      *)
Finalize(k, outcome) ==
  /\ process' = [process EXCEPT ![k].state = outcome]
  /\ ackTimeoutEvent' = ackTimeoutEvent \ {k}
  /\ dlHarqProcessMap' = dlHarqProcessMap \ {k}
  /\ dlHarqEverRetx' = dlHarqEverRetx \ {k}

MayRetransmit(k) == process[k].retransmitCount < MaxRetx

(* Faulty variant: the retransmission is not guarded by a timer. *)
RearmedNot(k) == ackTimeoutEvent \ {k}

(* ScheduleAckTimeout: the timer restarts. *)
Rearmed(k) == ackTimeoutEvent \cup {k}

(* HandleDlHarqRetransmission marks the process. *)
Marked(k) == dlHarqEverRetx \cup {k}

(* ScheduleRetransmission: the next redundancy version goes out, if the    *)
(* scheduler still has the DCI (HandleDlHarqRetransmission).               *)
Retransmit(k, pending) ==
  LET copy == process[k].retransmitCount + 1
  IN /\ process' = [process EXCEPT ![k].retransmitCount = copy]
     /\ ackTimeoutEvent' = Rearmed(k)
     /\ totalRetransmissions' = totalRetransmissions + 1
     /\ UNCHANGED <<totalDropped, failures, dlHarqProcessMap>>
     /\ IF k \in dlHarqProcessMap
        THEN /\ dlHarqEverRetx' = Marked(k)
             /\ CopySent(k, copy, pending)
        ELSE /\ feedbacks' = pending
             /\ decoded' = decoded \ {k}
             /\ UNCHANGED <<dlHarqEverRetx, generation>>

(* Faulty variant: a packet that is given up counts as sent.               *)
FailAsSuccess(k, pending) ==
  /\ Finalize(k, "SUCCESS")
  /\ failures' = failures + 1
  /\ feedbacks' = pending
  /\ UNCHANGED <<totalRetransmissions, generation, decoded>>

(* The packet is given up. *)
Fail(k, pending) ==
  /\ Finalize(k, "FAILED")
  /\ failures' = failures + 1
  /\ feedbacks' = pending
  /\ UNCHANGED <<totalRetransmissions, generation, decoded>>

(* Faulty variant: the drop is not counted.                                *)
DropUncounted(k, pending) ==
  /\ ~harqEnabled
  /\ UNCHANGED totalDropped
  /\ Fail(k, pending)

(* With HARQ disabled a packet that is not acknowledged is dropped. *)
Drop(k, pending) ==
  /\ ~harqEnabled
  /\ totalDropped' = totalDropped + 1
  /\ Fail(k, pending)

(* With HARQ enabled it is sent again until the copies are used up. *)
RetransmitOrFail(k, pending) ==
  /\ harqEnabled
  /\ \/ MayRetransmit(k) /\ Retransmit(k, pending)
     \/ ~MayRetransmit(k) /\ Fail(k, pending) /\ UNCHANGED totalDropped

-----------------------------------------------------------------------------
(* Feedback and timeouts.                                                  *)

ReceiveAck(fb) ==
  /\ fb \in feedbacks
  /\ fb.ack
  /\ IsWaiting(fb.key)
  /\ Finalize(fb.key, "SUCCESS")
  /\ totalAck' = totalAck + 1
  /\ feedbacks' = feedbacks \ {fb}
  /\ UNCHANGED <<configVars, totalTransmissions, totalRetransmissions, totalNack,
                 totalDropped, failures, ueContexts, generation, decoded>>

ReceiveNack(fb) ==
  /\ fb \in feedbacks
  /\ ~fb.ack
  /\ IsWaiting(fb.key)
  /\ totalNack' = totalNack + 1
  /\ \/ Drop(fb.key, feedbacks \ {fb})
     \/ RetransmitOrFail(fb.key, feedbacks \ {fb})
  /\ UNCHANGED <<configVars, totalTransmissions, totalAck, ueContexts>>

IgnoreFeedback(fb) ==
  /\ fb \in feedbacks
  /\ ~IsWaiting(fb.key)
  /\ feedbacks' = feedbacks \ {fb}
  /\ UNCHANGED <<managerVars, configVars, schedulerVars, generation, decoded>>

ReceiveFeedback == \E fb \in feedbacks :
  ReceiveAck(fb) \/ ReceiveNack(fb) \/ IgnoreFeedback(fb)

(* The timer of a process expires.  Only a waiting process has one.        *)
ProcessTimeout(k) ==
  /\ k \in ackTimeoutEvent
  /\ IsWaiting(k)
  /\ FeedbackLate \/ IsOf(k, feedbacks) = {}
  /\ \/ Drop(k, feedbacks) /\ UNCHANGED totalNack
     \/ RetransmitOrFail(k, feedbacks) /\ totalNack' = totalNack + 1
  /\ UNCHANGED <<configVars, totalTransmissions, totalAck, ueContexts>>

-----------------------------------------------------------------------------
(* Configuration and the scheduler's UE contexts.                          *)

SetHarqEnabled(enable) ==
  /\ harqEnabled' = enable
  /\ UNCHANGED <<managerVars, processCount, wasReset, schedulerVars, radioVars>>

(* A count that is not a power of two snaps to the nearest one, the lower  *)
(* one when both are as near.                                              *)
Lower(count) ==
  CHOOSE n \in Supported : /\ n <= count \/ n = 1
                           /\ \A m \in Supported : m <= count => m <= n
Upper(lower) == IF lower < MaxProcesses THEN 2 * lower ELSE lower
Resolve(count) ==
  LET lower == Lower(count)
      upper == Upper(lower)
  IN IF count <= lower \/ (count <= upper /\ count - lower <= upper - count)
     THEN lower
     ELSE upper

(* Aborts the program while a process waits: a precondition on the caller. *)
SetProcessCount(count) ==
  /\ Waiting = {}
  /\ processCount' = Resolve(count)
  /\ process' =
       IF processCount' = processCount THEN process ELSE [k \in Key |-> Absent]
  /\ UNCHANGED <<ackTimeoutEvent, totals, harqEnabled, wasReset, schedulerVars,
                 radioVars>>

(* Drops every process, the waiting ones too, and tells nobody. *)
ResetStatistics ==
  /\ process' = [k \in Key |-> Absent]
  /\ ackTimeoutEvent' = {}
  /\ totalTransmissions' = 0
  /\ totalRetransmissions' = 0
  /\ totalAck' = 0
  /\ totalNack' = 0
  /\ totalDropped' = 0
  /\ failures' = 0
  /\ wasReset' = TRUE
  /\ UNCHANGED <<harqEnabled, processCount, schedulerVars, radioVars>>

(* The UE leaves the satellite: the scheduler forgets its DCIs, while its  *)
(* processes run on in the manager.                                        *)
RemoveUt(rnti) ==
  /\ rnti \in ueContexts
  /\ ueContexts' = ueContexts \ {rnti}
  /\ dlHarqProcessMap' = {k \in dlHarqProcessMap : k[1] # rnti}
  /\ UNCHANGED <<managerVars, configVars, dlHarqEverRetx, radioVars>>

AddUeContext(rnti) ==
  /\ rnti \notin ueContexts
  /\ ueContexts' = ueContexts \cup {rnti}
  /\ UNCHANGED <<managerVars, configVars, dlHarqProcessMap, dlHarqEverRetx,
                 radioVars>>

-----------------------------------------------------------------------------

Next ==
  \/ \E rnti \in Rnti : NewTransmission(rnti) \/ RemoveUt(rnti) \/ AddUeContext(rnti)
  \/ ReceiveFeedback
  \/ \E k \in Key : ProcessTimeout(k)
  \/ \E enable \in BOOLEAN : SetHarqEnabled(enable)
  \/ \E count \in Counts : SetProcessCount(count)
  \/ ResetStatistics

Spec == Init /\ [][Next]_vars

(* The simulator runs every event that is scheduled: timers expire and     *)
(* answers that are under way arrive.                                      *)
Fairness ==
  /\ WF_vars(ReceiveFeedback)
  /\ \A k \in Key : WF_vars(ProcessTimeout(k))

FairSpec == Spec /\ Fairness

-----------------------------------------------------------------------------
(* Properties.                                                             *)

TypeOK ==
  /\ harqEnabled \in BOOLEAN
  /\ processCount \in Supported
  /\ process \in [Key -> Process]
  /\ ackTimeoutEvent \subseteq Key
  /\ totalTransmissions \in 0..MaxTx
  /\ {totalRetransmissions, totalAck, totalNack, totalDropped, failures} \subseteq Nat
  /\ ueContexts \subseteq Rnti
  /\ dlHarqProcessMap \subseteq Key
  /\ dlHarqEverRetx \subseteq Key
  /\ feedbacks \subseteq Feedback
  /\ generation \in [Key -> 0..MaxTx]
  /\ decoded \subseteq Key
  /\ wasReset \in BOOLEAN

(* A process has a timer exactly as long as it waits: none waits for ever  *)
(* on an answer that was lost, and no timer expires on a finished process  *)
(* (ScheduleAckTimeout and the Cancel calls spread over HarqManager).      *)
TimerIffWaiting == ackTimeoutEvent = Waiting

(* Every transmission is reported to the scheduler exactly once, as an ACK *)
(* or as a failure, and until then it occupies a process.                  *)
EachReportedOnce ==
  totalTransmissions = totalAck + failures + Cardinality(Waiting)

(* Every NACK and every timeout is acted on: it leads to a retransmission  *)
(* or to a failure.  (A timeout that drops a packet is not counted as a    *)
(* NACK, a NACK that drops one is.)                                        *)
EveryNackActedOn ==
  /\ totalNack <= totalRetransmissions + failures
  /\ totalRetransmissions + failures <= totalNack + totalDropped

(* The scheduler caches a DCI only for a process that waits, so a process  *)
(* that is free never owns a stale DCI.                                    *)
CacheIsLive == ~wasReset => dlHarqProcessMap \subseteq Waiting

(* The scheduler's mark and the manager's count agree on whether the       *)
(* packet was retransmitted: the comment in HandleDlHarqFeedbackResult     *)
(* keeps the one as a cross-check of the other.                            *)
EverRetxAgrees ==
  \A k \in dlHarqProcessMap \cap Waiting :
    k \in dlHarqEverRetx <=> process[k].retransmitCount > 0

(* A process that ends in SUCCESS owes that to the last copy sent, which   *)
(* the UE decoded; if that is the first copy, this is the "initial ACK"    *)
(* that drives the outer-loop link adaptation.  It needs answers that      *)
(* arrive before the timeout.                                              *)
AckedCopyWasDecoded ==
  ~FeedbackLate /\ ~wasReset =>
    \A k \in Key : process[k].state = "SUCCESS" => k \in decoded

(* What AckedCopyWasDecoded rests on: while answers beat the timeout, each *)
(* waiting process has at most one under way, for its last copy, and a     *)
(* process that is free has none.                                          *)
FeedbackInv ==
  ~FeedbackLate /\ ~wasReset =>
    \A fb \in feedbacks :
      /\ IsWaiting(fb.key)
      /\ fb.ack => fb.key \in decoded
      /\ IsOf(fb.key, feedbacks) = {fb}

(* No process waits for ever. *)
EventuallyResolved == \A k \in Key : IsWaiting(k) ~> ~IsWaiting(k)

(* An answer to an earlier packet or an earlier copy does not touch the    *)
(* process ("outdated or invalid feedback" is to be ignored, says the      *)
(* comment in ReceiveFeedback).                                            *)
IsOutdated(fb) ==
  \/ fb.generation # generation[fb.key]
  \/ fb.copy # process[fb.key].retransmitCount

OutdatedFeedbackIgnored ==
  [][\A fb \in feedbacks \ feedbacks' : IsOutdated(fb) => UNCHANGED process]_vars
=============================================================================
