---------------------------- MODULE RandomAccess ----------------------------
(***************************************************************************)
(* Contention-based random access: the UEs' MAC (model/sat-ut-mac.cc) and  *)
(* the gateway's scheduler (model/geo-beam-scheduler.cc), for the 4-step   *)
(* procedure (Msg1 preamble, Msg2 RAR, Msg3 request, Msg4 setup) and the   *)
(* 2-step one (MsgA, MsgB) with its fallback to Msg3 and Msg4.             *)
(*                                                                         *)
(* A message is in its set from the moment it is sent until it is handled: *)
(* the 300 ms of propagation and the wait for the gateway's aggregation    *)
(* window are one.  A window takes any of the messages that wait for it.   *)
(* RARs, Msg4s and MsgBs are broadcast, each UE picks its own.  Statistics *)
(* and the data path are left out.                                         *)
(***************************************************************************)
EXTENDS Naturals, FiniteSets

CONSTANTS
  Ue,           (* The UEs, named by their ueIdentity.                     *)
  Preamble,     (* 1..m_numPreambles.                                      *)
  MaxAttempts,  (* m_maxRaAttempts.                                        *)
  RntiSpace,    (* Number of TC-RNTIs, 0x8001..0xFFF3.                     *)
  MaxRnti,      (* Bound: TC-RNTIs handed out.                             *)
  MaxGhosts,    (* Bound: false alarms of the preamble detector.           *)
  RachTypes,    (* The procedures a cell is configured with.               *)
  AnswerLate    (* The UEs whose timers an answer may outlast.             *)

ASSUME RandomAccessAssumption ==
  /\ MaxAttempts \in Nat \ {0}
  /\ RntiSpace \in Nat \ {0}
  /\ MaxRnti \in Nat
  /\ MaxGhosts \in Nat
  /\ RachTypes \subseteq {"FOUR_STEP", "TWO_STEP"}
  /\ Preamble # {} /\ IsFiniteSet(Preamble)
  /\ IsFiniteSet(Ue) /\ AnswerLate \subseteq Ue

VARIABLES
  rachType,       (* m_rachType, the same for every UE of the cell         *)
  ut,             (* the UEs                                               *)
  started,        (* the UEs whose application has asked for access        *)
  occasion,       (* the current PRACH occasion, a millisecond             *)
  msg1s, msgAs, msg3s,        (* uplink messages                           *)
  rars, msg4s, msgBs,         (* downlink messages                         *)
  ueContextMap,   (* the RNTIs the scheduler has a context for             *)
  tcRntiCounter,  (* TC-RNTIs handed out so far                            *)
  ghosts          (* false alarms so far                                   *)

uplink == <<msg1s, msgAs, msg3s>>
downlink == <<rars, msg4s, msgBs>>
gatewayVars == <<ueContextMap, tcRntiCounter, ghosts>>
vars == <<rachType, ut, started, occasion, uplink, downlink, gatewayVars>>

Rnti == 1..RntiSpace          (* 0 stands for none *)
Ra == Nat \X Preamble         (* RA-RNTI and preamble *)

(* m_raResponseTimer and m_msgBResponseTimer run or not.  The handles      *)
(* m_contentionResolutionTimer and m_msg3TxEvent are overwritten without a *)
(* Cancel, so several of their events may be pending.  A handle knows the  *)
(* last one at most; the others are lost to it and happen, oldest first.   *)
(* `retries` counts the scheduled InitiateRandomAccess events.             *)
Ut == [state : {"IDLE", "TX", "WAITING_MSGB", "CONNECTED"},
       isRaInitiated : BOOLEAN,
       raAttempt : Nat,
       ra : Ra,
       tcRnti : {0} \cup Rnti,
       cRnti : {0} \cup Rnti,
       raResponseTimer : BOOLEAN,
       msgBResponseTimer : BOOLEAN,
       contentionTimers : Nat, contentionLost : Nat,
       msg3TxEvents : Nat, msg3Lost : Nat,
       retries : Nat]

Init ==
  /\ rachType \in RachTypes
  /\ ut = [ue \in Ue |->
             [state |-> "IDLE", isRaInitiated |-> FALSE, raAttempt |-> 0,
              ra |-> <<0, CHOOSE preamble \in Preamble : TRUE>>,
              tcRnti |-> 0, cRnti |-> 0,
              raResponseTimer |-> FALSE, msgBResponseTimer |-> FALSE,
              contentionTimers |-> 0, contentionLost |-> 0,
              msg3TxEvents |-> 0, msg3Lost |-> 0, retries |-> 0]]
  /\ started = {}
  /\ occasion = 1
  /\ msg1s = {} /\ msgAs = {} /\ msg3s = {}
  /\ rars = {} /\ msg4s = {} /\ msgBs = {}
  /\ ueContextMap = {}
  /\ tcRntiCounter = 0
  /\ ghosts = 0

-----------------------------------------------------------------------------
(* A UE starts an attempt.                                                 *)

(* One event fewer, if there was one.                                      *)
Fewer(n) == IF n > 0 THEN n - 1 ELSE 0

(* Simulator::Cancel of m_contentionResolutionTimer: what is lost to the   *)
(* handle goes on, and a second Cancel does nothing.                       *)
CancelContention(u) == [u EXCEPT !.contentionTimers = u.contentionLost]

(* An event of m_contentionResolutionTimer, and of m_msg3TxEvent, happens. *)
ContentionExpired(u) ==
  [u EXCEPT !.contentionTimers = @ - 1, !.contentionLost = Fewer(@)]
Msg3Due(u) == [u EXCEPT !.msg3TxEvents = @ - 1, !.msg3Lost = Fewer(@)]

IsConnected(u) == u.state = "CONNECTED" /\ u.cRnti # 0

(* DoRandomAccess and DoTwoStepRandomAccess return at once otherwise. *)
MayAccess(u) == ~IsConnected(u) /\ u.state # "TX"

Attempt(u, ra) ==
  [u EXCEPT !.isRaInitiated = TRUE,
            !.raAttempt = @ + 1,
            !.ra = ra,
            !.tcRnti = 0,
            !.contentionTimers = u.contentionLost,
            !.msg3TxEvents = u.msg3Lost,
            !.raResponseTimer = (rachType = "FOUR_STEP"),
            !.msgBResponseTimer = (rachType = "TWO_STEP"),
            !.state = IF rachType = "TWO_STEP" THEN "WAITING_MSGB" ELSE @]

(* InitiateRandomAccess: the RA-RNTI comes from the current millisecond,   *)
(* the preamble is drawn at random.                                        *)
InitiateRandomAccess(ue, u) ==
  \/ /\ ~MayAccess(u)
     /\ ut' = [ut EXCEPT ![ue] = u]
     /\ UNCHANGED <<occasion, uplink>>
  \/ /\ MayAccess(u)
     /\ \E raRnti \in {occasion, occasion + 1}, preamble \in Preamble :
          /\ raRnti > u.ra[1]
          /\ occasion' = raRnti
          /\ ut' = [ut EXCEPT ![ue] = Attempt(u, <<raRnti, preamble>>)]
          /\ LET msg == [ue |-> ue, ra |-> <<raRnti, preamble>>]
             IN IF rachType = "TWO_STEP"
                THEN msgAs' = msgAs \cup {msg} /\ UNCHANGED msg1s
                ELSE msg1s' = msg1s \cup {msg} /\ UNCHANGED msgAs
     /\ UNCHANGED msg3s

(* The application asks for access. *)
StartAccess(ue) ==
  /\ ue \notin started
  /\ started' = started \cup {ue}
  /\ InitiateRandomAccess(ue, ut[ue])
  /\ UNCHANGED <<rachType, downlink, gatewayVars>>

(* The backoff of AbortOrRetryRa is over. *)
RetryAccess(ue) ==
  /\ ut[ue].retries > 0
  /\ InitiateRandomAccess(ue, [ut[ue] EXCEPT !.retries = @ - 1])
  /\ UNCHANGED <<rachType, started, downlink, gatewayVars>>

(* AbortOrRetryRa: the attempt is over; try again or give up. *)
Aborted(u) ==
  [u EXCEPT !.tcRnti = 0,
            !.raResponseTimer = FALSE,
            !.contentionTimers = u.contentionLost,
            !.msg3TxEvents = u.msg3Lost,
            !.msgBResponseTimer = FALSE,
            !.state = "IDLE",
            !.isRaInitiated = FALSE,
            !.raAttempt = IF @ >= MaxAttempts THEN 0 ELSE @,
            !.retries = IF u.raAttempt >= MaxAttempts THEN @ ELSE @ + 1]

-----------------------------------------------------------------------------
(* The gateway answers preambles.                                          *)

(* Faulty variant: the counter wraps around one RNTI too early.            *)
TcRntiShort(n) == 1 + (n % (RntiSpace - 1))

(* AllocateTcRnti: the RNTI that grant number n carries. *)
TcRnti(n) == 1 + (n % RntiSpace)

(* The grants of a window are numbered in some order. *)
Numberings(groups) ==
  {f \in [groups -> tcRntiCounter..(tcRntiCounter + Cardinality(groups) - 1)] :
     \A g, h \in groups : f[g] = f[h] => g = h}

(* AddUeContext and AddUeInfo. *)
WithContexts(rntis) == ueContextMap \cup rntis

(* Propagation delays are constant: nothing overtakes what was sent in an  *)
(* earlier millisecond.                                                    *)
IsInOrder(window, waiting) ==
  \A m \in window, n \in waiting : n.ra[1] < m.ra[1] => n \in window

(* A window closes 300 ms after its messages were sent: their millisecond  *)
(* is over.                                                                *)
CloseOccasion(groups) ==
  occasion' = IF \E g \in groups : g[1] = occasion THEN occasion + 1 ELSE occasion

(* Messages are told apart by RA-RNTI and preamble, not by UE: those that  *)
(* have both in common are one group.                                      *)
Groups(window) == {m.ra : m \in window}

(* The preambles nobody sent in the occasions of the window. *)
Idle(groups) == {<<g[1], p>> : g \in groups, p \in Preamble} \ groups

(* The detector errs both ways: it draws which preambles it detects and in *)
(* which idle ones it hears something, by probabilities of the SNR.        *)
DetectActivePreamble(groups) == SUBSET groups
DetectFalseAlarm(idle) == SUBSET idle

(* ProcessPrachWindow.  A preamble may go unanswered: it is not detected,  *)
(* or no uplink resources are left for Msg3, which makes no difference     *)
(* here.  One nobody sent may be answered.                                 *)
ProcessPrachWindow ==
  \E window \in (SUBSET msg1s) \ {{}} :
    /\ IsInOrder(window, msg1s)
    /\ \E granted \in DetectActivePreamble(Groups(window)),
          falseAlarms \in DetectFalseAlarm(Idle(Groups(window))) :
         /\ tcRntiCounter + Cardinality(granted \cup falseAlarms) <= MaxRnti
         /\ ghosts + Cardinality(falseAlarms) <= MaxGhosts
         /\ \E number \in Numberings(granted \cup falseAlarms) :
              rars' = rars \cup
                {[ra |-> g, grant |-> number[g]] : g \in granted \cup falseAlarms}
         /\ tcRntiCounter' = tcRntiCounter + Cardinality(granted \cup falseAlarms)
         /\ ghosts' = ghosts + Cardinality(falseAlarms)
    /\ msg1s' = msg1s \ window
    /\ CloseOccasion(Groups(window))
    /\ UNCHANGED <<rachType, ut, started, msgAs, msg3s, msg4s, msgBs, ueContextMap>>

(* ProcessMsgAWindow: a preamble sent by one UE succeeds at once, one sent *)
(* by several falls back to Msg3.                                          *)
ProcessMsgAWindow ==
  \E window \in (SUBSET msgAs) \ {{}} :
    LET groups == Groups(window)
        Senders(g) == {m.ue : m \in {n \in window : n.ra = g}}
        lone == {g \in groups : Cardinality(Senders(g)) = 1}
    IN /\ IsInOrder(window, msgAs)
       /\ tcRntiCounter + Cardinality(groups) <= MaxRnti
       /\ tcRntiCounter' = tcRntiCounter + Cardinality(groups)
       /\ \E number \in Numberings(groups) :
            /\ msgBs' = msgBs \cup
                 {[type |-> "SUCCESS_RAR", ra |-> g, grant |-> number[g],
                   echoedUeIdentity |-> Senders(g)] : g \in lone} \cup
                 {[type |-> "FALLBACK_RAR", ra |-> g, grant |-> number[g],
                   echoedUeIdentity |-> {}] : g \in groups \ lone}
            /\ ueContextMap' = WithContexts({TcRnti(number[g]) : g \in lone})
       /\ msgAs' = msgAs \ window
       /\ CloseOccasion(groups)
       /\ UNCHANGED <<rachType, ut, started, msg1s, msg3s, rars, msg4s, ghosts>>

-----------------------------------------------------------------------------
(* Msg2, Msg3 and Msg4.                                                    *)

Matches(u, ra) == u.isRaInitiated /\ u.ra = ra

(* Faulty variant: the transmission is not scheduled.                      *)
WithMsg3GrantUnused(u, tcRnti) == [u EXCEPT !.tcRnti = tcRnti]

(* The grant is stored and Msg3 scheduled. *)
WithMsg3Grant(u, tcRnti) ==
  [u EXCEPT !.tcRnti = tcRnti, !.msg3TxEvents = @ + 1, !.msg3Lost = u.msg3TxEvents]

(* Downlink delays are constant, too: grants arrive in order. *)
IsOldest(answer, answers) == \A a \in answers : answer.grant <= a.grant

(* Every UE's ReceiveRar. *)
ReceiveRar(rar) ==
  /\ IsOldest(rar, rars)
  /\ rars' = rars \ {rar}
  /\ ut' = [ue \in Ue |->
              IF Matches(ut[ue], rar.ra) /\ ut[ue].tcRnti = 0
              THEN [WithMsg3Grant(ut[ue], TcRnti(rar.grant)) EXCEPT !.raResponseTimer = FALSE]
              ELSE ut[ue]]
  /\ UNCHANGED <<rachType, started, occasion, uplink, msg4s, msgBs, gatewayVars>>

(* To every subscriber. *)
DispatchRar == \E rar \in rars : ReceiveRar(rar)

(* The event of m_msg3TxEvent. *)
SendMsg3(ue) ==
  LET u == Msg3Due(ut[ue])
  IN /\ ut[ue].msg3TxEvents > 0
     /\ IF u.tcRnti = 0
        THEN ut' = [ut EXCEPT ![ue] = u] /\ UNCHANGED msg3s
        ELSE /\ ut' = [ut EXCEPT ![ue] =
                         [u EXCEPT !.contentionTimers = @ + 1,
                                   !.contentionLost = u.contentionTimers, !.state = "TX"]]
             /\ msg3s' = msg3s \cup
                  {[ue |-> ue, tcRnti |-> u.tcRnti, pending |-> u.msg3TxEvents]}
     /\ UNCHANGED <<rachType, started, occasion, msg1s, msgAs, downlink, gatewayVars>>

(* UEs that were granted the same TC-RNTI learnt it from one broadcast and *)
(* send Msg3 at the same instant, so one window takes all of them.         *)
IsWhole(window) ==
  \A m \in window :
    /\ \A n \in msg3s : n.tcRnti = m.tcRnti => n \in window
    /\ \A ue \in Ue : ut[ue].tcRnti = m.tcRnti => ut[ue].msg3TxEvents = 0

(* ProcessMsg3Window: a TC-RNTI heard once is confirmed with a Msg4 and    *)
(* becomes a C-RNTI; one heard several times is garbled and not answered.  *)
ProcessMsg3Window ==
  \E window \in (SUBSET msg3s) \ {{}} :
    LET heard == {m \in window : \A n \in window : n.tcRnti = m.tcRnti => n = m}
    IN /\ IsWhole(window)
       /\ msg3s' = msg3s \ window
       /\ msg4s' = msg4s \cup
            {[tcRnti |-> m.tcRnti, echoedUeIdentity |-> m.ue] : m \in heard}
       /\ ueContextMap' = WithContexts({m.tcRnti : m \in heard})
       /\ UNCHANGED <<rachType, ut, started, occasion, msg1s, msgAs, rars, msgBs,
                      tcRntiCounter, ghosts>>

AwaitsMsg4(u, msg4) == u.isRaInitiated /\ u.tcRnti # 0 /\ u.tcRnti = msg4.tcRnti

(* Faulty variant: success leaves the contention timer running.            *)
AcceptedLeavingTimer(u, cRnti) ==
  [u EXCEPT !.cRnti = cRnti, !.isRaInitiated = FALSE, !.raAttempt = 0,
            !.state = "CONNECTED"]

(* Access succeeds through Msg4. *)
Accepted(u, cRnti) ==
  [u EXCEPT !.cRnti = cRnti,
            !.isRaInitiated = FALSE,
            !.raAttempt = 0,
            !.contentionTimers = u.contentionLost,
            !.state = "CONNECTED"]

(* CheckChannelQuality failed after contention was resolved. *)
PoorChannel(u) ==
  [u EXCEPT !.isRaInitiated = FALSE, !.raAttempt = 0,
            !.contentionTimers = u.contentionLost, !.state = "IDLE"]

(* Each UE draws whether it decodes a Msg4 or MsgB, by the BLER of PDCCH   *)
(* and PDSCH: the UEs that do not.                                         *)
DecodeMsg4(addressed) == SUBSET addressed

(* Every UE's ReceiveMsg4.  The UEs in undecoded fail to demodulate it and *)
(* keep waiting, those in poor measure a bad channel.                      *)
ReceiveMsg4(msg4) ==
  LET addressed == {ue \in Ue : AwaitsMsg4(ut[ue], msg4)}
  IN /\ msg4s' = msg4s \ {msg4}
     /\ \E undecoded \in DecodeMsg4(addressed), poor \in SUBSET addressed :
          ut' = [ue \in Ue |->
                   IF ue \notin addressed \ undecoded THEN ut[ue]
                   ELSE IF msg4.echoedUeIdentity # ue
                   THEN Aborted(CancelContention(ut[ue]))
                   ELSE IF ue \in poor THEN PoorChannel(ut[ue])
                   ELSE Accepted(ut[ue], msg4.tcRnti)]
     /\ UNCHANGED <<rachType, started, occasion, uplink, rars, msgBs, gatewayVars>>

DispatchMsg4 == \E msg4 \in msg4s : ReceiveMsg4(msg4)

-----------------------------------------------------------------------------
(* MsgB.                                                                   *)

(* Faulty variant: a MsgB for somebody else ends the wait.                 *)
KeepsWaitingUntimed(u) == [u EXCEPT !.msgBResponseTimer = FALSE]

(* Not decoded, or for somebody else: the timer restarts. *)
KeepsWaiting(u) == [u EXCEPT !.msgBResponseTimer = TRUE]

(* Every UE's ReceiveMsgB. *)
ReceiveMsgB(msgB) ==
  LET addressed == {ue \in Ue : Matches(ut[ue], msgB.ra)}
      Untimed(u) == [u EXCEPT !.msgBResponseTimer = FALSE]
      Succeeded(u) == [Untimed(u) EXCEPT !.cRnti = TcRnti(msgB.grant), !.isRaInitiated = FALSE,
                                         !.raAttempt = 0, !.state = "CONNECTED"]
      Failed(u) == [Untimed(u) EXCEPT !.isRaInitiated = FALSE, !.raAttempt = 0,
                                      !.state = "IDLE"]
  IN /\ IsOldest(msgB, msgBs)
     /\ msgBs' = msgBs \ {msgB}
     /\ IF msgB.type = "FALLBACK_RAR"
        THEN ut' = [ue \in Ue |-> IF ue \in addressed
                                  THEN WithMsg3Grant(Untimed(ut[ue]), TcRnti(msgB.grant))
                                  ELSE ut[ue]]
        ELSE LET named == addressed \cap msgB.echoedUeIdentity IN
             \E undecoded \in DecodeMsg4(named), poor \in SUBSET named :
               ut' = [ue \in Ue |->
                        IF ue \notin addressed THEN ut[ue]
                        ELSE IF ue \notin msgB.echoedUeIdentity \ undecoded
                        THEN KeepsWaiting(ut[ue])
                        ELSE IF ue \in poor THEN Failed(ut[ue])
                        ELSE Succeeded(ut[ue])]
     /\ UNCHANGED <<rachType, started, occasion, uplink, rars, msg4s, gatewayVars>>

DispatchMsgB == \E msgB \in msgBs : ReceiveMsgB(msgB)

-----------------------------------------------------------------------------
(* Timeouts.  By default they outlast the 603 ms an answer takes.          *)

IsAnswerDue(ue) ==
  LET u == ut[ue]
  IN \/ \E m \in msg1s \cup msgAs : m.ra = u.ra
     \/ \E m \in rars \cup msgBs : m.ra = u.ra
     \/ \E m \in msg3s \cup msg4s : m.tcRnti = u.tcRnti

OnRaResponseTimeout(ue) ==
  ut[ue].raResponseTimer /\ ut' = [ut EXCEPT ![ue] = Aborted(@)]

OnMsgBResponseTimeout(ue) ==
  ut[ue].msgBResponseTimer /\ ut' = [ut EXCEPT ![ue] = Aborted(@)]

OnContentionResolutionTimeout(ue) ==
  /\ ut[ue].contentionTimers > 0
  /\ ut' = [ut EXCEPT ![ue] = Aborted(ContentionExpired(ut[ue]))]

Timeout(ue) ==
  /\ ue \in AnswerLate \/ ~IsAnswerDue(ue)
  /\ \/ OnRaResponseTimeout(ue)
     \/ OnMsgBResponseTimeout(ue)
     \/ OnContentionResolutionTimeout(ue)
  /\ UNCHANGED <<rachType, started, occasion, uplink, downlink, gatewayVars>>

-----------------------------------------------------------------------------

UtStep(ue) ==
  \/ RetryAccess(ue)
  \/ SendMsg3(ue)
  \/ Timeout(ue)

Broadcast == DispatchRar \/ DispatchMsg4 \/ DispatchMsgB

Next ==
  \/ \E ue \in Ue : StartAccess(ue) \/ UtStep(ue)
  \/ ProcessPrachWindow
  \/ ProcessMsgAWindow
  \/ ProcessMsg3Window
  \/ Broadcast

Spec == Init /\ [][Next]_vars

(* Scheduled events happen: timers, delayed transmissions, backoffs,       *)
(* aggregation windows and the arrival of messages.                        *)
Fairness ==
  /\ \A ue \in Ue : WF_vars(UtStep(ue))
  /\ WF_vars(ProcessPrachWindow)
  /\ WF_vars(ProcessMsgAWindow)
  /\ WF_vars(ProcessMsg3Window)
  /\ WF_vars(Broadcast)

FairSpec == Spec /\ Fairness

-----------------------------------------------------------------------------
(* Properties.                                                             *)

TypeOK ==
  /\ rachType \in RachTypes
  /\ ut \in [Ue -> Ut]
  /\ started \subseteq Ue
  /\ occasion \in Nat
  /\ msg1s \subseteq [ue : Ue, ra : Ra]
  /\ msgAs \subseteq [ue : Ue, ra : Ra]
  /\ msg3s \subseteq [ue : Ue, tcRnti : Rnti, pending : Nat]
  /\ rars \subseteq [ra : Ra, grant : Nat]
  /\ msg4s \subseteq [tcRnti : Rnti, echoedUeIdentity : Ue]
  /\ msgBs \subseteq [type : {"SUCCESS_RAR", "FALLBACK_RAR"}, ra : Ra, grant : Nat,
                      echoedUeIdentity : SUBSET Ue]
  /\ ueContextMap \subseteq Rnti
  /\ tcRntiCounter \in 0..MaxRnti
  /\ ghosts \in 0..MaxGhosts

(* No two UEs hold the same C-RNTI, whatever collides, as long as the      *)
(* TC-RNTI counter has not wrapped around: AllocateTcRnti does not look    *)
(* which RNTIs are in use.                                                 *)
UniqueCrnti ==
  tcRntiCounter <= RntiSpace =>
    \A v, w \in Ue : ut[v].cRnti # 0 /\ ut[v].cRnti = ut[w].cRnti => v = w

(* The scheduler has a context for every UE that believes it is connected. *)
ConnectedIsKnown == \A ue \in Ue : IsConnected(ut[ue]) => ut[ue].cRnti \in ueContextMap

(* A connected UE has an identity of its own that the scheduler knows.     *)
IdentityIsOwn == UniqueCrnti /\ ConnectedIsKnown

(* An attempt never hangs: some event that ends or continues it is always  *)
(* scheduled, and a UE is in MAC_TX only while a contention timer runs.    *)
AttemptIsTimed ==
  \A ue \in Ue :
    /\ ut[ue].isRaInitiated =>
         \/ ut[ue].raResponseTimer
         \/ ut[ue].msgBResponseTimer
         \/ ut[ue].msg3TxEvents > 0
         \/ ut[ue].contentionTimers > 0
    /\ ut[ue].state = "TX" => ut[ue].contentionTimers > 0

(* Access, once granted, is final: nothing left over from the procedure    *)
(* takes a connected UE out of MAC_CONNECTED.                              *)
StaysConnected ==
  \A ue \in Ue : IsConnected(ut[ue]) => IsConnected(ut'[ue])
FourStepAccessIsFinal ==
  [][rachType = "FOUR_STEP" => StaysConnected]_vars
AccessIsFinal == [][StaysConnected]_vars

(* Every attempt at access comes to an end: the UE is connected, has found *)
(* the channel too poor or has given up after m_maxRaAttempts.             *)
InAccess(u) == u.isRaInitiated \/ u.retries > 0
AccessCompletes == \A ue \in Ue : InAccess(ut[ue]) ~> ~InAccess(ut[ue])
=============================================================================
