-------------------------- MODULE RandomAccess_proofs --------------------------
(***************************************************************************)
(* Theorems about RandomAccess, for every number of UEs, preambles,        *)
(* attempts, TC-RNTIs and false alarms, and whatever timers expire first.  *)
(***************************************************************************)
EXTENDS RandomAccess, FiniteSetTheorems, TLAPS

-----------------------------------------------------------------------------
(* One UE: what each operator makes of it.                                 *)

(* AttemptIsTimed of one UE, and what makes it inductive: an attempt that  *)
(* has no grant yet is timed by one of the timers of the response.         *)
Timed(u) ==
  /\ u.isRaInitiated =>
       \/ u.raResponseTimer \/ u.msgBResponseTimer
       \/ u.msg3TxEvents > 0 \/ u.contentionTimers > 0
  /\ u.state = "TX" => u.contentionTimers > 0
  /\ u.isRaInitiated /\ u.tcRnti = 0 => u.raResponseTimer \/ u.msgBResponseTimer

(* A handle has no more events lost to it than are scheduled.              *)
Handled(u) == u.msg3Lost <= u.msg3TxEvents /\ u.contentionLost <= u.contentionTimers

Sound(u) == u \in Ut /\ Timed(u) /\ Handled(u)

(* A step after which the UE has no identity it had not before. *)
Quieter(u, w) ==
  /\ w.cRnti = u.cRnti
  /\ w.tcRnti \in {0, u.tcRnti}
  /\ w.msg3TxEvents > 0 => u.msg3TxEvents > 0

LEMMA HandledType ==
  ASSUME NEW u \in Ut, Handled(u)
  PROVE  /\ u.msg3Lost \in Nat /\ u.msg3TxEvents \in Nat /\ u.msg3Lost <= u.msg3TxEvents
         /\ u.contentionLost \in Nat /\ u.contentionTimers \in Nat
         /\ u.contentionLost <= u.contentionTimers
BY DEF Ut, Handled

LEMMA ContentionExpiredType ==
  ASSUME NEW u \in Ut, Handled(u), u.contentionTimers > 0
  PROVE  /\ ContentionExpired(u) \in Ut /\ Handled(ContentionExpired(u))
         /\ Quieter(u, ContentionExpired(u))
<1> DEFINE v == ContentionExpired(u)
<1>1. u.contentionTimers - 1 \in Nat /\ Fewer(u.contentionLost) \in Nat
      /\ Fewer(u.contentionLost) <= u.contentionTimers - 1
  BY HandledType DEF Fewer
<1>2. v = [[u EXCEPT !.contentionTimers = u.contentionTimers - 1]
             EXCEPT !.contentionLost = Fewer(u.contentionLost)]
  BY DEF ContentionExpired, Ut
<1>3. /\ v \in Ut /\ v.msg3TxEvents = u.msg3TxEvents /\ v.msg3Lost = u.msg3Lost
      /\ v.contentionTimers = u.contentionTimers - 1 /\ v.contentionLost = Fewer(u.contentionLost)
      /\ v.cRnti = u.cRnti /\ v.tcRnti = u.tcRnti
  BY <1>1, <1>2 DEF Ut
<1> HIDE DEF v
<1>4. Handled(v) /\ Quieter(u, v)
  BY <1>1, <1>3 DEF Handled, Quieter
<1> QED BY <1>3, <1>4 DEF v

LEMMA Msg3DueType ==
  ASSUME NEW u \in Ut, Handled(u), u.msg3TxEvents > 0
  PROVE  /\ Msg3Due(u) \in Ut /\ Handled(Msg3Due(u)) /\ Quieter(u, Msg3Due(u))
         /\ Msg3Due(u).tcRnti = u.tcRnti /\ Msg3Due(u).isRaInitiated = u.isRaInitiated
         /\ Msg3Due(u).raResponseTimer = u.raResponseTimer
         /\ Msg3Due(u).msgBResponseTimer = u.msgBResponseTimer
         /\ Msg3Due(u).msg3TxEvents = u.msg3TxEvents - 1
         /\ Msg3Due(u).msg3Lost = Fewer(u.msg3Lost)
         /\ Msg3Due(u).contentionTimers = u.contentionTimers
         /\ Msg3Due(u).contentionLost = u.contentionLost
         /\ Msg3Due(u).state = u.state /\ Msg3Due(u).cRnti = u.cRnti
<1> DEFINE v == Msg3Due(u)
<1>1. u.msg3TxEvents - 1 \in Nat /\ Fewer(u.msg3Lost) \in Nat
      /\ Fewer(u.msg3Lost) <= u.msg3TxEvents - 1
  BY HandledType DEF Fewer
<1>2. v = [[u EXCEPT !.msg3TxEvents = u.msg3TxEvents - 1]
             EXCEPT !.msg3Lost = Fewer(u.msg3Lost)]
  BY DEF Msg3Due, Ut
<1>3. /\ v \in Ut /\ v.msg3TxEvents = u.msg3TxEvents - 1 /\ v.msg3Lost = Fewer(u.msg3Lost)
      /\ v.contentionTimers = u.contentionTimers /\ v.contentionLost = u.contentionLost
      /\ v.cRnti = u.cRnti /\ v.tcRnti = u.tcRnti /\ v.isRaInitiated = u.isRaInitiated
      /\ v.raResponseTimer = u.raResponseTimer /\ v.msgBResponseTimer = u.msgBResponseTimer
      /\ v.state = u.state
  BY <1>1, <1>2 DEF Ut
<1> HIDE DEF v
<1>4. Handled(v) /\ Quieter(u, v)
  BY <1>1, <1>3 DEF Handled, Quieter, Ut
<1> QED BY <1>3, <1>4 DEF v

LEMMA TcRntiType ==
  ASSUME NEW n \in Nat
  PROVE  TcRnti(n) \in Rnti /\ TcRnti(n) # 0 /\ (n < RntiSpace => TcRnti(n) = n + 1)
BY RandomAccessAssumption DEF TcRnti, Rnti

LEMMA AttemptSound ==
  ASSUME NEW u, Sound(u), NEW ra \in Ra, MayAccess(u), rachType \in RachTypes
  PROVE  Sound(Attempt(u, ra)) /\ Quieter(u, Attempt(u, ra))
<1> DEFINE w == Attempt(u, ra)
<1>1. CASE rachType = "FOUR_STEP"
  <2>1. w = [u EXCEPT !.isRaInitiated = TRUE, !.raAttempt = @ + 1, !.ra = ra, !.tcRnti = 0,
                      !.contentionTimers = u.contentionLost, !.msg3TxEvents = u.msg3Lost,
                      !.raResponseTimer = TRUE, !.msgBResponseTimer = FALSE]
    BY <1>1 DEF Attempt, Sound, Ut
  <2>2. w \in Ut
    <3>1. u.raAttempt + 1 \in Nat
      BY DEF Sound, Ut
    <3> HIDE DEF w
    <3>2. QED
      BY <2>1, <3>1 DEF Sound, Ut
  <2>3. /\ w.raResponseTimer /\ w.state # "TX" /\ w.cRnti = u.cRnti /\ w.tcRnti = 0
        /\ w.msg3TxEvents = u.msg3Lost /\ w.msg3Lost = u.msg3Lost
        /\ w.contentionTimers = u.contentionLost /\ w.contentionLost = u.contentionLost
    BY <2>1 DEF Sound, Ut, MayAccess
  <2>4. QED
    BY <2>2, <2>3, HandledType DEF Sound, Handled, Timed, Quieter
<1>2. CASE rachType = "TWO_STEP"
  <2>1. w = [u EXCEPT !.isRaInitiated = TRUE, !.raAttempt = @ + 1, !.ra = ra, !.tcRnti = 0,
                      !.contentionTimers = u.contentionLost, !.msg3TxEvents = u.msg3Lost,
                      !.raResponseTimer = FALSE, !.msgBResponseTimer = TRUE,
                      !.state = "WAITING_MSGB"]
    BY <1>2 DEF Attempt, Sound, Ut
  <2>2. w \in Ut
    <3>1. u.raAttempt + 1 \in Nat
      BY DEF Sound, Ut
    <3> HIDE DEF w
    <3>2. QED
      BY <2>1, <3>1 DEF Sound, Ut
  <2>3. /\ w.msgBResponseTimer /\ w.state # "TX" /\ w.cRnti = u.cRnti /\ w.tcRnti = 0
        /\ w.msg3TxEvents = u.msg3Lost /\ w.msg3Lost = u.msg3Lost
        /\ w.contentionTimers = u.contentionLost /\ w.contentionLost = u.contentionLost
    BY <2>1 DEF Sound, Ut
  <2>4. QED
    BY <2>2, <2>3, HandledType DEF Sound, Handled, Timed, Quieter
<1>3. QED
  BY <1>1, <1>2, RandomAccessAssumption

LEMMA AbortedSound ==
  ASSUME NEW u \in Ut, Handled(u)
  PROVE  Sound(Aborted(u)) /\ Quieter(u, Aborted(u))
<1> DEFINE w == Aborted(u)
<1>1. w \in Ut
  <2>1. /\ (IF u.raAttempt >= MaxAttempts THEN 0 ELSE u.raAttempt) \in Nat
        /\ (IF u.raAttempt >= MaxAttempts THEN u.retries ELSE u.retries + 1) \in Nat
    BY DEF Ut
  <2>2. QED
    BY <2>1 DEF Ut, Aborted
<1>2. /\ ~w.isRaInitiated /\ w.state = "IDLE" /\ w.cRnti = u.cRnti /\ w.tcRnti = 0
      /\ w.msg3TxEvents = u.msg3Lost /\ w.msg3Lost = u.msg3Lost
      /\ w.contentionTimers = u.contentionLost /\ w.contentionLost = u.contentionLost
  BY DEF Ut, Aborted
<1>3. QED
  BY <1>1, <1>2, HandledType DEF Sound, Handled, Timed, Quieter

LEMMA GrantedSound ==
  ASSUME NEW u, Sound(u), NEW n \in Nat
  PROVE  /\ Sound([WithMsg3Grant(u, TcRnti(n)) EXCEPT !.raResponseTimer = FALSE])
         /\ Sound(WithMsg3Grant([u EXCEPT !.msgBResponseTimer = FALSE], TcRnti(n)))
<1> DEFINE v == [WithMsg3Grant(u, TcRnti(n)) EXCEPT !.raResponseTimer = FALSE]
           w == WithMsg3Grant([u EXCEPT !.msgBResponseTimer = FALSE], TcRnti(n))
<1>0. u \in Ut /\ Timed(u) /\ Handled(u)
  BY DEF Sound
<1>1. v \in Ut /\ w \in Ut
  <2>1. TcRnti(n) \in {0} \cup Rnti /\ u.msg3TxEvents + 1 \in Nat /\ u.msg3TxEvents \in Nat
    BY <1>0, TcRntiType DEF Ut
  <2>2. v = [u EXCEPT !.tcRnti = TcRnti(n), !.msg3TxEvents = u.msg3TxEvents + 1,
                      !.msg3Lost = u.msg3TxEvents, !.raResponseTimer = FALSE]
    BY <1>0 DEF Ut, WithMsg3Grant
  <2>3. w = [u EXCEPT !.msgBResponseTimer = FALSE, !.tcRnti = TcRnti(n),
                      !.msg3TxEvents = u.msg3TxEvents + 1, !.msg3Lost = u.msg3TxEvents]
    BY <1>0 DEF Ut, WithMsg3Grant
  <2> HIDE DEF v, w
  <2>4. QED
    BY <1>0, <2>1, <2>2, <2>3 DEF Ut
<1>2. \A x \in {v, w} : /\ x.msg3TxEvents = u.msg3TxEvents + 1 /\ x.tcRnti = TcRnti(n)
                        /\ x.msg3Lost = u.msg3TxEvents /\ x.contentionLost = u.contentionLost
                        /\ x.state = u.state /\ x.contentionTimers = u.contentionTimers
  BY <1>0 DEF Ut, WithMsg3Grant
<1> HIDE DEF v, w
<1>3. \A x \in {v, w} : Timed(x) /\ Handled(x)
  BY <1>0, <1>2, TcRntiType, HandledType DEF Timed, Handled
<1>4. Sound(v) /\ Sound(w)
  BY <1>1, <1>3 DEF Sound
<1>5. QED
  BY <1>4 DEF v, w

LEMMA AcceptedSound ==
  ASSUME NEW u, Sound(u), NEW rnti \in Rnti
  PROVE  Sound(Accepted(u, rnti))
<1> DEFINE w == Accepted(u, rnti)
<1>1. u \in Ut /\ Handled(u)
  BY DEF Sound
<1>2. /\ w \in Ut /\ ~w.isRaInitiated /\ w.state # "TX"
      /\ w.msg3TxEvents = u.msg3TxEvents /\ w.msg3Lost = u.msg3Lost
      /\ w.contentionTimers = u.contentionLost /\ w.contentionLost = u.contentionLost
  BY <1>1 DEF Ut, Accepted
<1> HIDE DEF w
<1>3. Sound(w)
  BY <1>1, <1>2, HandledType DEF Sound, Timed, Handled
<1> QED BY <1>3 DEF w

LEMMA PoorChannelSound ==
  ASSUME NEW u, Sound(u)
  PROVE  Sound(PoorChannel(u)) /\ Quieter(u, PoorChannel(u))
<1> DEFINE w == PoorChannel(u)
<1>1. u \in Ut /\ Handled(u)
  BY DEF Sound
<1>2. /\ w \in Ut /\ ~w.isRaInitiated /\ w.state # "TX"
      /\ w.msg3TxEvents = u.msg3TxEvents /\ w.msg3Lost = u.msg3Lost
      /\ w.contentionTimers = u.contentionLost /\ w.contentionLost = u.contentionLost
      /\ w.cRnti = u.cRnti /\ w.tcRnti = u.tcRnti
  BY <1>1 DEF Ut, PoorChannel
<1> HIDE DEF w
<1>3. Sound(w) /\ Quieter(u, w)
  BY <1>1, <1>2, HandledType DEF Sound, Timed, Handled, Quieter
<1> QED BY <1>3 DEF w

LEMMA KeepsWaitingSound ==
  ASSUME NEW u, Sound(u)
  PROVE  Sound(KeepsWaiting(u)) /\ Quieter(u, KeepsWaiting(u))
BY DEF Sound, Ut, Timed, Handled, KeepsWaiting, Quieter

LEMMA ServedSound ==
  ASSUME NEW u, Sound(u), NEW rnti \in Rnti
  PROVE  /\ Sound([[u EXCEPT !.msgBResponseTimer = FALSE] EXCEPT
                     !.cRnti = rnti, !.isRaInitiated = FALSE, !.raAttempt = 0,
                     !.state = "CONNECTED"])
         /\ Sound([[u EXCEPT !.msgBResponseTimer = FALSE] EXCEPT
                     !.isRaInitiated = FALSE, !.raAttempt = 0, !.state = "IDLE"])
BY DEF Sound, Ut, Timed, Handled

-----------------------------------------------------------------------------
(* Types and timers.                                                       *)

UtSound == ut \in [Ue -> Ut] /\ \A ue \in Ue : Sound(ut[ue])

UplinkTyped ==
  /\ msg1s \subseteq [ue : Ue, ra : Ra] /\ IsFiniteSet(msg1s)
  /\ msgAs \subseteq [ue : Ue, ra : Ra] /\ IsFiniteSet(msgAs)
  /\ msg3s \subseteq [ue : Ue, tcRnti : Rnti, pending : Nat]

DownlinkTyped ==
  /\ rars \subseteq [ra : Ra, grant : Nat]
  /\ msg4s \subseteq [tcRnti : Rnti, echoedUeIdentity : Ue]
  /\ msgBs \subseteq [type : {"SUCCESS_RAR", "FALLBACK_RAR"}, ra : Ra, grant : Nat,
                      echoedUeIdentity : SUBSET Ue]

CellTyped ==
  /\ rachType \in RachTypes
  /\ started \subseteq Ue
  /\ occasion \in Nat
  /\ ueContextMap \subseteq Rnti
  /\ tcRntiCounter \in 0..MaxRnti
  /\ ghosts \in 0..MaxGhosts

TypeInv == UtSound /\ UplinkTyped /\ DownlinkTyped /\ CellTyped

(* No UE has an identity it had not before. *)
Quiet == \A ue \in Ue : Quieter(ut[ue], ut'[ue])

LEMMA TypeInvImplies == TypeInv => TypeOK /\ AttemptIsTimed
BY DEF TypeInv, UtSound, UplinkTyped, DownlinkTyped, CellTyped, TypeOK, AttemptIsTimed,
       Sound, Timed

LEMMA QuieterIsReflexive ==
  ASSUME NEW u
  PROVE  Quieter(u, u)
BY DEF Quieter

(* A step of one UE. *)
LEMMA UtStepSound ==
  ASSUME UtSound, NEW ue \in Ue, NEW w, Sound(w), ut' = [ut EXCEPT ![ue] = w]
  PROVE  UtSound' /\ (Quieter(ut[ue], w) => Quiet)
<1>1. \A v \in Ue : ut'[v] = IF v = ue THEN w ELSE ut[v]
  BY DEF UtSound
<1>2. ut' \in [Ue -> Ut]
  BY DEF UtSound, Sound
<1>3. QED
  BY <1>1, <1>2, QuieterIsReflexive DEF UtSound, Quiet

LEMMA InitiateTyped ==
  ASSUME UtSound, UplinkTyped, CellTyped, NEW ue \in Ue, NEW u, Sound(u), Quieter(ut[ue], u),
         InitiateRandomAccess(ue, u)
  PROVE  UtSound' /\ UplinkTyped' /\ occasion' \in Nat /\ Quiet /\ msg3s' = msg3s
<1>1. CASE ut' = [ut EXCEPT ![ue] = u] /\ UNCHANGED <<occasion, uplink>>
  BY <1>1, UtStepSound DEF uplink, UplinkTyped, CellTyped
<1>2. CASE MayAccess(u) /\ ~(ut' = [ut EXCEPT ![ue] = u] /\ UNCHANGED <<occasion, uplink>>)
  <2>1. PICK raRnti \in {occasion, occasion + 1}, preamble \in Preamble :
          /\ occasion' = raRnti
          /\ ut' = [ut EXCEPT ![ue] = Attempt(u, <<raRnti, preamble>>)]
          /\ \/ /\ msgAs' = msgAs \cup {[ue |-> ue, ra |-> <<raRnti, preamble>>]}
                /\ msg1s' = msg1s
             \/ /\ msg1s' = msg1s \cup {[ue |-> ue, ra |-> <<raRnti, preamble>>]}
                /\ msgAs' = msgAs
          /\ msg3s' = msg3s
    BY <1>2 DEF InitiateRandomAccess
  <2> DEFINE ra == <<raRnti, preamble>>
             w == Attempt(u, ra)
  <2>2. ra \in Ra /\ occasion' \in Nat
    BY <2>1 DEF Ra, CellTyped
  <2>3. Sound(w) /\ Quieter(u, w)
    BY <1>2, <2>2, AttemptSound DEF CellTyped
  <2>4. Quieter(ut[ue], w)
    BY <2>3 DEF Quieter
  <2>5. ut' = [ut EXCEPT ![ue] = w]
    BY <2>1
  <2>6. UplinkTyped'
    <3> DEFINE msg == [ue |-> ue, ra |-> ra]
    <3>1. msg \in [ue : Ue, ra : Ra]
      BY <2>2
    <3>2. /\ msgAs' = msgAs \cup {msg} \/ msgAs' = msgAs
          /\ msg1s' = msg1s \cup {msg} \/ msg1s' = msg1s
      BY <2>1
    <3> HIDE DEF msg
    <3>3. IsFiniteSet(msgAs') /\ IsFiniteSet(msg1s')
      BY <3>2, FS_AddElement DEF UplinkTyped
    <3>4. QED
      BY <2>1, <3>1, <3>2, <3>3 DEF UplinkTyped
  <2> HIDE DEF w
  <2>7. UtSound' /\ Quiet
    BY <2>3, <2>4, <2>5, UtStepSound
  <2>8. QED
    BY <2>1, <2>2, <2>6, <2>7
<1>3. QED
  BY <1>1, <1>2 DEF InitiateRandomAccess

LEMMA StartTyped ==
  ASSUME TypeInv, NEW ue \in Ue, StartAccess(ue)
  PROVE  TypeInv' /\ Quiet /\ msg3s' = msg3s
<1>1. Sound(ut[ue])
  BY DEF TypeInv, UtSound
<1>2. UtSound' /\ UplinkTyped' /\ occasion' \in Nat /\ Quiet /\ msg3s' = msg3s
  BY <1>1, InitiateTyped, QuieterIsReflexive DEF StartAccess, TypeInv
<1>3. QED
  BY <1>2 DEF StartAccess, TypeInv, DownlinkTyped, CellTyped, downlink, gatewayVars

LEMMA RetryTyped ==
  ASSUME TypeInv, NEW ue \in Ue, RetryAccess(ue)
  PROVE  TypeInv' /\ Quiet /\ msg3s' = msg3s
<1> DEFINE u == [ut[ue] EXCEPT !.retries = @ - 1]
<1>1. Sound(u) /\ Quieter(ut[ue], u)
  BY DEF RetryAccess, TypeInv, UtSound, Sound, Ut, Timed, Handled, Quieter
<1>2. InitiateRandomAccess(ue, u)
  BY DEF RetryAccess
<1> HIDE DEF u
<1>3. UtSound' /\ UplinkTyped' /\ occasion' \in Nat /\ Quiet /\ msg3s' = msg3s
  BY <1>1, <1>2, InitiateTyped DEF TypeInv
<1>4. QED
  BY <1>3 DEF RetryAccess, TypeInv, DownlinkTyped, CellTyped, downlink, gatewayVars

LEMMA TimeoutTyped ==
  ASSUME TypeInv, NEW ue \in Ue, Timeout(ue)
  PROVE  TypeInv' /\ Quiet
<1>1. PICK u \in Ut : /\ Quieter(ut[ue], u) /\ Handled(u)
                       /\ ut' = [ut EXCEPT ![ue] = Aborted(u)]
  <2>1. ut[ue] \in Ut /\ Handled(ut[ue]) /\ Quieter(ut[ue], ut[ue])
    BY QuieterIsReflexive DEF TypeInv, UtSound, Sound
  <2>2. CASE OnRaResponseTimeout(ue) \/ OnMsgBResponseTimeout(ue)
    BY <2>1, <2>2 DEF OnRaResponseTimeout, OnMsgBResponseTimeout, TypeInv, UtSound
  <2>3. CASE OnContentionResolutionTimeout(ue)
    <3> DEFINE u == ContentionExpired(ut[ue])
    <3>1. u \in Ut /\ Handled(u) /\ Quieter(ut[ue], u)
      BY <2>1, <2>3, ContentionExpiredType DEF OnContentionResolutionTimeout
    <3>2. ut' = [ut EXCEPT ![ue] = Aborted(u)]
      BY <2>3 DEF OnContentionResolutionTimeout
    <3>3. QED
      BY <3>1, <3>2
  <2>4. QED
    BY <2>2, <2>3 DEF Timeout
<1>2. Sound(Aborted(u)) /\ Quieter(ut[ue], Aborted(u))
  BY <1>1, AbortedSound DEF Quieter
<1>3. UtSound' /\ Quiet
  BY <1>1, <1>2, UtStepSound DEF TypeInv
<1>4. QED
  BY <1>3 DEF Timeout, TypeInv, UplinkTyped, DownlinkTyped, CellTyped, uplink, downlink,
              gatewayVars

(* A UE takes a TC-RNTI from a grant, or an RNTI as its C-RNTI. *)
Granted(u, w, rnti) == w.cRnti = u.cRnti /\ w.tcRnti = rnti

Confirmed(u, w, rnti) ==
  w.cRnti = rnti /\ w.tcRnti = u.tcRnti /\ w.msg3TxEvents = u.msg3TxEvents

LEMMA RarTyped ==
  ASSUME TypeInv, NEW rar \in rars, ReceiveRar(rar)
  PROVE  /\ TypeInv'
         /\ \A ue \in Ue : \/ Quieter(ut[ue], ut'[ue])
                           \/ Granted(ut[ue], ut'[ue], TcRnti(rar.grant))
<1> DEFINE w(ue) == [WithMsg3Grant(ut[ue], TcRnti(rar.grant)) EXCEPT !.raResponseTimer = FALSE]
<1>1. rar.grant \in Nat
  BY DEF TypeInv, DownlinkTyped
<1>2. \A ue \in Ue : Sound(ut[ue])
  BY DEF TypeInv, UtSound
<1>3. ASSUME NEW ue \in Ue
      PROVE  Sound(w(ue)) /\ Granted(ut[ue], w(ue), TcRnti(rar.grant))
  BY <1>1, <1>2, GrantedSound DEF Granted, WithMsg3Grant, Sound, Ut
<1>4. ut' = [ue \in Ue |->
               IF Matches(ut[ue], rar.ra) /\ ut[ue].tcRnti = 0 THEN w(ue) ELSE ut[ue]]
  BY DEF ReceiveRar
<1> HIDE DEF w
<1>5. \A ue \in Ue : /\ Sound(ut'[ue])
                     /\ \/ Quieter(ut[ue], ut'[ue])
                        \/ Granted(ut[ue], ut'[ue], TcRnti(rar.grant))
  BY <1>2, <1>3, <1>4, QuieterIsReflexive
<1>6. ut' \in [Ue -> Ut]
  BY <1>4, <1>5 DEF Sound
<1>7. UplinkTyped' /\ DownlinkTyped' /\ CellTyped'
  BY DEF ReceiveRar, TypeInv, UplinkTyped, DownlinkTyped, CellTyped, uplink, gatewayVars
<1>8. QED
  BY <1>5, <1>6, <1>7 DEF TypeInv, UtSound

LEMMA SendMsg3Typed ==
  ASSUME TypeInv, NEW ue \in Ue, SendMsg3(ue)
  PROVE  /\ TypeInv' /\ Quiet
         /\ \/ msg3s' = msg3s
            \/ /\ ut[ue].tcRnti # 0 /\ ut[ue].msg3TxEvents > 0
               /\ \A m \in msg3s' : m \in msg3s \/ m.tcRnti = ut[ue].tcRnti
<1> DEFINE u == Msg3Due(ut[ue])
           w == [u EXCEPT !.contentionTimers = @ + 1, !.contentionLost = u.contentionTimers,
                          !.state = "TX"]
<1>1. ut[ue] \in Ut /\ Timed(ut[ue]) /\ Handled(ut[ue]) /\ ut[ue].msg3TxEvents > 0
  BY DEF TypeInv, UtSound, SendMsg3, Sound
<1>2. /\ u \in Ut /\ Handled(u) /\ Quieter(ut[ue], u) /\ u.tcRnti = ut[ue].tcRnti
      /\ u.isRaInitiated = ut[ue].isRaInitiated /\ u.raResponseTimer = ut[ue].raResponseTimer
      /\ u.msgBResponseTimer = ut[ue].msgBResponseTimer /\ u.state = ut[ue].state
      /\ u.contentionTimers = ut[ue].contentionTimers
  BY <1>1, Msg3DueType
<1> HIDE DEF u
<1>7. u.tcRnti = 0 => Sound(u)
  BY <1>1, <1>2 DEF Sound, Timed
<1>3. Sound(w) /\ Quieter(ut[ue], w)
  <2>1. u.contentionTimers + 1 \in Nat /\ u.contentionTimers \in Nat
    BY <1>2 DEF Ut
  <2>2. w = [[[u EXCEPT !.contentionTimers = u.contentionTimers + 1]
                 EXCEPT !.contentionLost = u.contentionTimers] EXCEPT !.state = "TX"]
    BY <1>2 DEF Ut
  <2>3. w \in Ut
    <3>1. [u EXCEPT !.contentionTimers = u.contentionTimers + 1] \in Ut
      BY <1>2, <2>1 DEF Ut
    <3>2. \A x \in Ut : [x EXCEPT !.contentionLost = u.contentionTimers] \in Ut
      BY <2>1 DEF Ut
    <3>3. \A x \in Ut : [x EXCEPT !.state = "TX"] \in Ut
      BY DEF Ut
    <3>4. QED
      BY <2>2, <3>1, <3>2, <3>3
  <2>4. /\ w.isRaInitiated = u.isRaInitiated /\ w.raResponseTimer = u.raResponseTimer
        /\ w.msgBResponseTimer = u.msgBResponseTimer /\ w.tcRnti = u.tcRnti
        /\ w.cRnti = u.cRnti /\ w.msg3TxEvents = u.msg3TxEvents /\ w.msg3Lost = u.msg3Lost
        /\ w.contentionTimers = u.contentionTimers + 1 /\ w.contentionLost = u.contentionTimers
    BY <1>2 DEF Ut
  <2> HIDE DEF w
  <2>5. Handled(w)
    BY <1>2, <2>1, <2>4 DEF Handled
  <2>6. QED
    BY <1>1, <1>2, <2>1, <2>3, <2>4, <2>5 DEF Sound, Timed, Quieter
<1>4. CASE u.tcRnti = 0
  <2>1. ut' = [ut EXCEPT ![ue] = u] /\ msg3s' = msg3s
    BY <1>4 DEF SendMsg3, u
  <2>2. UtSound' /\ Quiet
    BY <1>2, <1>4, <1>7, <2>1, UtStepSound DEF TypeInv
  <2>3. QED
    BY <2>1, <2>2 DEF SendMsg3, TypeInv, UplinkTyped, DownlinkTyped, CellTyped, downlink,
                      gatewayVars
<1>5. CASE u.tcRnti # 0
  <2> DEFINE msg3 == [ue |-> ue, tcRnti |-> u.tcRnti, pending |-> u.msg3TxEvents]
  <2>1. ut' = [ut EXCEPT ![ue] = w] /\ msg3s' = msg3s \cup {msg3}
    BY <1>5 DEF SendMsg3, u
  <2>2. msg3 \in [ue : Ue, tcRnti : Rnti, pending : Nat] /\ msg3.tcRnti = ut[ue].tcRnti
    BY <1>2, <1>5 DEF Ut
  <2> HIDE DEF msg3, w
  <2>3. UtSound' /\ Quiet
    BY <1>3, <2>1, UtStepSound DEF TypeInv
  <2>4. UplinkTyped'
    BY <2>1, <2>2 DEF SendMsg3, TypeInv, UplinkTyped
  <2>5. DownlinkTyped' /\ CellTyped'
    BY DEF SendMsg3, TypeInv, DownlinkTyped, CellTyped, downlink, gatewayVars
  <2>6. QED
    BY <1>1, <1>2, <1>5, <2>1, <2>2, <2>3, <2>4, <2>5 DEF TypeInv
<1>6. QED
  BY <1>4, <1>5

LEMMA Msg4Typed ==
  ASSUME TypeInv, NEW msg4 \in msg4s, ReceiveMsg4(msg4)
  PROVE  /\ TypeInv'
         /\ \A ue \in Ue : \/ Quieter(ut[ue], ut'[ue])
                           \/ /\ ue = msg4.echoedUeIdentity
                              /\ Confirmed(ut[ue], ut'[ue], msg4.tcRnti)
<1> DEFINE addressed == {ue \in Ue : AwaitsMsg4(ut[ue], msg4)}
           lost(ue) == CancelContention(ut[ue])
<1>1. PICK undecoded \in SUBSET addressed, poor \in SUBSET addressed :
        ut' = [ue \in Ue |->
                 IF ue \notin addressed \ undecoded THEN ut[ue]
                 ELSE IF msg4.echoedUeIdentity # ue THEN Aborted(lost(ue))
                 ELSE IF ue \in poor THEN PoorChannel(ut[ue])
                 ELSE Accepted(ut[ue], msg4.tcRnti)]
  BY DEF ReceiveMsg4, DecodeMsg4
<1>2. msg4.tcRnti \in Rnti
  BY DEF TypeInv, DownlinkTyped
<1>3. ASSUME NEW ue \in Ue
      PROVE  /\ Sound(ut'[ue])
             /\ \/ Quieter(ut[ue], ut'[ue])
                \/ /\ ue = msg4.echoedUeIdentity
                   /\ Confirmed(ut[ue], ut'[ue], msg4.tcRnti)
  <2>1. Sound(ut[ue])
    BY DEF TypeInv, UtSound
  <2>2. lost(ue) \in Ut /\ Handled(lost(ue)) /\ Quieter(ut[ue], lost(ue))
    BY <2>1, HandledType DEF Sound, Ut, Quieter, Handled, CancelContention
  <2> HIDE DEF lost
  <2>3. Sound(Aborted(lost(ue))) /\ Quieter(ut[ue], Aborted(lost(ue)))
    BY <2>2, AbortedSound DEF Quieter
  <2>4. Sound(PoorChannel(ut[ue])) /\ Quieter(ut[ue], PoorChannel(ut[ue]))
    BY <2>1, PoorChannelSound
  <2>5. /\ Sound(Accepted(ut[ue], msg4.tcRnti))
        /\ Confirmed(ut[ue], Accepted(ut[ue], msg4.tcRnti), msg4.tcRnti)
    BY <1>2, <2>1, AcceptedSound DEF Accepted, Confirmed, Sound, Ut
  <2>6. \/ ut'[ue] \in {ut[ue], Aborted(lost(ue)), PoorChannel(ut[ue])}
        \/ ue = msg4.echoedUeIdentity /\ ut'[ue] = Accepted(ut[ue], msg4.tcRnti)
    BY <1>1
  <2>7. QED
    BY <2>1, <2>3, <2>4, <2>5, <2>6, QuieterIsReflexive
<1>4. ut' \in [Ue -> Ut]
  BY <1>1, <1>3 DEF Sound
<1>5. UplinkTyped' /\ DownlinkTyped' /\ CellTyped'
  BY DEF ReceiveMsg4, TypeInv, UplinkTyped, DownlinkTyped, CellTyped, uplink, gatewayVars
<1>6. QED
  BY <1>3, <1>4, <1>5 DEF TypeInv, UtSound

LEMMA MsgBTyped ==
  ASSUME TypeInv, NEW msgB \in msgBs, ReceiveMsgB(msgB)
  PROVE  /\ TypeInv'
         /\ msgB.type = "FALLBACK_RAR" =>
              \A ue \in Ue : \/ Quieter(ut[ue], ut'[ue])
                             \/ Granted(ut[ue], ut'[ue], TcRnti(msgB.grant))
         /\ msgB.type = "SUCCESS_RAR" =>
              \A ue \in Ue : \/ Quieter(ut[ue], ut'[ue])
                             \/ /\ ue \in msgB.echoedUeIdentity
                                /\ Confirmed(ut[ue], ut'[ue], TcRnti(msgB.grant))
<1> DEFINE untimed(ue) == [ut[ue] EXCEPT !.msgBResponseTimer = FALSE]
           granted(ue) == WithMsg3Grant(untimed(ue), TcRnti(msgB.grant))
           failed(ue) == [untimed(ue) EXCEPT !.isRaInitiated = FALSE, !.raAttempt = 0,
                                             !.state = "IDLE"]
           succeeded(ue) == [untimed(ue) EXCEPT !.cRnti = TcRnti(msgB.grant),
                                                !.isRaInitiated = FALSE, !.raAttempt = 0,
                                                !.state = "CONNECTED"]
<1>1. msgB.grant \in Nat /\ TcRnti(msgB.grant) \in Rnti
  BY TcRntiType DEF TypeInv, DownlinkTyped
<1>2. \A ue \in Ue : Sound(ut[ue])
  BY DEF TypeInv, UtSound
<1>3. ASSUME NEW ue \in Ue
      PROVE  /\ Sound(granted(ue)) /\ Granted(ut[ue], granted(ue), TcRnti(msgB.grant))
             /\ Sound(failed(ue)) /\ Quieter(ut[ue], failed(ue))
             /\ Sound(succeeded(ue)) /\ Confirmed(ut[ue], succeeded(ue), TcRnti(msgB.grant))
             /\ Sound(KeepsWaiting(ut[ue])) /\ Quieter(ut[ue], KeepsWaiting(ut[ue]))
  <2>1. Sound(granted(ue))
    BY <1>1, <1>2, GrantedSound
  <2>2. Sound(failed(ue)) /\ Sound(succeeded(ue))
    BY <1>1, <1>2, ServedSound
  <2>3. Granted(ut[ue], granted(ue), TcRnti(msgB.grant))
    BY <1>2 DEF Granted, WithMsg3Grant, Sound, Ut
  <2>4. Quieter(ut[ue], failed(ue)) /\ Confirmed(ut[ue], succeeded(ue), TcRnti(msgB.grant))
    BY <1>2 DEF Quieter, Confirmed, Sound, Ut
  <2>5. QED
    BY <1>2, <2>1, <2>2, <2>3, <2>4, KeepsWaitingSound
<1> DEFINE addressed == {ue \in Ue : Matches(ut[ue], msgB.ra)}
<1>4. UplinkTyped' /\ DownlinkTyped' /\ CellTyped'
  BY DEF ReceiveMsgB, TypeInv, UplinkTyped, DownlinkTyped, CellTyped, uplink, gatewayVars
<1>5. CASE msgB.type = "FALLBACK_RAR"
  <2>1. ut' = [ue \in Ue |-> IF ue \in addressed THEN granted(ue) ELSE ut[ue]]
    BY <1>5 DEF ReceiveMsgB
  <2> HIDE DEF granted, addressed
  <2>2. \A ue \in Ue : /\ Sound(ut'[ue])
                       /\ \/ Quieter(ut[ue], ut'[ue])
                          \/ Granted(ut[ue], ut'[ue], TcRnti(msgB.grant))
    BY <1>2, <1>3, <2>1, QuieterIsReflexive
  <2>3. ut' \in [Ue -> Ut]
    BY <2>1, <2>2 DEF Sound
  <2>4. QED
    BY <1>4, <1>5, <2>2, <2>3 DEF TypeInv, UtSound
<1>6. CASE msgB.type = "SUCCESS_RAR"
  <2>1. PICK undecoded \in SUBSET (addressed \cap msgB.echoedUeIdentity),
             poor \in SUBSET (addressed \cap msgB.echoedUeIdentity) :
          ut' = [ue \in Ue |->
                   IF ue \notin addressed THEN ut[ue]
                   ELSE IF ue \notin msgB.echoedUeIdentity \ undecoded THEN KeepsWaiting(ut[ue])
                   ELSE IF ue \in poor THEN failed(ue)
                   ELSE succeeded(ue)]
    BY <1>6 DEF ReceiveMsgB, DecodeMsg4
  <2> HIDE DEF failed, succeeded, addressed
  <2>2. \A ue \in Ue : \/ ut'[ue] \in {ut[ue], KeepsWaiting(ut[ue]), failed(ue)}
                       \/ ue \in msgB.echoedUeIdentity /\ ut'[ue] = succeeded(ue)
    BY <2>1
  <2>3. \A ue \in Ue : /\ Sound(ut'[ue])
                       /\ \/ Quieter(ut[ue], ut'[ue])
                          \/ /\ ue \in msgB.echoedUeIdentity
                             /\ Confirmed(ut[ue], ut'[ue], TcRnti(msgB.grant))
    BY <1>2, <1>3, <2>2, QuieterIsReflexive
  <2>4. ut' \in [Ue -> Ut]
    BY <2>1, <2>3 DEF Sound
  <2>5. QED
    BY <1>4, <1>6, <2>3, <2>4 DEF TypeInv, UtSound
<1>7. msgB.type \in {"SUCCESS_RAR", "FALLBACK_RAR"}
  BY DEF TypeInv, DownlinkTyped
<1>8. QED
  BY <1>5, <1>6, <1>7

-----------------------------------------------------------------------------
(* The windows of the gateway.                                             *)

(* The messages of a finite window make finitely many groups. *)
LEMMA GroupsFinite ==
  ASSUME NEW window \in SUBSET [ue : Ue, ra : Ra], IsFiniteSet(window)
  PROVE  /\ IsFiniteSet(Groups(window)) /\ Groups(window) \subseteq Ra
         /\ IsFiniteSet(Idle(Groups(window))) /\ Idle(Groups(window)) \subseteq Ra
<1> DEFINE f == [m \in window |-> m.ra]
           first == [g \in Groups(window) |-> g[1]]
           firsts == {g[1] : g \in Groups(window)}
<1>1. f \in Surjection(window, Groups(window))
  BY DEF Surjection, Groups
<1>2. IsFiniteSet(Groups(window))
  BY <1>1, FS_Surjection
<1>3. Groups(window) \subseteq Ra
  BY DEF Groups
<1>4. first \in Surjection(Groups(window), firsts)
  BY DEF Surjection
<1>5. IsFiniteSet(firsts \X Preamble)
  BY <1>2, <1>4, FS_Surjection, FS_Product, RandomAccessAssumption
<1>6. Idle(Groups(window)) \subseteq firsts \X Preamble
  BY DEF Idle
<1>7. firsts \X Preamble \subseteq Ra
  BY <1>3 DEF Ra
<1>8. QED
  BY <1>2, <1>3, <1>5, <1>6, <1>7, FS_Subset

(* The grants of a window are new and all different. *)
LEMMA NumberingFresh ==
  ASSUME NEW groups, IsFiniteSet(groups), tcRntiCounter \in Nat,
         NEW number \in Numberings(groups)
  PROVE  /\ Cardinality(groups) \in Nat
         /\ \A g \in groups : /\ number[g] \in Nat /\ number[g] >= tcRntiCounter
                              /\ number[g] < tcRntiCounter + Cardinality(groups)
         /\ \A g, h \in groups : number[g] = number[h] => g = h
BY FS_CardinalityType DEF Numberings

Fresh(answers) ==
  /\ \A m \in answers : /\ m.grant \in Nat /\ tcRntiCounter <= m.grant
                        /\ m.grant < tcRntiCounter'
  /\ \A m, n \in answers : m.grant = n.grant => m = n

LEMMA OccasionTyped ==
  ASSUME occasion \in Nat, NEW groups, CloseOccasion(groups)
  PROVE  occasion' \in Nat
BY DEF CloseOccasion

LEMMA PrachTyped ==
  ASSUME TypeInv, ProcessPrachWindow
  PROVE  /\ TypeInv'
         /\ UNCHANGED <<ut, msg3s, msg4s, msgBs, ueContextMap>>
         /\ tcRntiCounter <= tcRntiCounter'
         /\ \E answers : rars' = rars \cup answers /\ Fresh(answers)
<1>1. PICK window \in (SUBSET msg1s) \ {{}} :
        /\ \E granted \in DetectActivePreamble(Groups(window)),
              falseAlarms \in DetectFalseAlarm(Idle(Groups(window))) :
             /\ tcRntiCounter + Cardinality(granted \cup falseAlarms) <= MaxRnti
             /\ ghosts + Cardinality(falseAlarms) <= MaxGhosts
             /\ \E number \in Numberings(granted \cup falseAlarms) :
                  rars' = rars \cup
                    {[ra |-> g, grant |-> number[g]] : g \in granted \cup falseAlarms}
             /\ tcRntiCounter' = tcRntiCounter + Cardinality(granted \cup falseAlarms)
             /\ ghosts' = ghosts + Cardinality(falseAlarms)
        /\ msg1s' = msg1s \ window
        /\ CloseOccasion(Groups(window))
        /\ UNCHANGED <<rachType, ut, started, msgAs, msg3s, msg4s, msgBs, ueContextMap>>
  BY DEF ProcessPrachWindow
<1>2. PICK granted \in DetectActivePreamble(Groups(window)),
           falseAlarms \in DetectFalseAlarm(Idle(Groups(window))) :
        /\ tcRntiCounter + Cardinality(granted \cup falseAlarms) <= MaxRnti
        /\ ghosts + Cardinality(falseAlarms) <= MaxGhosts
        /\ \E number \in Numberings(granted \cup falseAlarms) :
             rars' = rars \cup
               {[ra |-> g, grant |-> number[g]] : g \in granted \cup falseAlarms}
        /\ tcRntiCounter' = tcRntiCounter + Cardinality(granted \cup falseAlarms)
        /\ ghosts' = ghosts + Cardinality(falseAlarms)
  BY <1>1
<1> DEFINE served == granted \cup falseAlarms
<1>3. window \in SUBSET [ue : Ue, ra : Ra] /\ IsFiniteSet(window)
  BY FS_Subset DEF TypeInv, UplinkTyped
<1>4. /\ IsFiniteSet(Groups(window)) /\ Groups(window) \subseteq Ra
      /\ IsFiniteSet(Idle(Groups(window))) /\ Idle(Groups(window)) \subseteq Ra
  BY <1>3, GroupsFinite
<1>5. /\ IsFiniteSet(granted) /\ IsFiniteSet(falseAlarms)
      /\ IsFiniteSet(served) /\ served \subseteq Ra
  BY <1>2, <1>4, FS_Subset, FS_Union DEF DetectActivePreamble, DetectFalseAlarm
<1>6. Cardinality(falseAlarms) \in Nat
  BY <1>5, FS_CardinalityType
<1>7. PICK number \in Numberings(served) :
        rars' = rars \cup {[ra |-> g, grant |-> number[g]] : g \in served}
  BY <1>2
<1> DEFINE answers == {[ra |-> g, grant |-> number[g]] : g \in served}
<1>8. tcRntiCounter' = tcRntiCounter + Cardinality(served) /\ tcRntiCounter' <= MaxRnti
  BY <1>2
<1> HIDE DEF served
<1>9. tcRntiCounter \in Nat /\ MaxRnti \in Nat /\ ghosts \in Nat /\ MaxGhosts \in Nat
  BY RandomAccessAssumption DEF TypeInv, CellTyped
<1>10. /\ Cardinality(served) \in Nat
       /\ \A g \in served : /\ number[g] \in Nat /\ number[g] >= tcRntiCounter
                            /\ number[g] < tcRntiCounter + Cardinality(served)
       /\ \A g, h \in served : number[g] = number[h] => g = h
  BY <1>5, <1>9, NumberingFresh
<1>11. Fresh(answers)
  BY <1>8, <1>10 DEF Fresh
<1>12. answers \subseteq [ra : Ra, grant : Nat]
  BY <1>5, <1>10
<1>13. DownlinkTyped'
  BY <1>1, <1>2, <1>7, <1>12 DEF TypeInv, DownlinkTyped
<1>14. CellTyped'
  BY <1>1, <1>2, <1>6, <1>8, <1>9, <1>10, OccasionTyped DEF TypeInv, CellTyped
<1>15. UplinkTyped'
  BY <1>1, <1>2, FS_Difference DEF TypeInv, UplinkTyped
<1>16. UtSound'
  BY <1>1, <1>2 DEF TypeInv, UtSound
<1>17. QED
  BY <1>1, <1>2, <1>7, <1>8, <1>9, <1>10, <1>11, <1>13, <1>14, <1>15, <1>16 DEF TypeInv

LEMMA MsgATyped ==
  ASSUME TypeInv, ProcessMsgAWindow
  PROVE  /\ TypeInv'
         /\ UNCHANGED <<ut, msg3s, msg4s, rars>>
         /\ tcRntiCounter <= tcRntiCounter'
         /\ ueContextMap \subseteq ueContextMap'
         /\ \E answers :
              /\ msgBs' = msgBs \cup answers /\ Fresh(answers)
              /\ \A m \in answers : m.type = "SUCCESS_RAR" =>
                   /\ TcRnti(m.grant) \in ueContextMap'
                   /\ \A v, w \in m.echoedUeIdentity : v = w
<1> DEFINE senders(window, g) == {m.ue : m \in {n \in window : n.ra = g}}
           loners(window) == {g \in Groups(window) : Cardinality(senders(window, g)) = 1}
<1>1. PICK window \in (SUBSET msgAs) \ {{}} :
        /\ tcRntiCounter + Cardinality(Groups(window)) <= MaxRnti
        /\ tcRntiCounter' = tcRntiCounter + Cardinality(Groups(window))
        /\ \E number \in Numberings(Groups(window)) :
             /\ msgBs' = msgBs \cup
                  {[type |-> "SUCCESS_RAR", ra |-> g, grant |-> number[g],
                    echoedUeIdentity |-> senders(window, g)] : g \in loners(window)} \cup
                  {[type |-> "FALLBACK_RAR", ra |-> g, grant |-> number[g],
                    echoedUeIdentity |-> {}] : g \in Groups(window) \ loners(window)}
             /\ ueContextMap' = ueContextMap \cup {TcRnti(number[g]) : g \in loners(window)}
        /\ msgAs' = msgAs \ window
        /\ CloseOccasion(Groups(window))
        /\ UNCHANGED <<rachType, ut, started, msg1s, msg3s, rars, msg4s, ghosts>>
  BY DEF ProcessMsgAWindow, WithContexts
<1> DEFINE groups == Groups(window)
           lone == loners(window)
<1>2. PICK number \in Numberings(groups) :
        /\ msgBs' = msgBs \cup
             {[type |-> "SUCCESS_RAR", ra |-> g, grant |-> number[g],
               echoedUeIdentity |-> senders(window, g)] : g \in lone} \cup
             {[type |-> "FALLBACK_RAR", ra |-> g, grant |-> number[g],
               echoedUeIdentity |-> {}] : g \in groups \ lone}
        /\ ueContextMap' = ueContextMap \cup {TcRnti(number[g]) : g \in lone}
  BY <1>1
<1> DEFINE confirmed == {[type |-> "SUCCESS_RAR", ra |-> g, grant |-> number[g],
                          echoedUeIdentity |-> senders(window, g)] : g \in lone}
           fallback == {[type |-> "FALLBACK_RAR", ra |-> g, grant |-> number[g],
                         echoedUeIdentity |-> {}] : g \in groups \ lone}
           answers == confirmed \cup fallback
<1>3. window \in SUBSET [ue : Ue, ra : Ra] /\ IsFiniteSet(window)
  BY FS_Subset DEF TypeInv, UplinkTyped
<1>4. IsFiniteSet(groups) /\ groups \subseteq Ra
  BY <1>3, GroupsFinite
<1>5. \A g \in groups : senders(window, g) \subseteq Ue
  BY <1>3
<1>6. \A g \in lone : g \in groups /\ \A v, w \in senders(window, g) : v = w
  <2>1. TAKE g \in lone
  <2>2. IsFiniteSet(senders(window, g)) /\ Cardinality(senders(window, g)) = 1
    BY <1>5, FS_Subset, RandomAccessAssumption
  <2> HIDE DEF senders
  <2>3. QED
    BY <2>2, FS_Singleton
<1> HIDE DEF senders, loners
<1>7. tcRntiCounter \in Nat /\ MaxRnti \in Nat
  BY RandomAccessAssumption DEF TypeInv, CellTyped
<1>8. tcRntiCounter' = tcRntiCounter + Cardinality(groups) /\ tcRntiCounter' <= MaxRnti
  BY <1>1
<1>9. /\ UNCHANGED <<rachType, ut, started, msg1s, msg3s, rars, msg4s, ghosts>>
      /\ msgAs' = msgAs \ window /\ CloseOccasion(groups)
  BY <1>1
<1> HIDE DEF groups
<1>10. /\ Cardinality(groups) \in Nat
       /\ \A g \in groups : /\ number[g] \in Nat /\ number[g] >= tcRntiCounter
                            /\ number[g] < tcRntiCounter + Cardinality(groups)
       /\ \A g, h \in groups : number[g] = number[h] => g = h
  BY <1>4, <1>7, NumberingFresh
<1> HIDE DEF lone
<1>11. \A m \in answers :
         \E g \in groups :
           /\ m.grant = number[g]
           /\ \/ g \in lone /\ m = [type |-> "SUCCESS_RAR", ra |-> g, grant |-> number[g],
                                    echoedUeIdentity |-> senders(window, g)]
              \/ g \notin lone /\ m = [type |-> "FALLBACK_RAR", ra |-> g, grant |-> number[g],
                                       echoedUeIdentity |-> {}]
  BY <1>6
<1> HIDE DEF answers
<1>12. Fresh(answers)
  <2>1. \A m \in answers : /\ m.grant \in Nat /\ tcRntiCounter <= m.grant
                           /\ m.grant < tcRntiCounter'
    BY <1>8, <1>10, <1>11
  <2>2. \A m, n \in answers : m.grant = n.grant => m = n
    BY <1>10, <1>11
  <2>3. QED
    BY <2>1, <2>2 DEF Fresh
<1>13. answers \subseteq [type : {"SUCCESS_RAR", "FALLBACK_RAR"}, ra : Ra, grant : Nat,
                          echoedUeIdentity : SUBSET Ue]
  BY <1>4, <1>5, <1>10, <1>11
<1>14. msgBs' = msgBs \cup answers
  BY <1>2 DEF answers
<1>15. \A m \in answers : m.type = "SUCCESS_RAR" =>
         /\ TcRnti(m.grant) \in ueContextMap'
         /\ \A v, w \in m.echoedUeIdentity : v = w
  <2>1. TAKE m \in answers
  <2>2. HAVE m.type = "SUCCESS_RAR"
  <2>3. PICK g \in lone : m.grant = number[g] /\ m.echoedUeIdentity = senders(window, g)
    BY <1>11, <2>2
  <2>4. QED
    BY <1>2, <1>6, <2>3
<1>16. ueContextMap' \subseteq Rnti
  BY <1>2, <1>6, <1>10, TcRntiType DEF TypeInv, CellTyped
<1>17. DownlinkTyped'
  BY <1>9, <1>13, <1>14 DEF TypeInv, DownlinkTyped
<1>18. CellTyped'
  BY <1>7, <1>8, <1>9, <1>10, <1>16, OccasionTyped DEF TypeInv, CellTyped
<1>19. UplinkTyped'
  BY <1>9, FS_Difference DEF TypeInv, UplinkTyped
<1>20. UtSound'
  BY <1>9 DEF TypeInv, UtSound
<1>21. QED
  BY <1>2, <1>7, <1>8, <1>9, <1>10, <1>12, <1>14, <1>15, <1>17, <1>18, <1>19, <1>20 DEF TypeInv

LEMMA Msg3WindowTyped ==
  ASSUME TypeInv, ProcessMsg3Window
  PROVE  /\ TypeInv'
         /\ UNCHANGED <<ut, rars, msgBs, tcRntiCounter>>
         /\ \E window \in SUBSET msg3s, heard \in SUBSET msg3s :
              /\ IsWhole(window)
              /\ msg3s' = msg3s \ window
              /\ heard \subseteq window
              /\ \A m, n \in heard : m.tcRnti = n.tcRnti => m = n
              /\ msg4s' = msg4s \cup
                   {[tcRnti |-> m.tcRnti, echoedUeIdentity |-> m.ue] : m \in heard}
              /\ ueContextMap' = ueContextMap \cup {m.tcRnti : m \in heard}
<1> DEFINE clear(window) == {m \in window : \A n \in window : n.tcRnti = m.tcRnti => n = m}
<1>1. PICK window \in (SUBSET msg3s) \ {{}} :
        /\ IsWhole(window)
        /\ msg3s' = msg3s \ window
        /\ msg4s' = msg4s \cup
             {[tcRnti |-> m.tcRnti, echoedUeIdentity |-> m.ue] : m \in clear(window)}
        /\ ueContextMap' = ueContextMap \cup {m.tcRnti : m \in clear(window)}
        /\ UNCHANGED <<rachType, ut, started, occasion, msg1s, msgAs, rars, msgBs,
                       tcRntiCounter, ghosts>>
  BY DEF ProcessMsg3Window, WithContexts
<1> DEFINE heard == clear(window)
<1>2. /\ heard \subseteq window /\ \A m, n \in heard : m.tcRnti = n.tcRnti => m = n
  OBVIOUS
<1>3. heard \subseteq [ue : Ue, tcRnti : Rnti, pending : Nat]
  BY <1>1, <1>2 DEF TypeInv, UplinkTyped
<1> HIDE DEF heard
<1>4. /\ {[tcRnti |-> m.tcRnti, echoedUeIdentity |-> m.ue] : m \in heard}
            \subseteq [tcRnti : Rnti, echoedUeIdentity : Ue]
      /\ {m.tcRnti : m \in heard} \subseteq Rnti
  BY <1>3
<1>5. /\ msg4s' = msg4s \cup
           {[tcRnti |-> m.tcRnti, echoedUeIdentity |-> m.ue] : m \in heard}
      /\ ueContextMap' = ueContextMap \cup {m.tcRnti : m \in heard}
  BY <1>1 DEF heard
<1>6. DownlinkTyped' /\ CellTyped'
  BY <1>1, <1>4, <1>5 DEF TypeInv, DownlinkTyped, CellTyped
<1>7. UplinkTyped' /\ UtSound'
  BY <1>1 DEF TypeInv, UplinkTyped, UtSound
<1>8. QED
  BY <1>1, <1>2, <1>5, <1>6, <1>7 DEF TypeInv

-----------------------------------------------------------------------------
(* The life of an RNTI: offered by a RAR or a MsgB, asked for by the UEs   *)
(* that were granted it, confirmed to one of them.  It never goes back.    *)

IsOffered(r) == \E m \in rars \cup msgBs : TcRnti(m.grant) = r

IsAsked(r) ==
  \/ \E m \in msg3s : m.tcRnti = r
  \/ \E ue \in Ue : ut[ue].tcRnti = r /\ ut[ue].msg3TxEvents > 0

IsConfirmed(r, v) ==
  \/ \E m \in msg4s : m.tcRnti = r /\ m.echoedUeIdentity = v
  \/ ut[v].cRnti = r

Life(r) ==
  /\ IsOffered(r) \/ IsAsked(r) \/ (\E v \in Ue : IsConfirmed(r, v)) => r <= tcRntiCounter
  /\ IsOffered(r) => ~IsAsked(r) /\ \A v \in Ue : ~IsConfirmed(r, v)
  /\ IsAsked(r) => \A v \in Ue : ~IsConfirmed(r, v)
  /\ \A v, w \in Ue : IsConfirmed(r, v) /\ IsConfirmed(r, w) => v = w

Lives == tcRntiCounter <= RntiSpace => \A r \in Rnti : Life(r)

(* The grants under way were handed out and differ; a success is for one UE. *)
GrantsSound ==
  /\ \A m \in rars \cup msgBs : m.grant < tcRntiCounter
  /\ \A m, n \in rars \cup msgBs : m.grant = n.grant => m = n
  /\ \A m \in msgBs : m.type = "SUCCESS_RAR" =>
       \A v, w \in m.echoedUeIdentity : v = w

(* Whoever is or will be told its C-RNTI has a context. *)
AnswersKnown ==
  /\ \A ue \in Ue : ut[ue].cRnti # 0 => ut[ue].cRnti \in ueContextMap
  /\ \A m \in msg4s : m.tcRnti \in ueContextMap
  /\ \A m \in msgBs : m.type = "SUCCESS_RAR" => TcRnti(m.grant) \in ueContextMap

IdentityInv == TypeInv /\ Lives /\ GrantsSound /\ AnswersKnown

LEMMA IdentityInvImplies == IdentityInv => IdentityIsOwn
<1> SUFFICES ASSUME IdentityInv PROVE IdentityIsOwn
  OBVIOUS
<1>1. ConnectedIsKnown
  BY DEF IdentityInv, AnswersKnown, ConnectedIsKnown, IsConnected
<1>2. UniqueCrnti
  <2> SUFFICES ASSUME tcRntiCounter <= RntiSpace, NEW v \in Ue, NEW w \in Ue,
                      ut[v].cRnti # 0, ut[v].cRnti = ut[w].cRnti
               PROVE  v = w
    BY DEF UniqueCrnti
  <2>1. ut[v].cRnti \in Rnti
    BY DEF IdentityInv, TypeInv, UtSound, Ut
  <2>2. Life(ut[v].cRnti)
    BY <2>1 DEF IdentityInv, Lives
  <2>3. QED
    BY <2>2 DEF Life, IsConfirmed
<1>3. QED
  BY <1>1, <1>2 DEF IdentityIsOwn

LEMMA LifeKept ==
  ASSUME NEW r \in Rnti, Life(r), tcRntiCounter \in Nat, tcRntiCounter' \in Nat,
         tcRntiCounter <= tcRntiCounter',
         IsOffered(r)' => IsOffered(r),
         IsAsked(r)' => IsAsked(r),
         \A v \in Ue : IsConfirmed(r, v)' => IsConfirmed(r, v)
  PROVE  Life(r)'
BY DEF Life, Rnti

(* Nothing new is under way, no UE has a new identity. *)
LEMMA QuietKeeps ==
  ASSUME IdentityInv, TypeInv', Quiet, UNCHANGED <<downlink, ueContextMap, tcRntiCounter>>,
         \A m \in msg3s' : IsAsked(m.tcRnti)
  PROVE  IdentityInv'
<1>1. UNCHANGED <<rars, msg4s, msgBs>>
  BY DEF downlink
<1>2. ASSUME NEW r \in Rnti, Life(r)
      PROVE  Life(r)'
  <2>1. r # 0
    BY DEF Rnti
  <2>2. IsOffered(r)' => IsOffered(r)
    BY <1>1 DEF IsOffered
  <2>3. IsAsked(r)' => IsAsked(r)
    BY <2>1 DEF IsAsked, Quiet, Quieter
  <2>4. \A v \in Ue : IsConfirmed(r, v)' => IsConfirmed(r, v)
    BY <1>1 DEF IsConfirmed, Quiet, Quieter
  <2>5. QED
    BY <1>2, <2>2, <2>3, <2>4, LifeKept DEF IdentityInv, TypeInv, CellTyped
<1>3. Lives'
  BY <1>2 DEF IdentityInv, Lives
<1>4. GrantsSound' /\ AnswersKnown'
  BY <1>1 DEF IdentityInv, GrantsSound, AnswersKnown, Quiet, Quieter
<1>5. QED
  BY <1>3, <1>4 DEF IdentityInv

(* RARs and MsgBs are different messages. *)
LEMMA AnswersDisjoint ==
  ASSUME DownlinkTyped, NEW rar \in rars, NEW msgB \in msgBs
  PROVE  rar # msgB
<1>1. DOMAIN rar = {"ra", "grant"}
  BY DEF DownlinkTyped
<1>2. "type" \in DOMAIN msgB
  BY DEF DownlinkTyped
<1>3. QED
  BY <1>1, <1>2

LEMMA TcRntiInjective ==
  ASSUME NEW g \in Nat, NEW h \in Nat, g < RntiSpace, h < RntiSpace, TcRnti(g) = TcRnti(h)
  PROVE  g = h
BY TcRntiType

(* A grant is delivered: its RNTI is not offered any more. *)
LEMMA OfferTaken ==
  ASSUME IdentityInv, tcRntiCounter <= RntiSpace, NEW answer \in rars \cup msgBs,
         rars' \cup msgBs' \subseteq (rars \cup msgBs) \ {answer}
  PROVE  /\ IsOffered(TcRnti(answer.grant)) /\ ~IsOffered(TcRnti(answer.grant))'
         /\ \A r \in Rnti : IsOffered(r)' => IsOffered(r)
<1>1. \A m \in rars \cup msgBs : m.grant \in Nat /\ m.grant < RntiSpace
  BY RandomAccessAssumption DEF IdentityInv, TypeInv, DownlinkTyped, CellTyped, GrantsSound
<1>2. \A m \in rars' \cup msgBs' : m \in rars \cup msgBs /\ m.grant # answer.grant
  BY DEF IdentityInv, GrantsSound
<1>3. \A m \in rars' \cup msgBs' : TcRnti(m.grant) # TcRnti(answer.grant)
  BY <1>1, <1>2, TcRntiInjective
<1>4. QED
  BY <1>2, <1>3 DEF IsOffered

(* The UEs that a grant addresses take it. *)
LEMMA GrantKeeps ==
  ASSUME IdentityInv, TypeInv', NEW answer \in rars \cup msgBs,
         rars' \subseteq rars, msgBs' \subseteq msgBs,
         rars' \cup msgBs' \subseteq (rars \cup msgBs) \ {answer},
         UNCHANGED <<msg3s, msg4s, ueContextMap, tcRntiCounter>>,
         \A ue \in Ue : \/ Quieter(ut[ue], ut'[ue])
                        \/ Granted(ut[ue], ut'[ue], TcRnti(answer.grant))
  PROVE  IdentityInv'
<1> DEFINE g == TcRnti(answer.grant)
<1>1. \A ue \in Ue : ut'[ue].cRnti = ut[ue].cRnti
  BY DEF Quieter, Granted
<1>2. Lives'
  <2>1. SUFFICES ASSUME tcRntiCounter <= RntiSpace, NEW r \in Rnti
                 PROVE  Life(r)'
    BY DEF Lives
  <2>2. Life(r)
    BY <2>1 DEF IdentityInv, Lives
  <2>3. /\ IsOffered(g) /\ ~IsOffered(g)'
        /\ IsOffered(r)' => IsOffered(r)
    BY <2>1, OfferTaken
  <2>4. \A v \in Ue : IsConfirmed(r, v)' => IsConfirmed(r, v)
    BY <1>1 DEF IsConfirmed
  <2>5. CASE r = g
    <3> HIDE DEF g
    <3>1. QED
      BY <2>2, <2>3, <2>4, <2>5 DEF Life
  <2>6. CASE r # g
    <3>1. r # 0
      BY DEF Rnti
    <3>2. IsAsked(r)' => IsAsked(r)
      BY <2>6, <3>1 DEF IsAsked, Quieter, Granted
    <3>3. QED
      BY <2>2, <2>3, <2>4, <3>2, LifeKept DEF IdentityInv, TypeInv, CellTyped
  <2>7. QED
    BY <2>5, <2>6
<1>3. GrantsSound' /\ AnswersKnown'
  BY <1>1 DEF IdentityInv, GrantsSound, AnswersKnown
<1>4. QED
  BY <1>2, <1>3 DEF IdentityInv

(* A MsgB that succeeds makes its RNTI the C-RNTI of the one UE it names. *)
LEMMA SuccessKeeps ==
  ASSUME IdentityInv, TypeInv', NEW msgB \in msgBs, msgB.type = "SUCCESS_RAR",
         rars' = rars, msgBs' = msgBs \ {msgB},
         rars' \cup msgBs' \subseteq (rars \cup msgBs) \ {msgB},
         UNCHANGED <<msg3s, msg4s, ueContextMap, tcRntiCounter>>,
         \A ue \in Ue : \/ Quieter(ut[ue], ut'[ue])
                        \/ /\ ue \in msgB.echoedUeIdentity
                           /\ Confirmed(ut[ue], ut'[ue], TcRnti(msgB.grant))
  PROVE  IdentityInv'
<1> DEFINE g == TcRnti(msgB.grant)
<1>1. \A ue \in Ue : \/ ut'[ue].cRnti = ut[ue].cRnti
                     \/ ue \in msgB.echoedUeIdentity /\ ut'[ue].cRnti = g
  BY DEF Quieter, Confirmed
<1>2. Lives'
  <2>1. SUFFICES ASSUME tcRntiCounter <= RntiSpace, NEW r \in Rnti
                 PROVE  Life(r)'
    BY DEF Lives
  <2>2. Life(r)
    BY <2>1 DEF IdentityInv, Lives
  <2>3. /\ IsOffered(g) /\ ~IsOffered(g)'
        /\ IsOffered(r)' => IsOffered(r)
    BY <2>1, OfferTaken
  <2>4. IsAsked(r)' => IsAsked(r)
    <3>1. r # 0
      BY DEF Rnti
    <3>2. QED
      BY <3>1 DEF IsAsked, Quieter, Confirmed
  <2> HIDE DEF g
  <2>5. CASE r = g
    <3>1. \A v \in Ue : IsConfirmed(r, v)' => v \in msgB.echoedUeIdentity
      BY <1>1, <2>2, <2>3, <2>5 DEF Life, IsConfirmed
    <3>2. \A v, w \in Ue : IsConfirmed(r, v)' /\ IsConfirmed(r, w)' => v = w
      BY <3>1 DEF IdentityInv, GrantsSound
    <3>3. QED
      BY <2>2, <2>3, <2>4, <2>5, <3>2 DEF Life
  <2>6. CASE r # g
    <3>1. \A v \in Ue : IsConfirmed(r, v)' => IsConfirmed(r, v)
      BY <1>1, <2>6 DEF IsConfirmed
    <3>2. QED
      BY <2>2, <2>3, <2>4, <3>1, LifeKept DEF IdentityInv, TypeInv, CellTyped
  <2>7. QED
    BY <2>5, <2>6
<1>3. GrantsSound'
  BY DEF IdentityInv, GrantsSound
<1>4. g \in ueContextMap
  BY DEF IdentityInv, AnswersKnown
<1>5. AnswersKnown'
  BY <1>1, <1>4 DEF IdentityInv, AnswersKnown
<1>6. QED
  BY <1>2, <1>3, <1>5 DEF IdentityInv

(* A Msg4 repeats a confirmation that its RNTI already had. *)
LEMMA Msg4Keeps ==
  ASSUME IdentityInv, TypeInv', NEW msg4 \in msg4s, msg4s' = msg4s \ {msg4},
         UNCHANGED <<msg3s, rars, msgBs, ueContextMap, tcRntiCounter>>,
         \A ue \in Ue : \/ Quieter(ut[ue], ut'[ue])
                        \/ /\ ue = msg4.echoedUeIdentity
                           /\ Confirmed(ut[ue], ut'[ue], msg4.tcRnti)
  PROVE  IdentityInv'
<1>1. ASSUME NEW r \in Rnti, Life(r)
      PROVE  Life(r)'
  <2>1. r # 0
    BY DEF Rnti
  <2>2. IsOffered(r)' => IsOffered(r)
    BY DEF IsOffered
  <2>3. IsAsked(r)' => IsAsked(r)
    BY <2>1 DEF IsAsked, Quieter, Confirmed
  <2>4. \A v \in Ue : IsConfirmed(r, v)' => IsConfirmed(r, v)
    BY DEF IsConfirmed, Quieter, Confirmed
  <2>5. QED
    BY <1>1, <2>2, <2>3, <2>4, LifeKept DEF IdentityInv, TypeInv, CellTyped
<1>2. Lives'
  BY <1>1 DEF IdentityInv, Lives
<1>3. GrantsSound'
  BY DEF IdentityInv, GrantsSound
<1>4. AnswersKnown'
  BY DEF IdentityInv, AnswersKnown, Quieter, Confirmed
<1>5. QED
  BY <1>2, <1>3, <1>4 DEF IdentityInv

(* The answers of a window offer RNTIs nobody has heard of. *)
LEMMA OffersKeep ==
  ASSUME IdentityInv, TypeInv', NEW answers, Fresh(answers),
         \/ rars' = rars \cup answers /\ msgBs' = msgBs
         \/ msgBs' = msgBs \cup answers /\ rars' = rars,
         UNCHANGED <<ut, msg3s, msg4s>>,
         tcRntiCounter <= tcRntiCounter', ueContextMap \subseteq ueContextMap',
         \A m \in msgBs' : \/ m \in msgBs
                           \/ m.type = "SUCCESS_RAR" =>
                                /\ TcRnti(m.grant) \in ueContextMap'
                                /\ \A v, w \in m.echoedUeIdentity : v = w
  PROVE  IdentityInv'
<1>1. \A m \in rars' \cup msgBs' : m \in rars \cup msgBs \/ m \in answers
  OBVIOUS
<1>2. tcRntiCounter \in Nat /\ tcRntiCounter' \in Nat
  BY RandomAccessAssumption DEF IdentityInv, TypeInv, CellTyped
<1>3. \A m \in rars \cup msgBs : m.grant \in Nat /\ m.grant < tcRntiCounter
  BY DEF IdentityInv, TypeInv, DownlinkTyped, GrantsSound
<1>4. \A m \in answers : m.grant \in Nat /\ tcRntiCounter <= m.grant /\ m.grant < tcRntiCounter'
  BY DEF Fresh
<1>5. GrantsSound'
  <2>1. \A m \in rars' \cup msgBs' : m.grant < tcRntiCounter'
    BY <1>1, <1>2, <1>3, <1>4
  <2>2. \A m, n \in rars' \cup msgBs' : m.grant = n.grant => m = n
    BY <1>1, <1>2, <1>3, <1>4 DEF IdentityInv, GrantsSound, Fresh
  <2>3. \A m \in msgBs' : m.type = "SUCCESS_RAR" => \A v, w \in m.echoedUeIdentity : v = w
    BY DEF IdentityInv, GrantsSound
  <2>4. QED
    BY <2>1, <2>2, <2>3 DEF GrantsSound
<1>6. Lives'
  <2>1. SUFFICES ASSUME tcRntiCounter' <= RntiSpace, NEW r \in Rnti
                 PROVE  Life(r)'
    BY DEF Lives
  <2>2. tcRntiCounter <= RntiSpace /\ RntiSpace \in Nat /\ r \in Nat
    BY <1>2, <2>1, RandomAccessAssumption DEF Rnti
  <2>3. Life(r)
    BY <2>2 DEF IdentityInv, Lives
  <2>4. /\ IsAsked(r)' <=> IsAsked(r)
        /\ \A v \in Ue : IsConfirmed(r, v)' <=> IsConfirmed(r, v)
    BY DEF IsAsked, IsConfirmed
  <2>5. \A m \in answers : TcRnti(m.grant) = m.grant + 1
    BY <1>2, <1>4, <2>1, <2>2, TcRntiType
  <2>6. CASE r <= tcRntiCounter
    <3>1. \A m \in answers : TcRnti(m.grant) # r
      BY <1>2, <1>4, <2>2, <2>5, <2>6
    <3>2. IsOffered(r)' => IsOffered(r)
      BY <1>1, <3>1 DEF IsOffered
    <3>3. QED
      BY <1>2, <2>3, <2>4, <3>2, LifeKept
  <2>7. CASE ~(r <= tcRntiCounter)
    <3>1. ~IsAsked(r) /\ \A v \in Ue : ~IsConfirmed(r, v)
      BY <2>3, <2>7 DEF Life
    <3>2. \A m \in rars' \cup msgBs' : TcRnti(m.grant) <= tcRntiCounter'
      BY <1>1, <1>2, <1>3, <1>4, <2>1, <2>2, <2>5, TcRntiType
    <3>3. IsOffered(r)' => r <= tcRntiCounter'
      BY <3>2 DEF IsOffered
    <3>4. QED
      BY <2>4, <3>1, <3>3 DEF Life
  <2>8. QED
    BY <2>6, <2>7
<1>7. AnswersKnown'
  BY DEF IdentityInv, AnswersKnown
<1>8. QED
  BY <1>5, <1>6, <1>7 DEF IdentityInv

(* A window of Msg3s confirms each RNTI once and leaves none of those it   *)
(* took waiting.                                                           *)
LEMMA Msg3WindowKeeps ==
  ASSUME IdentityInv, ProcessMsg3Window
  PROVE  IdentityInv'
<1>1. TypeInv' /\ UNCHANGED <<ut, rars, msgBs, tcRntiCounter>>
  BY Msg3WindowTyped DEF IdentityInv
<1>2. PICK window \in SUBSET msg3s, heard \in SUBSET msg3s :
        /\ IsWhole(window)
        /\ msg3s' = msg3s \ window
        /\ heard \subseteq window
        /\ \A m, n \in heard : m.tcRnti = n.tcRnti => m = n
        /\ msg4s' = msg4s \cup
             {[tcRnti |-> m.tcRnti, echoedUeIdentity |-> m.ue] : m \in heard}
        /\ ueContextMap' = ueContextMap \cup {m.tcRnti : m \in heard}
  BY Msg3WindowTyped DEF IdentityInv
<1>3. ASSUME NEW r \in Rnti, Life(r)
      PROVE  Life(r)'
  <2>1. IsOffered(r)' => IsOffered(r)
    BY <1>1 DEF IsOffered
  <2>2. IsAsked(r)' => IsAsked(r)
    BY <1>1, <1>2 DEF IsAsked
  <2>3. CASE \E m \in heard : m.tcRnti = r
    <3>1. PICK m \in heard : m.tcRnti = r
      BY <2>3
    <3>2. IsAsked(r)
      BY <3>1 DEF IsAsked
    <3>3. ~IsAsked(r)'
      <4>1. ~\E n \in msg3s' : n.tcRnti = r
        BY <1>2, <3>1 DEF IsWhole
      <4>2. \A ue \in Ue : ut[ue].tcRnti = r => ut[ue].msg3TxEvents = 0
        BY <1>2, <3>1 DEF IsWhole
      <4>3. QED
        BY <1>1, <4>1, <4>2 DEF IsAsked
    <3>4. \A v \in Ue : IsConfirmed(r, v)' => v = m.ue
      <4>1. \A v \in Ue : ~IsConfirmed(r, v)
        BY <1>3, <3>2 DEF Life
      <4>2. \A n \in heard : n.tcRnti = r => n = m
        BY <1>2, <3>1
      <4>3. \A n \in msg4s' : \/ n \in msg4s
                              \/ \E h \in heard : n.tcRnti = h.tcRnti /\ n.echoedUeIdentity = h.ue
        BY <1>2
      <4>4. QED
        BY <1>1, <4>1, <4>2, <4>3 DEF IsConfirmed
    <3>5. ~IsOffered(r)' /\ r <= tcRntiCounter'
      BY <1>1, <1>3, <2>1, <3>2 DEF Life
    <3>6. QED
      BY <3>3, <3>4, <3>5 DEF Life
  <2>4. CASE ~\E m \in heard : m.tcRnti = r
    <3>1. \A n \in msg4s' : n \in msg4s \/ n.tcRnti # r
      BY <1>2, <2>4
    <3>2. \A v \in Ue : IsConfirmed(r, v)' => IsConfirmed(r, v)
      BY <1>1, <3>1 DEF IsConfirmed
    <3>3. QED
      BY <1>1, <1>3, <2>1, <2>2, <3>2, LifeKept DEF IdentityInv, TypeInv, CellTyped
  <2>5. QED
    BY <2>3, <2>4
<1>4. Lives'
  BY <1>1, <1>3 DEF IdentityInv, Lives
<1>5. GrantsSound'
  BY <1>1 DEF IdentityInv, GrantsSound
<1>6. AnswersKnown'
  BY <1>1, <1>2 DEF IdentityInv, AnswersKnown
<1>7. QED
  BY <1>1, <1>4, <1>5, <1>6 DEF IdentityInv

-----------------------------------------------------------------------------
(* The whole of it.                                                        *)

LEMMA InitIdentity == Init => IdentityInv
<1> SUFFICES ASSUME Init PROVE IdentityInv
  OBVIOUS
<1> DEFINE preamble == CHOOSE p \in Preamble : TRUE
           u == [state |-> "IDLE", isRaInitiated |-> FALSE, raAttempt |-> 0,
                 ra |-> <<0, preamble>>, tcRnti |-> 0, cRnti |-> 0,
                 raResponseTimer |-> FALSE, msgBResponseTimer |-> FALSE,
                 contentionTimers |-> 0, contentionLost |-> 0,
                 msg3TxEvents |-> 0, msg3Lost |-> 0, retries |-> 0]
<1>1. <<0, preamble>> \in Ra
  BY RandomAccessAssumption DEF Ra
<1>2. ut = [ue \in Ue |-> u]
  BY DEF Init
<1> HIDE DEF preamble
<1>3. u \in Ut /\ Timed(u) /\ Handled(u) /\ u.cRnti = 0 /\ u.msg3TxEvents = 0
  BY <1>1 DEF Ut, Timed, Handled
<1> HIDE DEF u
<1>4. UtSound /\ \A ue \in Ue : ut[ue].cRnti = 0 /\ ut[ue].msg3TxEvents = 0
  BY <1>2, <1>3 DEF UtSound, Sound
<1>5. TypeInv
  BY <1>4, FS_EmptySet, RandomAccessAssumption
  DEF Init, TypeInv, UplinkTyped, DownlinkTyped, CellTyped
<1>6. Lives
  <2>1. ASSUME NEW r \in Rnti
        PROVE  ~IsOffered(r) /\ ~IsAsked(r) /\ \A v \in Ue : ~IsConfirmed(r, v)
    <3>1. r # 0
      BY DEF Rnti
    <3>2. ~IsOffered(r)
      BY DEF Init, IsOffered
    <3>3. ~IsAsked(r)
      <4>1. msg3s = {}
        BY DEF Init
      <4>2. QED
        BY <1>4, <4>1 DEF IsAsked
    <3>4. \A v \in Ue : ~IsConfirmed(r, v)
      BY <1>4, <3>1 DEF Init, IsConfirmed
    <3>5. QED
      BY <3>2, <3>3, <3>4
  <2>2. QED
    BY <2>1 DEF Lives, Life
<1>7. GrantsSound /\ AnswersKnown
  BY <1>4 DEF Init, GrantsSound, AnswersKnown
<1>8. QED
  BY <1>5, <1>6, <1>7 DEF IdentityInv

LEMMA NextIdentity == IdentityInv /\ [Next]_vars => IdentityInv'
<1> SUFFICES ASSUME IdentityInv, [Next]_vars PROVE IdentityInv'
  OBVIOUS
<1>0. TypeInv
  BY DEF IdentityInv
<1>1. ASSUME NEW ue \in Ue, StartAccess(ue) \/ RetryAccess(ue) \/ Timeout(ue)
      PROVE  IdentityInv'
  <2>1. TypeInv' /\ Quiet /\ msg3s' = msg3s
    BY <1>0, <1>1, StartTyped, RetryTyped, TimeoutTyped DEF Timeout, uplink
  <2>2. UNCHANGED <<downlink, ueContextMap, tcRntiCounter>>
    BY <1>1 DEF StartAccess, RetryAccess, Timeout, gatewayVars
  <2>3. QED
    BY <2>1, <2>2, QuietKeeps DEF IsAsked
<1>2. ASSUME NEW ue \in Ue, SendMsg3(ue)
      PROVE  IdentityInv'
  <2>1. /\ TypeInv' /\ Quiet
        /\ \/ msg3s' = msg3s
           \/ /\ ut[ue].tcRnti # 0 /\ ut[ue].msg3TxEvents > 0
              /\ \A m \in msg3s' : m \in msg3s \/ m.tcRnti = ut[ue].tcRnti
    BY <1>0, <1>2, SendMsg3Typed
  <2>2. UNCHANGED <<downlink, ueContextMap, tcRntiCounter>>
    BY <1>2 DEF SendMsg3, gatewayVars
  <2>3. \A m \in msg3s' : IsAsked(m.tcRnti)
    BY <2>1 DEF IsAsked
  <2>4. QED
    BY <2>1, <2>2, <2>3, QuietKeeps
<1>3. CASE ProcessPrachWindow
  <2>1. PICK answers : rars' = rars \cup answers /\ Fresh(answers)
    BY <1>0, <1>3, PrachTyped
  <2>2. /\ TypeInv' /\ UNCHANGED <<ut, msg3s, msg4s, msgBs, ueContextMap>>
        /\ tcRntiCounter <= tcRntiCounter'
    BY <1>0, <1>3, PrachTyped
  <2>3. QED
    BY <2>1, <2>2, OffersKeep
<1>4. CASE ProcessMsgAWindow
  <2>1. PICK answers :
          /\ msgBs' = msgBs \cup answers /\ Fresh(answers)
          /\ \A m \in answers : m.type = "SUCCESS_RAR" =>
               /\ TcRnti(m.grant) \in ueContextMap'
               /\ \A v, w \in m.echoedUeIdentity : v = w
    BY <1>0, <1>4, MsgATyped
  <2>2. /\ TypeInv' /\ UNCHANGED <<ut, msg3s, msg4s, rars>>
        /\ tcRntiCounter <= tcRntiCounter' /\ ueContextMap \subseteq ueContextMap'
    BY <1>0, <1>4, MsgATyped
  <2>3. QED
    BY <2>1, <2>2, OffersKeep
<1>5. CASE ProcessMsg3Window
  BY <1>5, Msg3WindowKeeps
<1>6. ASSUME NEW rar \in rars, ReceiveRar(rar)
      PROVE  IdentityInv'
  <2>1. /\ TypeInv'
        /\ \A ue \in Ue : \/ Quieter(ut[ue], ut'[ue])
                          \/ Granted(ut[ue], ut'[ue], TcRnti(rar.grant))
    BY <1>0, <1>6, RarTyped
  <2>2. /\ rars' = rars \ {rar}
        /\ UNCHANGED <<msg3s, msg4s, msgBs, ueContextMap, tcRntiCounter>>
    BY <1>6 DEF ReceiveRar, uplink, gatewayVars
  <2>3. rars' \cup msgBs' \subseteq (rars \cup msgBs) \ {rar}
    BY <1>0, <2>2, AnswersDisjoint DEF TypeInv
  <2>4. QED
    BY <2>1, <2>2, <2>3, GrantKeeps
<1>7. ASSUME NEW msg4 \in msg4s, ReceiveMsg4(msg4)
      PROVE  IdentityInv'
  <2>1. /\ TypeInv'
        /\ \A ue \in Ue : \/ Quieter(ut[ue], ut'[ue])
                          \/ /\ ue = msg4.echoedUeIdentity
                             /\ Confirmed(ut[ue], ut'[ue], msg4.tcRnti)
    BY <1>0, <1>7, Msg4Typed
  <2>2. /\ msg4s' = msg4s \ {msg4}
        /\ UNCHANGED <<msg3s, rars, msgBs, ueContextMap, tcRntiCounter>>
    BY <1>7 DEF ReceiveMsg4, uplink, gatewayVars
  <2>3. QED
    BY <2>1, <2>2, Msg4Keeps
<1>8. ASSUME NEW msgB \in msgBs, ReceiveMsgB(msgB)
      PROVE  IdentityInv'
  <2>1. /\ TypeInv'
        /\ msgB.type = "FALLBACK_RAR" =>
             \A ue \in Ue : \/ Quieter(ut[ue], ut'[ue])
                            \/ Granted(ut[ue], ut'[ue], TcRnti(msgB.grant))
        /\ msgB.type = "SUCCESS_RAR" =>
             \A ue \in Ue : \/ Quieter(ut[ue], ut'[ue])
                            \/ /\ ue \in msgB.echoedUeIdentity
                               /\ Confirmed(ut[ue], ut'[ue], TcRnti(msgB.grant))
    BY <1>0, <1>8, MsgBTyped
  <2>2. /\ msgBs' = msgBs \ {msgB}
        /\ UNCHANGED <<msg3s, msg4s, rars, ueContextMap, tcRntiCounter>>
    BY <1>8 DEF ReceiveMsgB, uplink, gatewayVars
  <2>3. msgB.type \in {"SUCCESS_RAR", "FALLBACK_RAR"}
    BY <1>0 DEF TypeInv, DownlinkTyped
  <2>4. rars' \cup msgBs' \subseteq (rars \cup msgBs) \ {msgB}
    BY <1>0, <2>2, AnswersDisjoint DEF TypeInv
  <2>5. CASE msgB.type = "FALLBACK_RAR"
    BY <2>1, <2>2, <2>4, <2>5, GrantKeeps
  <2>6. CASE msgB.type = "SUCCESS_RAR"
    BY <2>1, <2>2, <2>4, <2>6, SuccessKeeps
  <2>7. QED
    BY <2>3, <2>5, <2>6
<1>9. CASE UNCHANGED vars
  BY <1>9 DEF vars, uplink, downlink, gatewayVars, IdentityInv, TypeInv, UtSound, UplinkTyped,
              DownlinkTyped, CellTyped, Lives, Life, IsOffered, IsAsked, IsConfirmed,
              GrantsSound, AnswersKnown
<1>10. QED
  BY <1>1, <1>2, <1>3, <1>4, <1>5, <1>6, <1>7, <1>8, <1>9
  DEF Next, UtStep, Broadcast, DispatchRar, DispatchMsg4, DispatchMsgB

LEMMA IdentityInvCorrect == Spec => []IdentityInv
BY InitIdentity, NextIdentity, PTL DEF Spec

(* TypeOK: the UEs, the messages and the gateway's state keep their types, *)
(* whatever the windows answer and whichever events fire first.            *)
THEOREM TypeCorrect == Spec => []TypeOK
<1>1. IdentityInv => TypeOK
  BY TypeInvImplies DEF IdentityInv
<1>2. QED
  BY <1>1, IdentityInvCorrect, PTL

(* AttemptIsTimed: UtMac never leaves an attempt without an event that     *)
(* ends or continues it.                                                   *)
THEOREM AttemptIsTimedCorrect == Spec => []AttemptIsTimed
<1>1. IdentityInv => AttemptIsTimed
  BY TypeInvImplies DEF IdentityInv
<1>2. QED
  BY <1>1, IdentityInvCorrect, PTL

(* IdentityIsOwn: until AllocateTcRnti wraps around, no two UEs get the    *)
(* same C-RNTI, however preambles collide, false alarms are answered and   *)
(* windows cut the messages; and always, the scheduler has the context of  *)
(* a connected UE.                                                         *)
THEOREM IdentityIsOwnCorrect == Spec => []IdentityIsOwn
<1>1. QED
  BY IdentityInvImplies, IdentityInvCorrect, PTL

-----------------------------------------------------------------------------
(* Four-step access is final.                                              *)

(* A UE of a four-step cell has one thing under way at a time: it waits for*)
(* a RAR, or for the instant of its Msg3, or for a Msg4; and nothing once  *)
(* its attempt is over.                                                    *)
Tidy(u) ==
  /\ u.msg3TxEvents + u.contentionTimers <= 1 /\ u.msg3Lost = 0 /\ u.contentionLost = 0
  /\ u.msg3TxEvents + u.contentionTimers > 0 => u.isRaInitiated /\ u.tcRnti # 0
  /\ u.raResponseTimer => u.isRaInitiated /\ u.tcRnti = 0
  /\ ~u.msgBResponseTimer
  /\ u.isRaInitiated => ~IsConnected(u)

Outlasts(u, w) == Tidy(w) /\ (IsConnected(u) => IsConnected(w))

LEMMA AttemptTidy ==
  ASSUME NEW u \in Ut, Tidy(u), NEW ra \in Ra, MayAccess(u), rachType = "FOUR_STEP"
  PROVE  Outlasts(u, Attempt(u, ra))
<1> DEFINE w == Attempt(u, ra)
<1>1. w = [u EXCEPT !.isRaInitiated = TRUE, !.raAttempt = @ + 1, !.ra = ra, !.tcRnti = 0,
                    !.contentionTimers = u.contentionLost, !.msg3TxEvents = u.msg3Lost,
                    !.raResponseTimer = TRUE, !.msgBResponseTimer = FALSE]
  BY DEF Attempt, Ut
<1>2. u.contentionLost = 0 /\ u.msg3Lost = 0
  BY DEF Tidy
<1>3. /\ w.msg3Lost = 0 /\ w.contentionLost = 0
      /\ w.msg3TxEvents = 0 /\ w.contentionTimers = 0 /\ w.isRaInitiated /\ w.tcRnti = 0
      /\ ~w.msgBResponseTimer /\ w.state = u.state /\ w.cRnti = u.cRnti
  BY <1>1, <1>2 DEF Ut
<1> HIDE DEF w
<1>4. QED
  BY <1>3 DEF w, Outlasts, Tidy, MayAccess, IsConnected

LEMMA AbortedTidy ==
  ASSUME NEW u \in Ut, u.msg3Lost = 0, u.contentionLost = 0
  PROVE  Tidy(Aborted(u))
<1> DEFINE w == Aborted(u)
<1>2. /\ w.msg3Lost = 0 /\ w.contentionLost = 0
      /\ w.msg3TxEvents = 0 /\ w.contentionTimers = 0 /\ ~w.isRaInitiated
      /\ ~w.raResponseTimer /\ ~w.msgBResponseTimer
  BY DEF Aborted, Ut
<1> HIDE DEF w
<1>3. QED
  BY <1>2 DEF w, Tidy

LEMMA GrantedTidy ==
  ASSUME NEW u \in Ut, Tidy(u), u.isRaInitiated, u.tcRnti = 0, NEW rnti \in Rnti
  PROVE  Outlasts(u, [WithMsg3Grant(u, rnti) EXCEPT !.raResponseTimer = FALSE])
<1> DEFINE w == [WithMsg3Grant(u, rnti) EXCEPT !.raResponseTimer = FALSE]
<1>1. u.msg3TxEvents = 0 /\ u.contentionTimers = 0 /\ u.contentionLost = 0
  BY DEF Tidy, Ut
<1>2. /\ w.msg3Lost = 0 /\ w.contentionLost = 0
      /\ w.msg3TxEvents = 1 /\ w.contentionTimers = 0 /\ w.isRaInitiated /\ w.tcRnti = rnti
      /\ ~w.raResponseTimer /\ w.msgBResponseTimer = u.msgBResponseTimer
      /\ w.state = u.state /\ w.cRnti = u.cRnti
  BY <1>1 DEF WithMsg3Grant, Ut
<1> HIDE DEF w
<1>3. rnti # 0
  BY DEF Rnti
<1>4. QED
  BY <1>2, <1>3 DEF w, Outlasts, Tidy, IsConnected

LEMMA SentTidy ==
  ASSUME NEW u \in Ut, Tidy(u), u.msg3TxEvents > 0
  PROVE  /\ u.tcRnti # 0 /\ Msg3Due(u).tcRnti = u.tcRnti
         /\ Outlasts(u, [Msg3Due(u) EXCEPT
                           !.contentionTimers = @ + 1,
                           !.contentionLost = Msg3Due(u).contentionTimers, !.state = "TX"])
<1> DEFINE v == Msg3Due(u)
           w == [v EXCEPT !.contentionTimers = @ + 1,
                          !.contentionLost = v.contentionTimers, !.state = "TX"]
<1>1. /\ u.msg3TxEvents = 1 /\ u.contentionTimers = 0 /\ u.isRaInitiated /\ u.tcRnti # 0
      /\ u.msg3Lost = 0 /\ u.contentionLost = 0 /\ Handled(u)
  BY DEF Tidy, Ut, Handled
<1>2. /\ v \in Ut /\ v.msg3TxEvents = 0 /\ v.msg3Lost = 0 /\ v.contentionTimers = 0
      /\ v.tcRnti = u.tcRnti /\ v.isRaInitiated
      /\ v.raResponseTimer = u.raResponseTimer /\ v.msgBResponseTimer = u.msgBResponseTimer
  BY <1>1, Msg3DueType DEF Fewer
<1> HIDE DEF v
<1>3. /\ w.msg3TxEvents = 0 /\ w.contentionTimers = 1 /\ w.isRaInitiated /\ w.tcRnti = u.tcRnti
      /\ w.msg3Lost = 0 /\ w.contentionLost = 0
      /\ w.raResponseTimer = u.raResponseTimer /\ w.msgBResponseTimer = u.msgBResponseTimer
      /\ w.state = "TX"
  BY <1>2 DEF Ut
<1> HIDE DEF w
<1>4. Outlasts(u, w)
  BY <1>1, <1>3 DEF Outlasts, Tidy, IsConnected
<1>5. QED
  BY <1>1, <1>2, <1>4 DEF v, w

(* What a Msg4 makes of a UE that has sent its Msg3. *)
LEMMA AnsweredTidy ==
  ASSUME NEW u \in Ut, Tidy(u), u.isRaInitiated, u.tcRnti # 0, u.msg3TxEvents = 0,
         NEW rnti \in Rnti
  PROVE  /\ Outlasts(u, Accepted(u, rnti))
         /\ Outlasts(u, PoorChannel(u))
         /\ Outlasts(u, Aborted(CancelContention(u)))
<1>1. u.contentionTimers <= 1 /\ u.contentionTimers \in Nat /\ ~IsConnected(u)
      /\ ~u.raResponseTimer /\ ~u.msgBResponseTimer
  BY DEF Tidy, Ut
<1>2. u.contentionLost = 0 /\ u.msg3Lost = 0
  BY DEF Tidy
<1>3. \A w \in {Accepted(u, rnti), PoorChannel(u)} :
        /\ w.msg3TxEvents = 0 /\ w.contentionTimers = 0 /\ ~w.isRaInitiated
        /\ w.msg3Lost = 0 /\ w.contentionLost = 0
        /\ ~w.raResponseTimer /\ ~w.msgBResponseTimer
  BY <1>1, <1>2 DEF Accepted, PoorChannel, Ut
<1>4. Tidy(Accepted(u, rnti)) /\ Tidy(PoorChannel(u))
  BY <1>3 DEF Tidy
<1>5. Tidy(Aborted(CancelContention(u)))
  <2> DEFINE v == CancelContention(u)
  <2>1. v \in Ut /\ v.msg3Lost = 0 /\ v.contentionLost = 0
    BY <1>2 DEF Ut, CancelContention
  <2> HIDE DEF v
  <2>2. Tidy(Aborted(v))
    BY <2>1, AbortedTidy
  <2>3. QED
    BY <2>2 DEF v
<1>6. QED
  BY <1>1, <1>4, <1>5 DEF Outlasts

(* While RNTIs last, no UE of a four-step cell has anything left over, and *)
(* nothing of the two-step procedure is under way.                         *)
FinalInv ==
  /\ IdentityInv
  /\ rachType = "FOUR_STEP" =>
       /\ msgAs = {} /\ msgBs = {}
       /\ tcRntiCounter <= RntiSpace => \A ue \in Ue : Tidy(ut[ue])

(* That is what the step of all UEs, or of one, has to show. *)
AllOutlast == \A ue \in Ue : Outlasts(ut[ue], ut'[ue])

LEMMA TidyOutlasts ==
  ASSUME NEW u, Tidy(u)
  PROVE  Outlasts(u, u)
BY DEF Outlasts

LEMMA OneOutlasts ==
  ASSUME ut \in [Ue -> Ut], \A v \in Ue : Tidy(ut[v]), NEW ue \in Ue,
         NEW w, ut' = [ut EXCEPT ![ue] = w], Outlasts(ut[ue], w)
  PROVE  AllOutlast
<1>1. \A v \in Ue : ut'[v] = IF v = ue THEN w ELSE ut[v]
  OBVIOUS
<1>2. QED
  BY <1>1, TidyOutlasts DEF AllOutlast

LEMMA InitiateOutlasts ==
  ASSUME ut \in [Ue -> Ut], \A v \in Ue : Tidy(ut[v]), NEW ue \in Ue, occasion \in Nat,
         rachType = "FOUR_STEP", NEW u \in Ut, Tidy(u), IsConnected(u) = IsConnected(ut[ue]),
         InitiateRandomAccess(ue, u)
  PROVE  AllOutlast /\ msgAs' = msgAs
<1>1. CASE ut' = [ut EXCEPT ![ue] = u] /\ UNCHANGED <<occasion, uplink>>
  <2>1. Outlasts(ut[ue], u)
    BY DEF Outlasts
  <2>2. QED
    BY <1>1, <2>1, OneOutlasts DEF uplink
<1>2. CASE /\ MayAccess(u)
           /\ \E raRnti \in {occasion, occasion + 1}, preamble \in Preamble :
                /\ ut' = [ut EXCEPT ![ue] = Attempt(u, <<raRnti, preamble>>)]
                /\ msgAs' = msgAs
  <2>1. PICK raRnti \in {occasion, occasion + 1}, preamble \in Preamble :
          /\ ut' = [ut EXCEPT ![ue] = Attempt(u, <<raRnti, preamble>>)]
          /\ msgAs' = msgAs
    BY <1>2
  <2>2. <<raRnti, preamble>> \in Ra
    BY DEF Ra
  <2>3. Outlasts(ut[ue], Attempt(u, <<raRnti, preamble>>))
    BY <1>2, <2>2, AttemptTidy DEF Outlasts
  <2>4. QED
    BY <2>1, <2>3, OneOutlasts
<1>3. QED
  BY <1>1, <1>2 DEF InitiateRandomAccess

LEMMA TimeoutOutlasts ==
  ASSUME ut \in [Ue -> Ut], \A v \in Ue : Tidy(ut[v]), NEW ue \in Ue, Timeout(ue)
  PROVE  AllOutlast
<1> DEFINE u == ut[ue]
           v == ContentionExpired(u)
<1>1. u \in Ut /\ Tidy(u) /\ u.msg3Lost = 0 /\ u.contentionLost = 0
  BY DEF Tidy
<1>2. CASE OnRaResponseTimeout(ue) \/ OnMsgBResponseTimeout(ue)
  <2>1. ~IsConnected(u)
    BY <1>1, <1>2 DEF Tidy, OnRaResponseTimeout, OnMsgBResponseTimeout
  <2>2. Outlasts(u, Aborted(u))
    BY <1>1, <2>1, AbortedTidy DEF Outlasts
  <2>3. QED
    BY <1>2, <2>2, OneOutlasts DEF OnRaResponseTimeout, OnMsgBResponseTimeout
<1>3. CASE OnContentionResolutionTimeout(ue)
  <2>1. u.contentionTimers > 0 /\ ut' = [ut EXCEPT ![ue] = Aborted(v)]
    BY <1>3 DEF OnContentionResolutionTimeout
  <2>2. ~IsConnected(u)
    BY <1>1, <2>1 DEF Tidy, Ut
  <2>3. v \in Ut /\ v.msg3Lost = 0 /\ v.contentionLost = 0
    <3>1. Handled(u)
      BY <1>1 DEF Ut, Handled
    <3>2. v \in Ut
      BY <1>1, <2>1, <3>1, ContentionExpiredType
    <3>3. v.msg3Lost = u.msg3Lost /\ v.contentionLost = Fewer(u.contentionLost)
      BY <1>1 DEF Ut, ContentionExpired
    <3>4. QED
      BY <1>1, <3>2, <3>3 DEF Fewer
  <2>4. Outlasts(u, Aborted(v))
    BY <2>2, <2>3, AbortedTidy DEF Outlasts
  <2> HIDE DEF v
  <2>5. QED
    BY <2>1, <2>4, OneOutlasts
<1>4. QED
  BY <1>2, <1>3 DEF Timeout

LEMMA Msg4Outlasts ==
  ASSUME TypeInv, \A v \in Ue : Tidy(ut[v]), NEW msg4 \in msg4s, ReceiveMsg4(msg4),
         \A v \in Ue : ut[v].tcRnti = msg4.tcRnti => ut[v].msg3TxEvents = 0
  PROVE  AllOutlast
<1> DEFINE addressed == {ue \in Ue : AwaitsMsg4(ut[ue], msg4)}
           lost(ue) == Aborted(CancelContention(ut[ue]))
<1>1. PICK undecoded \in SUBSET addressed, poor \in SUBSET addressed :
        ut' = [ue \in Ue |->
                 IF ue \notin addressed \ undecoded THEN ut[ue]
                 ELSE IF msg4.echoedUeIdentity # ue THEN lost(ue)
                 ELSE IF ue \in poor THEN PoorChannel(ut[ue])
                 ELSE Accepted(ut[ue], msg4.tcRnti)]
  BY DEF ReceiveMsg4, DecodeMsg4
<1>2. msg4.tcRnti \in Rnti
  BY DEF TypeInv, DownlinkTyped
<1>3. ASSUME NEW ue \in Ue
      PROVE  Outlasts(ut[ue], ut'[ue])
  <2>1. ut[ue] \in Ut
    BY DEF TypeInv, UtSound
  <2>2. CASE ue \notin addressed
    BY <1>1, <2>2, TidyOutlasts
  <2>3. CASE ue \in addressed
    <3>1. ut[ue].isRaInitiated /\ ut[ue].tcRnti # 0 /\ ut[ue].msg3TxEvents = 0
      BY <2>3 DEF AwaitsMsg4
    <3>2. /\ Outlasts(ut[ue], Accepted(ut[ue], msg4.tcRnti))
          /\ Outlasts(ut[ue], PoorChannel(ut[ue])) /\ Outlasts(ut[ue], lost(ue))
      BY <1>2, <2>1, <3>1, AnsweredTidy
    <3> HIDE DEF lost
    <3>3. QED
      BY <1>1, <3>2, TidyOutlasts
  <2>4. QED
    BY <2>2, <2>3
<1>4. QED
  BY <1>3 DEF AllOutlast

LEMMA InitFinal == Init => FinalInv
<1> SUFFICES ASSUME Init PROVE FinalInv
  OBVIOUS
<1>1. \A ue \in Ue : Tidy(ut[ue])
  BY DEF Init, Tidy, IsConnected
<1>2. QED
  BY <1>1, InitIdentity DEF Init, FinalInv

(* A step of a four-step cell leaves every UE tidy and connected UEs       *)
(* connected.                                                              *)
LEMMA StepOutlasts ==
  ASSUME FinalInv, [Next]_vars, rachType = "FOUR_STEP", tcRntiCounter <= RntiSpace
  PROVE  AllOutlast
<1>0. /\ TypeInv /\ ut \in [Ue -> Ut] /\ occasion \in Nat /\ msgAs = {} /\ msgBs = {}
      /\ \A ue \in Ue : Tidy(ut[ue])
  BY DEF FinalInv, IdentityInv, TypeInv, UtSound, CellTyped
<1>1. ASSUME NEW ue \in Ue, StartAccess(ue)
      PROVE  AllOutlast
  BY <1>0, <1>1, InitiateOutlasts DEF StartAccess
<1>2. ASSUME NEW ue \in Ue, RetryAccess(ue)
      PROVE  AllOutlast
  <2> DEFINE u == [ut[ue] EXCEPT !.retries = @ - 1]
  <2>1. u \in Ut /\ Tidy(u) /\ IsConnected(u) = IsConnected(ut[ue])
    BY <1>0, <1>2 DEF RetryAccess, Ut, Tidy, IsConnected
  <2>2. InitiateRandomAccess(ue, u)
    BY <1>2 DEF RetryAccess
  <2> HIDE DEF u
  <2>3. QED
    BY <1>0, <2>1, <2>2, InitiateOutlasts
<1>3. ASSUME NEW ue \in Ue, SendMsg3(ue)
      PROVE  AllOutlast
  <2> DEFINE u == Msg3Due(ut[ue])
             w == [u EXCEPT !.contentionTimers = @ + 1, !.contentionLost = u.contentionTimers,
                            !.state = "TX"]
  <2>1. ut[ue] \in Ut /\ ut[ue].msg3TxEvents > 0
    BY <1>0, <1>3 DEF SendMsg3
  <2>2. ut[ue].tcRnti # 0 /\ Outlasts(ut[ue], w)
    BY <1>0, <2>1, SentTidy
  <2>3. u.tcRnti # 0
    BY <1>0, <2>1, SentTidy
  <2>4. ut' = [ut EXCEPT ![ue] = w]
    BY <1>3, <2>3 DEF SendMsg3
  <2> HIDE DEF w
  <2>5. QED
    BY <1>0, <2>2, <2>4, OneOutlasts
<1>4. ASSUME NEW rar \in rars, ReceiveRar(rar)
      PROVE  AllOutlast
  <2>1. TcRnti(rar.grant) \in Rnti
    BY <1>0, TcRntiType DEF TypeInv, DownlinkTyped
  <2> DEFINE w(ue) == [WithMsg3Grant(ut[ue], TcRnti(rar.grant)) EXCEPT !.raResponseTimer = FALSE]
  <2>2. ut' = [ue \in Ue |->
                 IF Matches(ut[ue], rar.ra) /\ ut[ue].tcRnti = 0 THEN w(ue) ELSE ut[ue]]
    BY <1>4 DEF ReceiveRar
  <2>3. \A ue \in Ue : Matches(ut[ue], rar.ra) /\ ut[ue].tcRnti = 0 => Outlasts(ut[ue], w(ue))
    BY <1>0, <2>1, GrantedTidy DEF Matches
  <2> HIDE DEF w
  <2>4. QED
    BY <1>0, <2>2, <2>3, TidyOutlasts DEF AllOutlast
<1>5. ASSUME NEW msg4 \in msg4s, ReceiveMsg4(msg4)
      PROVE  AllOutlast
  <2>1. msg4.tcRnti \in Rnti /\ msg4.echoedUeIdentity \in Ue
    BY <1>0 DEF TypeInv, DownlinkTyped
  <2>2. Life(msg4.tcRnti)
    BY <2>1 DEF FinalInv, IdentityInv, Lives
  <2>3. IsConfirmed(msg4.tcRnti, msg4.echoedUeIdentity)
    BY DEF IsConfirmed
  <2>4. ~IsAsked(msg4.tcRnti)
    BY <2>1, <2>2, <2>3 DEF Life
  <2>5. \A v \in Ue : ut[v].tcRnti = msg4.tcRnti => ut[v].msg3TxEvents = 0
    BY <1>0, <2>4 DEF IsAsked, Ut
  <2>6. QED
    BY <1>0, <1>5, <2>5, Msg4Outlasts
<1>6. CASE UNCHANGED ut
  BY <1>0, <1>6, TidyOutlasts DEF AllOutlast
<1>7. ProcessPrachWindow \/ ProcessMsgAWindow \/ ProcessMsg3Window => UNCHANGED ut
  BY DEF ProcessPrachWindow, ProcessMsgAWindow, ProcessMsg3Window
<1>8. \A ue \in Ue : Timeout(ue) => AllOutlast
  BY <1>0, TimeoutOutlasts
<1>9. QED
  BY <1>0, <1>1, <1>2, <1>3, <1>4, <1>5, <1>6, <1>7, <1>8
  DEF Next, UtStep, Broadcast, DispatchRar, DispatchMsg4, DispatchMsgB, vars

(* A four-step cell stays one, without two-step messages, and its counter  *)
(* only grows.                                                             *)
LEMMA StepKeepsCell ==
  ASSUME FinalInv, [Next]_vars
  PROVE  /\ rachType' = rachType
         /\ tcRntiCounter \in Nat /\ tcRntiCounter' \in Nat /\ tcRntiCounter <= tcRntiCounter'
         /\ rachType = "FOUR_STEP" => msgAs' = {} /\ msgBs' = {}
<1>0. TypeInv /\ IdentityInv'
  BY NextIdentity DEF FinalInv, IdentityInv
<1>1. tcRntiCounter \in Nat /\ tcRntiCounter' \in Nat
  BY <1>0, RandomAccessAssumption DEF IdentityInv, TypeInv, CellTyped
<1>2. CASE /\ rachType' = rachType /\ tcRntiCounter <= tcRntiCounter'
           /\ rachType = "FOUR_STEP" => msgAs' = msgAs /\ msgBs' \subseteq msgBs
  BY <1>1, <1>2 DEF FinalInv
<1>3. ASSUME NEW ue \in Ue, StartAccess(ue) \/ RetryAccess(ue)
      PROVE  /\ UNCHANGED <<rachType, msgBs, tcRntiCounter>>
             /\ rachType = "FOUR_STEP" => msgAs' = msgAs
  BY <1>3 DEF StartAccess, RetryAccess, InitiateRandomAccess, uplink, downlink, gatewayVars
<1>4. ASSUME NEW ue \in Ue, SendMsg3(ue) \/ Timeout(ue)
      PROVE  UNCHANGED <<rachType, msgAs, msgBs, tcRntiCounter>>
  BY <1>4 DEF SendMsg3, Timeout, uplink, downlink, gatewayVars
<1>5. CASE ProcessPrachWindow
  <2>1. UNCHANGED <<rachType, msgAs, msgBs>> /\ tcRntiCounter <= tcRntiCounter'
    BY <1>0, <1>5, PrachTyped DEF ProcessPrachWindow
  <2>2. QED
    BY <1>2, <2>1
<1>6. CASE ProcessMsgAWindow
  <2>1. rachType' = rachType /\ tcRntiCounter <= tcRntiCounter' /\ msgAs # {}
    BY <1>0, <1>6, MsgATyped DEF ProcessMsgAWindow
  <2>2. QED
    BY <1>1, <2>1 DEF FinalInv
<1>7. ProcessMsg3Window => UNCHANGED <<rachType, msgAs, msgBs, tcRntiCounter>>
  BY DEF ProcessMsg3Window
<1>8. \A m : ReceiveRar(m) \/ ReceiveMsg4(m) => UNCHANGED <<rachType, msgAs, msgBs, tcRntiCounter>>
  BY DEF ReceiveRar, ReceiveMsg4, uplink, gatewayVars
<1>9. \A m : ReceiveMsgB(m) =>
        UNCHANGED <<rachType, msgAs, tcRntiCounter>> /\ msgBs' \subseteq msgBs
  BY DEF ReceiveMsgB, uplink, gatewayVars
<1>10. UNCHANGED vars => UNCHANGED <<rachType, msgAs, msgBs, tcRntiCounter>>
  BY DEF vars, uplink, downlink, gatewayVars
<1>11. CASE UNCHANGED <<rachType, msgAs, tcRntiCounter>> /\ msgBs' \subseteq msgBs
  BY <1>1, <1>2, <1>11
<1>12. CASE \E ue \in Ue : StartAccess(ue) \/ RetryAccess(ue)
  BY <1>1, <1>2, <1>3, <1>12
<1>13. CASE UNCHANGED <<rachType, msgAs, msgBs, tcRntiCounter>>
  BY <1>11, <1>13
<1>14. QED
  BY <1>4, <1>5, <1>6, <1>7, <1>8, <1>9, <1>10, <1>11, <1>12, <1>13
  DEF Next, UtStep, Broadcast, DispatchRar, DispatchMsg4, DispatchMsgB

LEMMA NextFinal == FinalInv /\ [Next]_vars => FinalInv'
<1> SUFFICES ASSUME FinalInv, [Next]_vars PROVE FinalInv'
  OBVIOUS
<1>1. IdentityInv'
  BY NextIdentity DEF FinalInv
<1>2. ASSUME rachType' = "FOUR_STEP", tcRntiCounter' <= RntiSpace
      PROVE  \A ue \in Ue : Tidy(ut'[ue])
  <2>1. rachType = "FOUR_STEP" /\ tcRntiCounter <= RntiSpace
    BY <1>2, StepKeepsCell, RandomAccessAssumption
  <2>2. QED
    BY <2>1, StepOutlasts DEF AllOutlast, Outlasts
<1>3. QED
  BY <1>1, <1>2, StepKeepsCell DEF FinalInv

LEMMA FinalInvCorrect == Spec => []FinalInv
BY InitFinal, NextFinal, PTL DEF Spec

(* Until AllocateTcRnti wraps around, nothing left over from a four-step   *)
(* access takes a connected UE out of MAC_CONNECTED again.                 *)
THEOREM AccessIsFinalWhileRntisLast ==
  Spec => [][rachType = "FOUR_STEP" /\ tcRntiCounter <= RntiSpace => StaysConnected]_vars
<1>1. FinalInv /\ [Next]_vars =>
        [rachType = "FOUR_STEP" /\ tcRntiCounter <= RntiSpace => StaysConnected]_vars
  BY StepOutlasts DEF AllOutlast, Outlasts, StaysConnected
<1>2. QED
  BY <1>1, FinalInvCorrect, PTL DEF Spec

(* FourStepAccessIsFinal: so it is throughout when no more TC-RNTIs are    *)
(* handed out than there are.                                              *)
THEOREM FourStepAccessIsFinalCorrect ==
  ASSUME MaxRnti <= RntiSpace
  PROVE  Spec => FourStepAccessIsFinal
<1>1. FinalInv => tcRntiCounter <= RntiSpace
  BY RandomAccessAssumption DEF FinalInv, IdentityInv, TypeInv, CellTyped
<1>2. FinalInv /\ [Next]_vars => [rachType = "FOUR_STEP" => StaysConnected]_vars
  BY <1>1, StepOutlasts DEF AllOutlast, Outlasts, StaysConnected
<1>3. QED
  BY <1>2, FinalInvCorrect, PTL DEF Spec, FourStepAccessIsFinal
=============================================================================
