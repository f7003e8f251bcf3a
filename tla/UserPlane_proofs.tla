--------------------------- MODULE UserPlane_proofs ---------------------------
(***************************************************************************)
(* Theorems about UserPlane, for any finite sets of UEs and beams, with    *)
(* and without RNTIs of their own, and any bounds on what is under way: it *)
(* is well typed, the satellite relays nothing twice, and the gateway's    *)
(* count of ACKs is earned.                                                *)
(*                                                                         *)
(* The invariant says of each channel who sends what on it (RoutedInv),    *)
(* and of each UE that what was sent down to it and neither missed nor     *)
(* acknowledged is under way, on all channels together (DueInv).           *)
(***************************************************************************)
EXTENDS UserPlane, SequenceTheorems, FiniteSetTheorems, WellFoundedInduction, TLAPS

-----------------------------------------------------------------------------
(* Sums over a finite set: the number of pairs of a member and one of what  *)
(* is counted of it.                                                       *)

Pairs(w, S) == UNION {{x} \X (1..w[x]) : x \in S}
Total(w, S) == Cardinality(Pairs(w, S))

LEMMA TotalType ==
  ASSUME NEW S, IsFiniteSet(S), NEW w, \A x \in S : w[x] \in Nat
  PROVE  /\ IsFiniteSet(Pairs(w, S))
         /\ Total(w, S) \in Nat
<1> DEFINE parts == {{x} \X (1..w[x]) : x \in S}
           part == [x \in S |-> {x} \X (1..w[x])]
<1>1. IsFiniteSet(parts)
  <2>1. part \in Surjection(S, parts)
    BY DEF Surjection
  <2>2. QED
    BY <2>1, FS_Surjection
<1>2. ASSUME NEW p \in parts PROVE IsFiniteSet(p)
  <2>1. PICK x \in S : p = {x} \X (1..w[x])
    OBVIOUS
  <2>2. \A n \in Nat : IsFiniteSet(1..n)
    BY FS_Interval
  <2>3. IsFiniteSet({x}) /\ IsFiniteSet(1..w[x])
    BY <2>2, FS_Singleton
  <2>4. QED
    BY <2>1, <2>3, FS_Product
<1>3. IsFiniteSet(UNION parts)
  BY <1>1, <1>2, FS_UNION
<1>4. QED
  BY <1>3, FS_CardinalityType DEF Pairs, Total

LEMMA TotalNone == \A w : Total(w, {}) = 0
BY FS_EmptySet DEF Pairs, Total

LEMMA TotalSame ==
  ASSUME NEW S, NEW w, NEW v, \A x \in S : w[x] = v[x]
  PROVE  Total(w, S) = Total(v, S)
BY DEF Pairs, Total

LEMMA TotalMore ==
  ASSUME NEW S, IsFiniteSet(S), NEW y, y \notin S, NEW w,
         \A x \in S \cup {y} : w[x] \in Nat
  PROVE  Total(w, S \cup {y}) = Total(w, S) + w[y]
<1> DEFINE own == {y} \X (1..w[y])
<1>1. w[y] \in Nat
  OBVIOUS
<1>2. IsFiniteSet(own) /\ Cardinality(own) = w[y]
  <2>1. \A n \in Nat : IsFiniteSet(1..n) /\ Cardinality(1..n) = n
    BY FS_Interval
  <2>2. IsFiniteSet({y}) /\ Cardinality({y}) = 1
    BY FS_Singleton
  <2>3. IsFiniteSet(own) /\ Cardinality(own) = Cardinality({y}) * Cardinality(1..w[y])
    BY <1>1, <2>1, <2>2, FS_Product
  <2>4. QED
    BY <1>1, <2>1, <2>2, <2>3
<1>3. IsFiniteSet(Pairs(w, S)) /\ Total(w, S) \in Nat
  BY TotalType
<1>4. Pairs(w, S \cup {y}) = Pairs(w, S) \cup own /\ Pairs(w, S) \cap own = {}
  BY DEF Pairs
<1> HIDE DEF own
<1>5. Cardinality(Pairs(w, S) \cup own) =
        Cardinality(Pairs(w, S)) + Cardinality(own) - Cardinality(Pairs(w, S) \cap own)
  BY <1>2, <1>3, FS_Union
<1>6. Cardinality(Pairs(w, S) \cap own) = 0
  BY <1>4, FS_EmptySet
<1>7. Total(w, S \cup {y}) = Cardinality(Pairs(w, S) \cup own)
  BY <1>4 DEF Total
<1>8. QED
  BY <1>1, <1>2, <1>3, <1>5, <1>6, <1>7 DEF Total

(* The sum changes by what one member does.                                *)
LEMMA TotalChanged ==
  ASSUME NEW S, IsFiniteSet(S), NEW y \in S, NEW w, NEW v,
         \A x \in S : w[x] \in Nat /\ v[x] \in Nat,
         \A x \in S \ {y} : v[x] = w[x]
  PROVE  /\ Total(v, S) = Total(w, S) - w[y] + v[y]
         /\ w[y] <= Total(w, S)
<1>1. IsFiniteSet(S \ {y}) /\ y \notin S \ {y} /\ S = (S \ {y}) \cup {y}
  BY FS_Subset
<1>2. /\ Total(w, (S \ {y}) \cup {y}) = Total(w, S \ {y}) + w[y]
      /\ Total(v, (S \ {y}) \cup {y}) = Total(v, S \ {y}) + v[y]
  BY <1>1, TotalMore
<1>3. Total(w, S \ {y}) = Total(v, S \ {y})
  BY TotalSame
<1>4. /\ Total(w, S \ {y}) \in Nat /\ Total(v, S \ {y}) \in Nat
      /\ w[y] \in Nat /\ v[y] \in Nat
  BY <1>1, TotalType
<1>5. Total(w, S) = Total(w, S \ {y}) + w[y] /\ Total(v, S) = Total(v, S \ {y}) + v[y]
  BY <1>1, <1>2
<1>6. QED
  BY <1>3, <1>4, <1>5

(* Induction over a finite set, for sets: what holds of {}, and of a set    *)
(* whenever it holds of the set without some member, holds of all subsets.  *)
LEMMA SubsetInduction ==
  ASSUME NEW S, IsFiniteSet(S), NEW T, {} \in T,
         \A A \in SUBSET S : A # {} /\ (\A x \in A : A \ {x} \in T) => A \in T
  PROVE  SUBSET S \subseteq T
<1> DEFINE Bad == {A \in FiniteSubsetsOf(S) : A \notin T}
<1>1. SUBSET S = FiniteSubsetsOf(S)
  BY FS_Subset DEF FiniteSubsetsOf
<1>2. SUFFICES ASSUME Bad # {} PROVE FALSE
  BY <1>1
<1>3. IsWellFoundedOn(StrictSubsetOrdering(S), FiniteSubsetsOf(S))
  BY FS_StrictSubsetOrderingWellFounded
<1>4. PICK A \in Bad : \A B \in Bad : ~(<<B, A>> \in StrictSubsetOrdering(S))
  BY <1>2, <1>3, WFMin
<1>5. ASSUME NEW x \in A PROVE A \ {x} \in T
  <2>1. A \ {x} \in SUBSET S /\ A \in SUBSET S
    BY <1>1
  <2>2. <<A \ {x}, A>> \in StrictSubsetOrdering(S)
    BY <2>1, <1>5 DEF StrictSubsetOrdering
  <2>3. QED
    BY <1>1, <1>4, <2>1, <2>2
<1>6. A \in T
  BY <1>1, <1>5
<1>7. QED
  BY <1>6

(* One more for each of some members.                                      *)
LEMMA TotalRaised ==
  ASSUME NEW S, IsFiniteSet(S), NEW D \in SUBSET S, NEW w, NEW v,
         \A x \in S : w[x] \in Nat,
         \A x \in S : v[x] = w[x] + IF x \in D THEN 1 ELSE 0
  PROVE  Total(v, S) = Total(w, S) + Cardinality(D)
<1> DEFINE T == {A \in SUBSET S : Total(v, A) = Total(w, A) + Cardinality(D \cap A)}
<1>1. {} \in T
  <2>1. D \cap {} = {} /\ Cardinality({}) = 0
    BY FS_EmptySet
  <2>2. QED
    BY <2>1, TotalNone
<1>2. ASSUME NEW A \in SUBSET S, A # {}, \A x \in A : A \ {x} \in T
      PROVE  A \in T
  <2>1. PICK y \in A : TRUE
    BY <1>2
  <2> DEFINE B == A \ {y}
  <2>2. B \in SUBSET S /\ IsFiniteSet(B) /\ y \notin B /\ y \in S /\ A = B \cup {y}
    BY FS_Subset
  <2>3. Total(v, B) = Total(w, B) + Cardinality(D \cap B)
    BY <1>2
  <2> HIDE DEF B
  <2>4. /\ \A x \in B \cup {y} : w[x] \in Nat /\ v[x] \in Nat
        /\ v[y] = w[y] + IF y \in D THEN 1 ELSE 0
    BY <2>2
  <2>5. /\ Total(w, B \cup {y}) = Total(w, B) + w[y]
        /\ Total(v, B \cup {y}) = Total(v, B) + v[y]
    BY <2>2, <2>4, TotalMore
  <2>6. /\ IsFiniteSet(D \cap B) /\ Cardinality(D \cap B) \in Nat
    BY <2>2, FS_Subset, FS_CardinalityType
  <2>7. Cardinality(D \cap A) = Cardinality(D \cap B) + IF y \in D THEN 1 ELSE 0
    <3>1. CASE y \in D
      <4>1. D \cap A = (D \cap B) \cup {y} /\ y \notin D \cap B
        BY <2>2, <3>1
      <4>2. QED
        BY <2>6, <3>1, <4>1, FS_AddElement
    <3>2. CASE y \notin D
      <4>1. D \cap A = D \cap B
        BY <2>2, <3>2
      <4>2. QED
        BY <2>6, <3>2, <4>1
    <3>3. QED
      BY <3>1, <3>2
  <2>8. Total(w, B) \in Nat
    BY <2>2, <2>4, TotalType
  <2>9. Total(v, A) = Total(w, A) + Cardinality(D \cap A)
    BY <2>2, <2>3, <2>4, <2>5, <2>6, <2>7, <2>8
  <2>10. QED
    BY <2>9
<1>3. S \in T
  <2> HIDE DEF T
  <2>1. QED
    BY <1>1, <1>2, SubsetInduction
<1>4. D \cap S = D
  OBVIOUS
<1>5. QED
  BY <1>3, <1>4

-----------------------------------------------------------------------------
(* Counting what is on a channel.                                          *)

(* What counts as under way for u.                                         *)
CountsFor(tx, u) ==
  /\ tx.pdu.rnti = u
  /\ tx.pdu.ack \/ (tx.from = Satellite /\ ~tx.pdu.up)

Marks(s, u) == {i \in DOMAIN s : CountsFor(s[i], u)}
CountIn(s, u) == Cardinality(Marks(s, u))

Sent == Seq(Transmission)

LEMMA CountType ==
  ASSUME NEW s \in Sent, NEW u
  PROVE  IsFiniteSet(Marks(s, u)) /\ CountIn(s, u) \in Nat
<1>1. DOMAIN s = 1..Len(s) /\ Len(s) \in Nat
  BY LenProperties DEF Sent
<1>2. IsFiniteSet(DOMAIN s)
  BY <1>1, FS_Interval
<1>3. Marks(s, u) \in SUBSET (DOMAIN s)
  BY DEF Marks
<1>4. IsFiniteSet(Marks(s, u))
  BY <1>2, <1>3, FS_Subset
<1>5. QED
  BY <1>4, FS_CardinalityType DEF CountIn

LEMMA CountEmpty == \A u : CountIn(<<>>, u) = 0
<1>1. \A u : Marks(<<>>, u) = {}
  BY DEF Marks
<1>2. QED
  BY <1>1, FS_EmptySet DEF CountIn

LEMMA CountConcat ==
  ASSUME NEW s \in Sent, NEW t \in Sent, NEW u
  PROVE  CountIn(s \o t, u) = CountIn(s, u) + CountIn(t, u)
<1> DEFINE n == Len(s)
           moved == {i + n : i \in Marks(t, u)}
           move == [i \in Marks(t, u) |-> i + n]
<1>1. /\ s \o t \in Sent /\ Len(s \o t) = n + Len(t)
      /\ \A i \in 1..(n + Len(t)) : (s \o t)[i] = IF i <= n THEN s[i] ELSE t[i - n]
  BY ConcatProperties DEF Sent
<1>2. /\ n \in Nat /\ Len(t) \in Nat /\ DOMAIN s = 1..n /\ DOMAIN t = 1..Len(t)
      /\ DOMAIN (s \o t) = 1..(n + Len(t))
  BY <1>1, LenProperties DEF Sent
<1> HIDE DEF n
<1>3. Marks(s \o t, u) = Marks(s, u) \cup moved
  <2>1. ASSUME NEW i \in Marks(s \o t, u) PROVE i \in Marks(s, u) \cup moved
    <3>1. i \in 1..(n + Len(t)) /\ CountsFor((s \o t)[i], u)
      BY <1>2, <2>1 DEF Marks
    <3>2. CASE i <= n
      BY <1>1, <1>2, <3>1, <3>2 DEF Marks
    <3>3. CASE i > n
      <4>1. i - n \in 1..Len(t) /\ (s \o t)[i] = t[i - n] /\ i = (i - n) + n
        BY <1>1, <1>2, <3>1, <3>3
      <4>2. i - n \in Marks(t, u)
        BY <1>2, <3>1, <4>1 DEF Marks
      <4>3. QED
        BY <4>1, <4>2
    <3>4. QED
      BY <1>2, <3>1, <3>2, <3>3
  <2>2. ASSUME NEW i \in Marks(s, u) PROVE i \in Marks(s \o t, u)
    <3>1. i \in 1..n /\ CountsFor(s[i], u) /\ i \in 1..(n + Len(t)) /\ i <= n
      BY <1>2, <2>2 DEF Marks
    <3>2. QED
      BY <1>1, <1>2, <3>1 DEF Marks
  <2>3. ASSUME NEW i \in Marks(t, u) PROVE i + n \in Marks(s \o t, u)
    <3>1. i \in 1..Len(t) /\ CountsFor(t[i], u)
      BY <1>2, <2>3 DEF Marks
    <3>2. i + n \in 1..(n + Len(t)) /\ ~(i + n <= n) /\ (i + n) - n = i
      BY <1>2, <3>1
    <3>3. (s \o t)[i + n] = t[i]
      BY <1>1, <3>2
    <3>4. QED
      BY <1>2, <3>1, <3>2, <3>3 DEF Marks
  <2>4. QED
    BY <2>1, <2>2, <2>3
<1>4. Marks(s, u) \cap moved = {}
  <2>1. \A i \in Marks(t, u) : i + n \notin 1..n
    BY <1>2 DEF Marks
  <2>2. QED
    BY <1>2, <2>1 DEF Marks
<1>5. IsFiniteSet(moved) /\ Cardinality(moved) = CountIn(t, u)
  <2>1. Marks(t, u) \subseteq Nat
    BY <1>2 DEF Marks
  <2>2. move \in [Marks(t, u) -> moved]
    OBVIOUS
  <2>3. move \in Injection(Marks(t, u), moved)
    BY <1>2, <2>1, <2>2 DEF Injection, IsInjective
  <2>4. move \in Surjection(Marks(t, u), moved)
    BY <2>2 DEF Surjection
  <2>5. IsFiniteSet(Marks(t, u))
    BY CountType
  <2> HIDE DEF move, moved
  <2>6. QED
    BY <2>3, <2>4, <2>5, FS_Surjection DEF CountIn
<1>6. IsFiniteSet(Marks(s, u)) /\ CountIn(s, u) \in Nat /\ CountIn(t, u) \in Nat
  BY CountType
<1> HIDE DEF moved
<1>7. Cardinality(Marks(s, u) \cup moved) =
        Cardinality(Marks(s, u)) + Cardinality(moved) - Cardinality(Marks(s, u) \cap moved)
  BY <1>5, <1>6, FS_Union
<1>8. Cardinality(Marks(s, u) \cap moved) = 0
  BY <1>4, FS_EmptySet
<1>9. Cardinality(Marks(s, u) \cup moved) = CountIn(s, u) + CountIn(t, u)
  BY <1>5, <1>6, <1>7, <1>8 DEF CountIn
<1>10. QED
  BY <1>3, <1>9 DEF CountIn

LEMMA CountOne ==
  ASSUME NEW tx, NEW u
  PROVE  CountIn(<<tx>>, u) = IF CountsFor(tx, u) THEN 1 ELSE 0
<1>1. Marks(<<tx>>, u) = IF CountsFor(tx, u) THEN {1} ELSE {}
  BY DEF Marks
<1>2. QED
  BY <1>1, FS_EmptySet, FS_Singleton DEF CountIn

LEMMA CountAppend ==
  ASSUME NEW s \in Sent, NEW tx \in Transmission, NEW u
  PROVE  /\ Append(s, tx) \in Sent
         /\ CountIn(Append(s, tx), u) =
              CountIn(s, u) + IF CountsFor(tx, u) THEN 1 ELSE 0
<1>1. Append(s, tx) \in Sent /\ Append(s, tx) = s \o <<tx>> /\ <<tx>> \in Sent
  BY AppendProperties, AppendIsConcat DEF Sent
<1>2. QED
  BY <1>1, CountConcat, CountOne

LEMMA CountTail ==
  ASSUME NEW s \in Sent, s # <<>>, NEW u
  PROVE  /\ Head(s) \in Transmission /\ Tail(s) \in Sent
         /\ CountIn(s, u) = CountIn(Tail(s), u) + IF CountsFor(Head(s), u) THEN 1 ELSE 0
<1>1. Head(s) \in Transmission /\ Tail(s) \in Sent
  BY HeadTailProperties DEF Sent
<1>2. <<Head(s)>> \in Sent /\ s = <<Head(s)>> \o Tail(s)
  BY DEF Sent
<1>3. CountIn(s, u) = CountIn(<<Head(s)>>, u) + CountIn(Tail(s), u)
  BY <1>1, <1>2, CountConcat
<1>4. CountIn(Tail(s), u) \in Nat
  BY <1>1, CountType
<1>5. QED
  BY <1>1, <1>3, <1>4, CountOne

-----------------------------------------------------------------------------
(* What PDUs and ACKs are made of.                                         *)

LEMMA PdusAreTyped ==
  /\ \A u \in Ue, b \in Beam \cup {0}, eff \in Granted \cup {NoSinr} :
       [from |-> Gateway,
        pdu |-> [rnti |-> u, ack |-> FALSE, eff |-> eff, beam |-> b, up |-> FALSE]]
         \in Transmission
  /\ \A u \in Ue :
       [from |-> u,
        pdu |-> [rnti |-> DataRnti(u), ack |-> FALSE, eff |-> NoSinr,
                 beam |-> 0, up |-> TRUE]] \in Transmission
  /\ \A u \in Ue : SendHarqAck(u) \in Transmission
BY DEF Transmission, Pdu, DataRnti, SendHarqAck

LEMMA RelayIsTyped ==
  ASSUME NEW tx \in Transmission
  PROVE  /\ Relay(tx) \in Transmission
         /\ Relay(tx).from = Satellite /\ Relay(tx).pdu = tx.pdu
BY DEF Relay, Transmission

LEMMA SendersApart ==
  Gateway # Satellite /\ Gateway \notin Ue /\ Satellite \notin Ue
BY UserPlaneAssumption

(* The ACKs of those in A, one each, in some order.                        *)
Acks(A) == LET acks == SetToSeq(A) IN [i \in DOMAIN acks |-> SendHarqAck(acks[i])]

LEMMA AcksAreTyped ==
  ASSUME NEW A \in SUBSET Ue
  PROVE  /\ Acks(A) \in Sent
         /\ \A i \in DOMAIN Acks(A) : \E u \in A : Acks(A)[i] = SendHarqAck(u)
         /\ \A u \in Ue : CountIn(Acks(A), u) = IF u \in A THEN 1 ELSE 0
<1> DEFINE n == Cardinality(A)
           acks == SetToSeq(A)
<1>1. IsFiniteSet(A) /\ n \in Nat /\ ExistsBijection(1..n, A)
  BY FS_Subset, FS_CardinalityType, UserPlaneAssumption
<1>2. acks \in [1..n -> A] /\ IsInjective(acks)
  <2>1. \E f \in [1..n -> A] : IsInjective(f)
    BY <1>1 DEF ExistsBijection, Bijection, Injection
  <2>2. QED
    BY <2>1 DEF SetToSeq
<1>3. acks \in Surjection(1..n, A)
  <2>1. acks \in Injection(1..n, A)
    BY <1>2 DEF Injection
  <2>2. IsFiniteSet(1..n) /\ Cardinality(1..n) = n
    BY <1>1, FS_Interval
  <2> HIDE DEF acks
  <2>3. QED
    BY <1>1, <2>1, <2>2, FS_Injection
<1> HIDE DEF acks
<1>4. Acks(A) = [i \in 1..n |-> SendHarqAck(acks[i])]
  BY <1>2 DEF Acks, acks
<1>5. \A i \in 1..n : acks[i] \in Ue /\ SendHarqAck(acks[i]) \in Transmission
  BY <1>2, PdusAreTyped
<1> HIDE DEF n
<1>6. Acks(A) \in Sent
  BY <1>1, <1>4, <1>5 DEF Sent
<1>7. DOMAIN Acks(A) = 1..n
  BY <1>4
<1>8. ASSUME NEW u \in Ue PROVE CountIn(Acks(A), u) = IF u \in A THEN 1 ELSE 0
  <2>1. \A v \in Ue : CountsFor(SendHarqAck(v), u) <=> v = u
    BY DEF CountsFor, SendHarqAck
  <2>2. Marks(Acks(A), u) = {i \in 1..n : acks[i] = u}
    BY <1>4, <1>5, <1>7, <2>1 DEF Marks
  <2>3. CASE u \in A
    <3>1. PICK i \in 1..n : acks[i] = u
      BY <1>3, <2>3 DEF Surjection
    <3>2. Marks(Acks(A), u) = {i}
      BY <1>2, <2>2, <3>1 DEF IsInjective
    <3>3. QED
      BY <2>3, <3>2, FS_Singleton DEF CountIn
  <2>4. CASE u \notin A
    <3>1. Marks(Acks(A), u) = {}
      BY <1>2, <2>2, <2>4
    <3>2. QED
      BY <2>4, <3>1, FS_EmptySet DEF CountIn
  <2>5. QED
    BY <2>3, <2>4
<1>9. QED
  BY <1>2, <1>4, <1>6, <1>7, <1>8

-----------------------------------------------------------------------------
(* Types.                                                                  *)

TypeInv ==
  /\ registered \in Seq(Ue) /\ IsInjective(registered)
  /\ queue \in [Ue -> 0..MaxQueue]
  /\ ueBeam \in [Ue -> Beam \cup {0}]
  /\ cursor \in 1..(Cardinality(Ue) + 1)
  /\ ticking \in BOOLEAN
  /\ camped \in [Ue -> Beam]
  /\ channel \in [Ue -> Sinr]
  /\ phyErr \in [Ue -> [sinr : Sinr \cup Granted \cup Injected \cup {DefaultDb},
                        explicit : BOOLEAN]]
  /\ air \in [Channel -> Sent]
  /\ misjudged \in BOOLEAN

LEMMA ConstantTypes ==
  /\ MaxQueue \in Nat /\ Cardinality(Ue) \in Nat
  /\ IsFiniteSet(Ue) /\ IsFiniteSet(Beam) /\ IsFiniteSet(Channel)
  /\ Feeder \in Channel /\ Feeder \notin Beam /\ Beam \subseteq Channel
  /\ 0 \notin Ue
<1>1. /\ Ue \subseteq Nat \ {0} /\ Beam \subseteq Nat \ {0}
      /\ IsFiniteSet(Ue) /\ IsFiniteSet(Beam) /\ MaxQueue \in Nat
  BY UserPlaneAssumption
<1>2. IsFiniteSet(Channel)
  BY <1>1, FS_AddElement DEF Channel
<1>3. QED
  BY <1>1, <1>2, FS_CardinalityType DEF Channel, Feeder

LEMMA TypeInit == Init => TypeInv
<1> SUFFICES ASSUME Init PROVE TypeInv
  OBVIOUS
<1>1. registered \in Seq(Ue) /\ IsInjective(registered)
  BY DEF Init, IsInjective
<1>2. cursor \in 1..(Cardinality(Ue) + 1) /\ queue \in [Ue -> 0..MaxQueue]
  BY ConstantTypes DEF Init
<1>3. phyErr \in [Ue -> [sinr : Sinr \cup Granted \cup Injected \cup {DefaultDb},
                         explicit : BOOLEAN]]
  <2> DEFINE Models == [sinr : Sinr \cup Granted \cup Injected \cup {DefaultDb},
                        explicit : BOOLEAN]
             Given == IF Injected = {}
                      THEN {[sinr |-> DefaultDb, explicit |-> FALSE]}
                      ELSE [sinr : Injected, explicit : {TRUE}]
  <2>1. Given \subseteq Models
    <3>1. CASE Injected = {}
      BY <3>1
    <3>2. CASE Injected # {}
      BY <3>2
    <3>3. QED
      BY <3>1, <3>2
  <2>2. phyErr \in [Ue -> Given]
    BY DEF Init
  <2> HIDE DEF Models, Given
  <2>3. phyErr \in [Ue -> Models]
    BY <2>1, <2>2
  <2>4. QED
    BY <2>3 DEF Models
<1>4. air \in [Channel -> Sent]
  BY DEF Init, Sent
<1>5. QED
  BY <1>1, <1>2, <1>3, <1>4 DEF Init, TypeInv

(* The number of UEs registered is that of their RNTIs at most.            *)
LEMMA RegisteredType ==
  ASSUME TypeInv
  PROVE  Len(registered) \in Nat /\ Len(registered) <= Cardinality(Ue)
<1> DEFINE n == Len(registered)
<1>1. n \in Nat /\ registered \in [1..n -> Ue]
  BY LenProperties DEF TypeInv
<1>2. registered \in Injection(1..n, Ue)
  BY <1>1 DEF TypeInv, Injection
<1>3. Cardinality(1..n) = n
  BY <1>1, FS_Interval
<1>4. Cardinality(1..n) <= Cardinality(Ue)
  <2> HIDE DEF n
  <2>1. QED
    BY <1>2, ConstantTypes, FS_Injection
<1>5. QED
  BY <1>1, <1>3, <1>4

LEMMA AddUeType ==
  ASSUME TypeInv, NEW u \in Ue, NEW b \in Beam \cup {0}, AddUe(u, b)
  PROVE  TypeInv'
<1> DEFINE n == Len(registered)
<1>1. n \in Nat /\ DOMAIN registered = 1..n
  BY LenProperties DEF TypeInv
<1>2. registered' \in Seq(Ue) /\ IsInjective(registered')
  <2>1. CASE Contains(registered, u)
    BY <2>1 DEF AddUe, TypeInv
  <2>2. CASE ~Contains(registered, u)
    <3> DEFINE r == Append(registered, u)
    <3>1. registered' = r
      BY <2>2 DEF AddUe
    <3>2. /\ r \in Seq(Ue) /\ Len(r) = n + 1 /\ r[n + 1] = u
          /\ \A i \in 1..n : r[i] = registered[i]
      BY AppendProperties DEF TypeInv
    <3>3. DOMAIN r = 1..(n + 1)
      BY <3>2, LenProperties
    <3>4. \A i \in 1..n : registered[i] # u
      BY <2>2 DEF Contains
    <3> HIDE DEF r, n
    <3>5. ASSUME NEW i \in 1..(n + 1), NEW j \in 1..(n + 1), r[i] = r[j]
          PROVE  i = j
      <4>1. CASE i \in 1..n /\ j \in 1..n
        BY <1>1, <3>2, <3>5, <4>1 DEF TypeInv, IsInjective
      <4>2. CASE i \in 1..n /\ j \notin 1..n
        <5>1. j = n + 1
          BY <1>1, <4>2
        <5>2. QED
          BY <3>2, <3>4, <3>5, <4>2, <5>1
      <4>3. CASE i \notin 1..n /\ j \in 1..n
        <5>1. i = n + 1
          BY <1>1, <4>3
        <5>2. QED
          BY <3>2, <3>4, <3>5, <4>3, <5>1
      <4>4. CASE i \notin 1..n /\ j \notin 1..n
        BY <1>1, <4>4
      <4>5. QED
        BY <4>1, <4>2, <4>3, <4>4
    <3>6. QED
      BY <3>1, <3>2, <3>3, <3>5 DEF IsInjective
  <2>3. QED
    BY <2>1, <2>2
<1>3. ueBeam' \in [Ue -> Beam \cup {0}]
  BY DEF AddUe, TypeInv
<1>4. UNCHANGED <<queue, cursor, ticking, camped, channel, phyErr, air, misjudged>>
  BY DEF AddUe
<1>5. QED
  BY <1>2, <1>3, <1>4 DEF TypeInv

LEMMA TickType ==
  ASSUME TypeInv, ScheduleTick
  PROVE  /\ TypeInv'
         /\ \E tx \in Transmission :
              /\ tx.from = Gateway /\ ~tx.pdu.up /\ ~tx.pdu.ack
              /\ air' = [air EXCEPT ![Feeder] = Append(@, tx)]
         /\ UNCHANGED <<due, camped>>
<1> DEFINE n == Len(registered)
<1>1. /\ n \in Nat /\ n <= Cardinality(Ue)
      /\ \A i \in 1..n : registered[i] \in Ue
  BY RegisteredType, ElementOfSeq DEF TypeInv
<1>2. PICK step \in 0..(n - 1) :
        /\ queue[registered[After(step)]] > 0
        /\ queue' = [queue EXCEPT ![registered[After(step)]] = @ - 1]
        /\ cursor' = NextCursor(step)
        /\ SendDlPduForRnti(registered[After(step)])
  BY DEF ScheduleTick
<1>3. n > 0 /\ step \in Nat /\ cursor \in Nat /\ cursor > 0
  BY <1>1, <1>2, ConstantTypes DEF TypeInv
<1> HIDE DEF n
<1>4. \A k \in Nat : k % n \in 0..(n - 1)
  BY <1>1, <1>3
<1>5. After(step) \in 1..n
  <2>1. cursor - 1 + step \in Nat
    BY <1>3
  <2>2. QED
    BY <1>1, <1>3, <1>4, <2>1 DEF After, n
<1> DEFINE u == registered[After(step)]
<1>6. u \in Ue
  BY <1>1, <1>5 DEF n
<1>7. cursor' \in 1..(Cardinality(Ue) + 1)
  <2>1. After(step) \in Nat
    BY <1>1, <1>5
  <2>2. After(step) % n \in 0..(n - 1)
    BY <1>4, <2>1
  <2>3. cursor' = (After(step) % n) + 1
    BY <1>2 DEF NextCursor, n
  <2>4. QED
    BY <1>1, <2>2, <2>3, ConstantTypes
<1> HIDE DEF u
<1>8. queue' \in [Ue -> 0..MaxQueue]
  <2>1. queue' = [queue EXCEPT ![u] = queue[u] - 1] /\ queue[u] > 0
    BY <1>2 DEF u
  <2>2. queue[u] - 1 \in 0..MaxQueue
    BY <1>6, <2>1, ConstantTypes DEF TypeInv
  <2>3. QED
    BY <2>1, <2>2 DEF TypeInv
<1>9. PICK eff \in Granted \cup {NoSinr} :
        air' = [air EXCEPT ![Feeder] =
                  Append(@, [from |-> Gateway, pdu |-> StampDlDciTag(u, eff)])]
  BY <1>2 DEF SendDlPduForRnti, u
<1> DEFINE tx == [from |-> Gateway, pdu |-> StampDlDciTag(u, eff)]
<1>10. tx \in Transmission /\ tx.from = Gateway /\ ~tx.pdu.up /\ ~tx.pdu.ack
  BY <1>6, PdusAreTyped DEF StampDlDciTag, TypeInv
<1>11. air' = [air EXCEPT ![Feeder] = Append(@, tx)]
  BY <1>9
<1> HIDE DEF tx
<1>12. air' \in [Channel -> Sent]
  <2>1. Append(air[Feeder], tx) \in Sent
    BY <1>10, ConstantTypes, AppendProperties DEF TypeInv, Sent
  <2>2. QED
    BY <1>11, <2>1 DEF TypeInv
<1>13. UNCHANGED <<registered, ueBeam, ticking, camped, channel, phyErr, due, misjudged>>
  BY DEF ScheduleTick
<1>14. TypeInv'
  BY <1>7, <1>8, <1>12, <1>13 DEF TypeInv
<1>15. QED
  BY <1>10, <1>11, <1>13, <1>14

LEMMA SendUlType ==
  ASSUME TypeInv, NEW u \in Ue, SendUlPdu(u)
  PROVE  /\ TypeInv'
         /\ \E b \in Beam, tx \in Transmission :
              /\ tx.from = u /\ tx.pdu.up /\ ~tx.pdu.ack
              /\ tx.pdu.rnti = DataRnti(u)
              /\ air' = [air EXCEPT ![b] = Append(@, tx)]
         /\ UNCHANGED due
<1> DEFINE tx == [from |-> u, pdu |-> [rnti |-> DataRnti(u), ack |-> FALSE,
                                       eff |-> NoSinr, beam |-> 0, up |-> TRUE]]
           b == camped[u]
<1>1. tx \in Transmission
  BY PdusAreTyped
<1>2. tx.from = u /\ tx.pdu.up /\ ~tx.pdu.ack /\ tx.pdu.rnti = DataRnti(u)
  OBVIOUS
<1>3. b \in Beam /\ b \in Channel
  BY ConstantTypes DEF TypeInv
<1>4. air' = [air EXCEPT ![b] = Append(@, tx)]
  BY DEF SendUlPdu
<1> HIDE DEF tx, b
<1>5. air' \in [Channel -> Sent]
  <2>1. Append(air[b], tx) \in Sent
    BY <1>1, <1>3, AppendProperties DEF TypeInv, Sent
  <2>2. QED
    BY <1>4, <2>1 DEF TypeInv
<1>6. UNCHANGED <<registered, queue, ueBeam, cursor, ticking, camped, channel,
                  phyErr, due, misjudged>>
  BY DEF SendUlPdu, gateway
<1>7. TypeInv'
  BY <1>5, <1>6 DEF TypeInv
<1>8. QED
  BY <1>1, <1>2, <1>3, <1>4, <1>6, <1>7

(* What a step of the environment or of the queues leaves alone.           *)
LEMMA QuietType ==
  ASSUME TypeInv,
         \/ \E u \in Ue : EnqueueDlPdu(u)
         \/ StartScheduler \/ StopScheduler
         \/ \E u \in Ue, b \in Beam : Camp(u, b)
         \/ \E u \in Ue, sinr \in Sinr : Fade(u, sinr)
         \/ UNCHANGED vars
  PROVE  TypeInv' /\ UNCHANGED <<air, due>>
<1>1. ASSUME NEW u \in Ue, EnqueueDlPdu(u) PROVE TypeInv' /\ UNCHANGED <<air, due>>
  <2>1. queue[u] \in 0..MaxQueue /\ queue[u] < MaxQueue
    BY <1>1 DEF EnqueueDlPdu, TypeInv
  <2>2. queue[u] + 1 \in 0..MaxQueue
    BY <2>1, ConstantTypes
  <2>3. queue' \in [Ue -> 0..MaxQueue]
    BY <1>1, <2>2 DEF EnqueueDlPdu, TypeInv
  <2>4. QED
    BY <1>1, <2>3 DEF EnqueueDlPdu, TypeInv
<1>2. CASE StartScheduler \/ StopScheduler
  BY <1>2 DEF StartScheduler, StopScheduler, TypeInv
<1>3. ASSUME NEW u \in Ue, NEW b \in Beam, Camp(u, b)
      PROVE  TypeInv' /\ UNCHANGED <<air, due>>
  BY <1>3 DEF Camp, gateway, TypeInv
<1>4. ASSUME NEW u \in Ue, NEW sinr \in Sinr, Fade(u, sinr)
      PROVE  TypeInv' /\ UNCHANGED <<air, due>>
  BY <1>4 DEF Fade, gateway, TypeInv
<1>5. CASE UNCHANGED vars
  BY <1>5 DEF vars, TypeInv
<1>6. QED
  BY <1>1, <1>2, <1>3, <1>4, <1>5

LEMMA FeederType ==
  ASSUME TypeInv, ReceiveOnFeeder
  PROVE  LET tx == Head(air[Feeder]) IN
         /\ TypeInv'
         /\ air[Feeder] # <<>> /\ tx \in Transmission
         /\ air' = [c \in Channel |->
              IF c = Feeder THEN Tail(air[c])
              ELSE IF c \in RelayingDown(tx) THEN Append(air[c], Relay(tx)) ELSE air[c]]
         /\ due' = [u \in Ue |->
              due[u] + (IF u = tx.pdu.rnti /\ ~tx.pdu.up
                        THEN Cardinality(RelayingDown(tx)) ELSE 0)
                     - (IF u = tx.pdu.rnti /\ tx.from = Satellite /\ tx.pdu.ack
                        THEN 1 ELSE 0)]
<1> DEFINE tx == Head(air[Feeder])
<1>1. air[Feeder] # <<>> /\ air[Feeder] \in Sent
  BY ConstantTypes DEF ReceiveOnFeeder, TypeInv
<1>2. tx \in Transmission /\ Tail(air[Feeder]) \in Sent
  BY <1>1, HeadTailProperties DEF Sent
<1>3. /\ air' = [c \in Channel |->
           IF c = Feeder THEN Tail(air[c])
           ELSE IF c \in RelayingDown(tx) THEN Append(air[c], Relay(tx)) ELSE air[c]]
      /\ due' = [u \in Ue |->
           due[u] + (IF u = tx.pdu.rnti /\ ~tx.pdu.up
                     THEN Cardinality(RelayingDown(tx)) ELSE 0)
                  - (IF u = tx.pdu.rnti /\ tx.from = Satellite /\ tx.pdu.ack
                     THEN 1 ELSE 0)]
      /\ UNCHANGED <<gateway, camped, channel, phyErr, misjudged>>
  BY DEF ReceiveOnFeeder
<1> HIDE DEF tx
<1>4. \A c \in Channel : Append(air[c], Relay(tx)) \in Sent /\ air[c] \in Sent
  BY <1>2, RelayIsTyped, AppendProperties DEF TypeInv, Sent
<1>5. air' \in [Channel -> Sent]
  BY <1>2, <1>3, <1>4
<1>6. TypeInv'
  BY <1>3, <1>5 DEF TypeInv, gateway
<1>7. QED
  BY <1>1, <1>2, <1>3, <1>6 DEF tx

(* A PDU is judged by what the error model may be.                         *)
LEMMA JudgingType ==
  ASSUME TypeInv, NEW tx \in Transmission, NEW u \in Ue
  PROVE  Judging(u, tx.pdu) \in [sinr : Sinr \cup Granted \cup Injected \cup {DefaultDb},
                                 explicit : BOOLEAN]
<1>1. /\ phyErr[u] \in [sinr : Sinr \cup Granted \cup Injected \cup {DefaultDb},
                        explicit : BOOLEAN]
      /\ channel[u] \in Sinr
      /\ tx.pdu.eff \in Granted \cup {NoSinr}
  BY DEF TypeInv, Transmission, Pdu
<1>2. QED
  BY <1>1 DEF Judging, WithSinr

LEMMA UserType ==
  ASSUME TypeInv, NEW b \in Beam, ReceiveOnUser(b)
  PROVE  LET tx == Head(air[b]) IN
         /\ TypeInv'
         /\ air[b] # <<>> /\ tx \in Transmission
         /\ \E taken \in SUBSET {u \in Hearing(b, tx) : IsFor(u, tx.pdu)} :
              /\ air' = [air EXCEPT
                   ![b] = Tail(@) \o Acks(Acknowledging(taken)),
                   ![Feeder] = @ \o IF IsRelayed(tx) THEN <<Relay(tx)>> ELSE <<>>]
              /\ due' = [u \in Ue |->
                   IF tx.from = Satellite /\ ~tx.pdu.up /\ u = tx.pdu.rnti /\ u \notin taken
                   THEN due[u] - 1 ELSE due[u]]
<1> DEFINE tx == Head(air[b])
           hearing == {u \in Hearing(b, tx) : IsFor(u, tx.pdu)}
           up == IF IsRelayed(tx) THEN <<Relay(tx)>> ELSE <<>>
<1>1. air[b] # <<>> /\ air[b] \in Sent /\ b # Feeder /\ b \in Channel /\ Feeder \in Channel
      /\ air[Feeder] \in Sent
  BY ConstantTypes DEF ReceiveOnUser, TypeInv
<1>2. tx \in Transmission /\ Tail(air[b]) \in Sent
  BY <1>1, HeadTailProperties DEF Sent
<1>3. PICK taken \in SUBSET hearing :
        /\ air' = [air EXCEPT
             ![b] = Tail(@) \o Acks(Acknowledging(taken)),
             ![Feeder] = @ \o up]
        /\ due' = [u \in Ue |->
             IF tx.from = Satellite /\ ~tx.pdu.up /\ u = tx.pdu.rnti /\ u \notin taken
             THEN due[u] - 1 ELSE due[u]]
  BY DEF ReceiveOnUser, Acks
<1>4. /\ phyErr' = [u \in Ue |-> IF u \in hearing THEN Judging(u, tx.pdu) ELSE phyErr[u]]
      /\ misjudged' \in BOOLEAN
      /\ UNCHANGED <<gateway, camped, channel>>
  BY DEF ReceiveOnUser, TypeInv
<1>5. hearing \subseteq Ue
  BY DEF Hearing
<1> HIDE DEF tx, hearing
<1>6. phyErr' \in [Ue -> [sinr : Sinr \cup Granted \cup Injected \cup {DefaultDb},
                          explicit : BOOLEAN]]
  <2> DEFINE Models == [sinr : Sinr \cup Granted \cup Injected \cup {DefaultDb},
                        explicit : BOOLEAN]
  <2>1. \A u \in Ue : Judging(u, tx.pdu) \in Models /\ phyErr[u] \in Models
    BY <1>2, JudgingType DEF TypeInv
  <2> HIDE DEF Models
  <2>2. phyErr' \in [Ue -> Models]
    BY <1>4, <2>1
  <2>3. QED
    BY <2>2 DEF Models
<1>7. up \in Sent
  BY <1>2, RelayIsTyped DEF Sent
<1>8. Acks(Acknowledging(taken)) \in Sent
  <2>1. Acknowledging(taken) \in SUBSET Ue
    BY <1>5 DEF Acknowledging
  <2>2. QED
    BY <2>1, AcksAreTyped
<1> HIDE DEF up
<1>9. air' \in [Channel -> Sent]
  <2>1. /\ Tail(air[b]) \o Acks(Acknowledging(taken)) \in Sent
        /\ air[Feeder] \o up \in Sent
    BY <1>1, <1>2, <1>7, <1>8, ConcatProperties DEF Sent
  <2>2. QED
    BY <1>1, <1>3, <2>1 DEF TypeInv
<1>10. TypeInv'
  BY <1>4, <1>6, <1>9 DEF TypeInv, gateway
<1>11. QED
  BY <1>1, <1>2, <1>3, <1>10 DEF tx, up, hearing

LEMMA TypeStep == TypeInv /\ [Next]_vars => TypeInv'
<1> SUFFICES ASSUME TypeInv, [Next]_vars PROVE TypeInv'
  OBVIOUS
<1>1. QED
  BY AddUeType, TickType, SendUlType, QuietType, FeederType, UserType DEF Next

-----------------------------------------------------------------------------
(* Who sends what on which channel.                                        *)

(* On the feeder channel the gateway sends DL PDUs, and the satellite what *)
(* came up, ACKs of UEs with an RNTI among it.                             *)
FeederSent ==
  {tx \in Transmission :
     \/ tx.from = Gateway /\ ~tx.pdu.up /\ ~tx.pdu.ack
     \/ /\ tx.from = Satellite /\ tx.pdu.up
        /\ tx.pdu.ack => tx.pdu.rnti \in Ue \ Unassigned}

(* On a user channel the satellite sends DL PDUs, and UEs PDUs and ACKs    *)
(* under the RNTI they have, ACKs only once they have one.                 *)
UserSent ==
  {tx \in Transmission :
     \/ tx.from = Satellite /\ ~tx.pdu.up /\ ~tx.pdu.ack
     \/ /\ tx.from \in Ue /\ tx.pdu.up /\ tx.pdu.rnti = DataRnti(tx.from)
        /\ tx.pdu.ack => tx.from \notin Unassigned}

RoutedInv ==
  /\ air[Feeder] \in Seq(FeederSent)
  /\ \A b \in Beam : air[b] \in Seq(UserSent)

LEMMA RoutedIsOnce == RoutedInv => NothingIsRelayedTwice
<1> SUFFICES ASSUME RoutedInv PROVE NothingIsRelayedTwice
  OBVIOUS
<1>1. ASSUME NEW b \in Beam, NEW i \in DOMAIN air[b], air[b][i].from = Satellite
      PROVE  ~air[b][i].pdu.up
  <2>1. air[b][i] \in UserSent
    BY <1>1, ElementOfSeq, LenProperties DEF RoutedInv
  <2>2. QED
    BY <1>1, <2>1, SendersApart DEF UserSent
<1>2. ASSUME NEW i \in DOMAIN air[Feeder], air[Feeder][i].from = Satellite
      PROVE  air[Feeder][i].pdu.up
  <2>1. air[Feeder][i] \in FeederSent
    BY <1>2, ElementOfSeq, LenProperties DEF RoutedInv
  <2>2. QED
    BY <1>2, <2>1, SendersApart DEF FeederSent
<1>3. QED
  BY <1>1, <1>2 DEF NothingIsRelayedTwice

(* What the satellite relays belongs on the other side.                    *)
LEMMA RelayedDown ==
  ASSUME NEW tx \in FeederSent
  PROVE  /\ RelayingDown(tx) \in SUBSET Beam
         /\ RelayingDown(tx) # {} => Relay(tx) \in UserSent
<1>1. RelayingDown(tx) \in SUBSET Beam
  BY DEF RelayingDown
<1>2. ASSUME RelayingDown(tx) # {} PROVE Relay(tx) \in UserSent
  <2>1. tx.from # Satellite /\ tx \in Transmission
    BY <1>2 DEF RelayingDown, IsRelayed, FeederSent
  <2>2. ~tx.pdu.up /\ ~tx.pdu.ack
    BY <2>1 DEF FeederSent
  <2>3. QED
    BY <2>1, <2>2, RelayIsTyped DEF UserSent
<1>3. QED
  BY <1>1, <1>2

LEMMA RelayedUp ==
  ASSUME NEW tx \in UserSent, IsRelayed(tx)
  PROVE  Relay(tx) \in FeederSent
<1>1. /\ tx.from \in Ue /\ tx \in Transmission /\ tx.pdu.up
      /\ tx.pdu.rnti = DataRnti(tx.from)
      /\ tx.pdu.ack => tx.from \notin Unassigned
  BY DEF IsRelayed, UserSent
<1>2. tx.pdu.ack => tx.pdu.rnti \in Ue \ Unassigned
  BY <1>1 DEF DataRnti
<1>3. QED
  BY <1>1, <1>2, RelayIsTyped DEF FeederSent

LEMMA AcksAreUserSent ==
  ASSUME NEW taken \in SUBSET Ue
  PROVE  Acks(Acknowledging(taken)) \in Seq(UserSent)
<1> DEFINE A == Acknowledging(taken)
           acks == Acks(A)
<1>1. A \in SUBSET Ue /\ \A u \in A : u \notin Unassigned /\ DataRnti(u) = u
  BY DEF Acknowledging, DataRnti
<1>2. /\ acks \in Seq(Transmission)
      /\ \A i \in DOMAIN acks : \E u \in A : acks[i] = SendHarqAck(u)
  BY <1>1, AcksAreTyped DEF Sent
<1>3. \A u \in A : SendHarqAck(u) \in UserSent
  <2>1. ASSUME NEW u \in A PROVE SendHarqAck(u) \in UserSent
    <3>1. u \in Ue /\ u \notin Unassigned /\ DataRnti(u) = u
      BY <1>1
    <3>2. SendHarqAck(u) \in Transmission
      BY <3>1, PdusAreTyped
    <3>3. /\ SendHarqAck(u).from = u /\ SendHarqAck(u).pdu.up
          /\ SendHarqAck(u).pdu.rnti = u
      BY DEF SendHarqAck
    <3>4. QED
      BY <3>1, <3>2, <3>3 DEF UserSent
  <2>2. QED
    BY <2>1
<1> HIDE DEF acks, A
<1>4. DOMAIN acks = 1..Len(acks) /\ Len(acks) \in Nat
  BY <1>2, LenProperties
<1>5. \A i \in 1..Len(acks) : acks[i] \in UserSent
  BY <1>2, <1>3, <1>4
<1>6. acks \in [1..Len(acks) -> UserSent]
  BY <1>2, <1>4, <1>5, LenProperties
<1>7. acks \in Seq(UserSent)
  BY <1>4, <1>6, SeqDef
<1>8. QED
  BY <1>7 DEF acks, A

LEMMA RoutedStep == TypeInv /\ RoutedInv /\ [Next]_vars => RoutedInv'
<1> SUFFICES ASSUME TypeInv, RoutedInv, [Next]_vars PROVE RoutedInv'
  OBVIOUS
<1>0. /\ Feeder \in Channel /\ Feeder \notin Beam /\ Beam \subseteq Channel
      /\ air \in [Channel -> Sent]
  BY ConstantTypes DEF TypeInv
<1>1. CASE UNCHANGED air
  BY <1>1 DEF RoutedInv
<1>2. CASE ScheduleTick
  <2>1. PICK tx \in Transmission :
          /\ tx.from = Gateway /\ ~tx.pdu.up /\ ~tx.pdu.ack
          /\ air' = [air EXCEPT ![Feeder] = Append(@, tx)]
    BY <1>2, TickType
  <2>2. tx \in FeederSent
    BY <2>1 DEF FeederSent
  <2>3. Append(air[Feeder], tx) \in Seq(FeederSent)
    BY <2>2, AppendProperties DEF RoutedInv
  <2>4. QED
    BY <1>0, <2>1, <2>3 DEF RoutedInv
<1>3. ASSUME NEW u \in Ue, SendUlPdu(u) PROVE RoutedInv'
  <2>1. PICK b \in Beam, tx \in Transmission :
          /\ tx.from = u /\ tx.pdu.up /\ ~tx.pdu.ack
          /\ tx.pdu.rnti = DataRnti(u)
          /\ air' = [air EXCEPT ![b] = Append(@, tx)]
    BY <1>3, SendUlType
  <2>2. tx \in UserSent
    BY <2>1 DEF UserSent
  <2>3. Append(air[b], tx) \in Seq(UserSent)
    BY <2>2, AppendProperties DEF RoutedInv
  <2>4. QED
    BY <1>0, <2>1, <2>3 DEF RoutedInv
<1>4. CASE ReceiveOnFeeder
  <2> DEFINE tx == Head(air[Feeder])
  <2>1. /\ air[Feeder] # <<>>
        /\ air' = [c \in Channel |->
             IF c = Feeder THEN Tail(air[c])
             ELSE IF c \in RelayingDown(tx) THEN Append(air[c], Relay(tx)) ELSE air[c]]
    BY <1>4, FeederType
  <2>2. tx \in FeederSent /\ Tail(air[Feeder]) \in Seq(FeederSent)
    BY <2>1, HeadTailProperties DEF RoutedInv
  <2> HIDE DEF tx
  <2>3. air'[Feeder] = Tail(air[Feeder])
    BY <1>0, <2>1
  <2>4. ASSUME NEW b \in Beam PROVE air'[b] \in Seq(UserSent)
    <3>1. air'[b] = IF b \in RelayingDown(tx) THEN Append(air[b], Relay(tx)) ELSE air[b]
      BY <1>0, <2>1
    <3>2. air[b] \in Seq(UserSent)
      BY DEF RoutedInv
    <3>3. CASE b \in RelayingDown(tx)
      <4>1. Relay(tx) \in UserSent
        BY <2>2, <3>3, RelayedDown
      <4>2. Append(air[b], Relay(tx)) \in Seq(UserSent)
        BY <3>2, <4>1, AppendProperties
      <4>3. QED
        BY <3>1, <3>3, <4>2
    <3>4. QED
      BY <3>1, <3>2, <3>3
  <2>5. QED
    BY <2>2, <2>3, <2>4 DEF RoutedInv
<1>5. ASSUME NEW b \in Beam, ReceiveOnUser(b) PROVE RoutedInv'
  <2> DEFINE tx == Head(air[b])
             up == IF IsRelayed(tx) THEN <<Relay(tx)>> ELSE <<>>
  <2>1. air[b] # <<>>
    BY <1>5, UserType
  <2>2. PICK taken \in SUBSET {u \in Hearing(b, tx) : IsFor(u, tx.pdu)} :
          air' = [air EXCEPT ![b] = Tail(@) \o Acks(Acknowledging(taken)),
                             ![Feeder] = @ \o up]
    BY <1>5, UserType
  <2>3. tx \in UserSent /\ Tail(air[b]) \in Seq(UserSent)
    BY <2>1, HeadTailProperties DEF RoutedInv
  <2>4. taken \in SUBSET Ue
    BY DEF Hearing
  <2> HIDE DEF tx
  <2>5. Tail(air[b]) \o Acks(Acknowledging(taken)) \in Seq(UserSent)
    BY <2>3, <2>4, AcksAreUserSent, ConcatProperties
  <2>6. up \in Seq(FeederSent)
    <3>1. CASE IsRelayed(tx)
      <4>1. Relay(tx) \in FeederSent
        BY <2>3, <3>1, RelayedUp
      <4>2. QED
        BY <3>1, <4>1
    <3>2. CASE ~IsRelayed(tx)
      BY <3>2
    <3>3. QED
      BY <3>1, <3>2
  <2> HIDE DEF up
  <2>7. air[Feeder] \o up \in Seq(FeederSent)
    BY <2>6, ConcatProperties DEF RoutedInv
  <2>8. /\ air'[b] = Tail(air[b]) \o Acks(Acknowledging(taken))
        /\ air'[Feeder] = air[Feeder] \o up
        /\ \A c \in Beam \ {b} : air'[c] = air[c]
    BY <1>0, <2>2
  <2>9. QED
    BY <2>5, <2>7, <2>8 DEF RoutedInv
<1>6. ASSUME NEW u \in Ue, NEW b \in Beam \cup {0}, AddUe(u, b) PROVE RoutedInv'
  BY <1>1, <1>6 DEF AddUe
<1>7. QED
  BY <1>1, <1>2, <1>3, <1>4, <1>5, <1>6, QuietType DEF Next

-----------------------------------------------------------------------------
(* Copies sent, missed, acknowledged and under way.                        *)

(* What is under way for u, on the channels together.                      *)
Owed(on, u) == Total([c \in Channel |-> CountIn(on[c], u)], Channel)

DueInv ==
  /\ due \in [Ue -> Nat]
  /\ \A u \in Ue : /\ due[u] >= Owed(air, u)
                   /\ u \notin Unassigned => due[u] = Owed(air, u)

LEMMA OwedType ==
  ASSUME NEW on \in [Channel -> Sent], NEW u
  PROVE  Owed(on, u) \in Nat
<1>1. \A c \in Channel : CountIn(on[c], u) \in Nat
  BY CountType
<1>2. QED
  BY <1>1, ConstantTypes, TotalType DEF Owed

(* One channel changes.                                                    *)
LEMMA OwedChanged ==
  ASSUME NEW on \in [Channel -> Sent], NEW next \in [Channel -> Sent],
         NEW c \in Channel, \A d \in Channel \ {c} : next[d] = on[d], NEW u
  PROVE  /\ Owed(next, u) = Owed(on, u) - CountIn(on[c], u) + CountIn(next[c], u)
         /\ CountIn(on[c], u) <= Owed(on, u)
         /\ Owed(on, u) \in Nat /\ Owed(next, u) \in Nat
         /\ CountIn(on[c], u) \in Nat /\ CountIn(next[c], u) \in Nat
<1> DEFINE w == [d \in Channel |-> CountIn(on[d], u)]
           v == [d \in Channel |-> CountIn(next[d], u)]
<1>1. \A d \in Channel : w[d] \in Nat /\ v[d] \in Nat
  BY CountType
<1>2. \A d \in Channel \ {c} : v[d] = w[d]
  OBVIOUS
<1>3. w[c] = CountIn(on[c], u) /\ v[c] = CountIn(next[c], u)
  OBVIOUS
<1>4. Owed(on, u) = Total(w, Channel) /\ Owed(next, u) = Total(v, Channel)
  BY DEF Owed
<1> HIDE DEF w, v
<1>5. Total(v, Channel) = Total(w, Channel) - w[c] + v[c] /\ w[c] <= Total(w, Channel)
  BY <1>1, <1>2, ConstantTypes, TotalChanged
<1>6. QED
  BY <1>1, <1>3, <1>4, <1>5, OwedType

LEMMA OwedRaised ==
  ASSUME NEW on \in [Channel -> Sent], NEW next \in [Channel -> Sent],
         NEW down \in SUBSET Channel, NEW u,
         \A c \in Channel :
           CountIn(next[c], u) = CountIn(on[c], u) + IF c \in down THEN 1 ELSE 0
  PROVE  Owed(next, u) = Owed(on, u) + Cardinality(down)
<1> DEFINE w == [d \in Channel |-> CountIn(on[d], u)]
           v == [d \in Channel |-> CountIn(next[d], u)]
<1>1. \A d \in Channel : w[d] \in Nat
  BY CountType
<1>2. \A d \in Channel : v[d] = w[d] + IF d \in down THEN 1 ELSE 0
  OBVIOUS
<1>3. Owed(on, u) = Total(w, Channel) /\ Owed(next, u) = Total(v, Channel)
  BY DEF Owed
<1> HIDE DEF w, v
<1>4. QED
  BY <1>1, <1>2, <1>3, ConstantTypes, TotalRaised

LEMMA OwedSame ==
  ASSUME NEW on, NEW next, NEW u,
         \A c \in Channel : CountIn(next[c], u) = CountIn(on[c], u)
  PROVE  Owed(next, u) = Owed(on, u)
BY TotalSame DEF Owed

(* What does not count is sent.                                            *)
LEMMA DueUncounted ==
  ASSUME TypeInv, DueInv, NEW c \in Channel, NEW tx \in Transmission,
         ~tx.pdu.ack, tx.from # Satellite,
         air' = [air EXCEPT ![c] = Append(@, tx)], UNCHANGED due
  PROVE  DueInv'
<1>1. ASSUME NEW u, NEW d \in Channel
      PROVE  CountIn(air'[d], u) = CountIn(air[d], u)
  <2>1. CASE d = c
    <3>1. air[c] \in Sent /\ air'[c] = Append(air[c], tx) /\ ~CountsFor(tx, u)
      BY DEF TypeInv, CountsFor
    <3>2. QED
      BY <2>1, <3>1, CountAppend, CountType
  <2>2. CASE d # c
    BY <2>2 DEF TypeInv
  <2>3. QED
    BY <2>1, <2>2
<1>2. \A u : Owed(air', u) = Owed(air, u)
  BY <1>1, OwedSame
<1>3. QED
  BY <1>2 DEF DueInv

LEMMA DueFeeder ==
  ASSUME TypeInv, TypeInv', RoutedInv, DueInv, ReceiveOnFeeder
  PROVE  DueInv'
<1> DEFINE tx == Head(air[Feeder])
           down == RelayingDown(tx)
           mid == [air EXCEPT ![Feeder] = Tail(@)]
           more(u) == IF u = tx.pdu.rnti /\ ~tx.pdu.up THEN Cardinality(down) ELSE 0
           less(u) == IF u = tx.pdu.rnti /\ tx.from = Satellite /\ tx.pdu.ack THEN 1 ELSE 0
<1>1. /\ air[Feeder] # <<>> /\ tx \in Transmission
      /\ air' = [c \in Channel |->
           IF c = Feeder THEN Tail(air[c])
           ELSE IF c \in down THEN Append(air[c], Relay(tx)) ELSE air[c]]
      /\ due' = [u \in Ue |-> due[u] + more(u) - less(u)]
  BY FeederType
<1>2. /\ air \in [Channel -> Sent] /\ air' \in [Channel -> Sent]
      /\ Feeder \in Channel /\ Feeder \notin Beam /\ Beam \subseteq Channel
  BY ConstantTypes DEF TypeInv
<1>3. tx \in FeederSent /\ down \in SUBSET Beam
  <2>1. tx \in FeederSent
    BY <1>1, HeadTailProperties DEF RoutedInv
  <2>2. QED
    BY <2>1, RelayedDown
<1>4. tx.from = Satellite => down = {}
  BY DEF RelayingDown, IsRelayed
<1>5. /\ mid \in [Channel -> Sent] /\ mid[Feeder] = Tail(air[Feeder])
      /\ \A c \in Channel \ {Feeder} : mid[c] = air[c]
      /\ Tail(air[Feeder]) \in Sent
  BY <1>1, <1>2, CountTail
<1>6. Cardinality(down) \in Nat /\ Cardinality({}) = 0
  BY <1>3, ConstantTypes, FS_Subset, FS_CardinalityType, FS_EmptySet
<1> HIDE DEF tx, down, mid
<1>7. ASSUME NEW u \in Ue
      PROVE  /\ Owed(mid, u) = Owed(air, u) - less(u)
             /\ less(u) <= Owed(air, u)
             /\ Owed(air, u) \in Nat /\ less(u) \in {0, 1}
  <2>1. CountsFor(tx, u) <=> (u = tx.pdu.rnti /\ tx.from = Satellite /\ tx.pdu.ack)
    BY <1>3, SendersApart DEF FeederSent, CountsFor
  <2>2. CountIn(air[Feeder], u) = CountIn(Tail(air[Feeder]), u) + less(u)
    <3>1. CountIn(air[Feeder], u) =
            CountIn(Tail(air[Feeder]), u) + IF CountsFor(tx, u) THEN 1 ELSE 0
      BY <1>1, <1>2, CountTail DEF tx
    <3>2. QED
      BY <2>1, <3>1
  <2>3. /\ Owed(mid, u) = Owed(air, u) - CountIn(air[Feeder], u) + CountIn(mid[Feeder], u)
        /\ CountIn(air[Feeder], u) <= Owed(air, u)
        /\ Owed(air, u) \in Nat /\ Owed(mid, u) \in Nat
        /\ CountIn(air[Feeder], u) \in Nat /\ CountIn(mid[Feeder], u) \in Nat
    <3>1. /\ air \in [Channel -> Sent] /\ mid \in [Channel -> Sent] /\ Feeder \in Channel
          /\ \A c \in Channel \ {Feeder} : mid[c] = air[c]
      BY <1>2, <1>5
    <3> HIDE DEF less, more
    <3>2. QED
      BY <3>1, OwedChanged, SMTT(30)
  <2>4. less(u) \in {0, 1}
    OBVIOUS
  <2> HIDE DEF less
  <2>5. QED
    BY <1>5, <2>2, <2>3, <2>4
<1>8. ASSUME NEW u \in Ue
      PROVE  Owed(air', u) = Owed(mid, u) + more(u)
  <2>1. CASE u = tx.pdu.rnti /\ ~tx.pdu.up
    <3>1. CountsFor(Relay(tx), u)
      BY <1>1, <2>1, RelayIsTyped DEF CountsFor
    <3>2. ASSUME NEW c \in Channel
          PROVE  CountIn(air'[c], u) = CountIn(mid[c], u) + IF c \in down THEN 1 ELSE 0
      <4>1. CASE c = Feeder
        <5>1. air'[c] = mid[c] /\ c \notin down /\ CountIn(mid[c], u) \in Nat
          BY <1>1, <1>2, <1>3, <1>5, <4>1, CountType
        <5>2. QED
          BY <5>1
      <4>2. CASE c # Feeder /\ c \in down
        <5>1. air'[c] = Append(mid[c], Relay(tx)) /\ mid[c] \in Sent
          BY <1>1, <1>5, <4>2
        <5>2. QED
          BY <1>1, <3>1, <4>2, <5>1, CountAppend, RelayIsTyped
      <4>3. CASE c # Feeder /\ c \notin down
        <5>1. air'[c] = mid[c] /\ CountIn(mid[c], u) \in Nat
          BY <1>1, <1>5, <4>3, CountType
        <5>2. QED
          BY <4>3, <5>1
      <4>4. QED
        BY <4>1, <4>2, <4>3
    <3>3. down \in SUBSET Channel
      BY <1>2, <1>3
    <3>4. Owed(air', u) = Owed(mid, u) + Cardinality(down)
      BY <1>2, <1>5, <3>2, <3>3, OwedRaised
    <3>5. QED
      BY <2>1, <3>4
  <2>2. CASE ~(u = tx.pdu.rnti /\ ~tx.pdu.up)
    <3>1. down # {} => ~CountsFor(Relay(tx), u)
      <4>1. down # {} => ~tx.pdu.ack /\ ~tx.pdu.up
        BY <1>3, <1>4 DEF FeederSent
      <4>2. QED
        BY <1>1, <2>2, <4>1, RelayIsTyped DEF CountsFor
    <3>2. ASSUME NEW c \in Channel
          PROVE  CountIn(air'[c], u) = CountIn(mid[c], u)
      <4>1. CASE c = Feeder \/ c \notin down
        BY <1>1, <1>5, <4>1
      <4>2. CASE c # Feeder /\ c \in down
        <5>1. air'[c] = Append(mid[c], Relay(tx)) /\ mid[c] \in Sent
          BY <1>1, <1>5, <4>2
        <5>2. CountIn(mid[c], u) \in Nat
          BY <5>1, CountType
        <5>3. Relay(tx) \in Transmission /\ ~CountsFor(Relay(tx), u)
          BY <1>1, <3>1, <4>2, RelayIsTyped
        <5>4. QED
          BY <5>1, <5>2, <5>3, CountAppend
      <4>3. QED
        BY <4>1, <4>2
    <3>3. Owed(air', u) = Owed(mid, u)
      BY <3>2, OwedSame
    <3>4. Owed(mid, u) \in Nat
      BY <1>5, OwedType
    <3>5. QED
      BY <2>2, <3>3, <3>4
  <2>3. QED
    BY <2>1, <2>2
<1>9. ASSUME NEW u \in Ue
      PROVE  /\ due'[u] \in Nat /\ due'[u] >= Owed(air', u)
             /\ u \notin Unassigned => due'[u] = Owed(air', u)
  <2>1. due'[u] = due[u] + more(u) - less(u) /\ more(u) \in Nat
    BY <1>1, <1>6
  <2>2. /\ due[u] \in Nat /\ due[u] >= Owed(air, u)
        /\ u \notin Unassigned => due[u] = Owed(air, u)
    BY DEF DueInv
  <2>3. Owed(air', u) = Owed(air, u) - less(u) + more(u)
    BY <1>7, <1>8
  <2>4. less(u) <= Owed(air, u) /\ Owed(air, u) \in Nat /\ less(u) \in Nat
    BY <1>7
  <2> HIDE DEF less, more
  <2>5. QED
    BY <2>1, <2>2, <2>3, <2>4
<1>10. QED
  BY <1>1, <1>9 DEF DueInv

LEMMA DueUser ==
  ASSUME TypeInv, TypeInv', RoutedInv, DueInv, NEW b \in Beam, ReceiveOnUser(b)
  PROVE  DueInv'
<1> DEFINE tx == Head(air[b])
           hearing == {u \in Hearing(b, tx) : IsFor(u, tx.pdu)}
           up == IF IsRelayed(tx) THEN <<Relay(tx)>> ELSE <<>>
<1>1. /\ air[b] # <<>> /\ tx \in Transmission
  BY UserType
<1>2. PICK taken \in SUBSET hearing :
        /\ air' = [air EXCEPT ![b] = Tail(@) \o Acks(Acknowledging(taken)),
                              ![Feeder] = @ \o up]
        /\ due' = [u \in Ue |->
             IF tx.from = Satellite /\ ~tx.pdu.up /\ u = tx.pdu.rnti /\ u \notin taken
             THEN due[u] - 1 ELSE due[u]]
  BY UserType
<1> DEFINE A == Acknowledging(taken)
           mid == [air EXCEPT ![b] = Tail(@) \o Acks(A)]
<1>3. /\ air \in [Channel -> Sent] /\ air' \in [Channel -> Sent]
      /\ Feeder \in Channel /\ b \in Channel /\ b # Feeder
      /\ air[b] \in Sent /\ air[Feeder] \in Sent
  BY ConstantTypes DEF TypeInv
<1>4. tx \in UserSent
  BY <1>1, HeadTailProperties DEF RoutedInv
<1>5. /\ A \in SUBSET Ue /\ A \subseteq taken
      /\ \A u \in Ue : u \in A <=> u \in taken /\ u \notin Unassigned
      /\ \A u \in A : u \notin Unassigned /\ u # tx.from /\ u = tx.pdu.rnti
  <2>1. taken \subseteq Ue /\ \A u \in taken : u # tx.from /\ DataRnti(u) \in {0, tx.pdu.rnti}
    BY DEF Hearing, IsFor
  <2>2. \A u \in Ue : DataRnti(u) = IF u \in Unassigned THEN 0 ELSE u
    BY DEF DataRnti
  <2>3. 0 \notin Ue
    BY ConstantTypes
  <2> HIDE DEF tx, hearing
  <2>4. \A u \in Ue : u \in A <=> u \in taken /\ u \notin Unassigned
    BY <2>1, <2>2, <2>3 DEF Acknowledging
  <2>5. A \in SUBSET Ue /\ A \subseteq taken
    BY <2>1 DEF Acknowledging
  <2> HIDE DEF A
  <2>6. QED
    BY <2>1, <2>2, <2>3, <2>4, <2>5
<1> HIDE DEF hearing, A
<1>6. /\ Acks(A) \in Sent
      /\ \A u \in Ue : CountIn(Acks(A), u) = IF u \in A THEN 1 ELSE 0
  BY <1>5, AcksAreTyped
<1>7. up \in Sent
  BY <1>1, RelayIsTyped DEF Sent
<1>8. Tail(air[b]) \in Sent /\ Tail(air[b]) \o Acks(A) \in Sent
  <2>1. Tail(air[b]) \in Sent
    BY <1>1, <1>3, CountTail
  <2>2. QED
    BY <2>1, <1>6, ConcatProperties DEF Sent
<1>9. /\ mid \in [Channel -> Sent] /\ mid[b] = Tail(air[b]) \o Acks(A)
      /\ \A c \in Channel \ {b} : mid[c] = air[c]
  BY <1>3, <1>8
<1>10. /\ air'[Feeder] = mid[Feeder] \o up
       /\ \A c \in Channel \ {Feeder} : air'[c] = mid[c]
  BY <1>2, <1>3 DEF A
<1> DEFINE gone(u) == IF CountsFor(tx, u) THEN 1 ELSE 0
           acked(u) == IF u \in A THEN 1 ELSE 0
           passed(u) == CountIn(up, u)
<1>11. \A u : CountIn(up, u) = IF IsRelayed(tx) /\ CountsFor(Relay(tx), u) THEN 1 ELSE 0
  BY CountOne, CountEmpty
<1> HIDE DEF tx, up, mid
<1>12. ASSUME NEW u \in Ue
       PROVE  /\ Owed(mid, u) = Owed(air, u) - gone(u) + acked(u)
              /\ gone(u) <= Owed(air, u) /\ Owed(air, u) \in Nat
              /\ Owed(mid, u) \in Nat
  <2>1. CountIn(air[b], u) = CountIn(Tail(air[b]), u) + gone(u)
    BY <1>1, <1>3, CountTail DEF tx
  <2>2. CountIn(mid[b], u) = CountIn(Tail(air[b]), u) + acked(u)
    BY <1>6, <1>8, <1>9, CountConcat
  <2>3. CountIn(Tail(air[b]), u) \in Nat
    BY <1>8, CountType
  <2>4. gone(u) \in {0, 1} /\ acked(u) \in {0, 1}
    OBVIOUS
  <2> HIDE DEF gone, acked, passed
  <2>5. /\ Owed(mid, u) = Owed(air, u) - CountIn(air[b], u) + CountIn(mid[b], u)
        /\ CountIn(air[b], u) <= Owed(air, u)
        /\ Owed(air, u) \in Nat /\ Owed(mid, u) \in Nat
    <3>1. /\ air \in [Channel -> Sent] /\ mid \in [Channel -> Sent] /\ b \in Channel
          /\ \A c \in Channel \ {b} : mid[c] = air[c]
      BY <1>3, <1>9
    <3>2. QED
      BY <3>1, OwedChanged, SMTT(30)
  <2>6. QED
    BY <2>1, <2>2, <2>3, <2>4, <2>5
<1>13. ASSUME NEW u \in Ue
       PROVE  /\ Owed(air', u) = Owed(mid, u) + passed(u)
              /\ Owed(air', u) \in Nat
  <2>1. mid[Feeder] \in Sent
    BY <1>3, <1>9
  <2>2. CountIn(air'[Feeder], u) = CountIn(mid[Feeder], u) + passed(u)
    BY <1>7, <1>10, <2>1, CountConcat
  <2>3. CountIn(mid[Feeder], u) \in Nat /\ passed(u) \in Nat
    BY <1>7, <2>1, CountType
  <2> HIDE DEF gone, acked, passed
  <2>4. /\ Owed(air', u) = Owed(mid, u) - CountIn(mid[Feeder], u) + CountIn(air'[Feeder], u)
        /\ Owed(mid, u) \in Nat /\ Owed(air', u) \in Nat
    <3>1. /\ air' \in [Channel -> Sent] /\ mid \in [Channel -> Sent] /\ Feeder \in Channel
          /\ \A c \in Channel \ {Feeder} : air'[c] = mid[c]
      BY <1>3, <1>9, <1>10
    <3>2. QED
      BY <3>1, OwedChanged, SMTT(30)
  <2>5. QED
    BY <2>2, <2>3, <2>4
<1>14. ASSUME NEW u \in Ue
       PROVE  /\ due'[u] \in Nat /\ due'[u] >= Owed(air', u)
              /\ u \notin Unassigned => due'[u] = Owed(air', u)
  <2>1. /\ due[u] \in Nat /\ due[u] >= Owed(air, u)
        /\ u \notin Unassigned => due[u] = Owed(air, u)
    BY DEF DueInv
  <2>2. Owed(air', u) = Owed(air, u) - gone(u) + acked(u) + passed(u)
    BY <1>12, <1>13
  <2>3. gone(u) <= Owed(air, u) /\ Owed(air, u) \in Nat /\ Owed(air', u) \in Nat
    BY <1>12, <1>13
  <2>4. CASE tx.from = Satellite
    <3>1. /\ ~tx.pdu.up /\ ~tx.pdu.ack /\ ~IsRelayed(tx)
          /\ gone(u) = IF u = tx.pdu.rnti THEN 1 ELSE 0
      BY <1>4, <2>4, SendersApart DEF UserSent, IsRelayed, CountsFor
    <3>2. passed(u) = 0
      BY <1>11, <3>1
    <3>3. due'[u] = IF u = tx.pdu.rnti /\ u \notin taken THEN due[u] - 1 ELSE due[u]
      BY <1>2, <2>4, <3>1
    <3>4. acked(u) = IF u \in taken /\ u \notin Unassigned THEN 1 ELSE 0
      BY <1>5
    <3>5. acked(u) = 1 => u = tx.pdu.rnti
      BY <1>5
    <3>6. gone(u) \in {0, 1} /\ acked(u) \in {0, 1}
      OBVIOUS
    <3> HIDE DEF gone, acked, passed
    <3>7. CASE u = tx.pdu.rnti /\ u \notin taken
      BY <2>1, <2>2, <2>3, <3>1, <3>2, <3>3, <3>4, <3>7
    <3>8. CASE u = tx.pdu.rnti /\ u \in taken
      BY <2>1, <2>2, <2>3, <3>1, <3>2, <3>3, <3>4, <3>8
    <3>9. CASE u # tx.pdu.rnti
      BY <2>1, <2>2, <2>3, <3>1, <3>2, <3>3, <3>5, <3>6, <3>9
    <3>10. QED
      BY <3>7, <3>8, <3>9
  <2>5. CASE tx.from # Satellite
    <3>1. /\ tx.from \in Ue /\ tx.pdu.up /\ tx.pdu.rnti = DataRnti(tx.from)
          /\ IsRelayed(tx)
      BY <1>4, <2>5 DEF UserSent, IsRelayed
    <3>2. u \notin A
      <4>1. SUFFICES ASSUME u \in A PROVE FALSE
        OBVIOUS
      <4>2. u \notin Unassigned /\ u # tx.from /\ u = DataRnti(tx.from)
        BY <1>5, <3>1, <4>1
      <4>3. QED
        BY <4>2, ConstantTypes DEF DataRnti
    <3>3. CountsFor(Relay(tx), u) <=> CountsFor(tx, u)
      BY <1>1, <3>1, RelayIsTyped DEF CountsFor
    <3>4. passed(u) = gone(u)
      BY <1>11, <3>1, <3>3
    <3>5. due'[u] = due[u]
      BY <1>2, <2>5
    <3>6. acked(u) = 0 /\ gone(u) \in {0, 1}
      BY <3>2
    <3> HIDE DEF gone, acked, passed
    <3>7. QED
      BY <2>1, <2>2, <2>3, <3>4, <3>5, <3>6
  <2>6. QED
    BY <2>4, <2>5
<1>15. due' \in [Ue -> Nat]
  BY <1>2, <1>14
<1>16. QED
  BY <1>14, <1>15 DEF DueInv

LEMMA DueStep == TypeInv /\ RoutedInv /\ DueInv /\ [Next]_vars => DueInv'
<1> SUFFICES ASSUME TypeInv, RoutedInv, DueInv, [Next]_vars PROVE DueInv'
  OBVIOUS
<1>0. TypeInv' /\ Beam \subseteq Channel /\ Feeder \in Channel
  BY TypeStep, ConstantTypes
<1>1. CASE UNCHANGED <<air, due>>
  BY <1>1 DEF DueInv
<1>2. CASE ScheduleTick
  <2>1. UNCHANGED due
    BY <1>2, TickType
  <2>2. PICK tx \in Transmission :
          /\ tx.from = Gateway /\ ~tx.pdu.ack
          /\ air' = [air EXCEPT ![Feeder] = Append(@, tx)]
    BY <1>2, TickType
  <2>3. QED
    BY <1>0, <2>1, <2>2, DueUncounted, SendersApart
<1>3. ASSUME NEW u \in Ue, SendUlPdu(u) PROVE DueInv'
  <2>1. UNCHANGED due
    BY <1>3, SendUlType
  <2>2. PICK b \in Beam, tx \in Transmission :
          /\ tx.from = u /\ ~tx.pdu.ack
          /\ air' = [air EXCEPT ![b] = Append(@, tx)]
    BY <1>3, SendUlType
  <2>3. QED
    BY <1>0, <2>1, <2>2, DueUncounted, SendersApart
<1>4. ASSUME NEW u \in Ue, NEW b \in Beam \cup {0}, AddUe(u, b) PROVE DueInv'
  BY <1>1, <1>4 DEF AddUe
<1>5. QED
  BY <1>0, <1>1, <1>2, <1>3, <1>4, DueFeeder, DueUser, QuietType DEF Next

-----------------------------------------------------------------------------
(* The sum over the channels is what is under way.                         *)

(* The equation that the sum is defined by, for the sets of channels.      *)
PendingStep(u, f, s) ==
  IF s = {} THEN 0
  ELSE LET c == CHOOSE c \in s : TRUE IN Pending(c, u) + f[s \ {c}]

LEMMA SumUnfolded ==
  ASSUME NEW u
  PROVE  MapThenSumSet(LAMBDA c : Pending(c, u), Channel) =
         LET f[s \in SUBSET Channel] == PendingStep(u, f, s) IN f[Channel]
BY DEF MapThenSumSet, MapThenFoldSet, PendingStep

LEMMA PendingIsCount ==
  ASSUME NEW c \in Channel, NEW u
  PROVE  Pending(c, u) = CountIn(air[c], u)
<1>1. Marks(air[c], u) =
        {i \in DOMAIN air[c] :
           LET tx == air[c][i] IN
           /\ tx.pdu.rnti = u
           /\ tx.pdu.ack \/ (tx.from = Satellite /\ ~tx.pdu.up)}
  BY DEF Marks, CountsFor
<1>2. QED
  BY <1>1 DEF CountIn, Pending

(* The total solves it, and nothing else does.                             *)
LEMMA SumIsOwed ==
  ASSUME TypeInv, NEW u
  PROVE  MapThenSumSet(LAMBDA c : Pending(c, u), Channel) = Owed(air, u)
<1> DEFINE w == [c \in Channel |-> CountIn(air[c], u)]
           total == [s \in SUBSET Channel |-> Total(w, s)]
           f == CHOOSE f : f = [s \in SUBSET Channel |-> PendingStep(u, f, s)]
           T == {s \in SUBSET Channel : f[s] = total[s]}
<1>1. \A c \in Channel : w[c] \in Nat /\ Pending(c, u) = w[c]
  BY CountType, PendingIsCount DEF TypeInv
<1> HIDE DEF w
<1>2. ASSUME NEW s \in SUBSET Channel, NEW h,
             s # {} => h[s \ {CHOOSE c \in s : TRUE}] = total[s \ {CHOOSE c \in s : TRUE}]
      PROVE  PendingStep(u, h, s) = total[s]
  <2>1. CASE s = {}
    BY <2>1, TotalNone DEF PendingStep
  <2>2. CASE s # {}
    <3> DEFINE c == CHOOSE c \in s : TRUE
               rest == s \ {c}
    <3>1. c \in s
      BY <2>2
    <3>2. PendingStep(u, h, s) = Pending(c, u) + h[rest]
      BY <2>2 DEF PendingStep
    <3>3. h[rest] = total[rest]
      BY <1>2, <2>2
    <3> HIDE DEF c
    <3>4. rest \in SUBSET Channel /\ c \notin rest /\ s = rest \cup {c} /\ c \in Channel
      BY <3>1
    <3>5. IsFiniteSet(rest)
      BY <3>4, ConstantTypes, FS_Subset
    <3> HIDE DEF rest
    <3>6. \A x \in rest \cup {c} : w[x] \in Nat
      BY <1>1, <3>4
    <3>7. Total(w, rest \cup {c}) = Total(w, rest) + w[c] /\ Total(w, rest) \in Nat
      BY <3>4, <3>5, <3>6, TotalMore, TotalType
    <3>8. Pending(c, u) = w[c] /\ w[c] \in Nat
      BY <1>1, <3>4
    <3>9. total[s] = Total(w, rest) + w[c]
      BY <3>4, <3>7
    <3>10. h[rest] = Total(w, rest)
      BY <3>3, <3>4
    <3>11. QED
      BY <3>2, <3>7, <3>8, <3>9, <3>10
  <2>3. QED
    BY <2>1, <2>2
<1>3. total = [s \in SUBSET Channel |-> PendingStep(u, total, s)]
  <2>1. \A s \in SUBSET Channel : PendingStep(u, total, s) = total[s]
    BY <1>2
  <2>2. QED
    BY <2>1
<1>4. f = [s \in SUBSET Channel |-> PendingStep(u, f, s)]
  <2> HIDE DEF total
  <2>1. QED
    BY <1>3
<1>5. MapThenSumSet(LAMBDA c : Pending(c, u), Channel) = f[Channel]
  BY SumUnfolded
<1> HIDE DEF f, total
<1>6. {} \in T
  BY <1>2, <1>4
<1>7. ASSUME NEW s \in SUBSET Channel, s # {}, \A c \in s : s \ {c} \in T
      PROVE  s \in T
  <2>1. f[s \ {CHOOSE c \in s : TRUE}] = total[s \ {CHOOSE c \in s : TRUE}]
    BY <1>7
  <2>2. QED
    BY <1>2, <1>4, <2>1
<1>8. Channel \in T
  <2> HIDE DEF T
  <2>1. QED
    BY <1>6, <1>7, ConstantTypes, SubsetInduction
<1>9. QED
  BY <1>5, <1>8 DEF total, w, Owed

LEMMA DueInit == Init => TypeInv /\ RoutedInv /\ DueInv
<1> SUFFICES ASSUME Init PROVE RoutedInv /\ DueInv
  BY TypeInit
<1>1. \A c \in Channel : air[c] = <<>>
  BY DEF Init
<1>2. RoutedInv
  BY <1>1, ConstantTypes, EmptySeq DEF RoutedInv
<1>3. ASSUME NEW u \in Ue PROVE Owed(air, u) = 0
  <2> DEFINE w == [c \in Channel |-> CountIn(air[c], u)]
  <2>1. \A c \in Channel : w[c] = 0
    BY <1>1, CountEmpty
  <2> HIDE DEF w
  <2>2. Pairs(w, Channel) = {}
    <3>1. 1..0 = {}
      OBVIOUS
    <3>2. QED
      BY <2>1, <3>1 DEF Pairs
  <2>3. QED
    BY <2>2, FS_EmptySet DEF Owed, Total, w
<1>4. QED
  BY <1>2, <1>3 DEF Init, DueInv

LEMMA InvariantCorrect == Spec => [](TypeInv /\ RoutedInv /\ DueInv)
<1>1. QED
  BY DueInit, TypeStep, RoutedStep, DueStep, PTL DEF Spec

(* The gateway MAC, the satellite and the UEs are well typed.              *)
THEOREM TypeCorrect == Spec => []TypeOK
<1>1. TypeInv /\ DueInv => TypeOK
  <2> SUFFICES ASSUME TypeInv, DueInv PROVE TypeOK
    OBVIOUS
  <2>1. Range(registered) \subseteq Ue
    BY RangeOfSeq DEF TypeInv
  <2>2. \A c \in Channel : Range(air[c]) \subseteq Transmission
    BY RangeOfSeq DEF TypeInv, Sent
  <2>3. QED
    BY <2>1, <2>2 DEF TypeInv, DueInv, TypeOK
<1>2. QED
  BY <1>1, InvariantCorrect, PTL

(* The gateway's count of ACKs goes up once for each copy that the UE took *)
(* and for nothing else: what was sent down to it and not missed is on its *)
(* way, or its ACK is.                                                     *)
THEOREM AcksAreEarnedCorrect == Spec => []AcksAreEarned
<1>1. TypeInv /\ DueInv => AcksAreEarned
  BY SumIsOwed DEF DueInv, AcksAreEarned
<1>2. QED
  BY <1>1, InvariantCorrect, PTL

(* Nothing that the satellite has relayed is relayed by it again: what it  *)
(* sends on the feeder came up from a UE, what it sends to a beam came     *)
(* down from the gateway.                                                  *)
THEOREM NothingIsRelayedTwiceCorrect == Spec => []NothingIsRelayedTwice
<1>1. QED
  BY InvariantCorrect, RoutedIsOnce, PTL
=============================================================================
