--------------------------- MODULE Uplink_proofs ---------------------------
(***************************************************************************)
(* Proofs about the uplink of a beam (Uplink), for every number of UEs,    *)
(* blocks and messages: its types, that grants are sound and that the      *)
(* gateway's picture of a UE settles.                                      *)
(*                                                                         *)
(* A run of the scheduler is a fold over the UEs, inside one step.  What   *)
(* such a run keeps is the set Sound(base): the account of the beam, the   *)
(* picture of each UE and the silence of those of which nothing was heard. *)
(* Each UE's turn stays in that set, hence, by an induction over the sets  *)
(* of indices on which FoldLeft is defined, the whole run does.            *)
(*                                                                         *)
(* What follows a grant (LinkControl) is at the end: its ledger is sound.  *)
(***************************************************************************)
EXTENDS Uplink, LinkControl, FiniteSetTheorems, SequenceTheorems, WellFoundedInduction, TLAPS

-----------------------------------------------------------------------------
(* Blocks and bytes.                                                       *)

LEMMA ConstantTypes ==
  /\ BudgetRbs \in Nat /\ SpsRegionRbs \in Nat /\ OverbookPercent \in Nat
  /\ SpsClassRbs \in Nat \ {0} /\ SpsPeriod \in Nat \ {0} /\ ReleaseAfter \in Nat \ {0}
  /\ BytesPerRb \in Nat \ {0} /\ SrGrantRbs \in Nat \ {0} /\ PowerRbs \in Nat \ {0}
  /\ MaxBytes \in Nat \ {0} /\ MaxUp \in Nat \ {0} /\ MaxDown \in Nat \ {0}
  /\ MaxCalls \in Nat \ {0}
  /\ IsFiniteSet(Ue) /\ SpsUe \subseteq Ue /\ SpsUe \cap Normal = {}
  BY ResourceAssumption, UplinkAssumption DEF Ue, SpsUe

LEMMA SmallerType ==
  ASSUME NEW a \in Nat, NEW b \in Nat
  PROVE  /\ Smaller(a, b) \in Nat /\ Smaller(a, b) <= a /\ Smaller(a, b) <= b
         /\ Smaller(a, b) \in {a, b}
  BY DEF Smaller

(* So many blocks carry so many bytes, and one block less does not.        *)
LEMMA BlocksForBytes ==
  ASSUME NEW bytes \in Nat
  PROVE  LET q == (bytes + BytesPerRb - 1) \div BytesPerRb
         IN  /\ q \in Nat
             /\ bytes > 0 => q > 0
             /\ \A n \in Nat : n <= q => n * BytesPerRb < bytes + BytesPerRb
  <1> DEFINE x == bytes + BytesPerRb - 1
             q == x \div BytesPerRb
  <1>0. BytesPerRb \in Nat /\ BytesPerRb > 0
    BY ConstantTypes
  <1>1. x \in Nat
    BY <1>0
  <1>2. q \in Nat /\ x = BytesPerRb * q + (x % BytesPerRb) /\ (x % BytesPerRb) \in 0..(BytesPerRb - 1)
    <2> HIDE DEF x
    <2> QED BY <1>0, <1>1
  <1>3. bytes > 0 => q > 0
    <2> SUFFICES ASSUME bytes > 0, q = 0 PROVE FALSE
      BY <1>2
    <2>1. BytesPerRb * q = 0
      BY <1>0
    <2> HIDE DEF q
    <2> QED BY <1>0, <1>2, <2>1
  <1>4. ASSUME NEW n \in Nat, n <= q PROVE n * BytesPerRb < bytes + BytesPerRb
    <2> HIDE DEF q
    <2>1. PICK k \in Nat : q = n + k
      <3>1. q - n \in Nat /\ q = n + (q - n)
        BY <1>2, <1>4
      <3> QED BY <3>1
    <2>2. BytesPerRb * q = n * BytesPerRb + k * BytesPerRb /\ k * BytesPerRb >= 0
          /\ n * BytesPerRb \in Nat /\ k * BytesPerRb \in Nat
      BY <1>0, <2>1
    <2> QED BY <1>0, <1>2, <2>2
  <1> QED BY <1>2, <1>3, <1>4

LEMMA ProductType ==
  ASSUME NEW n \in Nat
  PROVE  /\ n * BytesPerRb \in Nat
         /\ n > 0 => n * BytesPerRb > 0
  BY ConstantTypes

LEMMA MoreBlocks ==
  ASSUME NEW n \in Nat, NEW m \in Nat, n <= m
  PROVE  n * BytesPerRb <= m * BytesPerRb
  <1>1. PICK k \in Nat : m = n + k
    <2>1. m - n \in Nat /\ m = n + (m - n)
      OBVIOUS
    <2> QED BY <2>1
  <1>2. m * BytesPerRb = n * BytesPerRb + k * BytesPerRb /\ k * BytesPerRb \in Nat
        /\ n * BytesPerRb \in Nat
    BY <1>1, ConstantTypes
  <1> QED BY <1>2

LEMMA RbsForBytesType ==
  ASSUME NEW bytes \in Nat
  PROVE  /\ RbsForBytes(bytes) \in Nat
         /\ bytes > 0 /\ BudgetRbs > 0 => RbsForBytes(bytes) > 0
         /\ \A n \in Nat : n <= RbsForBytes(bytes) => n * BytesPerRb < bytes + BytesPerRb
  <1> DEFINE q == (bytes + BytesPerRb - 1) \div BytesPerRb
  <1>1. /\ q \in Nat
        /\ bytes > 0 => q > 0
        /\ \A n \in Nat : n <= q => n * BytesPerRb < bytes + BytesPerRb
    BY BlocksForBytes
  <1>2. RbsForBytes(bytes) = Smaller(q, BudgetRbs)
    BY DEF RbsForBytes
  <1> HIDE DEF q
  <1>3. Smaller(q, BudgetRbs) \in Nat /\ Smaller(q, BudgetRbs) <= q /\ Smaller(q, BudgetRbs) \in {q, BudgetRbs}
    <2>1. BudgetRbs \in Nat
      BY ConstantTypes
    <2> QED BY <1>1, <2>1, SmallerType
  <1> QED BY <1>1, <1>2, <1>3, ConstantTypes

-----------------------------------------------------------------------------
(* What the gateway believes of a UE that it was `issued` so many bytes.   *)

Picture(c, issued, u) ==
  /\ c.pendingBytes = Smaller(issued, c.buffer)
  /\ c.pendingRbs = 0 <=> c.pendingBytes = 0
  /\ c.pendingBytes > 0 => BudgetRbs > 0
  /\ c.sr => c.buffer = 0 /\ issued = 0
  /\ u \in Normal => \/ issued < c.buffer + BytesPerRb
                     \/ issued <= SrGrantRbs * BytesPerRb

LEMMA DemandType ==
  ASSUME NEW c \in Context
  PROVE  /\ Demand(c) \in Nat
         /\ Demand(c) > 0 => c.buffer = c.pendingBytes + Demand(c)
         /\ c.buffer = 0 => Demand(c) = 0
  BY DEF Demand, Context

(* The pending blocks are worked out anew from the pending bytes.          *)
LEMMA RefreshEffect ==
  ASSUME NEW c \in Context, c.pendingBytes > 0 => BudgetRbs > 0
  PROVE  LET r == RefreshPendingUlGrantEstimate(c)
         IN  /\ r \in Context
             /\ r.buffer = c.buffer /\ r.sr = c.sr
             /\ r.pendingBytes = Smaller(c.pendingBytes, c.buffer)
             /\ r.pendingRbs = 0 <=> r.pendingBytes = 0
             /\ r.pendingBytes > 0 => BudgetRbs > 0
  <1> DEFINE bytes == Smaller(c.pendingBytes, c.buffer)
             blocks == IF bytes = 0 THEN 0 ELSE RbsForBytes(bytes)
             r == RefreshPendingUlGrantEstimate(c)
  <1>1. bytes \in Nat /\ bytes <= c.pendingBytes
    BY SmallerType DEF Context
  <1>2. r = [c EXCEPT !.pendingBytes = bytes, !.pendingRbs = blocks]
    BY DEF RefreshPendingUlGrantEstimate
  <1> HIDE DEF bytes, r
  <1>3. /\ blocks \in Nat
        /\ blocks = 0 <=> bytes = 0
    <2>1. bytes > 0 => BudgetRbs > 0
      BY <1>1 DEF Context
    <2> QED BY <1>1, <2>1, RbsForBytesType
  <1> HIDE DEF blocks
  <1>4. bytes > 0 => BudgetRbs > 0
    BY <1>1 DEF Context
  <1>5. /\ r \in Context /\ r.buffer = c.buffer /\ r.sr = c.sr
        /\ r.pendingBytes = bytes /\ r.pendingRbs = blocks
    BY <1>1, <1>2, <1>3 DEF Context
  <1> QED BY <1>3, <1>4, <1>5 DEF bytes, r

LEMMA GrantedEffect ==
  ASSUME NEW c \in Context, NEW issued \in Nat, NEW u, Picture(c, issued, u),
         NEW rbs \in Nat, rbs > 0, rbs <= BudgetRbs,
         u \in Normal => \/ Demand(c) > 0 /\ rbs <= RbsForBytes(Demand(c))
                         \/ c.sr /\ rbs <= SrGrantRbs
  PROVE  /\ Granted(c, rbs) \in Context
         /\ Granted(c, rbs).buffer = c.buffer
         /\ Granted(c, rbs).sr = FALSE
         /\ issued + rbs * BytesPerRb \in Nat
         /\ Picture(Granted(c, rbs), issued + rbs * BytesPerRb, u)
  <1> DEFINE bytes == rbs * BytesPerRb
             more == [c EXCEPT !.pendingBytes = @ + bytes, !.pendingRbs = @ + rbs]
             r == RefreshPendingUlGrantEstimate(more)
  <1>1. bytes \in Nat /\ bytes > 0
    BY ProductType
  <1>2. c.buffer \in Nat /\ c.pendingBytes \in Nat /\ c.pendingRbs \in Nat /\ c.sr \in BOOLEAN
    BY DEF Context
  <1>3. Granted(c, rbs) = [r EXCEPT !.sr = FALSE]
    BY DEF Granted
  <1> HIDE DEF bytes
  <1>4. /\ r \in Context /\ r.buffer = c.buffer
        /\ r.pendingBytes = Smaller(c.pendingBytes + bytes, c.buffer)
        /\ r.pendingRbs = 0 <=> r.pendingBytes = 0
        /\ r.pendingBytes > 0 => BudgetRbs > 0
    <2>1. BudgetRbs > 0
      BY ConstantTypes
    <2>2. more \in Context /\ more.buffer = c.buffer /\ more.pendingBytes = c.pendingBytes + bytes
      <3>1. c.pendingBytes + bytes \in Nat /\ c.pendingRbs + rbs \in Nat
        BY <1>1, <1>2
      <3>2. more = [c EXCEPT !.pendingBytes = c.pendingBytes + bytes, !.pendingRbs = c.pendingRbs + rbs]
        BY <1>2
      <3> HIDE DEF more
      <3> QED BY <3>1, <3>2 DEF Context
    <2> HIDE DEF more
    <2> QED BY <2>1, <2>2, RefreshEffect
  <1> HIDE DEF r
  <1>5. /\ Granted(c, rbs) \in Context
        /\ Granted(c, rbs).buffer = c.buffer
        /\ Granted(c, rbs).sr = FALSE
        /\ Granted(c, rbs).pendingBytes = Smaller(c.pendingBytes + bytes, c.buffer)
        /\ Granted(c, rbs).pendingRbs = r.pendingRbs
        /\ Granted(c, rbs).pendingBytes = r.pendingBytes
    BY <1>3, <1>4 DEF Context
  <1>6. issued + bytes \in Nat
    BY <1>1
  <1>7. Smaller(c.pendingBytes + bytes, c.buffer) = Smaller(issued + bytes, c.buffer)
    BY <1>1, <1>2 DEF Smaller, Picture
  <1>8. ASSUME u \in Normal
        PROVE  issued + bytes < c.buffer + BytesPerRb \/ issued + bytes <= SrGrantRbs * BytesPerRb
    <2>1. CASE Demand(c) > 0 /\ rbs <= RbsForBytes(Demand(c))
      <3>1. Demand(c) \in Nat /\ c.buffer = c.pendingBytes + Demand(c)
        BY <2>1, DemandType
      <3>2. bytes < Demand(c) + BytesPerRb
        BY <2>1, <3>1, RbsForBytesType DEF bytes
      <3>3. issued = c.pendingBytes
        BY <1>2, <2>1, <3>1 DEF Picture, Smaller
      <3> QED BY <1>1, <1>2, <3>1, <3>2, <3>3, ConstantTypes
    <2>2. CASE c.sr /\ rbs <= SrGrantRbs
      <3>1. issued = 0
        BY <2>2 DEF Picture
      <3>2. bytes <= SrGrantRbs * BytesPerRb
        BY <2>2, ConstantTypes, MoreBlocks DEF bytes
      <3> QED BY <1>1, <3>1, <3>2
    <2> QED BY <1>8, <2>1, <2>2
  <1>9. Picture(Granted(c, rbs), issued + bytes, u)
    BY <1>4, <1>5, <1>7, <1>8 DEF Picture
  <1> QED BY <1>5, <1>6, <1>9 DEF bytes

-----------------------------------------------------------------------------
(* A run of the scheduler.                                                 *)

Runs == [ctx : [Ue -> Context], usage : Usage, grants : [Ue -> Grant],
         down : [Ue -> Nat], round : Round, served : SUBSET Ue]

(* The beam grants what its account has used, within the budget.           *)
Account(run) ==
  /\ run.round.granted = run.usage.used
  /\ run.usage.used <= BudgetRbs

Good(run, u) ==
  /\ Picture(run.ctx[u], run.round.issued[u], u)
  /\ run.grants[u].active => u \in SpsUe /\ run.grants[u].rbgSize > 0

(* Nothing was ever heard of the UE, nor granted to it.                    *)
Quiet(run, u) ==
  /\ run.ctx[u].buffer = 0 /\ run.ctx[u].sr = FALSE
  /\ run.round.issued[u] = 0 /\ run.down[u] = 0
  /\ run.grants[u].active = FALSE

(* The runs that scheduling may lead to from `base`.                       *)
Sound(base) ==
  {run \in Runs :
     /\ Account(run) /\ run.round.opened = base.round.opened
     /\ \A u \in Ue : /\ Good(run, u)
                      /\ run.ctx[u].buffer = base.ctx[u].buffer
                      /\ Quiet(base, u) => Quiet(run, u)}

SameUe(run, next, u) ==
  /\ next.ctx[u] = run.ctx[u] /\ next.round.issued[u] = run.round.issued[u]
  /\ next.grants[u] = run.grants[u] /\ next.down[u] = run.down[u]

(* One UE is scheduled, of which the scheduler knew.                       *)
Touches(run, next, u) ==
  /\ next \in Runs
  /\ Account(next) /\ next.round.opened = run.round.opened
  /\ \A v \in Ue \ {u} : SameUe(run, next, v)
  /\ Good(next, u)
  /\ next.ctx[u].buffer = run.ctx[u].buffer
  /\ ~Quiet(run, u)

LEMMA TouchesSound ==
  ASSUME NEW base, NEW run \in Sound(base), NEW u \in Ue, NEW next, Touches(run, next, u)
  PROVE  next \in Sound(base)
  <1>1. /\ run \in Runs /\ run.round.opened = base.round.opened
        /\ \A v \in Ue : /\ Good(run, v)
                         /\ run.ctx[v].buffer = base.ctx[v].buffer
                         /\ Quiet(base, v) => Quiet(run, v)
    BY DEF Sound
  <1>2. /\ next \in Runs /\ Account(next) /\ next.round.opened = base.round.opened
    BY <1>1 DEF Touches
  <1>3. ASSUME NEW v \in Ue
        PROVE  /\ Good(next, v)
               /\ next.ctx[v].buffer = base.ctx[v].buffer
               /\ Quiet(base, v) => Quiet(next, v)
    <2>1. CASE v = u
      BY <1>1, <2>1 DEF Touches
    <2>2. CASE v # u
      <3>1. SameUe(run, next, v)
        BY <2>2 DEF Touches
      <3>2. Good(next, v)
        BY <1>1, <3>1 DEF SameUe, Good
      <3>3. Quiet(run, v) => Quiet(next, v)
        BY <3>1 DEF SameUe, Quiet
      <3>4. next.ctx[v].buffer = base.ctx[v].buffer
        BY <1>1, <3>1 DEF SameUe
      <3> QED BY <1>1, <3>2, <3>3, <3>4
    <2> QED BY <2>1, <2>2
  <1> QED BY <1>2, <1>3 DEF Sound

(* What a run is made of.                                                  *)
LEMMA RunTypes ==
  ASSUME NEW run \in Runs, NEW u \in Ue
  PROVE  /\ run.ctx \in [Ue -> Context] /\ run.ctx[u] \in Context
         /\ run.usage \in Usage /\ run.usage.used \in Nat /\ run.usage.spsBusy \in SUBSET Slot
         /\ run.usage.spsAdmitted \in Nat
         /\ run.grants \in [Ue -> Grant] /\ run.grants[u] \in Grant
         /\ run.down \in [Ue -> Nat] /\ run.down[u] \in Nat
         /\ run.round \in Round /\ run.round.granted \in Nat /\ run.round.opened \in BOOLEAN
         /\ run.round.issued \in [Ue -> Nat] /\ run.round.issued[u] \in Nat
         /\ run.served \in SUBSET Ue
  <1>1. /\ run.ctx \in [Ue -> Context] /\ run.usage \in Usage
        /\ run.grants \in [Ue -> Grant] /\ run.down \in [Ue -> Nat]
        /\ run.round \in Round /\ run.served \in SUBSET Ue
    BY DEF Runs
  <1>2. run.usage.used \in Nat /\ run.usage.spsBusy \in SUBSET Slot /\ run.usage.spsAdmitted \in Nat
    BY <1>1 DEF Usage
  <1>3. run.round.granted \in Nat /\ run.round.opened \in BOOLEAN /\ run.round.issued \in [Ue -> Nat]
    BY <1>1 DEF Round
  <1> QED BY <1>1, <1>2, <1>3

(* A grant of rbs blocks that the account already holds.                   *)
LEMMA CompleteEffect ==
  ASSUME NEW run \in Runs, NEW u \in Ue, Good(run, u), ~Quiet(run, u),
         NEW rbs \in Nat, rbs > 0, run.usage.used = run.round.granted + rbs,
         run.usage.used <= BudgetRbs, NEW sendDci \in BOOLEAN,
         u \in Normal => \/ Demand(run.ctx[u]) > 0 /\ rbs <= RbsForBytes(Demand(run.ctx[u]))
                         \/ run.ctx[u].sr /\ rbs <= SrGrantRbs
  PROVE  LET next == CompleteGrant(run, u, rbs, sendDci)
         IN  /\ Touches(run, next, u)
             /\ next.round.granted = run.round.granted + rbs
             /\ next.served = run.served
  <1> DEFINE next == CompleteGrant(run, u, rbs, sendDci)
             c == Granted(run.ctx[u], rbs)
             issued == run.round.issued[u] + rbs * BytesPerRb
             sent == run.down[u] + (IF sendDci THEN 1 ELSE 0)
  <1>1. /\ run.ctx[u] \in Context /\ run.round.issued[u] \in Nat /\ run.round.granted \in Nat
        /\ run.ctx \in [Ue -> Context] /\ run.down \in [Ue -> Nat] /\ run.round \in Round
        /\ run.usage \in Usage /\ run.grants \in [Ue -> Grant] /\ run.served \in SUBSET Ue
    BY RunTypes
  <1>2. rbs <= BudgetRbs
    BY <1>1, ConstantTypes
  <1>3. /\ c \in Context /\ c.buffer = run.ctx[u].buffer /\ c.sr = FALSE
        /\ issued \in Nat /\ Picture(c, issued, u)
    <2>1. Picture(run.ctx[u], run.round.issued[u], u)
      BY DEF Good
    <2> QED BY <1>1, <1>2, <2>1, GrantedEffect
  <1>4. sent \in Nat
    BY <1>1
  <1>5. next = [run EXCEPT !.ctx = [run.ctx EXCEPT ![u] = c],
                           !.down = [run.down EXCEPT ![u] = sent],
                           !.round = [run.round EXCEPT !.granted = @ + rbs, !.issued = [@ EXCEPT ![u] = issued]]]
    BY <1>1 DEF CompleteGrant, Runs, Round
  <1> HIDE DEF next, c, issued, sent
  <1>6. /\ next.ctx = [run.ctx EXCEPT ![u] = c] /\ next.down = [run.down EXCEPT ![u] = sent]
        /\ next.usage = run.usage /\ next.grants = run.grants /\ next.served = run.served
        /\ next.round = [run.round EXCEPT !.granted = @ + rbs, !.issued = [@ EXCEPT ![u] = issued]]
        /\ next \in Runs
    <2>1. [run.ctx EXCEPT ![u] = c] \in [Ue -> Context] /\ [run.down EXCEPT ![u] = sent] \in [Ue -> Nat]
      BY <1>1, <1>3, <1>4
    <2>2. [run.round EXCEPT !.granted = @ + rbs, !.issued = [@ EXCEPT ![u] = issued]] \in Round
      <3>1. /\ run.round.granted + rbs \in Nat
            /\ [run.round.issued EXCEPT ![u] = issued] \in [Ue -> Nat]
        BY <1>1, <1>3, RunTypes
      <3> QED BY <1>1, <3>1 DEF Round
    <2> QED BY <1>5, <2>1, <2>2 DEF Runs
  <1>7. /\ next.round.granted = run.round.granted + rbs /\ next.round.opened = run.round.opened
        /\ next.round.issued = [run.round.issued EXCEPT ![u] = issued]
    BY <1>1, <1>6 DEF Round
  <1>8. \A v \in Ue \ {u} : SameUe(run, next, v)
    BY <1>1, <1>6, <1>7, RunTypes DEF SameUe
  <1>9. Good(next, u) /\ next.ctx[u].buffer = run.ctx[u].buffer
    <2>1. next.ctx[u] = c /\ next.round.issued[u] = issued /\ next.grants[u] = run.grants[u]
      BY <1>1, <1>6, <1>7, RunTypes
    <2> QED BY <1>3, <2>1 DEF Good
  <1>10. Account(next)
    BY <1>6, <1>7 DEF Account
  <1> QED BY <1>6, <1>7, <1>8, <1>9, <1>10 DEF Touches, next

-----------------------------------------------------------------------------
(* The account of the beam.                                                *)

LEMMA SlotsFinite == IsFiniteSet(Slot)
  <1>1. IsFiniteSet(0..SpsRegionRbs)
    BY FS_Interval, ConstantTypes
  <1>2. Slot \in SUBSET (0..SpsRegionRbs)
    BY DEF Slot
  <1> QED BY <1>1, <1>2, FS_Subset

(* What is left is what the budget has left.                               *)
LEMMA RemainingType ==
  ASSUME NEW usg \in Usage
  PROVE  /\ RemainingRbs(usg) \in Nat
         /\ usg.used <= BudgetRbs => usg.used + RemainingRbs(usg) = BudgetRbs
  BY ConstantTypes DEF RemainingRbs, Usage

LEMMA ResetType ==
  ASSUME NEW usg \in Usage
  PROVE  ResetBeamAllocation(usg) \in Usage /\ ResetBeamAllocation(usg).used = 0
  BY DEF ResetBeamAllocation, Usage

LEMMA AdmitType ==
  ASSUME NEW usg \in Usage, NEW count \in Nat
  PROVE  AdmitSpsGrant(usg, count) \in Usage /\ AdmitSpsGrant(usg, count).used = usg.used
  BY DEF AdmitSpsGrant, Usage

LEMMA ReleaseType ==
  ASSUME NEW usg \in Usage, NEW count \in Nat
  PROVE  ReleaseSpsAdmission(usg, count) \in Usage /\ ReleaseSpsAdmission(usg, count).used = usg.used
  BY DEF ReleaseSpsAdmission, Usage

(* A claim fits what is left, whatever was admitted meanwhile.             *)
LEMMA ClaimType ==
  ASSUME NEW usg \in Usage, usg.used <= BudgetRbs, NEW count \in Nat,
         NEW rbgs \in Claims(usg, count), NEW later \in Usage, later.used = usg.used
  PROVE  /\ Cardinality(rbgs) = count
         /\ ClaimSpsRbgs(later, rbgs) \in Usage
         /\ ClaimSpsRbgs(later, rbgs).used = usg.used + count
         /\ usg.used + count <= BudgetRbs
  <1>1. rbgs \subseteq Slot /\ Cardinality(rbgs) = count /\ count <= RemainingRbs(usg)
    BY DEF Claims
  <1>2. later.used + count \in Nat /\ later.spsBusy \cup rbgs \in SUBSET Slot
    BY <1>1 DEF Usage
  <1>3. ClaimSpsRbgs(later, rbgs)
          = [later EXCEPT !.used = later.used + count, !.spsBusy = later.spsBusy \cup rbgs]
    BY <1>1 DEF ClaimSpsRbgs
  <1>4. /\ ClaimSpsRbgs(later, rbgs) \in Usage
        /\ ClaimSpsRbgs(later, rbgs).used = later.used + count
    BY <1>2, <1>3 DEF Usage
  <1>5. usg.used + count <= BudgetRbs
    BY <1>1, RemainingType, ConstantTypes DEF Usage
  <1> QED BY <1>1, <1>4, <1>5

LEMMA AllocateType ==
  ASSUME NEW usg \in Usage, usg.used <= BudgetRbs, NEW requested \in Nat
  PROVE  /\ ApprovedRbs(usg, requested) \in Nat
         /\ ApprovedRbs(usg, requested) <= requested
         /\ usg.used + ApprovedRbs(usg, requested) <= BudgetRbs
         /\ \A count \in Nat : count <= requested /\ count = ApprovedRbs(usg, requested) =>
              /\ AllocateSpectrum(usg, count) \in Usage
              /\ AllocateSpectrum(usg, count).used = usg.used + count
  <1>1. RemainingRbs(usg) \in Nat /\ usg.used + RemainingRbs(usg) = BudgetRbs /\ usg.used \in Nat
    BY RemainingType DEF Usage
  <1>2. /\ ApprovedRbs(usg, requested) \in Nat
        /\ ApprovedRbs(usg, requested) <= requested
        /\ ApprovedRbs(usg, requested) <= RemainingRbs(usg)
    BY <1>1 DEF ApprovedRbs, Smaller
  <1>3. ASSUME NEW count \in Nat, count = ApprovedRbs(usg, requested)
        PROVE  /\ AllocateSpectrum(usg, count) \in Usage
               /\ AllocateSpectrum(usg, count).used = usg.used + count
    <2>1. ApprovedRbs(usg, count) = count
      BY <1>1, <1>2, <1>3 DEF ApprovedRbs, Smaller
    <2>2. usg.used + count \in Nat
      BY <1>1
    <2> QED BY <2>1, <2>2 DEF AllocateSpectrum, Usage
  <1> QED BY <1>1, <1>2, <1>3, ConstantTypes

-----------------------------------------------------------------------------
(* Grants.                                                                 *)

(* The same run with a different account.                                  *)
LEMMA WithUsage ==
  ASSUME NEW run \in Runs, NEW usg \in Usage, NEW u \in Ue
  PROVE  LET next == [run EXCEPT !.usage = usg]
         IN  /\ next \in Runs /\ next.usage = usg
             /\ next.ctx = run.ctx /\ next.grants = run.grants /\ next.down = run.down
             /\ next.round = run.round /\ next.served = run.served
             /\ Good(next, u) <=> Good(run, u)
             /\ Quiet(next, u) <=> Quiet(run, u)
             /\ \A v \in Ue : SameUe(run, next, v)
  <1> DEFINE next == [run EXCEPT !.usage = usg]
  <1>1. /\ next \in Runs /\ next.usage = usg
        /\ next.ctx = run.ctx /\ next.grants = run.grants /\ next.down = run.down
        /\ next.round = run.round /\ next.served = run.served
    BY DEF Runs
  <1> HIDE DEF next
  <1>2. /\ Good(next, u) <=> Good(run, u)
        /\ Quiet(next, u) <=> Quiet(run, u)
    BY <1>1 DEF Good, Quiet
  <1>3. \A v \in Ue : SameUe(run, next, v)
    BY <1>1 DEF SameUe
  <1> QED BY <1>1, <1>2, <1>3 DEF next

(* What the scheduler may ask for a UE of normal traffic.                  *)
Worth(c, rbs) ==
  \/ Demand(c) > 0 /\ rbs <= RbsForBytes(Demand(c))
  \/ c.sr /\ rbs <= SrGrantRbs

LEMMA ProcessEffect ==
  ASSUME NEW run \in Runs, Account(run), NEW u \in Ue, Good(run, u), ~Quiet(run, u),
         NEW requested \in Nat, u \in Normal => Worth(run.ctx[u], requested)
  PROVE  LET next == ProcessUlGrant(run, u, requested)
         IN  /\ next = run \/ Touches(run, next, u)
             /\ run.round.granted <= next.round.granted
             /\ next.round.granted <= run.round.granted + requested
             /\ next.served = run.served
  <1> DEFINE asked == Smaller(requested, PowerRbs)
             approved == ApprovedRbs(run.usage, asked)
             held == [run EXCEPT !.usage = AllocateSpectrum(@, approved)]
             next == ProcessUlGrant(run, u, requested)
  <1>1. asked \in Nat /\ asked <= requested
    BY ConstantTypes, SmallerType
  <1>2. run.usage \in Usage /\ run.usage.used <= BudgetRbs /\ run.usage.used \in Nat
        /\ run.round.granted = run.usage.used
    BY RunTypes DEF Account
  <1> HIDE DEF asked
  <1>3. /\ approved \in Nat /\ approved <= asked /\ run.usage.used + approved <= BudgetRbs
        /\ AllocateSpectrum(run.usage, approved) \in Usage
        /\ AllocateSpectrum(run.usage, approved).used = run.usage.used + approved
    BY <1>1, <1>2, AllocateType
  <1>4. next = IF approved = 0 THEN run ELSE CompleteGrant(held, u, approved, TRUE)
    BY DEF ProcessUlGrant, asked
  <1> HIDE DEF approved, next
  <1>5. CASE approved = 0
    BY <1>1, <1>2, <1>4, <1>5 DEF next
  <1>6. CASE approved # 0
    <2>1. /\ held \in Runs /\ held.usage.used = run.usage.used + approved
          /\ held.ctx = run.ctx /\ held.round = run.round /\ held.served = run.served
          /\ Good(held, u) /\ ~Quiet(held, u) /\ \A v \in Ue : SameUe(run, held, v)
      BY <1>3, WithUsage
    <2> HIDE DEF held
    <2>2. u \in Normal => \/ Demand(held.ctx[u]) > 0 /\ approved <= RbsForBytes(Demand(held.ctx[u]))
                          \/ held.ctx[u].sr /\ approved <= SrGrantRbs
      <3>1. run.ctx[u] \in Context
        BY RunTypes
      <3>2. Demand(run.ctx[u]) > 0 => RbsForBytes(Demand(run.ctx[u])) \in Nat
        BY <3>1, DemandType, RbsForBytesType
      <3> QED BY <1>1, <1>3, <2>1, <3>2, ConstantTypes DEF Worth
    <2>3. /\ Touches(held, next, u)
          /\ next.round.granted = held.round.granted + approved
          /\ next.served = held.served
      <3>1. /\ approved > 0 /\ held.usage.used = held.round.granted + approved
            /\ held.usage.used <= BudgetRbs
        BY <1>2, <1>3, <1>6, <2>1
      <3>2. next = CompleteGrant(held, u, approved, TRUE)
        BY <1>4, <1>6
      <3> QED BY <1>3, <2>1, <2>2, <3>1, <3>2, CompleteEffect
    <2>4. Touches(run, next, u)
      BY <2>1, <2>3 DEF Touches, SameUe
    <2> QED BY <1>1, <1>2, <1>3, <2>1, <2>3, <2>4 DEF next
  <1> QED BY <1>5, <1>6 DEF next

LEMMA ServeSpsEffect ==
  ASSUME NEW run \in Runs, Account(run), NEW u \in SpsUe, Good(run, u), ~Quiet(run, u),
         NEW usg \in Usage, usg.used = run.usage.used, NEW count \in Nat, count > 0,
         NEW rbgs \in Claims(usg, count), NEW sendDci \in BOOLEAN
  PROVE  LET next == ServeUlSpsGrant(run, u, rbgs, sendDci)
         IN  Touches(run, next, u) /\ next.served = run.served
  <1> DEFINE held == [run EXCEPT !.usage = ClaimSpsRbgs(@, rbgs)]
             next == ServeUlSpsGrant(run, u, rbgs, sendDci)
  <1>0. u \in Ue /\ u \notin Normal
    BY ConstantTypes
  <1>1. /\ run.round.granted = run.usage.used /\ run.usage.used <= BudgetRbs
        /\ run.usage \in Usage
    BY <1>0, RunTypes DEF Account
  <1>2. /\ Cardinality(rbgs) = count
        /\ ClaimSpsRbgs(run.usage, rbgs) \in Usage
        /\ ClaimSpsRbgs(run.usage, rbgs).used = run.usage.used + count
        /\ run.usage.used + count <= BudgetRbs
    BY <1>1, ClaimType
  <1>3. next = CompleteGrant(held, u, count, sendDci)
    BY <1>2 DEF ServeUlSpsGrant
  <1>4. /\ held \in Runs /\ held.usage.used = run.usage.used + count
        /\ held.ctx = run.ctx /\ held.round = run.round /\ held.served = run.served
        /\ Good(held, u) /\ ~Quiet(held, u) /\ \A v \in Ue : SameUe(run, held, v)
    BY <1>0, <1>2, WithUsage
  <1> HIDE DEF held, next
  <1>5. Touches(held, next, u) /\ next.served = held.served
    BY <1>0, <1>1, <1>2, <1>3, <1>4, CompleteEffect
  <1>6. Touches(run, next, u)
    BY <1>0, <1>4, <1>5 DEF Touches, SameUe
  <1> QED BY <1>4, <1>5, <1>6 DEF next

-----------------------------------------------------------------------------
(* Configured grants.                                                      *)

(* The UE's grant, its DCIs and the admissions change, nothing else.       *)
Keeps(run, next, u) ==
  /\ next \in Runs
  /\ next.ctx = run.ctx /\ next.round = run.round
  /\ next.usage.used = run.usage.used
  /\ next.grants[u].active => next.grants[u].rbgSize > 0
  /\ \A v \in Ue \ {u} : next.grants[v] = run.grants[v] /\ next.down[v] = run.down[v]

LEMMA KeepsGood ==
  ASSUME NEW run \in Runs, NEW next, NEW u \in SpsUe, Keeps(run, next, u),
         Account(run), Good(run, u)
  PROVE  Account(next) /\ Good(next, u)
  BY DEF Keeps, Account, Good

LEMMA KeepsTouches ==
  ASSUME NEW run \in Runs, NEW next, NEW u \in SpsUe, Keeps(run, next, u),
         Account(run), Good(run, u), ~Quiet(run, u)
  PROVE  Touches(run, next, u)
  BY KeepsGood DEF Keeps, Touches, SameUe

LEMMA KeepsThenTouches ==
  ASSUME NEW run \in Runs, NEW mid, NEW next, NEW u \in Ue, Keeps(run, mid, u),
         Touches(mid, next, u), ~Quiet(run, u)
  PROVE  Touches(run, next, u)
  BY DEF Keeps, Touches, SameUe

LEMMA KeepsTwice ==
  ASSUME NEW run, NEW mid, NEW next, NEW u, Keeps(run, mid, u), Keeps(mid, next, u)
  PROVE  Keeps(run, next, u)
  BY DEF Keeps

LEMMA GrantChange ==
  ASSUME NEW run \in Runs, NEW u \in Ue, NEW g \in Grant, g.active => g.rbgSize > 0
  PROVE  LET next == [run EXCEPT !.grants = [@ EXCEPT ![u] = g]]
         IN  /\ Keeps(run, next, u)
             /\ next.grants[u] = g /\ next.usage = run.usage /\ next.served = run.served
             /\ next.down = run.down
  <1> DEFINE next == [run EXCEPT !.grants = [@ EXCEPT ![u] = g]]
  <1>1. run.grants \in [Ue -> Grant]
    BY RunTypes
  <1>2. next = [run EXCEPT !.grants = [run.grants EXCEPT ![u] = g]]
        /\ [run.grants EXCEPT ![u] = g] \in [Ue -> Grant]
    BY <1>1 DEF Runs
  <1> HIDE DEF next
  <1>3. /\ next \in Runs /\ next.grants = [run.grants EXCEPT ![u] = g]
        /\ next.ctx = run.ctx /\ next.round = run.round /\ next.usage = run.usage
        /\ next.down = run.down /\ next.served = run.served
    BY <1>2 DEF Runs
  <1> QED BY <1>1, <1>3 DEF Keeps, next

LEMMA ServedChange ==
  ASSUME NEW run \in Runs, NEW u \in Ue, Good(run, u)
  PROVE  LET next == [run EXCEPT !.served = @ \cup {u}]
         IN  /\ Keeps(run, next, u)
             /\ next.grants = run.grants /\ next.usage = run.usage /\ next.down = run.down
  BY DEF Runs, Keeps, Good

LEMMA ReleaseEffect ==
  ASSUME NEW run \in Runs, NEW u \in Ue
  PROVE  Keeps(run, ReleaseUlSpsGrant(run, u), u)
  <1> DEFINE usg == ReleaseSpsAdmission(run.usage, run.grants[u].rbgSize)
             next == ReleaseUlSpsGrant(run, u)
  <1>1. /\ run.grants \in [Ue -> Grant] /\ run.down \in [Ue -> Nat] /\ run.usage \in Usage
        /\ run.grants[u].rbgSize \in Nat /\ run.down[u] + 1 \in Nat /\ NoGrant \in Grant
    BY RunTypes DEF Grant, NoGrant
  <1>2. usg \in Usage /\ usg.used = run.usage.used
    BY <1>1, ReleaseType
  <1>3. /\ [run.grants EXCEPT ![u] = NoGrant] \in [Ue -> Grant]
        /\ [run.down EXCEPT ![u] = run.down[u] + 1] \in [Ue -> Nat]
    BY <1>1
  <1>4. next = [run EXCEPT !.usage = usg, !.grants = [run.grants EXCEPT ![u] = NoGrant],
                           !.down = [run.down EXCEPT ![u] = run.down[u] + 1]]
    BY <1>1 DEF ReleaseUlSpsGrant, Runs
  <1> HIDE DEF usg, next
  <1>5. /\ next \in Runs /\ next.usage = usg /\ next.ctx = run.ctx /\ next.round = run.round
        /\ next.grants = [run.grants EXCEPT ![u] = NoGrant]
        /\ next.down = [run.down EXCEPT ![u] = run.down[u] + 1]
    BY <1>2, <1>3, <1>4 DEF Runs
  <1> QED BY <1>1, <1>2, <1>5 DEF Keeps, next, NoGrant

(* A grant whose counters change stays active.                             *)
LEMMA CounterTypes ==
  ASSUME NEW g \in Grant, NEW n \in Nat
  PROVE  /\ g.emptyTx \in Nat /\ g.conflict \in Nat /\ g.wait \in Nat /\ g.rbgSize \in Nat
         /\ [g EXCEPT !.wait = n] \in Grant /\ [g EXCEPT !.wait = n].active = g.active
         /\ [g EXCEPT !.wait = n].rbgSize = g.rbgSize
         /\ [g EXCEPT !.emptyTx = n] \in Grant /\ [g EXCEPT !.emptyTx = n].active = g.active
         /\ [g EXCEPT !.emptyTx = n].rbgSize = g.rbgSize
         /\ [g EXCEPT !.conflict = n] \in Grant /\ [g EXCEPT !.conflict = n].active = g.active
         /\ [g EXCEPT !.conflict = n].rbgSize = g.rbgSize
  BY DEF Grant

LEMMA ConflictEffect ==
  ASSUME NEW run \in Runs, NEW u \in Ue, Good(run, u)
  PROVE  Keeps(run, Conflict(run, u), u) /\ Keeps(run, EmptyTx(run, u), u)
  <1> DEFINE g1 == [run.grants[u] EXCEPT !.conflict = run.grants[u].conflict + 1]
             g2 == [run.grants[u] EXCEPT !.emptyTx = run.grants[u].emptyTx + 1]
  <1>1. run.grants[u] \in Grant /\ run.grants \in [Ue -> Grant]
    BY RunTypes
  <1>2. /\ g1 \in Grant /\ g2 \in Grant
        /\ g1.active => g1.rbgSize > 0
        /\ g2.active => g2.rbgSize > 0
    <2>1. run.grants[u].conflict + 1 \in Nat /\ run.grants[u].emptyTx + 1 \in Nat
      <3>1. run.grants[u].conflict \in Nat /\ run.grants[u].emptyTx \in Nat
        BY <1>1 DEF Grant
      <3> QED BY <3>1
    <2>2. run.grants[u].active => run.grants[u].rbgSize > 0
      BY DEF Good
    <2> QED BY <1>1, <2>1, <2>2, CounterTypes
  <1>3. /\ [run EXCEPT !.grants[u].conflict = @ + 1] = [run EXCEPT !.grants = [@ EXCEPT ![u] = g1]]
        /\ [run EXCEPT !.grants[u].emptyTx = @ + 1] = [run EXCEPT !.grants = [@ EXCEPT ![u] = g2]]
    OBVIOUS
  <1> HIDE DEF g1, g2
  <1>4. /\ Keeps(run, [run EXCEPT !.grants = [@ EXCEPT ![u] = g1]], u)
        /\ Keeps(run, [run EXCEPT !.grants = [@ EXCEPT ![u] = g2]], u)
    BY <1>2, GrantChange
  <1>5. Keeps(run, ReleaseUlSpsGrant(run, u), u)
    BY ReleaseEffect
  <1> QED BY <1>3, <1>4, <1>5 DEF Conflict, EmptyTx

LEMMA ReuseEffect ==
  ASSUME NEW run \in Runs, Account(run), NEW u \in Ue, Good(run, u), NEW sendDci \in BOOLEAN
  PROVE  LET next == ReuseGrant(run, u, sendDci) IN next = run \/ Touches(run, next, u)
  <1> DEFINE c == run.ctx[u]
             grant == run.grants[u]
             claims == Claims(run.usage, grant.rbgSize)
             held == [run EXCEPT !.served = @ \cup {u}]
             due == [held EXCEPT !.grants[u].wait = SpsPeriod]
             used == [due EXCEPT !.grants[u].emptyTx = 0]
             kept == [used EXCEPT !.grants[u].conflict = 0]
             rbgs == CHOOSE s \in claims : TRUE
             next == ReuseGrant(run, u, sendDci)
  <1>1. CASE ~grant.active
    BY <1>1 DEF ReuseGrant
  <1>2. CASE grant.active
    <2>1. grant \in Grant /\ run.grants \in [Ue -> Grant] /\ u \in SpsUe /\ ~Quiet(run, u)
          /\ grant.rbgSize \in Nat /\ grant.rbgSize > 0
      BY <1>2, RunTypes DEF Good, Quiet, Grant
    <2>2. /\ Keeps(run, held, u) /\ held.grants = run.grants /\ held.usage = run.usage
      BY ServedChange
    <2> HIDE DEF held
    <2>3. /\ Keeps(held, due, u) /\ due.grants[u] \in Grant /\ due.grants[u].active /\ due.grants[u].rbgSize > 0
          /\ due.usage = run.usage
      <3> DEFINE g == [grant EXCEPT !.wait = SpsPeriod]
      <3>1. g \in Grant /\ g.active /\ g.rbgSize > 0
        BY <1>2, <2>1, CounterTypes, ConstantTypes
      <3>2. due = [held EXCEPT !.grants = [@ EXCEPT ![u] = g]]
        BY <2>2
      <3> HIDE DEF g, due
      <3>3. held \in Runs
        BY <2>2 DEF Keeps
      <3> QED BY <2>2, <3>1, <3>2, <3>3, GrantChange
    <2> HIDE DEF due
    <2>4. /\ Keeps(due, used, u) /\ used.grants[u] \in Grant /\ used.grants[u].active /\ used.grants[u].rbgSize > 0
          /\ used.usage = run.usage
      <3> DEFINE g == [due.grants[u] EXCEPT !.emptyTx = 0]
      <3>1. g \in Grant /\ g.active /\ g.rbgSize > 0
        BY <2>3, CounterTypes
      <3>2. used = [due EXCEPT !.grants = [@ EXCEPT ![u] = g]]
        OBVIOUS
      <3> HIDE DEF g, used
      <3>3. due \in Runs
        BY <2>3 DEF Keeps
      <3> QED BY <2>3, <3>1, <3>2, <3>3, GrantChange
    <2> HIDE DEF used
    <2>5. /\ Keeps(used, kept, u) /\ kept.grants[u].active /\ kept.usage = run.usage
      <3> DEFINE g == [used.grants[u] EXCEPT !.conflict = 0]
      <3>1. g \in Grant /\ g.active /\ g.rbgSize > 0
        BY <2>4, CounterTypes
      <3>2. kept = [used EXCEPT !.grants = [@ EXCEPT ![u] = g]]
        OBVIOUS
      <3> HIDE DEF g, kept
      <3>3. used \in Runs
        BY <2>4 DEF Keeps
      <3> QED BY <2>4, <3>1, <3>2, <3>3, GrantChange
    <2> HIDE DEF kept
    <2>6. Keeps(run, due, u) /\ Keeps(run, used, u) /\ Keeps(run, kept, u)
      BY <2>2, <2>3, <2>4, <2>5, KeepsTwice
    <2>7. \/ next = held
          \/ next = EmptyTx(due, u)
          \/ next = Conflict(used, u)
          \/ claims # {} /\ grant.wait = 0 /\ Demand(c) # 0 /\ next = ServeUlSpsGrant(kept, u, rbgs, sendDci)
          \/ claims # {} /\ c.sr /\ next = ServeUlSpsGrant(kept, u, rbgs, sendDci)
      BY <1>2, <2>1 DEF ReuseGrant, held, due, used, kept, Grant
    <2>8. Account(kept) /\ Good(kept, u) /\ ~Quiet(kept, u) /\ kept \in Runs
      <3>1. ~Quiet(kept, u)
        BY <2>5 DEF Quiet
      <3>2. kept \in Runs
        BY <2>6 DEF Keeps
      <3> QED BY <2>1, <2>6, <3>1, <3>2, KeepsGood
    <2>9. ASSUME claims # {} PROVE Touches(kept, ServeUlSpsGrant(kept, u, rbgs, sendDci), u)
      <3>1. rbgs \in Claims(run.usage, grant.rbgSize)
        BY <2>9
      <3> HIDE DEF rbgs
      <3>2. run.usage \in Usage
        BY RunTypes
      <3> HIDE DEF grant
      <3> QED BY <2>1, <2>5, <2>8, <3>1, <3>2, ServeSpsEffect
    <2>10. CASE next = held
      BY <2>1, <2>2, <2>10, KeepsTouches DEF next
    <2>11. CASE next = EmptyTx(due, u)
      <3>1. due \in Runs /\ Good(due, u)
        BY <2>1, <2>6, KeepsGood DEF Keeps
      <3>2. Keeps(due, next, u)
        BY <2>11, <3>1, ConflictEffect
      <3>3. Keeps(run, next, u)
        BY <2>6, <3>2, KeepsTwice
      <3> QED BY <2>1, <3>3, KeepsTouches DEF next
    <2>12. CASE next = Conflict(used, u)
      <3>1. used \in Runs /\ Good(used, u)
        BY <2>1, <2>6, KeepsGood DEF Keeps
      <3>2. Keeps(used, next, u)
        BY <2>12, <3>1, ConflictEffect
      <3>3. Keeps(run, next, u)
        BY <2>6, <3>2, KeepsTwice
      <3> QED BY <2>1, <3>3, KeepsTouches DEF next
    <2>13. CASE claims # {} /\ next = ServeUlSpsGrant(kept, u, rbgs, sendDci)
      <3>1. Touches(kept, next, u)
        BY <2>9, <2>13
      <3> QED BY <2>1, <2>6, <3>1, KeepsThenTouches DEF next
    <2> QED BY <2>7, <2>10, <2>11, <2>12, <2>13
  <1> QED BY <1>1, <1>2

LEMMA ActivateEffect ==
  ASSUME NEW run \in Runs, Account(run), NEW u \in SpsUe, Good(run, u)
  PROVE  LET next == ActivateGrant(run, u) IN next = run \/ Touches(run, next, u)
  <1> DEFINE demand == Demand(run.ctx[u])
             size == Smaller(Smaller(RbsForBytes(demand), SpsClassRbs), PowerRbs)
             claims == Claims(run.usage, size)
             rbgs == CHOOSE s \in claims : TRUE
             g == [active |-> TRUE, rbgSize |-> size, wait |-> SpsPeriod, emptyTx |-> 0,
                   conflict |-> 0]
             mid == [run EXCEPT !.served = @ \cup {u},
                                !.usage = AdmitSpsGrant(@, size),
                                !.grants[u] = g]
             next == ActivateGrant(run, u)
  <1>1. u \in Ue /\ run.ctx[u] \in Context /\ run.usage \in Usage /\ run.grants \in [Ue -> Grant]
        /\ run.served \in SUBSET Ue /\ run.usage.used \in Nat
    BY ConstantTypes, RunTypes
  <1>2. demand \in Nat /\ size \in Nat
    BY <1>1, ConstantTypes, DemandType, RbsForBytesType, SmallerType
  <1>3. \/ next = run
        \/ /\ demand # 0 /\ size > 0 /\ claims # {}
           /\ next = ServeUlSpsGrant(mid, u, rbgs, TRUE)
    BY DEF ActivateGrant, AdmitsSpsGrant
  <1>4. CASE next = run
    BY <1>4 DEF next
  <1>5. CASE demand # 0 /\ size > 0 /\ claims # {} /\ next = ServeUlSpsGrant(mid, u, rbgs, TRUE)
    <2>1. ~Quiet(run, u)
      BY <1>1, <1>5, DemandType DEF Quiet
    <2>2. rbgs \in claims
      BY <1>5
    <2> HIDE DEF rbgs, size, next
    <2>3. g \in Grant /\ g.active /\ g.rbgSize > 0
      BY <1>2, <1>5, ConstantTypes DEF Grant
    <2> HIDE DEF g
    <2>4. /\ AdmitSpsGrant(run.usage, size) \in Usage
          /\ AdmitSpsGrant(run.usage, size).used = run.usage.used
      BY <1>1, <1>2, AdmitType
    <2>5. Keeps(run, mid, u) /\ mid.grants[u] = g
      <3>1. mid = [run EXCEPT !.served = run.served \cup {u},
                              !.usage = AdmitSpsGrant(run.usage, size),
                              !.grants = [run.grants EXCEPT ![u] = g]]
        BY DEF Runs
      <3>2. run.served \cup {u} \in SUBSET Ue /\ [run.grants EXCEPT ![u] = g] \in [Ue -> Grant]
        BY <1>1, <2>3
      <3> HIDE DEF mid
      <3>3. /\ mid \in Runs /\ mid.ctx = run.ctx /\ mid.round = run.round /\ mid.down = run.down
            /\ mid.usage = AdmitSpsGrant(run.usage, size)
            /\ mid.grants = [run.grants EXCEPT ![u] = g]
        BY <2>4, <3>1, <3>2 DEF Runs
      <3> QED BY <1>1, <2>3, <2>4, <3>3 DEF Keeps
    <2> HIDE DEF mid
    <2>6. Account(mid) /\ Good(mid, u) /\ ~Quiet(mid, u) /\ mid \in Runs
          /\ run.usage.used = mid.usage.used
      BY <2>3, <2>5, KeepsGood DEF Keeps, Quiet
    <2>7. Touches(mid, next, u)
      BY <1>1, <1>2, <1>5, <2>2, <2>6, ServeSpsEffect
    <2> QED BY <1>1, <2>1, <2>5, <2>7, KeepsThenTouches DEF next
  <1> QED BY <1>3, <1>4, <1>5

-----------------------------------------------------------------------------
(* Folds over a sequence.                                                  *)

LEMMA SubsetInduction ==
  ASSUME NEW S, IsFiniteSet(S), NEW T, {} \in T,
         \A A \in SUBSET S : A # {} /\ (\A x \in A : A \ {x} \in T) => A \in T
  PROVE  SUBSET S \subseteq T
  <1> DEFINE Bad == {A \in FiniteSubsetsOf(S) : A \notin T}
  <1>1. SUBSET S = FiniteSubsetsOf(S)
    BY FS_Subset DEF FiniteSubsetsOf
  <1>2. SUFFICES ASSUME Bad # {} PROVE FALSE
    BY <1>1
  <1>3. IsWellFoundedOn(StrictSubsetOrdering(S), FiniteSubsetsOf(S))
    BY FS_StrictSubsetOrderingWellFounded
  <1>4. PICK A \in Bad : \A B \in Bad : ~(<<B, A>> \in StrictSubsetOrdering(S))
    BY <1>2, <1>3, WFMin
  <1>5. ASSUME NEW x \in A PROVE A \ {x} \in T
    <2>1. A \ {x} \in SUBSET S /\ A \in SUBSET S
      BY <1>1
    <2>2. <<A \ {x}, A>> \in StrictSubsetOrdering(S)
      BY <2>1, <1>5 DEF StrictSubsetOrdering
    <2> QED BY <1>1, <1>4, <2>1, <2>2
  <1>6. A \in T
    BY <1>1, <1>5
  <1> QED BY <1>6

(* Induction over the naturals, for a set.                                 *)
LEMMA NatSetInduction ==
  ASSUME NEW T, 0 \in T, \A n \in Nat : n \in T => n + 1 \in T
  PROVE  Nat \subseteq T
  <1>1. SUFFICES ASSUME Nat \ T # {} PROVE FALSE
    OBVIOUS
  <1>2. IsWellFoundedOn(OpToRel(<, Nat), Nat)
    BY NatLessThanWellFounded, Zenon
  <1>3. PICK n \in Nat \ T : \A m \in Nat \ T : ~(<<m, n>> \in OpToRel(<, Nat))
    <2>1. Nat \ T \subseteq Nat
      OBVIOUS
    <2>2. QED
      BY <1>1, <1>2, <2>1, WFMin, Zenon
  <1>4. n - 1 \in Nat /\ n - 1 < n /\ (n - 1) + 1 = n
    OBVIOUS
  <1>5. <<n - 1, n>> \in OpToRel(<, Nat)
    BY <1>4, Zenon DEF OpToRel
  <1>6. n - 1 \in T
    BY <1>3, <1>4, <1>5
  <1>7. QED
    BY <1>4, <1>6

(* What a fold goes through first is the last index, which there is.       *)
LEMMA MaxType ==
  ASSUME NEW n \in Nat, NEW s \in SUBSET (1..n), s # {}
  PROVE  Max(s) \in s
  <1> DEFINE Top(A) == \E m \in A : \A x \in A : m >= x
             T == {A \in SUBSET (1..n) : A = {} \/ Top(A)}
  <1>1. ASSUME NEW A \in SUBSET (1..n), A # {}, \A x \in A : A \ {x} \in T
        PROVE  A \in T
    <2>1. PICK x \in A : TRUE
      BY <1>1
    <2>2. A \ {x} = {} \/ Top(A \ {x})
      BY <1>1, <2>1
    <2>3. CASE A \ {x} = {}
      <3>1. \A y \in A : x >= y
        BY <1>1, <2>1, <2>3
      <3> QED BY <1>1, <2>1, <3>1
    <2>4. CASE Top(A \ {x})
      <3>1. PICK m \in A \ {x} : \A y \in A \ {x} : m >= y
        BY <2>4
      <3>2. m \in Nat /\ x \in Nat /\ \A y \in A : y \in Nat
        BY <1>1, <2>1, <3>1
      <3>3. CASE m >= x
        <4>1. \A y \in A : m >= y
          BY <3>1, <3>3
        <4> QED BY <3>1, <4>1
      <3>4. CASE x > m
        <4>1. \A y \in A : x >= y
          BY <3>1, <3>2, <3>4
        <4> QED BY <2>1, <4>1
      <3> QED BY <3>2, <3>3, <3>4
    <2> QED BY <2>2, <2>3, <2>4
  <1>2. IsFiniteSet(1..n) /\ {} \in T
    BY FS_Interval
  <1>3. SUBSET (1..n) \subseteq T
    <2> DEFINE I == 1..n
    <2>1. \A A \in SUBSET I : A # {} /\ (\A x \in A : A \ {x} \in T) => A \in T
      BY <1>1
    <2>2. IsFiniteSet(I) /\ {} \in T
      BY <1>2
    <2> HIDE DEF T, I
    <2>3. SUBSET I \subseteq T
      BY <2>1, <2>2, SubsetInduction
    <2> QED BY <2>3 DEF I
  <1>4. Top(s)
    BY <1>3
  <1> QED BY <1>4 DEF Max

(* The equation that a fold is defined by, for a set of its indices.       *)
FoldStep(op(_, _), base, seq, f, s) ==
  IF s = {} THEN base ELSE op(f[s \ {Max(s)}], seq[Max(s)])

Applied(step, base, seq, f, s) ==
  IF s = {} THEN base ELSE step[<<f[s \ {Max(s)}], seq[Max(s)]>>]

Solves(f, step, base, seq, n) ==
  f = [s \in SUBSET (1..n) |-> Applied(step, base, seq, f, s)]

(* It has a solution: what solves it for all sets of n indices solves it,  *)
(* put in once more, for those of n + 1.                                   *)
LEMMA FoldSolvable ==
  ASSUME NEW step, NEW base, NEW seq, NEW n \in Nat
  PROVE  \E f : Solves(f, step, base, seq, n)
  <1> DEFINE S == 1..n
             Again(f) == [s \in SUBSET S |-> Applied(step, base, seq, f, s)]
             UpTo(f, k) == \A s \in SUBSET S : Cardinality(s) <= k => f[s] = Again(f)[s]
             T == {k \in Nat : \E f : UpTo(Again(f), k)}
  <1>0. IsFiniteSet(S)
    BY FS_Interval
  <1>1. ASSUME NEW s \in SUBSET S
        PROVE  /\ Cardinality(s) \in Nat /\ Cardinality(s) <= Cardinality(S)
               /\ \A x \in s : Cardinality(s \ {x}) = Cardinality(s) - 1
               /\ Cardinality(s) = 0 => s = {}
    BY <1>0, FS_Subset, FS_CardinalityType, FS_RemoveElement, FS_EmptySet
  <1>2. ASSUME NEW k \in Nat, NEW f, UpTo(f, k), NEW s \in SUBSET S, Cardinality(s) <= k + 1
        PROVE  Applied(step, base, seq, f, s) = Applied(step, base, seq, Again(f), s)
    <2>1. CASE s = {}
      BY <2>1 DEF Applied
    <2>2. CASE s # {}
      <3> DEFINE x == Max(s)
      <3>1. x \in s
        BY <2>2, MaxType
      <3> HIDE DEF x
      <3>2. s \ {x} \in SUBSET S /\ Cardinality(s \ {x}) <= k
        BY <1>1, <1>2, <3>1
      <3>3. f[s \ {x}] = Again(f)[s \ {x}]
        BY <1>2, <3>2
      <3> QED BY <2>2, <3>3 DEF Applied, x
    <2> QED BY <2>1, <2>2
  <1>3. 0 \in T
    <2>1. UpTo(Again(<<>>), 0)
      BY <1>1 DEF Applied
    <2> QED BY <2>1
  <1>4. ASSUME NEW k \in Nat, k \in T PROVE k + 1 \in T
    <2>1. PICK f : UpTo(Again(f), k)
      BY <1>4
    <2> DEFINE g == Again(f)
    <2>2. ASSUME NEW s \in SUBSET S, Cardinality(s) <= k + 1
          PROVE  Again(g)[s] = Again(Again(g))[s]
      <3>1. Applied(step, base, seq, g, s) = Applied(step, base, seq, Again(g), s)
        BY <1>2, <2>1, <2>2
      <3> QED BY <3>1
    <2>3. UpTo(Again(g), k + 1)
      BY <2>2
    <2>4. k + 1 \in Nat
      OBVIOUS
    <2> HIDE DEF UpTo, Again, g
    <2>5. \E h : UpTo(Again(h), k + 1)
      BY <2>3, Zenon
    <2> QED BY <2>4, <2>5, Zenon
  <1>5. Cardinality(S) \in T
    <2>1. Cardinality(S) \in Nat
      BY <1>0, FS_CardinalityType
    <2> HIDE DEF T
    <2> QED BY <1>3, <1>4, <2>1, NatSetInduction
  <1>6. PICK f : UpTo(Again(f), Cardinality(S))
    BY <1>5
  <1>7. Again(f) = Again(Again(f))
    BY <1>1, <1>6
  <1>8. Solves(Again(f), step, base, seq, n)
    BY <1>7 DEF Solves
  <1> HIDE DEF Again
  <1> QED BY <1>8

(* What holds of no index and, with the last one, of a set of them if it   *)
(* does so without it, holds of any set of them.                           *)
LEMMA FoldInduction ==
  ASSUME NEW P, NEW n \in Nat, NEW f, f[{}] \in P,
         \A s \in SUBSET (1..n) : s # {} /\ f[s \ {Max(s)}] \in P => f[s] \in P
  PROVE  \A s \in SUBSET (1..n) : f[s] \in P
  <1> DEFINE I == 1..n
             T == {s \in SUBSET I : f[s] \in P}
  <1>1. IsFiniteSet(I) /\ {} \in T
    BY FS_Interval
  <1>2. ASSUME NEW s \in SUBSET I, s # {}, \A x \in s : s \ {x} \in T
        PROVE  s \in T
    <2>1. Max(s) \in s
      BY <1>2, MaxType
    <2> QED BY <1>2, <2>1
  <1> HIDE DEF I, T
  <1>3. SUBSET I \subseteq T
    BY <1>1, <1>2, SubsetInduction
  <1> QED BY <1>3 DEF I, T

(* It stays where the step stays.                                          *)
LEMMA FoldWithin ==
  ASSUME NEW P, NEW U, NEW step \in [P \X U -> P], NEW base \in P, NEW n \in Nat,
         NEW seq \in [1..n -> U]
  PROVE  \E f : /\ Solves(f, step, base, seq, n)
                /\ \A s \in SUBSET (1..n) : f[s] \in P
  <1>1. PICK f : Solves(f, step, base, seq, n)
    BY FoldSolvable
  <1>2. f[{}] \in P
    BY <1>1 DEF Applied, Solves
  <1>3. ASSUME NEW s \in SUBSET (1..n), s # {}, f[s \ {Max(s)}] \in P
        PROVE  f[s] \in P
    <2>1. Max(s) \in s
      BY <1>3, MaxType
    <2>2. seq[Max(s)] \in U
      BY <1>3, <2>1
    <2>3. f[s] = step[<<f[s \ {Max(s)}], seq[Max(s)]>>]
      <3>1. f[s] = Applied(step, base, seq, f, s)
        BY <1>1, <1>3 DEF Solves
      <3> QED BY <1>3, <3>1 DEF Applied
    <2> QED BY <1>3, <2>2, <2>3
  <1>4. \A s \in SUBSET (1..n) : f[s] \in P
    BY <1>2, <1>3, FoldInduction
  <1> QED BY <1>1, <1>4

-----------------------------------------------------------------------------
(* The scheduler, UE by UE.                                                *)

LEMMA SoundParts ==
  ASSUME NEW base, NEW run \in Sound(base)
  PROVE  run \in Runs /\ Account(run) /\ \A u \in Ue : Good(run, u)
  BY DEF Sound

LEMMA SoundReuse ==
  ASSUME NEW base, NEW run \in Sound(base), NEW u \in SpsUe, NEW sendDci \in BOOLEAN
  PROVE  ReuseGrant(run, u, sendDci) \in Sound(base)
  <1>1. u \in Ue /\ run \in Runs /\ Account(run) /\ Good(run, u)
    BY SoundParts, ConstantTypes
  <1>2. ReuseGrant(run, u, sendDci) = run \/ Touches(run, ReuseGrant(run, u, sendDci), u)
    BY <1>1, ReuseEffect
  <1> QED BY <1>1, <1>2, TouchesSound

LEMMA SoundActivate ==
  ASSUME NEW base, NEW run \in Sound(base), NEW u \in SpsUe
  PROVE  ActivateGrant(run, u) \in Sound(base)
  <1>1. u \in Ue /\ run \in Runs /\ Account(run) /\ Good(run, u)
    BY SoundParts, ConstantTypes
  <1>2. ActivateGrant(run, u) = run \/ Touches(run, ActivateGrant(run, u), u)
    BY <1>1, ActivateEffect
  <1> QED BY <1>1, <1>2, TouchesSound

(* A fold of such steps.                                                   *)
Reused(run, order, reconfigured) ==
  FoldLeft(LAMBDA r, u : ReuseGrant(r, u, u \in reconfigured), run, order)

LEMMA SoundReuses ==
  ASSUME NEW base, NEW run \in Sound(base), NEW n \in Nat, NEW order \in [1..n -> SpsUe],
         NEW reconfigured
  PROVE  Reused(run, order, reconfigured) \in Sound(base)
  <1> DEFINE Op(r, u) == ReuseGrant(r, u, u \in reconfigured)
             P == Sound(base)
             step == [x \in P \X SpsUe |-> Op(x[1], x[2])]
             f == CHOOSE f : f = [s \in SUBSET DOMAIN order |-> FoldStep(Op, run, order, f, s)]
  <1>1. ASSUME NEW r \in P, NEW u \in SpsUe PROVE Op(r, u) \in P
    <2>1. (u \in reconfigured) \in BOOLEAN
      OBVIOUS
    <2> QED BY <2>1, SoundReuse
  <1>2. step \in [P \X SpsUe -> P]
    BY <1>1
  <1>3. run \in P
    OBVIOUS
  <1>4. Reused(run, order, reconfigured) = f[1..n]
    <2>1. DOMAIN order = 1..n
      OBVIOUS
    <2> QED BY <2>1 DEF Reused, FoldLeft, MapThenFoldSet, FoldStep
  <1> HIDE DEF P, step
  <1>5. PICK g : /\ Solves(g, step, run, order, n)
                 /\ \A s \in SUBSET (1..n) : g[s] \in P
    BY <1>2, <1>3, FoldWithin
  <1>6. ASSUME NEW h, NEW s \in SUBSET (1..n), s # {}, h[s \ {Max(s)}] \in P
        PROVE  /\ Applied(step, run, order, h, s) = FoldStep(Op, run, order, h, s)
               /\ FoldStep(Op, run, order, h, s) \in P
    <2>1. Max(s) \in s
      BY <1>6, MaxType
    <2>2. order[Max(s)] \in SpsUe
      BY <2>1
    <2>3. FoldStep(Op, run, order, h, s) = Op(h[s \ {Max(s)}], order[Max(s)])
      BY <1>6 DEF FoldStep
    <2>4. Applied(step, run, order, h, s) = step[<<h[s \ {Max(s)}], order[Max(s)]>>]
      BY <1>6 DEF Applied
    <2> HIDE DEF Op
    <2> QED BY <1>1, <1>6, <2>2, <2>3, <2>4 DEF step
  <1>7. g = [s \in SUBSET DOMAIN order |-> FoldStep(Op, run, order, g, s)]
    <2>1. ASSUME NEW s \in SUBSET (1..n)
          PROVE  Applied(step, run, order, g, s) = FoldStep(Op, run, order, g, s)
      <3>1. CASE s = {}
        BY <3>1 DEF Applied, FoldStep
      <3>2. CASE s # {}
        BY <1>5, <1>6, <3>2
      <3> QED BY <3>1, <3>2
    <2> HIDE DEF Op
    <2> QED BY <1>5, <2>1 DEF Solves
  <1>8. f = [s \in SUBSET DOMAIN order |-> FoldStep(Op, run, order, f, s)]
    <2> HIDE DEF Op
    <2> QED BY <1>7
  <1> HIDE DEF f
  <1>9. f[{}] \in P
    BY <1>3, <1>8 DEF FoldStep
  <1>10. ASSUME NEW s \in SUBSET (1..n), s # {}, f[s \ {Max(s)}] \in P
         PROVE  f[s] \in P
    <2>1. FoldStep(Op, run, order, f, s) \in P
      BY <1>6, <1>10
    <2> HIDE DEF Op
    <2> QED BY <1>8, <2>1
  <1> HIDE DEF Op
  <1>11. f[1..n] \in P
    BY <1>9, <1>10, FoldInduction
  <1> QED BY <1>4, <1>11 DEF P

LEMMA SoundActivations ==
  ASSUME NEW base, NEW run \in Sound(base), NEW n \in Nat, NEW order \in [1..n -> SpsUe]
  PROVE  FoldLeft(ActivateGrant, run, order) \in Sound(base)
  <1> DEFINE P == Sound(base)
             step == [x \in P \X SpsUe |-> ActivateGrant(x[1], x[2])]
             f == CHOOSE f : f = [s \in SUBSET DOMAIN order |-> FoldStep(ActivateGrant, run, order, f, s)]
  <1>1. ASSUME NEW r \in P, NEW u \in SpsUe PROVE ActivateGrant(r, u) \in P
    BY SoundActivate
  <1>2. step \in [P \X SpsUe -> P]
    BY <1>1
  <1>3. run \in P
    OBVIOUS
  <1>4. FoldLeft(ActivateGrant, run, order) = f[1..n]
    <2>1. DOMAIN order = 1..n
      OBVIOUS
    <2> QED BY <2>1 DEF FoldLeft, MapThenFoldSet, FoldStep
  <1> HIDE DEF P, step
  <1>5. PICK g : /\ Solves(g, step, run, order, n)
                 /\ \A s \in SUBSET (1..n) : g[s] \in P
    BY <1>2, <1>3, FoldWithin
  <1>6. ASSUME NEW h, NEW s \in SUBSET (1..n), s # {}, h[s \ {Max(s)}] \in P
        PROVE  /\ Applied(step, run, order, h, s) = FoldStep(ActivateGrant, run, order, h, s)
               /\ FoldStep(ActivateGrant, run, order, h, s) \in P
    <2>1. Max(s) \in s
      BY <1>6, MaxType
    <2>2. order[Max(s)] \in SpsUe
      BY <2>1
    <2>3. FoldStep(ActivateGrant, run, order, h, s) = ActivateGrant(h[s \ {Max(s)}], order[Max(s)])
      BY <1>6 DEF FoldStep
    <2>4. Applied(step, run, order, h, s) = step[<<h[s \ {Max(s)}], order[Max(s)]>>]
      BY <1>6 DEF Applied
    <2> QED BY <1>1, <1>6, <2>2, <2>3, <2>4 DEF step
  <1>7. g = [s \in SUBSET DOMAIN order |-> FoldStep(ActivateGrant, run, order, g, s)]
    <2>1. ASSUME NEW s \in SUBSET (1..n)
          PROVE  Applied(step, run, order, g, s) = FoldStep(ActivateGrant, run, order, g, s)
      <3>1. CASE s = {}
        BY <3>1 DEF Applied, FoldStep
      <3>2. CASE s # {}
        BY <1>5, <1>6, <3>2
      <3> QED BY <3>1, <3>2
    <2> QED BY <1>5, <2>1 DEF Solves
  <1>8. f = [s \in SUBSET DOMAIN order |-> FoldStep(ActivateGrant, run, order, f, s)]
    <2> QED BY <1>7
  <1> HIDE DEF f
  <1>9. f[{}] \in P
    BY <1>3, <1>8 DEF FoldStep
  <1>10. ASSUME NEW s \in SUBSET (1..n), s # {}, f[s \ {Max(s)}] \in P
         PROVE  f[s] \in P
    <2>1. FoldStep(ActivateGrant, run, order, f, s) \in P
      BY <1>6, <1>10
    <2> QED BY <1>8, <2>1
  <1>11. f[1..n] \in P
    BY <1>9, <1>10, FoldInduction
  <1> QED BY <1>4, <1>11 DEF P

-----------------------------------------------------------------------------
(* A queue has its share of the budget.                                    *)

Within(base, run, budget) ==
  {r \in Sound(base) : /\ run.round.granted <= r.round.granted
                       /\ r.round.granted <= run.round.granted + budget}

LEMMA SoundServe ==
  ASSUME NEW base, NEW run \in Sound(base), NEW budget \in Nat, NEW u \in Ue,
         NEW r \in Within(base, run, budget), NEW class,
         NEW next, next = IF u \in class \ r.served /\ NeedsGrant(r.ctx[u])
                 THEN ProcessUlGrant(r, u, Smaller(NeededRbs(r.ctx[u]),
                                                   budget - (r.round.granted - run.round.granted)))
                 ELSE r
  PROVE  next \in Within(base, run, budget)
  <1> DEFINE c == r.ctx[u]
             left == budget - (r.round.granted - run.round.granted)
             requested == Smaller(NeededRbs(c), left)
  <1>1. /\ r \in Runs /\ Account(r) /\ Good(r, u) /\ r \in Sound(base)
        /\ r.round.granted \in Nat /\ run.round.granted \in Nat /\ c \in Context
    <2>1. r \in Sound(base) /\ run \in Runs
      BY SoundParts DEF Within
    <2> QED BY <2>1, SoundParts, RunTypes
  <1>2. left \in Nat /\ r.round.granted + left = run.round.granted + budget
    BY <1>1 DEF Within
  <1> HIDE DEF left
  <1>3. CASE ~(u \in class \ r.served /\ NeedsGrant(c))
    BY <1>3
  <1>4. CASE u \in class \ r.served /\ NeedsGrant(c)
    <2>1. next = ProcessUlGrant(r, u, requested)
      BY <1>4 DEF left
    <2>2. ~Quiet(r, u)
      BY <1>1, <1>4, DemandType DEF NeedsGrant, NeedsBootstrapGrant, Quiet
    <2>3. NeededRbs(c) \in Nat /\ Worth(c, NeededRbs(c))
      <3>1. Demand(c) \in Nat /\ RbsForBytes(Demand(c)) \in Nat
        BY <1>1, DemandType, RbsForBytesType
      <3>2. CASE Demand(c) > 0
        <4>1. NeededRbs(c) = Smaller(PowerRbs, RbsForBytes(Demand(c)))
          BY <3>2 DEF NeededRbs
        <4>2. PowerRbs \in Nat
          BY ConstantTypes
        <4> QED BY <3>1, <3>2, <4>1, <4>2, SmallerType DEF Worth
      <3>3. CASE ~(Demand(c) > 0)
        <4>1. NeededRbs(c) = Smaller(PowerRbs, SrGrantRbs) /\ c.sr
          BY <1>4, <3>3 DEF NeededRbs, NeedsGrant, NeedsBootstrapGrant
        <4>2. PowerRbs \in Nat /\ SrGrantRbs \in Nat
          BY ConstantTypes
        <4> QED BY <4>1, <4>2, SmallerType DEF Worth
      <3> QED BY <3>2, <3>3
    <2>4. requested \in Nat /\ requested <= NeededRbs(c) /\ requested <= left
      BY <1>2, <2>3, SmallerType
    <2>5. Worth(c, requested)
      <3>1. RbsForBytes(Demand(c)) \in Nat
        BY <1>1, DemandType, RbsForBytesType
      <3> QED BY <2>3, <2>4, <3>1, ConstantTypes DEF Worth
    <2> HIDE DEF requested
    <2>6. /\ next = r \/ Touches(r, next, u)
          /\ r.round.granted <= next.round.granted
          /\ next.round.granted <= r.round.granted + requested
      BY <1>1, <2>1, <2>2, <2>4, <2>5, ProcessEffect
    <2>7. next \in Sound(base)
      BY <1>1, <2>6, TouchesSound
    <2>8. next.round.granted \in Nat
      BY <2>7, SoundParts, RunTypes
    <2> QED BY <1>1, <1>2, <2>4, <2>6, <2>7, <2>8 DEF Within
  <1> QED BY <1>3, <1>4

LEMMA SoundQueue ==
  ASSUME NEW base, NEW run \in Sound(base), NEW n \in Nat, NEW ranking \in [1..n -> Ue],
         NEW class, NEW budget \in Nat
  PROVE  ScheduleQueue(run, ranking, class, budget) \in Within(base, run, budget)
  <1> DEFINE Op(r, u) ==
               LET left == budget - (r.round.granted - run.round.granted)
               IN IF u \in class \ r.served /\ NeedsGrant(r.ctx[u])
                  THEN ProcessUlGrant(r, u, Smaller(NeededRbs(r.ctx[u]), left))
                  ELSE r
             P == Within(base, run, budget)
             step == [x \in P \X Ue |-> Op(x[1], x[2])]
             f == CHOOSE f : f = [s \in SUBSET DOMAIN ranking |-> FoldStep(Op, run, ranking, f, s)]
  <1>1. ASSUME NEW r \in P, NEW u \in Ue PROVE Op(r, u) \in P
    BY SoundServe
  <1>2. step \in [P \X Ue -> P]
    BY <1>1
  <1>3. run \in P
    <2>1. run.round.granted \in Nat
      BY SoundParts DEF Runs, Round
    <2> QED BY <2>1 DEF Within
  <1>4. FoldLeft(Op, run, ranking) = f[1..n]
    <2>1. DOMAIN ranking = 1..n
      OBVIOUS
    <2> QED BY <2>1 DEF FoldLeft, MapThenFoldSet, FoldStep
  <1> HIDE DEF P, step
  <1>5. PICK g : /\ Solves(g, step, run, ranking, n)
                 /\ \A s \in SUBSET (1..n) : g[s] \in P
    BY <1>2, <1>3, FoldWithin
  <1>6. ASSUME NEW h, NEW s \in SUBSET (1..n), s # {}, h[s \ {Max(s)}] \in P
        PROVE  /\ Applied(step, run, ranking, h, s) = FoldStep(Op, run, ranking, h, s)
               /\ FoldStep(Op, run, ranking, h, s) \in P
    <2>1. Max(s) \in s
      BY <1>6, MaxType
    <2>2. ranking[Max(s)] \in Ue
      BY <2>1
    <2>3. FoldStep(Op, run, ranking, h, s) = Op(h[s \ {Max(s)}], ranking[Max(s)])
      BY <1>6 DEF FoldStep
    <2>4. Applied(step, run, ranking, h, s) = step[<<h[s \ {Max(s)}], ranking[Max(s)]>>]
      BY <1>6 DEF Applied
    <2> HIDE DEF Op
    <2> QED BY <1>1, <1>6, <2>2, <2>3, <2>4 DEF step
  <1>7. g = [s \in SUBSET DOMAIN ranking |-> FoldStep(Op, run, ranking, g, s)]
    <2>1. ASSUME NEW s \in SUBSET (1..n)
          PROVE  Applied(step, run, ranking, g, s) = FoldStep(Op, run, ranking, g, s)
      <3>1. CASE s = {}
        BY <3>1 DEF Applied, FoldStep
      <3>2. CASE s # {}
        BY <1>5, <1>6, <3>2
      <3> QED BY <3>1, <3>2
    <2> HIDE DEF Op
    <2> QED BY <1>5, <2>1 DEF Solves
  <1>8. f = [s \in SUBSET DOMAIN ranking |-> FoldStep(Op, run, ranking, f, s)]
    <2> HIDE DEF Op
    <2> QED BY <1>7
  <1> HIDE DEF f
  <1>9. f[{}] \in P
    BY <1>3, <1>8 DEF FoldStep
  <1>10. ASSUME NEW s \in SUBSET (1..n), s # {}, f[s \ {Max(s)}] \in P
         PROVE  f[s] \in P
    <2>1. FoldStep(Op, run, ranking, f, s) \in P
      BY <1>6, <1>10
    <2> HIDE DEF Op
    <2> QED BY <1>8, <2>1
  <1> HIDE DEF Op
  <1>11. f[1..n] \in P
    BY <1>9, <1>10, FoldInduction
  <1> QED BY <1>4, <1>11 DEF P, Op, ScheduleQueue

-----------------------------------------------------------------------------
(* A run of the scheduler.                                                 *)

LEMMA OrderType ==
  ASSUME NEW S \in SUBSET Ue, NEW order \in SetToSeqs(S)
  PROVE  \E n \in Nat : order \in [1..n -> S]
  <1>1. Cardinality(S) \in Nat
    BY ConstantTypes, FS_Subset, FS_CardinalityType
  <1>2. order \in [1..Cardinality(S) -> S]
    BY DEF SetToSeqs
  <1> QED BY <1>1, <1>2

LEMMA SoundSps ==
  ASSUME NEW base, NEW run \in Sound(base), NEW order \in SetToSeqs(SpsUe), NEW reconfigured
  PROVE  RunSps(run, order, reconfigured) \in Sound(base)
  <1>1. PICK n \in Nat : order \in [1..n -> SpsUe]
    BY OrderType, ConstantTypes
  <1> DEFINE reused == Reused(run, order, reconfigured)
  <1>2. reused \in Sound(base)
    BY <1>1, SoundReuses
  <1>3. RunSps(run, order, reconfigured) = FoldLeft(ActivateGrant, reused, order)
    BY DEF RunSps, Reused
  <1> HIDE DEF reused
  <1> QED BY <1>1, <1>2, <1>3, SoundActivations

(* The shares of the three queues are shares of what is left.              *)
LEMMA SoundQueues ==
  ASSUME NEW base, NEW run \in Sound(base), NEW ranking \in SetToSeqs(Ue), NEW late
  PROVE  RunQueues(run, ranking, late) \in Sound(base)
  <1> DEFINE available == RemainingRbs(run.usage)
             urgency == late /\ \E u \in Emergency \ run.served : NeedsGrant(run.ctx[u])
             share == IF urgency THEN 3 ELSE 1
             emergencyBudget == Smaller(available, share)
             voiceBudget == Smaller(available - emergencyBudget, 2)
             urgent == ScheduleQueue(run, ranking, Emergency, emergencyBudget)
             spoken == ScheduleQueue(urgent, ranking, Voice, voiceBudget)
             left == available - (spoken.round.granted - run.round.granted)
             final == ScheduleQueue(spoken, ranking, Normal, left)
  <1>1. PICK n \in Nat : ranking \in [1..n -> Ue]
    BY OrderType
  <1>2. RunQueues(run, ranking, late) = final
    BY DEF RunQueues
  <1>3. run.usage \in Usage /\ run.round.granted \in Nat
    BY SoundParts DEF Runs, Round
  <1>4. available \in Nat /\ share \in Nat
    BY <1>3, RemainingType
  <1> HIDE DEF available, share
  <1>5. emergencyBudget \in Nat /\ emergencyBudget <= available
    BY <1>4, SmallerType
  <1> HIDE DEF emergencyBudget
  <1>6. voiceBudget \in Nat /\ voiceBudget <= available - emergencyBudget
    <2>1. available - emergencyBudget \in Nat
      BY <1>4, <1>5
    <2> QED BY <2>1, SmallerType
  <1> HIDE DEF voiceBudget
  <1>7. urgent \in Within(base, run, emergencyBudget)
    BY <1>1, <1>5, SoundQueue
  <1> HIDE DEF urgent
  <1>8. urgent \in Sound(base) /\ spoken \in Within(base, urgent, voiceBudget)
    BY <1>1, <1>6, <1>7, SoundQueue DEF Within
  <1> HIDE DEF spoken
  <1>9. spoken \in Sound(base) /\ spoken.round.granted \in Nat /\ urgent.round.granted \in Nat
    <2>1. spoken \in Sound(base)
      BY <1>8 DEF Within
    <2> QED BY <1>8, <2>1, SoundParts DEF Runs, Round
  <1>10. left \in Nat
    BY <1>3, <1>4, <1>5, <1>6, <1>7, <1>8, <1>9 DEF Within
  <1> HIDE DEF left
  <1>11. final \in Within(base, spoken, left)
    BY <1>1, <1>9, <1>10, SoundQueue
  <1> HIDE DEF final
  <1> QED BY <1>2, <1>11 DEF Within

(* What a run leaves is what is known, but for who was served.             *)
LEMMA ScheduleEffect ==
  ASSUME NEW base, base \in Sound(base), Schedule(base)
  PROVE  Run' \in Sound(base)
  <1>1. PICK order \in SetToSeqs(SpsUe), ranking \in SetToSeqs(Ue), late \in BOOLEAN,
             reconfigured \in SUBSET SpsUe :
          LET ran == RunQueues(RunSps(base, order, reconfigured), ranking, late) IN
          /\ ctx' = ran.ctx
          /\ usage' = ran.usage
          /\ grants' = ran.grants
          /\ down' = ran.down
          /\ round' = ran.round
    BY DEF Schedule
  <1> DEFINE ran == RunQueues(RunSps(base, order, reconfigured), ranking, late)
  <1>2. ran \in Sound(base)
    BY SoundSps, SoundQueues
  <1>3. /\ ctx' = ran.ctx /\ usage' = ran.usage /\ grants' = ran.grants
        /\ down' = ran.down /\ round' = ran.round
    BY <1>1
  <1> HIDE DEF ran
  <1>4. Run' = [ctx |-> ran.ctx, usage |-> ran.usage, grants |-> ran.grants, down |-> ran.down,
                round |-> ran.round, served |-> {}]
    BY <1>3 DEF Run
  <1> DEFINE next == Run'
  <1>5. /\ next.ctx = ran.ctx /\ next.usage = ran.usage /\ next.grants = ran.grants
        /\ next.down = ran.down /\ next.round = ran.round /\ next.served = {}
    BY <1>4
  <1>6. next \in Runs
    BY <1>2, <1>4 DEF Sound, Runs
  <1> HIDE DEF next
  <1>7. Account(next)
    BY <1>2, <1>5 DEF Sound, Account
  <1>8. ASSUME NEW u \in Ue
        PROVE  /\ Good(next, u)
               /\ next.ctx[u].buffer = base.ctx[u].buffer
               /\ Quiet(base, u) => Quiet(next, u)
    BY <1>2, <1>5 DEF Sound, Good, Quiet
  <1>9. next \in Sound(base)
    BY <1>2, <1>5, <1>6, <1>7, <1>8 DEF Sound
  <1> QED BY <1>9 DEF next

-----------------------------------------------------------------------------
(* The messages under way.                                                 *)

(* What the gateway believes once a message has come.                      *)
After(bytes, message) ==
  IF message.kind = "bsr" THEN message.bytes
  ELSE IF message.kind = "pdu" THEN bytes - Smaller(message.bytes, bytes) ELSE bytes

(* Once all of them have come it believes no more than is left.            *)
Settles(bytes, messages, left) ==
  \E h \in [1..(Len(messages) + 1) -> Nat] :
    /\ h[1] = bytes
    /\ \A i \in 1..Len(messages) : h[i + 1] = After(h[i], messages[i])
    /\ h[Len(messages) + 1] <= left

LEMMA AfterType ==
  ASSUME NEW bytes \in Nat, NEW message \in Message
  PROVE  After(bytes, message) \in Nat
  BY SmallerType DEF After, Message

LEMMA SettlesEmpty ==
  ASSUME NEW bytes \in Nat, NEW left \in Nat
  PROVE  Settles(bytes, <<>>, left) <=> bytes <= left
  <1>1. Len(<<>>) = 0
    BY EmptySeq
  <1>2. ASSUME bytes <= left PROVE Settles(bytes, <<>>, left)
    <2> DEFINE h == [i \in 1..1 |-> bytes]
    <2>1. h \in [1..1 -> Nat] /\ h[1] = bytes
      OBVIOUS
    <2> HIDE DEF h
    <2> QED BY <1>1, <1>2, <2>1 DEF Settles
  <1>3. Settles(bytes, <<>>, left) => bytes <= left
    BY <1>1 DEF Settles
  <1> QED BY <1>2, <1>3

LEMMA SettlesMore ==
  ASSUME NEW bytes \in Nat, NEW messages \in Seq(Message), NEW left \in Nat, NEW more \in Nat,
         Settles(bytes, messages, left), left <= more
  PROVE  Settles(bytes, messages, more)
  <1>1. Len(messages) \in Nat
    BY LenProperties
  <1>2. PICK h \in [1..(Len(messages) + 1) -> Nat] :
          /\ h[1] = bytes
          /\ \A i \in 1..Len(messages) : h[i + 1] = After(h[i], messages[i])
          /\ h[Len(messages) + 1] <= left
    BY DEF Settles
  <1>3. h[Len(messages) + 1] \in Nat
    BY <1>1
  <1>4. h[Len(messages) + 1] <= more
    BY <1>2, <1>3
  <1> QED BY <1>2, <1>4 DEF Settles

LEMMA SettlesTail ==
  ASSUME NEW bytes \in Nat, NEW messages \in Seq(Message), messages # <<>>, NEW left \in Nat,
         Settles(bytes, messages, left)
  PROVE  Settles(After(bytes, Head(messages)), Tail(messages), left)
  <1> DEFINE n == Len(Tail(messages))
  <1>1. /\ n \in Nat /\ Len(messages) = n + 1
        /\ Head(messages) = messages[1]
        /\ \A i \in 1..n : Tail(messages)[i] = messages[i + 1]
    BY HeadTailProperties, LenProperties
  <1> HIDE DEF n
  <1>2. PICK h \in [1..(n + 2) -> Nat] :
          /\ h[1] = bytes
          /\ \A i \in 1..(n + 1) : h[i + 1] = After(h[i], messages[i])
          /\ h[n + 2] <= left
    <2>1. (n + 1) + 1 = n + 2
      BY <1>1
    <2> QED BY <1>1, <2>1 DEF Settles
  <1> DEFINE g == [i \in 1..(n + 1) |-> h[i + 1]]
  <1>3. g \in [1..(n + 1) -> Nat]
    BY <1>1
  <1>4. g[1] = After(bytes, Head(messages))
    BY <1>1, <1>2
  <1>5. ASSUME NEW i \in 1..n PROVE g[i + 1] = After(g[i], Tail(messages)[i])
    <2>1. i + 1 \in 1..(n + 1) /\ i \in 1..(n + 1) /\ Tail(messages)[i] = messages[i + 1]
      BY <1>1
    <2>2. g[i + 1] = h[(i + 1) + 1] /\ g[i] = h[i + 1]
      BY <2>1
    <2> QED BY <1>2, <2>1, <2>2
  <1>6. g[n + 1] <= left
    <2>1. g[n + 1] = h[(n + 1) + 1] /\ (n + 1) + 1 = n + 2
      BY <1>1
    <2> QED BY <1>2, <2>1
  <1> HIDE DEF g
  <1> QED BY <1>3, <1>4, <1>5, <1>6 DEF Settles, n

LEMMA SettlesSent ==
  ASSUME NEW bytes \in Nat, NEW messages \in Seq(Message), NEW left \in Nat,
         Settles(bytes, messages, left), NEW message \in Message, NEW more \in Nat,
         \A b \in Nat : b <= left => After(b, message) <= more
  PROVE  Settles(bytes, messages \o <<message>>, more)
  <1> DEFINE n == Len(messages)
             q == messages \o <<message>>
  <1>1. /\ n \in Nat /\ Len(q) = n + 1 /\ q[n + 1] = message
        /\ \A i \in 1..n : q[i] = messages[i]
    <2>1. q = Append(messages, message)
      OBVIOUS
    <2> QED BY <2>1, AppendProperties, LenProperties
  <1> HIDE DEF q
  <1>2. PICK h \in [1..(n + 1) -> Nat] :
          /\ h[1] = bytes
          /\ \A i \in 1..n : h[i + 1] = After(h[i], messages[i])
          /\ h[n + 1] <= left
    BY DEF Settles
  <1> HIDE DEF n
  <1> DEFINE last == After(h[n + 1], message)
             g == [i \in 1..(n + 2) |-> IF i = n + 2 THEN last ELSE h[i]]
  <1>3. h[n + 1] \in Nat /\ last \in Nat /\ last <= more
    <2>1. h[n + 1] \in Nat
      BY <1>1
    <2> QED BY <1>2, <2>1, AfterType
  <1> HIDE DEF last
  <1>4. g \in [1..(n + 2) -> Nat]
    BY <1>1, <1>3
  <1>5. g[1] = bytes /\ g[n + 2] = last
    BY <1>1, <1>2
  <1>6. ASSUME NEW i \in 1..(n + 1) PROVE g[i + 1] = After(g[i], q[i])
    <2>1. CASE i = n + 1
      <3>1. g[i + 1] = last /\ g[i] = h[n + 1]
        BY <1>1, <2>1
      <3> QED BY <1>1, <2>1, <3>1 DEF last
    <2>2. CASE i # n + 1
      <3>1. i \in 1..n /\ g[i + 1] = h[i + 1] /\ g[i] = h[i]
        BY <1>1, <2>2
      <3> QED BY <1>1, <1>2, <3>1
    <2> QED BY <2>1, <2>2
  <1> HIDE DEF g
  <1>7. Len(q) + 1 = n + 2
    BY <1>1
  <1>8. Settles(bytes, q, more)
    BY <1>1, <1>3, <1>4, <1>5, <1>6, <1>7 DEF Settles
  <1> QED BY <1>8 DEF q

-----------------------------------------------------------------------------
(* The invariant.                                                          *)

(* Each UE's picture is worth what it was issued, and the beam's account   *)
(* is what the round granted.                                              *)
StateInv ==
  /\ mac \in [Ue -> Mac]
  /\ up \in [Ue -> Seq(Message)]
  /\ Run \in Runs /\ Account(Run)
  /\ \A u \in Ue : Good(Run, u)
  /\ ~round.opened => usage.used = 0

(* A UE asks once, and nothing was heard of it before it has.              *)
Unheard(u) == Quiet(Run, u) /\ mac[u].grants = 0

Unasked(u) ==
  /\ ~mac[u].srPending => Unheard(u) /\ up[u] = <<>>
  /\ \A i \in 1..Len(up[u]) : up[u][i].kind = "sr" => Unheard(u) /\ Len(up[u]) = 1

AskInv == \A u \in Ue : Unasked(u)

(* What is under way settles what the gateway believes.                    *)
HeardInv == \A u \in Ue : Settles(ctx[u].buffer, up[u], mac[u].buffer)

UplinkInv == StateInv /\ AskInv /\ HeardInv

LEMMA StateTypes ==
  Run \in Runs <=> /\ ctx \in [Ue -> Context] /\ usage \in Usage
                   /\ grants \in [Ue -> Grant] /\ down \in [Ue -> Nat] /\ round \in Round
  BY DEF Run, Runs

LEMMA InvTypes ==
  ASSUME StateInv, NEW u \in Ue
  PROVE  /\ ctx \in [Ue -> Context] /\ ctx[u] \in Context /\ ctx[u].buffer \in Nat
         /\ ctx[u].pendingBytes \in Nat
         /\ usage \in Usage /\ grants \in [Ue -> Grant] /\ down \in [Ue -> Nat] /\ down[u] \in Nat
         /\ round \in Round /\ round.issued \in [Ue -> Nat] /\ round.issued[u] \in Nat
         /\ mac \in [Ue -> Mac] /\ mac[u] \in Mac /\ mac[u].buffer \in Nat
         /\ up \in [Ue -> Seq(Message)] /\ up[u] \in Seq(Message)
  BY StateTypes DEF StateInv, Context, Round, Mac

LEMMA RunParts ==
  /\ Run.ctx = ctx /\ Run.usage = usage /\ Run.grants = grants /\ Run.down = down
  /\ Run.round = round /\ Run.served = {}
  BY DEF Run

LEMMA SoundItself ==
  ASSUME NEW base \in Runs, Account(base), \A u \in Ue : Good(base, u)
  PROVE  base \in Sound(base)
  BY DEF Sound

LEMMA InvImplies ==
  ASSUME UplinkInv
  PROVE  TypeOK /\ GrantsAreSound /\ PictureSettles
  <1>1. TypeOK
    BY StateTypes DEF UplinkInv, StateInv, TypeOK
  <1>2. RoundWithinBudget
    BY RunParts DEF UplinkInv, StateInv, Account, RoundWithinBudget
  <1>3. ASSUME NEW u \in Ue
        PROVE  /\ ctx[u].pendingBytes <= ctx[u].buffer
               /\ ctx[u].pendingRbs = 0 <=> ctx[u].pendingBytes = 0
               /\ u \in Normal => \/ round.issued[u] < ctx[u].buffer + BytesPerRb
                                  \/ round.issued[u] <= SrGrantRbs * BytesPerRb
    <2>1. Picture(ctx[u], round.issued[u], u)
      BY RunParts DEF UplinkInv, StateInv, Good
    <2>2. ctx[u].buffer \in Nat /\ round.issued[u] \in Nat
      BY InvTypes DEF UplinkInv
    <2> QED BY <2>1, <2>2, SmallerType DEF Picture
  <1>4. Normal \subseteq Ue
    BY DEF Ue
  <1>5. PendingIsCovered /\ GrantsMatchBacklog
    BY <1>3, <1>4 DEF PendingIsCovered, GrantsMatchBacklog
  <1>6. ASSUME NEW u \in Ue, up[u] = <<>> PROVE ctx[u].buffer <= mac[u].buffer
    BY <1>6, InvTypes, SettlesEmpty DEF UplinkInv, HeardInv
  <1> QED BY <1>1, <1>2, <1>5, <1>6 DEF GrantsAreSound, PictureSettles

LEMMA InitInv == Init => UplinkInv
  <1> SUFFICES ASSUME Init PROVE UplinkInv
    OBVIOUS
  <1> DEFINE none == [buffer |-> 0, pendingBytes |-> 0, pendingRbs |-> 0, sr |-> FALSE]
             fresh == [opened |-> FALSE, granted |-> 0, issued |-> [u \in Ue |-> 0]]
  <1>1. none \in Context /\ fresh \in Round /\ Unused \in Usage /\ NoGrant \in Grant
        /\ IdleMac \in Mac
    BY DEF Context, Round, Usage, Unused, Grant, NoGrant, IdleMac, Mac
  <1>2. /\ mac = [u \in Ue |-> IdleMac] /\ up = [u \in Ue |-> <<>>] /\ down = [u \in Ue |-> 0]
        /\ ctx = [u \in Ue |-> none] /\ usage = Unused /\ grants = [u \in Ue |-> NoGrant]
        /\ round = fresh
    BY DEF Init
  <1>3. /\ none.buffer = 0 /\ none.pendingBytes = 0 /\ none.pendingRbs = 0 /\ none.sr = FALSE
        /\ fresh.opened = FALSE /\ fresh.granted = 0 /\ fresh.issued = [u \in Ue |-> 0]
    OBVIOUS
  <1> HIDE DEF none, fresh
  <1>4. Run \in Runs
    BY <1>1, <1>2, StateTypes
  <1>5. mac \in [Ue -> Mac] /\ up \in [Ue -> Seq(Message)]
    BY <1>1, <1>2, EmptySeq
  <1>6. Account(Run) /\ usage.used = 0
    BY <1>2, <1>3, RunParts, ConstantTypes DEF Account, Unused
  <1>7. ASSUME NEW u \in Ue PROVE Good(Run, u) /\ Quiet(Run, u)
    <2>1. /\ Run.ctx[u] = none /\ Run.round.issued[u] = 0 /\ Run.grants[u] = NoGrant
          /\ Run.down[u] = 0
      BY <1>2, <1>3, RunParts
    <2>2. NoGrant.active = FALSE
      BY DEF NoGrant
    <2> QED BY <1>3, <2>1, <2>2, ConstantTypes DEF Good, Quiet, Picture, Smaller
  <1>8. ASSUME NEW u \in Ue PROVE Unasked(u) /\ Settles(ctx[u].buffer, up[u], mac[u].buffer)
    <2>1. up[u] = <<>> /\ Len(up[u]) = 0 /\ mac[u].grants = 0 /\ mac[u].buffer = 0
          /\ ctx[u].buffer = 0
      BY <1>2, <1>3, EmptySeq DEF IdleMac
    <2>2. Settles(0, <<>>, 0)
      BY SettlesEmpty
    <2> QED BY <1>7, <2>1, <2>2 DEF Unasked, Unheard
  <1> QED BY <1>4, <1>5, <1>6, <1>7, <1>8 DEF UplinkInv, StateInv, AskInv, HeardInv

-----------------------------------------------------------------------------
(* The UE's steps.                                                         *)

UeMoves(u, m, q, d) ==
  /\ UNCHANGED <<ctx, usage, grants, round>>
  /\ m \in Mac /\ mac' = [mac EXCEPT ![u] = m]
  /\ q \in Seq(Message) /\ up' = [up EXCEPT ![u] = q]
  /\ d \in Nat /\ down' = [down EXCEPT ![u] = d]
  /\ Settles(ctx[u].buffer, q, m.buffer)
  /\ ~m.srPending => Unheard(u) /\ d = 0 /\ m.grants = 0 /\ q = <<>>
  /\ \A i \in 1..Len(q) :
       q[i].kind = "sr" => Unheard(u) /\ d = 0 /\ m.grants = 0 /\ Len(q) = 1

LEMMA UeStep ==
  ASSUME UplinkInv, NEW u \in Ue, NEW m, NEW q, NEW d, UeMoves(u, m, q, d)
  PROVE  UplinkInv'
  <1> USE DEF UeMoves
  <1>1. /\ mac \in [Ue -> Mac] /\ up \in [Ue -> Seq(Message)] /\ down \in [Ue -> Nat]
        /\ ctx \in [Ue -> Context] /\ usage \in Usage /\ grants \in [Ue -> Grant] /\ round \in Round
    BY StateTypes DEF UplinkInv, StateInv
  <1>2. /\ mac' \in [Ue -> Mac] /\ up' \in [Ue -> Seq(Message)] /\ down' \in [Ue -> Nat]
        /\ mac'[u] = m /\ up'[u] = q /\ down'[u] = d
    BY <1>1
  <1>3. Run' \in Runs
    <2>1. Run' = [ctx |-> ctx', usage |-> usage', grants |-> grants', down |-> down',
                  round |-> round', served |-> {}]
      BY DEF Run
    <2>2. /\ ctx' \in [Ue -> Context] /\ usage' \in Usage /\ grants' \in [Ue -> Grant]
          /\ round' \in Round
      BY <1>1
    <2> QED BY <1>2, <2>1, <2>2 DEF Runs
  <1>4. /\ Run'.ctx = Run.ctx /\ Run'.usage = Run.usage /\ Run'.grants = Run.grants
        /\ Run'.round = Run.round /\ Run'.down = down'
    BY DEF Run
  <1>5. Account(Run') /\ (~round'.opened => usage'.used = 0)
    BY <1>4 DEF UplinkInv, StateInv, Account
  <1>6. \A v \in Ue : Good(Run', v)
    BY <1>4 DEF UplinkInv, StateInv, Good
  <1>7. StateInv'
    BY <1>2, <1>3, <1>5, <1>6 DEF StateInv
  <1>8. ASSUME NEW v \in Ue
        PROVE  Unasked(v)' /\ Settles(ctx'[v].buffer, up'[v], mac'[v].buffer)
    <2>1. CASE v = u
      <3>1. Unheard(u) /\ d = 0 /\ m.grants = 0 => Unheard(u)'
        BY <1>2, <1>4, RunParts DEF Unheard, Quiet
      <3> QED BY <1>2, <2>1, <3>1 DEF Unasked
    <2>2. CASE v # u
      <3>1. mac'[v] = mac[v] /\ up'[v] = up[v] /\ down'[v] = down[v] /\ ctx'[v] = ctx[v]
        BY <1>1, <2>2
      <3>2. Unheard(v) => Unheard(v)'
        BY <1>4, <3>1, RunParts DEF Unheard, Quiet
      <3> QED BY <3>1, <3>2 DEF UplinkInv, AskInv, HeardInv, Unasked
    <2> QED BY <2>1, <2>2
  <1> QED BY <1>7, <1>8 DEF UplinkInv, AskInv, HeardInv

LEMMA MacTypes ==
  ASSUME NEW m \in Mac
  PROVE  /\ m.buffer \in Nat /\ m.srPending \in BOOLEAN /\ m.grants \in Nat
         /\ m.receptions \in Nat /\ m.ends \in Nat
         /\ \A bytes \in Nat :
              /\ NotifyDataBuffered(m, bytes) \in Mac
              /\ NotifyDataBuffered(m, bytes).buffer = m.buffer + bytes
              /\ NotifyDataBuffered(m, bytes).srPending = (m.srPending \/ RequestsGrant(m))
              /\ NotifyDataBuffered(m, bytes).grants = m.grants
         /\ ProcessUplinkDci(m) \in Mac /\ ProcessUplinkDci(m).buffer = m.buffer
         /\ ProcessUplinkDci(m).srPending = m.srPending
         /\ ProcessDownlinkDci(m) \in Mac /\ ProcessDownlinkDci(m).buffer = m.buffer
         /\ ProcessDownlinkDci(m).srPending = m.srPending
         /\ ProcessDownlinkDci(m).grants = m.grants
         /\ m.grants > 0 => /\ DoTransmit(m) \in Mac /\ DoTransmit(m).buffer = 0
                            /\ DoTransmit(m).srPending = m.srPending
         /\ m.receptions > 0 => /\ ReceiveData(m) \in Mac /\ ReceiveData(m).buffer = m.buffer
                                /\ ReceiveData(m).srPending = m.srPending
                                /\ ReceiveData(m).grants = m.grants
         /\ m.ends > 0 => /\ SwitchState(m) \in Mac /\ SwitchState(m).buffer = m.buffer
                          /\ SwitchState(m).srPending = m.srPending
                          /\ SwitchState(m).grants = m.grants
  <1>1. /\ m.buffer \in Nat /\ m.srPending \in BOOLEAN /\ m.grants \in Nat
        /\ m.receptions \in Nat /\ m.ends \in Nat
    BY DEF Mac
  <1>2. ASSUME NEW bytes \in Nat
        PROVE  /\ NotifyDataBuffered(m, bytes) \in Mac
               /\ NotifyDataBuffered(m, bytes).buffer = m.buffer + bytes
               /\ NotifyDataBuffered(m, bytes).srPending = (m.srPending \/ RequestsGrant(m))
               /\ NotifyDataBuffered(m, bytes).grants = m.grants
    <2> DEFINE asks == m.srPending \/ RequestsGrant(m)
    <2>1. asks \in BOOLEAN
      OBVIOUS
    <2>2. NotifyDataBuffered(m, bytes) = [m EXCEPT !.buffer = m.buffer + bytes, !.srPending = asks]
      BY DEF NotifyDataBuffered
    <2> HIDE DEF asks
    <2>3. m.buffer + bytes \in Nat
      BY <1>1
    <2>4. /\ NotifyDataBuffered(m, bytes) \in Mac
          /\ NotifyDataBuffered(m, bytes).buffer = m.buffer + bytes
          /\ NotifyDataBuffered(m, bytes).srPending = asks
          /\ NotifyDataBuffered(m, bytes).grants = m.grants
      BY <2>1, <2>2, <2>3 DEF Mac
    <2> QED BY <2>4 DEF asks
  <1>3. /\ m.grants + 1 \in Nat /\ m.receptions + 1 \in Nat /\ m.ends + 1 \in Nat
        /\ m.grants > 0 => m.grants - 1 \in Nat
        /\ m.receptions > 0 => m.receptions - 1 \in Nat
        /\ m.ends > 0 => m.ends - 1 \in Nat
    BY <1>1
  <1>4. /\ ProcessUplinkDci(m) \in Mac /\ ProcessUplinkDci(m).buffer = m.buffer
        /\ ProcessUplinkDci(m).srPending = m.srPending
        /\ ProcessDownlinkDci(m) \in Mac /\ ProcessDownlinkDci(m).buffer = m.buffer
        /\ ProcessDownlinkDci(m).srPending = m.srPending
        /\ ProcessDownlinkDci(m).grants = m.grants
    BY <1>3 DEF ProcessUplinkDci, ProcessDownlinkDci, Mac
  <1>5. ASSUME m.grants > 0
        PROVE  /\ DoTransmit(m) \in Mac /\ DoTransmit(m).buffer = 0
               /\ DoTransmit(m).srPending = m.srPending
    BY <1>3, <1>5 DEF DoTransmit, Mac
  <1>6. ASSUME m.receptions > 0
        PROVE  /\ ReceiveData(m) \in Mac /\ ReceiveData(m).buffer = m.buffer
               /\ ReceiveData(m).srPending = m.srPending /\ ReceiveData(m).grants = m.grants
    BY <1>3, <1>6 DEF ReceiveData, Mac
  <1>7. ASSUME m.ends > 0
        PROVE  /\ SwitchState(m) \in Mac /\ SwitchState(m).buffer = m.buffer
               /\ SwitchState(m).srPending = m.srPending /\ SwitchState(m).grants = m.grants
    BY <1>3, <1>7 DEF SwitchState, Mac
  <1> QED BY <1>1, <1>2, <1>4, <1>5, <1>6, <1>7

(* The messages of a UE.                                                   *)
LEMMA MessageTypes ==
  /\ Sr \in Message /\ Sr.kind = "sr"
  /\ \A bytes \in Nat : /\ Bsr(bytes) \in Message /\ Bsr(bytes).kind = "bsr"
                        /\ Bsr(bytes).bytes = bytes
                        /\ Pdu(bytes) \in Message /\ Pdu(bytes).kind = "pdu"
                        /\ Pdu(bytes).bytes = bytes
  BY DEF Sr, Bsr, Pdu, Message

LEMMA SentType ==
  ASSUME NEW q \in Seq(Message), NEW message \in Message
  PROVE  /\ q \o <<message>> \in Seq(Message)
         /\ Len(q \o <<message>>) = Len(q) + 1
         /\ (q \o <<message>>)[Len(q) + 1] = message
         /\ \A i \in 1..Len(q) : (q \o <<message>>)[i] = q[i]
         /\ q \o <<>> = q
  <1>1. q \o <<message>> = Append(q, message) /\ q \o <<>> = q
    BY ConcatEmptySeq
  <1> QED BY <1>1, AppendProperties, LenProperties

(* What a UE in contact with the gateway sends is no SR.                   *)
LEMMA LaterMessage ==
  ASSUME UplinkInv, NEW u \in Ue, ~Unheard(u)
  PROVE  /\ mac[u].srPending
         /\ \A i \in 1..Len(up[u]) : up[u][i].kind # "sr"
         /\ \A message \in Message : message.kind # "sr" =>
              \A i \in 1..Len(up[u] \o <<message>>) : (up[u] \o <<message>>)[i].kind # "sr"
  <1>1. up[u] \in Seq(Message) /\ Len(up[u]) \in Nat
    BY InvTypes, LenProperties DEF UplinkInv
  <1>2. mac[u].srPending /\ \A i \in 1..Len(up[u]) : up[u][i].kind # "sr"
    BY DEF UplinkInv, AskInv, Unasked
  <1>3. ASSUME NEW message \in Message, message.kind # "sr",
               NEW i \in 1..Len(up[u] \o <<message>>)
        PROVE  (up[u] \o <<message>>)[i].kind # "sr"
    <2>1. Len(up[u] \o <<message>>) = Len(up[u]) + 1
      BY <1>1, SentType
    <2>2. CASE i = Len(up[u]) + 1
      <3>1. (up[u] \o <<message>>)[i] = message
        BY <1>1, <2>2, SentType
      <3> QED BY <1>3, <3>1
    <2>3. CASE i # Len(up[u]) + 1
      <3>1. i \in 1..Len(up[u])
        BY <1>1, <2>1, <2>3
      <3>2. (up[u] \o <<message>>)[i] = up[u][i]
        BY <1>1, <3>1, SentType
      <3> QED BY <1>2, <3>1, <3>2
    <2> QED BY <2>2, <2>3
  <1> QED BY <1>2, <1>3

LEMMA DataArrivesInv ==
  ASSUME UplinkInv, NEW u \in Ue, DataArrives(u)
  PROVE  UplinkInv'
  <1>1. PICK bytes \in 1..(MaxBytes - mac[u].buffer) :
          mac' = [mac EXCEPT ![u] = NotifyDataBuffered(mac[u], bytes)]
    BY InvTypes DEF DataArrives, UplinkInv
  <1> DEFINE m == NotifyDataBuffered(mac[u], bytes)
             b == ctx[u].buffer
  <1>2. /\ up' = [up EXCEPT ![u] = up[u] \o (IF RequestsGrant(mac[u]) THEN <<Sr>> ELSE <<>>)]
        /\ UNCHANGED <<down, ctx, usage, grants, round>>
    BY InvTypes DEF DataArrives, Send, UplinkInv
  <1>3. /\ down \in [Ue -> Nat] /\ down[u] \in Nat /\ mac[u] \in Mac /\ mac[u].buffer \in Nat
        /\ up[u] \in Seq(Message) /\ b \in Nat
    BY InvTypes DEF UplinkInv
  <1>4. bytes \in Nat
    BY <1>3, ConstantTypes
  <1>5. /\ m \in Mac /\ m.buffer = mac[u].buffer + bytes /\ m.grants = mac[u].grants
        /\ m.srPending = (mac[u].srPending \/ RequestsGrant(mac[u]))
    BY <1>3, <1>4, MacTypes
  <1>6. mac' = [mac EXCEPT ![u] = m] /\ down' = [down EXCEPT ![u] = down[u]]
    BY <1>1, <1>2, <1>3
  <1> HIDE DEF m
  <1>7. mac[u].buffer <= m.buffer /\ m.buffer \in Nat
    BY <1>3, <1>4, <1>5
  <1>8. Settles(b, up[u], mac[u].buffer)
    BY DEF UplinkInv, HeardInv
  <1>9. Settles(b, up[u], m.buffer)
    BY <1>3, <1>7, <1>8, SettlesMore
  <1>10. Unheard(u) => down[u] = 0 /\ mac[u].grants = 0
    BY RunParts DEF Unheard, Quiet
  <1>11. Unasked(u)
    BY DEF UplinkInv, AskInv
  <1>12. CASE RequestsGrant(mac[u])
    <2>1. Unheard(u) /\ up[u] = <<>> /\ m.srPending
      BY <1>5, <1>11, <1>12 DEF Unasked, RequestsGrant
    <2> DEFINE q == up[u] \o <<Sr>>
    <2>2. q \in Seq(Message) /\ Len(q) = 1
      <3>1. Len(up[u]) = 0
        BY <2>1, EmptySeq
      <3> QED BY <1>3, <3>1, SentType, MessageTypes
    <2>3. up' = [up EXCEPT ![u] = q]
      BY <1>2, <1>12
    <2>4. Settles(b, q, m.buffer)
      <3>1. \A x \in Nat : x <= m.buffer => After(x, Sr) <= m.buffer
        BY MessageTypes DEF After
      <3> QED BY <1>3, <1>7, <1>9, <3>1, SettlesSent, MessageTypes
    <2> HIDE DEF q, b
    <2>5. Settles(ctx[u].buffer, q, m.buffer)
      BY <2>4 DEF b
    <2>6. \A i \in 1..Len(q) :
            q[i].kind = "sr" => Unheard(u) /\ down[u] = 0 /\ m.grants = 0 /\ Len(q) = 1
      BY <1>5, <1>10, <2>1, <2>2
    <2>7. UeMoves(u, m, q, down[u])
      BY <1>2, <1>3, <1>5, <1>6, <2>1, <2>2, <2>3, <2>5, <2>6 DEF UeMoves
    <2> QED BY <2>7, UeStep
  <1>13. CASE ~RequestsGrant(mac[u])
    <2>1. up' = [up EXCEPT ![u] = up[u]]
      BY <1>2, <1>3, <1>13, ConcatEmptySeq
    <2>2. ~m.srPending => Unheard(u) /\ up[u] = <<>>
      BY <1>5, <1>11, <1>13 DEF Unasked
    <2>3. \A i \in 1..Len(up[u]) : up[u][i].kind = "sr" => Unheard(u) /\ Len(up[u]) = 1
      BY <1>11 DEF Unasked
    <2>4. UeMoves(u, m, up[u], down[u])
      BY <1>2, <1>3, <1>5, <1>6, <1>9, <1>10, <2>1, <2>2, <2>3 DEF UeMoves
    <2> QED BY <2>4, UeStep
  <1> QED BY <1>12, <1>13

LEMMA ReceiveUlGrantInv ==
  ASSUME UplinkInv, NEW u \in Ue, ReceiveUlGrant(u)
  PROVE  UplinkInv'
  <1> DEFINE m == ProcessUplinkDci(mac[u])
             b == ctx[u].buffer
             d == down[u] - 1
  <1>1. /\ down \in [Ue -> Nat] /\ down[u] \in Nat /\ mac \in [Ue -> Mac] /\ mac[u] \in Mac
        /\ mac[u].buffer \in Nat /\ up \in [Ue -> Seq(Message)] /\ up[u] \in Seq(Message)
        /\ b \in Nat
    BY InvTypes DEF UplinkInv
  <1>2. /\ down[u] > 0 /\ down' = [down EXCEPT ![u] = d] /\ mac' = [mac EXCEPT ![u] = m]
        /\ up' = [up EXCEPT ![u] =
                    up[u] \o (IF mac[u].buffer > 0 THEN <<Bsr(mac[u].buffer)>> ELSE <<>>)]
        /\ UNCHANGED <<ctx, usage, grants, round>>
    BY <1>1 DEF ReceiveUlGrant, Send
  <1>3. d \in Nat
    BY <1>1, <1>2
  <1>4. m \in Mac /\ m.buffer = mac[u].buffer /\ m.srPending = mac[u].srPending
    BY <1>1, MacTypes
  <1> HIDE DEF d, m
  <1>5. ~Unheard(u)
    BY <1>2, RunParts DEF Unheard, Quiet
  <1>6. /\ m.srPending
        /\ \A i \in 1..Len(up[u]) : up[u][i].kind # "sr"
        /\ \A message \in Message : message.kind # "sr" =>
              \A i \in 1..Len(up[u] \o <<message>>) : (up[u] \o <<message>>)[i].kind # "sr"
    BY <1>4, <1>5, LaterMessage
  <1>7. Settles(b, up[u], mac[u].buffer)
    BY DEF UplinkInv, HeardInv
  <1>8. CASE mac[u].buffer > 0
    <2> DEFINE message == Bsr(mac[u].buffer)
               q == up[u] \o <<message>>
    <2>1. message \in Message /\ message.kind = "bsr" /\ message.bytes = mac[u].buffer
      BY <1>1, MessageTypes
    <2> HIDE DEF message
    <2>2. q \in Seq(Message) /\ \A i \in 1..Len(q) : q[i].kind # "sr"
      BY <1>1, <1>6, <2>1, SentType
    <2>3. up' = [up EXCEPT ![u] = q]
      BY <1>2, <1>8 DEF message
    <2>4. Settles(b, q, mac[u].buffer)
      <3>1. \A x \in Nat : x <= mac[u].buffer => After(x, message) <= mac[u].buffer
        BY <1>1, <2>1 DEF After
      <3> HIDE DEF b
      <3> QED BY <1>1, <1>7, <2>1, <3>1, SettlesSent
    <2> HIDE DEF q
    <2>5. UeMoves(u, m, q, d)
      BY <1>2, <1>3, <1>4, <1>6, <2>2, <2>3, <2>4 DEF UeMoves
    <2> QED BY <2>5, UeStep
  <1>9. CASE ~(mac[u].buffer > 0)
    <2>1. up' = [up EXCEPT ![u] = up[u]]
      BY <1>1, <1>2, <1>9, ConcatEmptySeq
    <2>2. UeMoves(u, m, up[u], d)
      BY <1>1, <1>2, <1>3, <1>4, <1>6, <1>7, <2>1 DEF UeMoves
    <2> QED BY <2>2, UeStep
  <1> QED BY <1>8, <1>9

LEMMA TransmitUlInv ==
  ASSUME UplinkInv, NEW u \in Ue, TransmitUl(u)
  PROVE  UplinkInv'
  <1> DEFINE m == DoTransmit(mac[u])
             b == ctx[u].buffer
             n == PduBytes(mac[u], BytesPerRb)
             q == up[u] \o <<Pdu(n)>>
  <1>1. /\ down \in [Ue -> Nat] /\ down[u] \in Nat /\ mac \in [Ue -> Mac] /\ mac[u] \in Mac
        /\ mac[u].buffer \in Nat /\ up \in [Ue -> Seq(Message)] /\ up[u] \in Seq(Message)
        /\ b \in Nat
    BY InvTypes DEF UplinkInv
  <1>2. /\ mac[u].grants > 0 /\ mac' = [mac EXCEPT ![u] = m] /\ up' = [up EXCEPT ![u] = q]
        /\ UNCHANGED <<down, ctx, usage, grants, round>>
    BY <1>1 DEF TransmitUl, Send
  <1>3. down' = [down EXCEPT ![u] = down[u]]
    BY <1>1, <1>2
  <1>4. m \in Mac /\ m.buffer = 0 /\ m.srPending = mac[u].srPending
    BY <1>1, <1>2, MacTypes
  <1> HIDE DEF m
  <1>5. n \in Nat /\ mac[u].buffer <= n
    BY <1>1, ConstantTypes DEF PduBytes
  <1> HIDE DEF n
  <1>6. ~Unheard(u)
    <2>1. mac[u].grants \in Nat
      BY <1>1 DEF Mac
    <2> QED BY <1>2, <2>1 DEF Unheard
  <1>7. Pdu(n) \in Message /\ Pdu(n).kind = "pdu" /\ Pdu(n).bytes = n
    BY <1>5, MessageTypes
  <1>8. /\ m.srPending
        /\ \A i \in 1..Len(q) : q[i].kind # "sr"
    BY <1>4, <1>6, <1>7, LaterMessage
  <1>9. q \in Seq(Message)
    BY <1>1, <1>7, SentType
  <1>10. Settles(b, q, 0)
    <2>1. ASSUME NEW x \in Nat, x <= mac[u].buffer PROVE After(x, Pdu(n)) <= 0
      BY <1>1, <1>5, <1>7, <2>1 DEF After, Smaller
    <2>2. Settles(b, up[u], mac[u].buffer)
      BY DEF UplinkInv, HeardInv
    <2> HIDE DEF b
    <2> QED BY <1>1, <1>7, <2>1, <2>2, SettlesSent
  <1> HIDE DEF q
  <1>11. UeMoves(u, m, q, down[u])
    BY <1>1, <1>2, <1>3, <1>4, <1>8, <1>9, <1>10 DEF UeMoves
  <1> QED BY <1>11, UeStep

(* The steps that change the MAC alone.                                    *)
LEMMA MacStep ==
  ASSUME UplinkInv, UNCHANGED <<up, down, ctx, usage, grants, round>>, NEW u \in Ue,
         NEW m \in Mac, mac' = [mac EXCEPT ![u] = m], m.buffer = mac[u].buffer,
         m.srPending = mac[u].srPending, m.grants = mac[u].grants
  PROVE  UplinkInv'
  <1>1. /\ down \in [Ue -> Nat] /\ down[u] \in Nat /\ up \in [Ue -> Seq(Message)]
        /\ up[u] \in Seq(Message)
    BY InvTypes DEF UplinkInv
  <1>2. up' = [up EXCEPT ![u] = up[u]] /\ down' = [down EXCEPT ![u] = down[u]]
    BY <1>1
  <1>3. Settles(ctx[u].buffer, up[u], m.buffer)
    BY DEF UplinkInv, HeardInv
  <1>4. Unheard(u) => down[u] = 0 /\ m.grants = 0
    BY RunParts DEF Unheard, Quiet
  <1>5. /\ ~m.srPending => Unheard(u) /\ up[u] = <<>>
        /\ \A i \in 1..Len(up[u]) : up[u][i].kind = "sr" => Unheard(u) /\ Len(up[u]) = 1
    BY DEF UplinkInv, AskInv, Unasked
  <1>6. UeMoves(u, m, up[u], down[u])
    BY <1>1, <1>2, <1>3, <1>4, <1>5 DEF UeMoves
  <1> QED BY <1>6, UeStep

LEMMA MacStepsInv ==
  ASSUME UplinkInv, NEW u \in Ue, ReceiveDlDci(u) \/ ReceiveDlData(u) \/ EndTransfer(u)
  PROVE  UplinkInv'
  <1>1. mac \in [Ue -> Mac] /\ mac[u] \in Mac
    BY InvTypes DEF UplinkInv
  <1>2. CASE ReceiveDlDci(u)
    BY <1>1, <1>2, MacTypes, MacStep DEF ReceiveDlDci
  <1>3. CASE ReceiveDlData(u)
    BY <1>1, <1>3, MacTypes, MacStep DEF ReceiveDlData
  <1>4. CASE EndTransfer(u)
    BY <1>1, <1>4, MacTypes, MacStep DEF EndTransfer
  <1> QED BY <1>2, <1>3, <1>4

-----------------------------------------------------------------------------
(* The gateway's steps.                                                    *)

(* The gateway hears of a UE's buffer.                                     *)
LEMMA HeardStep ==
  ASSUME UplinkInv, NEW u \in Ue, up[u] # <<>>, Head(up[u]).kind # "sr",
         NEW c \in Context, Picture(c, c.pendingBytes, u),
         c.buffer = After(ctx[u].buffer, Head(up[u])),
         Heard(u, c), Consume(u), UNCHANGED <<mac, down, usage, grants>>
  PROVE  UplinkInv'
  <1> DEFINE q == Tail(up[u])
  <1>1. /\ mac \in [Ue -> Mac] /\ up \in [Ue -> Seq(Message)] /\ down \in [Ue -> Nat]
        /\ ctx \in [Ue -> Context] /\ usage \in Usage /\ grants \in [Ue -> Grant] /\ round \in Round
        /\ mac[u].buffer \in Nat /\ ctx[u].buffer \in Nat /\ up[u] \in Seq(Message)
        /\ round.issued \in [Ue -> Nat]
    BY InvTypes DEF UplinkInv
  <1>2. /\ q \in Seq(Message) /\ Len(q) \in Nat /\ Len(up[u]) = Len(q) + 1
        /\ Head(up[u]) = up[u][1]
        /\ \A i \in 1..Len(q) : q[i] = up[u][i + 1]
    BY <1>1, HeadTailProperties, LenProperties
  <1> DEFINE issued == [round.issued EXCEPT ![u] = c.pendingBytes]
  <1>3. /\ ctx' = [ctx EXCEPT ![u] = c] /\ up' = [up EXCEPT ![u] = q]
        /\ round' = [round EXCEPT !.issued = issued]
    BY DEF Heard, Consume
  <1> HIDE DEF q
  <1>4. issued \in [Ue -> Nat] /\ issued[u] = c.pendingBytes
        /\ \A v \in Ue \ {u} : issued[v] = round.issued[v]
    BY <1>1 DEF Context
  <1> HIDE DEF issued
  <1>5. /\ ctx' \in [Ue -> Context] /\ up' \in [Ue -> Seq(Message)] /\ round' \in Round
        /\ ctx'[u] = c /\ up'[u] = q
        /\ round'.issued = issued /\ round'.granted = round.granted /\ round'.opened = round.opened
        /\ \A v \in Ue \ {u} : ctx'[v] = ctx[v] /\ up'[v] = up[v]
    <2>1. round' \in Round /\ round'.issued = issued /\ round'.granted = round.granted
          /\ round'.opened = round.opened
      BY <1>1, <1>3, <1>4 DEF Round
    <2> QED BY <1>1, <1>2, <1>3, <2>1
  <1>6. Run' = [ctx |-> ctx', usage |-> usage, grants |-> grants, down |-> down,
                round |-> round', served |-> {}]
    BY DEF Run
  <1>7. Run' \in Runs
    BY <1>1, <1>5, <1>6 DEF Runs
  <1>8. /\ Run'.ctx = ctx' /\ Run'.usage = usage /\ Run'.grants = grants /\ Run'.down = down
        /\ Run'.round = round'
    BY <1>6
  <1>9. Account(Run') /\ (~round'.opened => usage'.used = 0)
    BY <1>5, <1>8, RunParts DEF UplinkInv, StateInv, Account
  <1>10. ASSUME NEW v \in Ue PROVE Good(Run', v)
    <2>1. Good(Run, v)
      BY DEF UplinkInv, StateInv
    <2>2. CASE v = u
      <3>1. Picture(Run'.ctx[u], Run'.round.issued[u], u)
        BY <1>4, <1>5, <1>8
      <3> QED BY <1>8, <2>1, <2>2, <3>1, RunParts DEF Good
    <2>3. CASE v # u
      <3>1. Run'.ctx[v] = Run.ctx[v] /\ Run'.round.issued[v] = Run.round.issued[v]
        BY <1>4, <1>5, <1>8, <2>3, RunParts
      <3> QED BY <1>8, <2>1, <3>1, RunParts DEF Good
    <2> QED BY <2>2, <2>3
  <1>11. StateInv'
    BY <1>1, <1>5, <1>7, <1>9, <1>10 DEF StateInv
  <1>12. ASSUME NEW v \in Ue
         PROVE  Unasked(v)' /\ Settles(ctx'[v].buffer, up'[v], mac'[v].buffer)
    <2>1. Unasked(v) /\ Settles(ctx[v].buffer, up[v], mac[v].buffer)
      BY DEF UplinkInv, AskInv, HeardInv
    <2>2. CASE v = u
      <3>1. mac[u].srPending
        BY <2>1, <2>2 DEF Unasked
      <3>2. ASSUME NEW i \in 1..Len(q) PROVE q[i].kind # "sr"
        <4>1. i + 1 \in 1..Len(up[u]) /\ Len(up[u]) # 1 /\ q[i] = up[u][i + 1]
          BY <1>2
        <4> QED BY <2>1, <2>2, <4>1 DEF Unasked
      <3>3. Settles(c.buffer, q, mac[u].buffer)
        BY <1>1, <2>1, <2>2, SettlesTail DEF q
      <3> QED BY <1>5, <2>2, <3>1, <3>2, <3>3 DEF Unasked
    <2>3. CASE v # u
      <3>1. Unheard(v) => Unheard(v)'
        <4>1. Run'.ctx[v] = Run.ctx[v] /\ Run'.round.issued[v] = Run.round.issued[v]
          BY <1>4, <1>5, <1>8, <2>3, RunParts
        <4>2. Quiet(Run, v) => Quiet(Run', v)
          BY <1>8, <4>1, RunParts DEF Quiet
        <4> QED BY <4>2 DEF Unheard
      <3> QED BY <1>5, <2>1, <2>3, <3>1 DEF Unasked
    <2> QED BY <2>2, <2>3
  <1> QED BY <1>11, <1>12 DEF UplinkInv, AskInv, HeardInv

(* The picture it has then.                                                *)
LEMMA HeardPicture ==
  ASSUME NEW c \in Context, c.pendingBytes > 0 => BudgetRbs > 0, c.sr = FALSE, NEW u
  PROVE  LET r == RefreshPendingUlGrantEstimate(c)
         IN  r \in Context /\ r.buffer = c.buffer /\ Picture(r, r.pendingBytes, u)
  <1> DEFINE r == RefreshPendingUlGrantEstimate(c)
  <1>1. /\ r \in Context
        /\ r.buffer = c.buffer /\ r.sr = c.sr
        /\ r.pendingBytes = Smaller(c.pendingBytes, c.buffer)
        /\ r.pendingRbs = 0 <=> r.pendingBytes = 0
        /\ r.pendingBytes > 0 => BudgetRbs > 0
    BY RefreshEffect
  <1> HIDE DEF r
  <1>2. r.pendingBytes \in Nat /\ r.buffer \in Nat /\ r.pendingBytes <= r.buffer
    BY <1>1, SmallerType DEF Context
  <1>3. r.pendingBytes = Smaller(r.pendingBytes, r.buffer)
    BY <1>2 DEF Smaller
  <1>4. r.pendingBytes < r.buffer + BytesPerRb
    BY <1>2, ConstantTypes
  <1>5. Picture(r, r.pendingBytes, u)
    BY <1>1, <1>3, <1>4 DEF Picture
  <1> QED BY <1>1, <1>5 DEF r

LEMMA ReceiveUlReportInv ==
  ASSUME UplinkInv, NEW u \in Ue, ReceiveUlReport(u)
  PROVE  UplinkInv'
  <1> DEFINE n == Head(up[u]).bytes
             told == [ctx[u] EXCEPT !.buffer = n, !.sr = FALSE]
             c == RefreshPendingUlGrantEstimate(told)
  <1>1. /\ up[u] # <<>> /\ Head(up[u]).kind = "bsr" /\ Consume(u) /\ Heard(u, c)
        /\ UNCHANGED <<mac, down, usage, grants>>
    BY DEF ReceiveUlReport, Arrives, ReceiveBsr
  <1>2. up[u] \in Seq(Message) /\ ctx[u] \in Context
    BY InvTypes DEF UplinkInv
  <1>3. n \in Nat
    <2>1. Head(up[u]) \in Message
      BY <1>1, <1>2, HeadTailProperties
    <2> QED BY <2>1 DEF Message
  <1>4. ctx[u].pendingBytes > 0 => BudgetRbs > 0
    BY RunParts DEF UplinkInv, StateInv, Good, Picture
  <1> HIDE DEF n
  <1>5. told \in Context /\ told.buffer = n /\ told.sr = FALSE
        /\ told.pendingBytes = ctx[u].pendingBytes
    BY <1>2, <1>3 DEF Context
  <1> HIDE DEF told
  <1>6. c \in Context /\ c.buffer = n /\ Picture(c, c.pendingBytes, u)
    BY <1>4, <1>5, HeardPicture
  <1> HIDE DEF c
  <1>7. c.buffer = After(ctx[u].buffer, Head(up[u]))
    BY <1>1, <1>6 DEF After, n
  <1>8. Head(up[u]).kind # "sr"
    BY <1>1
  <1> QED BY <1>1, <1>6, <1>7, <1>8, HeardStep

LEMMA ReceiveUlPduInv ==
  ASSUME UplinkInv, NEW u \in Ue, ReceiveUlPdu(u)
  PROVE  UplinkInv'
  <1> DEFINE n == Head(up[u]).bytes
             delivered == Smaller(n, ctx[u].buffer)
             due == ctx[u].pendingBytes - Smaller(delivered, ctx[u].pendingBytes)
             left == ctx[u].buffer - delivered
             told == [ctx[u] EXCEPT !.buffer = left, !.pendingBytes = due, !.sr = FALSE]
             c == RefreshPendingUlGrantEstimate(told)
  <1>1. up[u] \in Seq(Message) /\ ctx[u] \in Context /\ ctx[u].buffer \in Nat
        /\ ctx[u].pendingBytes \in Nat
    BY InvTypes DEF UplinkInv
  <1>2. c = ReceiveUlMacPdu(ctx[u], n)
    BY <1>1 DEF ReceiveUlMacPdu
  <1>3. /\ up[u] # <<>> /\ Head(up[u]).kind = "pdu" /\ Consume(u) /\ Heard(u, c)
        /\ UNCHANGED <<mac, down, usage, grants>>
    BY <1>2 DEF ReceiveUlPdu, Arrives
  <1>4. n \in Nat
    <2>1. Head(up[u]) \in Message
      BY <1>1, <1>3, HeadTailProperties
    <2> QED BY <2>1 DEF Message
  <1>5. ctx[u].pendingBytes > 0 => BudgetRbs > 0
    BY RunParts DEF UplinkInv, StateInv, Good, Picture
  <1> HIDE DEF n
  <1>6. left \in Nat /\ due \in Nat /\ due <= ctx[u].pendingBytes
    <2>1. delivered \in Nat /\ delivered <= ctx[u].buffer
      BY <1>1, <1>4, SmallerType
    <2> HIDE DEF delivered
    <2>2. Smaller(delivered, ctx[u].pendingBytes) \in Nat
          /\ Smaller(delivered, ctx[u].pendingBytes) <= ctx[u].pendingBytes
      BY <1>1, <2>1, SmallerType
    <2> QED BY <1>1, <2>1, <2>2
  <1> HIDE DEF due
  <1>7. left = After(ctx[u].buffer, Head(up[u]))
    BY <1>3 DEF After, n
  <1> HIDE DEF left, c
  <1>8. told \in Context /\ told.buffer = left /\ told.sr = FALSE /\ told.pendingBytes = due
    BY <1>1, <1>6 DEF Context
  <1> HIDE DEF told
  <1>9. due > 0 => BudgetRbs > 0
    BY <1>1, <1>5, <1>6
  <1>10. c \in Context /\ c.buffer = left /\ Picture(c, c.pendingBytes, u)
    BY <1>8, <1>9, HeardPicture DEF c
  <1>11. Head(up[u]).kind # "sr"
    BY <1>3
  <1> QED BY <1>3, <1>7, <1>10, <1>11, HeardStep

-----------------------------------------------------------------------------
(* A run of the scheduler, for a trigger or an SR.                         *)

(* An SR comes, or what is under way does not change.                      *)
Awaits(base, v) ==
  \/ up'[v] = up[v] /\ (Quiet(Run, v) => Quiet(base, v))
  \/ up'[v] = <<>> /\ mac[v].srPending /\ Settles(ctx[v].buffer, <<>>, mac[v].buffer)

LEMMA ScheduleStep ==
  ASSUME UplinkInv, NEW base \in Runs, Account(base), base.round.opened = TRUE,
         \A v \in Ue : Good(base, v) /\ base.ctx[v].buffer = ctx[v].buffer /\ Awaits(base, v),
         Schedule(base), UNCHANGED mac, up' \in [Ue -> Seq(Message)]
  PROVE  UplinkInv'
  <1>1. Run' \in Sound(base)
    BY SoundItself, ScheduleEffect
  <1>2. /\ Run' \in Runs /\ Account(Run') /\ Run'.round.opened = TRUE
        /\ \A v \in Ue : /\ Good(Run', v)
                         /\ Run'.ctx[v].buffer = base.ctx[v].buffer
                         /\ Quiet(base, v) => Quiet(Run', v)
    BY <1>1 DEF Sound
  <1>3. Run'.round = round' /\ Run'.ctx = ctx'
    BY DEF Run
  <1>4. StateInv'
    BY <1>2, <1>3 DEF StateInv, UplinkInv
  <1>5. ASSUME NEW v \in Ue
        PROVE  Unasked(v)' /\ Settles(ctx'[v].buffer, up'[v], mac'[v].buffer)
    <2>1. /\ Unasked(v) /\ Settles(ctx[v].buffer, up[v], mac[v].buffer)
          /\ ctx'[v].buffer = ctx[v].buffer
      BY <1>2, <1>3 DEF UplinkInv, AskInv, HeardInv
    <2>2. CASE up'[v] = up[v] /\ (Quiet(Run, v) => Quiet(base, v))
      <3>1. Unheard(v) => Unheard(v)'
        BY <1>2, <2>2 DEF Unheard
      <3> QED BY <2>1, <2>2, <3>1 DEF Unasked
    <2>3. CASE up'[v] = <<>> /\ mac[v].srPending /\ Settles(ctx[v].buffer, <<>>, mac[v].buffer)
      <3>1. Unasked(v)'
        BY <2>3, EmptySeq DEF Unasked
      <3> QED BY <2>1, <2>3, <3>1
    <2> QED BY <2>2, <2>3 DEF Awaits
  <1> QED BY <1>4, <1>5 DEF UplinkInv, AskInv, HeardInv

(* A slot: a new round, and the configured grants come nearer.             *)
LEMMA TriggerInv ==
  ASSUME UplinkInv, Trigger
  PROVE  UplinkInv'
  <1> DEFINE usg == ResetBeamAllocation(usage)
             wait(u) == IF grants[u].wait > 0 THEN grants[u].wait - 1 ELSE 0
             sooner == [u \in Ue |-> [grants[u] EXCEPT !.wait = wait(u)]]
             fresh == [round EXCEPT !.opened = TRUE, !.granted = 0]
             base == [Run EXCEPT
               !.usage = ResetBeamAllocation(@),
               !.grants = [u \in Ue |->
                             [grants[u] EXCEPT !.wait = IF @ > 0 THEN @ - 1 ELSE 0]],
               !.round.opened = TRUE,
               !.round.granted = 0]
  <1>1. /\ mac \in [Ue -> Mac] /\ up \in [Ue -> Seq(Message)] /\ down \in [Ue -> Nat]
        /\ ctx \in [Ue -> Context] /\ usage \in Usage /\ grants \in [Ue -> Grant] /\ round \in Round
    BY StateTypes DEF UplinkInv, StateInv
  <1>2. Schedule(base) /\ UNCHANGED <<mac, up>>
    BY DEF Trigger
  <1>3. usg \in Usage /\ usg.used = 0
    BY <1>1, ResetType
  <1>4. ASSUME NEW u \in Ue
        PROVE  /\ sooner[u] \in Grant /\ sooner[u].active = grants[u].active
               /\ sooner[u].rbgSize = grants[u].rbgSize
    <2>1. grants[u] \in Grant
      BY <1>1
    <2>2. wait(u) \in Nat
      BY <2>1 DEF Grant
    <2> QED BY <2>1, <2>2, CounterTypes
  <1>5. sooner \in [Ue -> Grant]
    BY <1>4
  <1>6. fresh \in Round /\ fresh.opened = TRUE /\ fresh.granted = 0 /\ fresh.issued = round.issued
    BY <1>1 DEF Round
  <1>7. /\ base.ctx = ctx /\ base.usage = usg /\ base.grants = sooner /\ base.down = down
        /\ base.round = fresh
    <2>1. base = [Run EXCEPT !.usage = usg, !.grants = sooner, !.round = fresh]
      BY <1>1, RunParts
    <2>2. Run \in Runs
      BY DEF UplinkInv, StateInv
    <2> HIDE DEF base, usg, sooner, fresh
    <2> QED BY <2>1, <2>2, RunParts DEF Runs
  <1>8. base \in Runs
    <2>1. Run \in Runs
      BY DEF UplinkInv, StateInv
    <2> HIDE DEF usg, sooner, fresh
    <2> QED BY <1>3, <1>5, <1>6, <1>7, <2>1 DEF Runs
  <1> HIDE DEF usg, sooner, fresh
  <1> HIDE DEF base
  <1>9. Account(base)
    BY <1>3, <1>6, <1>7, ConstantTypes DEF Account
  <1>10. ASSUME NEW v \in Ue
         PROVE  Good(base, v) /\ base.ctx[v].buffer = ctx[v].buffer /\ Awaits(base, v)
    <2>1. Good(Run, v)
      BY DEF UplinkInv, StateInv
    <2>2. Good(base, v)
      BY <1>4, <1>6, <1>7, <2>1, RunParts DEF Good
    <2>3. Quiet(Run, v) => Quiet(base, v)
      BY <1>4, <1>6, <1>7, RunParts DEF Quiet
    <2> QED BY <1>2, <1>7, <2>2, <2>3 DEF Awaits
  <1>11. base.round.opened = TRUE /\ up' \in [Ue -> Seq(Message)]
    BY <1>1, <1>2, <1>6, <1>7
  <1> QED BY <1>2, <1>8, <1>9, <1>10, <1>11, ScheduleStep

(* An SR finds the gateway without a picture of its UE.                    *)
LEMMA ReceiveSrInv ==
  ASSUME UplinkInv, NEW u \in Ue, ReceiveSr(u)
  PROVE  UplinkInv'
  <1> DEFINE c == [ctx[u] EXCEPT !.sr = TRUE]
             known == [ctx EXCEPT ![u] = c]
             usg == IF round.opened THEN usage ELSE ResetBeamAllocation(usage)
             begun == [round EXCEPT !.opened = TRUE]
             base == BeginUlSchedulingPeriod([Run EXCEPT !.ctx[u].sr = TRUE])
             asked == [Run EXCEPT !.ctx[u].sr = TRUE]
  <1>1. /\ mac \in [Ue -> Mac] /\ up \in [Ue -> Seq(Message)] /\ down \in [Ue -> Nat]
        /\ ctx \in [Ue -> Context] /\ usage \in Usage /\ grants \in [Ue -> Grant] /\ round \in Round
        /\ up[u] \in Seq(Message) /\ ctx[u] \in Context /\ mac[u].buffer \in Nat
        /\ ctx[u].buffer \in Nat
    BY InvTypes DEF UplinkInv
  <1>2. /\ up[u] # <<>> /\ Head(up[u]).kind = "sr" /\ up' = [up EXCEPT ![u] = Tail(up[u])]
        /\ Schedule(base) /\ UNCHANGED mac
    BY <1>1 DEF ReceiveSr, Arrives, Consume
  <1>3. Unheard(u) /\ Len(up[u]) = 1 /\ mac[u].srPending
    <2>1. Head(up[u]) = up[u][1] /\ Len(up[u]) \in Nat /\ Len(up[u]) >= 1
      BY <1>1, <1>2, HeadTailProperties, LenProperties
    <2>2. 1 \in 1..Len(up[u]) /\ up[u][1].kind = "sr"
      BY <1>2, <2>1
    <2> QED BY <1>2, <2>2 DEF UplinkInv, AskInv, Unasked
  <1>4. Tail(up[u]) = <<>>
    <2>1. Tail(up[u]) \in Seq(Message) /\ Len(Tail(up[u])) = 0
      BY <1>1, <1>2, <1>3, HeadTailProperties
    <2> QED BY <2>1, EmptySeq
  <1>5. c \in Context /\ c.buffer = ctx[u].buffer /\ c.pendingBytes = ctx[u].pendingBytes
        /\ c.pendingRbs = ctx[u].pendingRbs /\ c.sr = TRUE
    BY <1>1 DEF Context
  <1>6. /\ asked.ctx = known /\ asked.usage = usage /\ asked.grants = grants
        /\ asked.down = down /\ asked.round = round /\ asked.served = {}
    BY <1>1 DEF Run
  <1> HIDE DEF c
  <1>7. known \in [Ue -> Context] /\ known[u] = c /\ \A v \in Ue \ {u} : known[v] = ctx[v]
    BY <1>1, <1>5
  <1>8. usg \in Usage
    BY <1>1, ResetType
  <1>9. asked \in Runs
    <2>1. Run \in Runs
      BY DEF UplinkInv, StateInv
    <2>2. asked = [Run EXCEPT !.ctx = known]
      BY <1>1 DEF Run, c
    <2> HIDE DEF asked, known
    <2> QED BY <1>7, <2>1, <2>2 DEF Runs
  <1>10. begun \in Round /\ begun.opened = TRUE /\ begun.granted = round.granted
        /\ begun.issued = round.issued
    BY <1>1 DEF Round
  <1>11. usg.used = usage.used
    BY <1>1, ResetType DEF UplinkInv, StateInv
  <1> HIDE DEF known
  <1>12. /\ base.ctx = known /\ base.usage = usg /\ base.grants = grants /\ base.down = down
         /\ base.round = begun /\ base \in Runs
    <2>1. CASE round.opened
      <3>1. begun = round
        BY <1>1, <2>1 DEF Round
      <3>2. base = asked
        BY <1>6, <2>1 DEF BeginUlSchedulingPeriod
      <3> HIDE DEF begun, base, asked
      <3> QED BY <1>6, <1>9, <2>1, <3>1, <3>2
    <2>2. CASE ~round.opened
      <3> HIDE DEF asked
      <3>1. base = [asked EXCEPT !.usage = ResetBeamAllocation(@), !.round.opened = TRUE]
        BY <2>2, <1>6 DEF BeginUlSchedulingPeriod, asked
      <3>2. ResetBeamAllocation(asked.usage) = usg /\ [asked.round EXCEPT !.opened = TRUE] = begun
        BY <1>6, <2>2
      <3>3. base = [asked EXCEPT !.usage = usg, !.round = begun]
        BY <3>1, <3>2
      <3> HIDE DEF base, usg, begun
      <3>4. /\ base.ctx = asked.ctx /\ base.usage = usg /\ base.grants = asked.grants
            /\ base.down = asked.down /\ base.round = begun
        BY <1>9, <3>3 DEF Runs
      <3>5. base \in Runs
        BY <1>8, <1>10, <1>9, <3>3 DEF Runs
      <3> QED BY <1>6, <3>4, <3>5
    <2> QED BY <2>1, <2>2
  <1> HIDE DEF begun, base, asked, usg
  <1>13. Account(base)
    BY <1>10, <1>11, <1>12, RunParts DEF Account, UplinkInv, StateInv
  <1>14. ASSUME NEW v \in Ue
         PROVE  Good(base, v) /\ base.ctx[v].buffer = ctx[v].buffer /\ Awaits(base, v)
    <2>1. Good(Run, v)
      BY DEF UplinkInv, StateInv
    <2>2. CASE v = u
      <3>1. ctx[u].buffer = 0 /\ round.issued[u] = 0
        BY <1>3, RunParts DEF Unheard, Quiet
      <3>2. Picture(base.ctx[u], base.round.issued[u], u)
        BY <1>5, <1>7, <1>10, <1>12, <2>1, <2>2, <3>1, RunParts DEF Good, Picture
      <3>3. Good(base, v)
        BY <1>12, <2>1, <2>2, <3>2, RunParts DEF Good
      <3>4. Settles(ctx[u].buffer, <<>>, mac[u].buffer)
        BY <1>1, <3>1, SettlesEmpty
      <3>5. up'[u] = <<>>
        BY <1>1, <1>2, <1>4
      <3> QED BY <1>3, <1>5, <1>7, <1>12, <2>2, <3>3, <3>4, <3>5 DEF Awaits
    <2>3. CASE v # u
      <3>1. base.ctx[v] = ctx[v] /\ up'[v] = up[v]
        BY <1>1, <1>2, <1>7, <1>12, <2>3
      <3>2. Good(base, v)
        BY <1>10, <1>12, <2>1, <3>1, RunParts DEF Good
      <3>3. Quiet(Run, v) => Quiet(base, v)
        BY <1>10, <1>12, <3>1, RunParts DEF Quiet
      <3> QED BY <3>1, <3>2, <3>3 DEF Awaits
    <2> QED BY <2>2, <2>3
  <1>15. base.round.opened = TRUE /\ up' \in [Ue -> Seq(Message)]
    BY <1>1, <1>2, <1>4, <1>10, <1>12, EmptySeq
  <1>16. Schedule(base)
    BY <1>2
  <1> QED BY <1>2, <1>12, <1>13, <1>14, <1>15, <1>16, ScheduleStep

-----------------------------------------------------------------------------

LEMMA StutterInv ==
  ASSUME UplinkInv, UNCHANGED vars
  PROVE  UplinkInv'
  <1>1. /\ ctx' = ctx /\ usage' = usage /\ grants' = grants /\ down' = down /\ round' = round
        /\ mac' = mac /\ up' = up
    BY DEF vars
  <1>2. Run' = Run
    BY <1>1 DEF Run
  <1>3. StateInv'
    BY <1>1, <1>2 DEF UplinkInv, StateInv
  <1>4. AskInv'
    BY <1>1, <1>2 DEF UplinkInv, AskInv, Unasked, Unheard
  <1>5. HeardInv'
    BY <1>1 DEF UplinkInv, HeardInv
  <1> QED BY <1>3, <1>4, <1>5 DEF UplinkInv

LEMMA InvStep == UplinkInv /\ [Next]_vars => UplinkInv'
  <1> SUFFICES ASSUME UplinkInv, [Next]_vars PROVE UplinkInv'
    OBVIOUS
  <1>1. CASE Trigger
    BY <1>1, TriggerInv
  <1>2. ASSUME NEW u \in Ue, ReceiveSr(u) PROVE UplinkInv'
    BY <1>2, ReceiveSrInv
  <1>3. ASSUME NEW u \in Ue, ReceiveUlReport(u) PROVE UplinkInv'
    BY <1>3, ReceiveUlReportInv
  <1>4. ASSUME NEW u \in Ue, ReceiveUlPdu(u) PROVE UplinkInv'
    BY <1>4, ReceiveUlPduInv
  <1>5. ASSUME NEW u \in Ue, DataArrives(u) PROVE UplinkInv'
    BY <1>5, DataArrivesInv
  <1>6. ASSUME NEW u \in Ue, ReceiveUlGrant(u) PROVE UplinkInv'
    BY <1>6, ReceiveUlGrantInv
  <1>7. ASSUME NEW u \in Ue, TransmitUl(u) PROVE UplinkInv'
    BY <1>7, TransmitUlInv
  <1>8. ASSUME NEW u \in Ue, ReceiveDlDci(u) \/ ReceiveDlData(u) \/ EndTransfer(u)
        PROVE  UplinkInv'
    BY <1>8, MacStepsInv
  <1>9. CASE UNCHANGED vars
    BY <1>9, StutterInv
  <1> QED BY <1>1, <1>2, <1>3, <1>4, <1>5, <1>6, <1>7, <1>8, <1>9 DEF Next

LEMMA SpecInv == Spec => []UplinkInv
  BY InitInv, InvStep, PTL DEF Spec

-----------------------------------------------------------------------------
(* The theorems.                                                           *)

(* The state has its types, whatever the UEs send and the scheduler grants *)
(* of how many blocks.                                                     *)
THEOREM TypeCorrect == Spec => []TypeOK
  <1>1. UplinkInv => TypeOK
    BY InvImplies
  <1> QED BY <1>1, SpecInv, PTL

(* For every number of UEs and blocks, over the runs that triggers and SRs *)
(* cause: a round keeps to the beam's budget, what is pending is covered   *)
(* by the reported backlog, and a UE of normal traffic is granted no more  *)
(* than it reported.                                                       *)
THEOREM GrantsAreSoundCorrect == Spec => []GrantsAreSound
  <1>1. UplinkInv => GrantsAreSound
    BY InvImplies
  <1> QED BY <1>1, SpecInv, PTL

(* However SRs, BSRs, grants and PDUs crossed: once nothing is under way   *)
(* from a UE, the gateway believes it to have no more than it has.         *)
THEOREM PictureSettlesCorrect == Spec => []PictureSettles
  <1>1. UplinkInv => PictureSettles
    BY InvImplies
  <1> QED BY <1>1, SpecInv, PTL

-----------------------------------------------------------------------------
(* Whose grants the PHY measures: the ledger of LinkControl.               *)

(* What the state is, with a bound on the symbols of the ledger's entries. *)
LedgerTypes ==
  /\ LinkTypeOK
  /\ \E bound \in Nat : \A entry \in ledger : entry.sym <= bound

(* Every entry's feedback is to come; no other grant than the measured one *)
(* is at the place of a measurement; the current slot's entries are kept.  *)
LedgerInv ==
  /\ LedgerTypes
  /\ \A entry \in ledger : \E i \in DOMAIN feedback : feedback[i].entry = entry
  /\ \A m \in measured, entry \in ledger :
       entry.slot = m.entry.slot /\ entry.sym = m.entry.sym => entry = m.entry
  /\ \A m \in measured : m.entry.slot = slot => m.entry \in ledger
  /\ ~misled

LEMMA BoundedMax ==
  ASSUME NEW S, S \subseteq Nat, S # {}, NEW bound \in Nat, \A x \in S : x <= bound
  PROVE  Max(S) \in S /\ \A x \in S : x <= Max(S)
<1> DEFINE Top == \E m \in S : \A x \in S : m >= x
           T == {n \in Nat : (\A x \in S : x <= n) => Top}
<1>1. 0 \in T
  <2>1. SUFFICES ASSUME \A x \in S : x <= 0 PROVE Top
    OBVIOUS
  <2>2. \A x \in S : x = 0
    BY <2>1
  <2>3. PICK m \in S : TRUE
    OBVIOUS
  <2>4. \A x \in S : m >= x
    BY <2>2, <2>3
  <2> QED BY <2>3, <2>4
<1>2. ASSUME NEW n \in Nat, n \in T PROVE n + 1 \in T
  <2>1. SUFFICES ASSUME \A x \in S : x <= n + 1 PROVE Top
    OBVIOUS
  <2>2. CASE n + 1 \in S
    BY <2>1, <2>2
  <2>3. CASE n + 1 \notin S
    <3>1. \A x \in S : x <= n
      BY <2>1, <2>3
    <3> QED BY <1>2, <3>1
  <2> QED BY <2>2, <2>3
<1> HIDE DEF T
<1>3. Nat \subseteq T
  BY <1>1, <1>2, NatSetInduction
<1>4. Top
  BY <1>3 DEF T
<1> QED BY <1>4 DEF Max

(* A new entry comes after those that its slot has.                        *)
LEMMA NewSym ==
  ASSUME LedgerTypes
  PROVE  /\ AllocateUlLedgerSymStart \in Nat
         /\ \A entry \in ledger : entry.slot = slot => entry.sym < AllocateUlLedgerSymStart
<1>1. ledger \subseteq Entry /\ slot \in Slotted
  BY DEF LedgerTypes, LinkTypeOK
<1>2. PICK bound \in Nat : \A entry \in ledger : entry.sym <= bound
  BY DEF LedgerTypes
<1>3. CASE InSlot(slot) = {}
  BY <1>3 DEF AllocateUlLedgerSymStart, InSlot
<1>4. CASE InSlot(slot) # {}
  <2> DEFINE S == {entry.sym : entry \in InSlot(slot)}
  <2>1. S \subseteq Nat /\ S # {} /\ \A x \in S : x <= bound
    BY <1>1, <1>2, <1>4 DEF InSlot, Entry
  <2>2. Max(S) \in S /\ \A x \in S : x <= Max(S)
    BY <2>1, BoundedMax
  <2>3. Max(S) \in Nat
    BY <2>1, <2>2
  <2>4. \A entry \in ledger : entry.slot = slot => entry.sym \in S /\ entry.sym \in Nat
    BY <2>1 DEF InSlot
  <2> HIDE DEF S
  <2>5. AllocateUlLedgerSymStart = Max(S) + 1
    BY <1>4 DEF AllocateUlLedgerSymStart, S
  <2> QED BY <2>2, <2>3, <2>4, <2>5
<1> QED BY <1>3, <1>4

LEMMA LinkConstants ==
  /\ MaxCut \in Nat /\ MaxBoost \in Nat /\ Slots \in Nat \ {0}
  /\ Above \subseteq Nat /\ Below \subseteq Nat
BY LinkControlAssumption DEF LinkControlAssumption
LEMMA CorrectedType ==
  ASSUME NEW db \in Int, NEW tpc \in Int
  PROVE  Corrected(db, tpc) \in (-MaxCut)..MaxBoost
BY LinkConstants DEF Corrected, Clamped

LEMMA LedgerInitInv ==
  ASSUME LinkInit PROVE LedgerInv
<1> USE LinkInit DEF LinkInit
<1>1. /\ surplus \in [Rnti -> Surplus] /\ ledger \subseteq Entry
      /\ measured \subseteq Measurement /\ misled \in BOOLEAN
  OBVIOUS
<1>4. slot \in Slotted
  BY LinkConstants DEF Slotted
<1>2. offset \in [Rnti -> (-MaxCut)..MaxBoost]
  <2>1. 0 \in (-MaxCut)..MaxBoost
    BY LinkConstants
  <2> QED BY <2>1
<1>3. feedback \in Seq(Measurement) /\ deltas \in Seq(Delta)
  BY EmptySeq
<1> QED BY <1>1, <1>2, <1>3, <1>4 DEF LedgerInv, LedgerTypes, LinkTypeOK

LEMMA SurplusType == Surplus \subseteq Int
<1>1. Above \subseteq Int /\ \A db \in Below : -db \in Int
  BY LinkConstants
<1> QED BY <1>1 DEF Surplus

LEMMA ApplyType ==
  ASSUME LinkTypeOK, NEW u \in Rnti, NEW over \in Int,
         ApplyUlSinrMeasurement(u, over)
  PROVE  offset' \in [Rnti -> (-MaxCut)..MaxBoost] /\ deltas' \in Seq(Delta)
<1> DEFINE tpc == QuantizeTpcDb(-over)
<1>1. tpc \in {-1, 0, 1, 3}
  BY DEF QuantizeTpcDb
<1> HIDE DEF tpc
<1>2. offset \in [Rnti -> (-MaxCut)..MaxBoost] /\ deltas \in Seq(Delta)
  BY DEF LinkTypeOK
<1>3. CASE LoopDelay /\ tpc # 0
  <2>1. deltas' = Append(deltas, [rnti |-> u, db |-> tpc]) /\ offset' = offset
    BY <1>3 DEF ApplyUlSinrMeasurement, tpc
  <2>2. [rnti |-> u, db |-> tpc] \in Delta
    BY <1>1, <1>3 DEF Delta
  <2> QED BY <1>2, <2>1, <2>2
<1>4. CASE ~(LoopDelay /\ tpc # 0)
  <2>1. offset' = [offset EXCEPT ![u] = Corrected(offset[u], tpc)] /\ deltas' = deltas
    BY <1>4 DEF ApplyUlSinrMeasurement, tpc
  <2>2. offset[u] \in Int /\ tpc \in Int
    BY <1>1, <1>2, LinkConstants
  <2>3. Corrected(offset[u], tpc) \in (-MaxCut)..MaxBoost
    BY <2>2, CorrectedType
  <2> QED BY <1>2, <2>1, <2>3
<1> QED BY <1>3, <1>4

LEMMA GrantKeepsLedger ==
  ASSUME LedgerInv, NEW u \in Rnti, RecordUlGrant(u)
  PROVE  LedgerInv'
<1> DEFINE entry == [slot |-> slot, sym |-> AllocateUlLedgerSymStart, rnti |-> u]
           measurement == [entry |-> entry, over |-> surplus[u] + offset[u]]
<1>1. LinkTypeOK
  BY DEF LedgerInv, LedgerTypes
<1>2. AllocateUlLedgerSymStart \in Nat
      /\ \A e \in ledger : e.slot = slot => e.sym < AllocateUlLedgerSymStart
  BY NewSym DEF LedgerInv
<1>3. entry \in Entry /\ entry.slot = slot /\ entry.sym = AllocateUlLedgerSymStart
  BY <1>1, <1>2 DEF Entry, LinkTypeOK
<1>4. measurement \in Measurement /\ measurement.entry = entry
  <2>1. surplus[u] \in Int
    BY <1>1, SurplusType DEF LinkTypeOK
  <2>2. offset[u] \in Int
    BY <1>1, LinkConstants DEF LinkTypeOK
  <2>3. surplus[u] + offset[u] \in Int
    BY <2>1, <2>2
  <2> QED BY <1>3, <2>3 DEF Measurement
<1>5. /\ ledger' = ledger \cup {entry} /\ feedback' = Append(feedback, measurement)
      /\ measured' \in {measured, measured \cup {measurement}}
      /\ UNCHANGED <<surplus, offset, slot, deltas, misled>>
  BY DEF RecordUlGrant
<1> HIDE DEF entry, measurement
<1>6. feedback \in Seq(Measurement) /\ ledger \subseteq Entry /\ measured \subseteq Measurement
  BY <1>1 DEF LinkTypeOK
<1>7. /\ feedback' \in Seq(Measurement) /\ DOMAIN feedback' = DOMAIN feedback \cup {Len(feedback) + 1}
      /\ feedback'[Len(feedback) + 1] = measurement
      /\ \A i \in DOMAIN feedback : feedback'[i] = feedback[i]
  BY <1>4, <1>5, <1>6, AppendProperties
<1>8. LedgerTypes'
  <2>1. LinkTypeOK'
    BY <1>1, <1>3, <1>4, <1>5, <1>6, <1>7 DEF LinkTypeOK, Entry, Slotted, Surplus, Measurement, Delta
  <2>2. PICK bound \in Nat : \A e \in ledger : e.sym <= bound
    BY DEF LedgerInv, LedgerTypes
  <2> DEFINE more == bound + entry.sym
  <2>3. more \in Nat /\ \A e \in ledger' : e.sym <= more
    BY <1>2, <1>3, <1>5, <1>6, <2>2 DEF Entry
  <2> QED BY <2>1, <2>3 DEF LedgerTypes
<1>9. \A e \in ledger' : \E i \in DOMAIN feedback' : feedback'[i].entry = e
  <2> SUFFICES ASSUME NEW e \in ledger' PROVE \E i \in DOMAIN feedback' : feedback'[i].entry = e
    OBVIOUS
  <2>1. CASE e \in ledger
    <3>1. PICK i \in DOMAIN feedback : feedback[i].entry = e
      BY <2>1 DEF LedgerInv
    <3> QED BY <1>7, <3>1
  <2>2. CASE e = entry
    BY <1>4, <1>7, <2>2
  <2> QED BY <1>5, <2>1, <2>2
<1>10. ASSUME NEW m \in measured', NEW e \in ledger',
              e.slot = m.entry.slot /\ e.sym = m.entry.sym
       PROVE  e = m.entry
  <2>1. CASE m = measurement
    BY <1>2, <1>3, <1>4, <1>5, <1>6, <1>10, <2>1 DEF Entry
  <2>2. CASE m \in measured /\ e \in ledger
    BY <1>10, <2>2 DEF LedgerInv
  <2>3. CASE m \in measured /\ e = entry
    <3>1. m.entry \in ledger
      BY <1>3, <1>10, <2>3 DEF LedgerInv
    <3> QED BY <1>2, <1>3, <1>6, <1>10, <2>3, <3>1 DEF Entry
  <2> QED BY <1>5, <2>1, <2>2, <2>3
<1>11. ASSUME NEW m \in measured', m.entry.slot = slot' PROVE m.entry \in ledger'
  <2>1. CASE m = measurement
    BY <1>4, <1>5, <2>1
  <2>2. CASE m \in measured
    BY <1>5, <1>11, <2>2 DEF LedgerInv
  <2> QED BY <1>5, <2>1, <2>2
<1> QED BY <1>5, <1>8, <1>9, <1>10, <1>11 DEF LedgerInv

LEMMA NextSlotKeepsLedger ==
  ASSUME LedgerInv, NextSlot PROVE LedgerInv'
<1>1. /\ \A m \in measured : m.entry.slot # slot'
      /\ UNCHANGED <<surplus, offset, ledger, measured, feedback, deltas, misled>>
  BY DEF NextSlot
<1>2. slot' \in Slotted
  BY LinkConstants DEF NextSlot, Slotted, LedgerInv, LedgerTypes, LinkTypeOK
<1> QED BY <1>1, <1>2 DEF LedgerInv, LedgerTypes, LinkTypeOK, Entry, Slotted, Surplus, Measurement, Delta

LEMMA PhyReportKeepsLedger ==
  ASSUME LedgerInv, NEW m \in measured, DoSchedUlCqiInfoReq(m)
  PROVE  LedgerInv'
<1> DEFINE found == {entry \in ledger : /\ entry.slot = m.entry.slot
                                        /\ entry.sym = m.entry.sym}
<1>1. LinkTypeOK /\ ~misled
  BY DEF LedgerInv, LedgerTypes
<1>2. \A entry \in found : entry = m.entry
  BY DEF LedgerInv
<1>3. \A entry \in found : entry.slot # slot
  BY DEF DoSchedUlCqiInfoReq, Over
<1>4. /\ measured' \subseteq measured /\ ledger' = ledger \ found
      /\ UNCHANGED <<surplus, slot, feedback>>
      /\ misled' = (misled \/ \E entry \in found : entry # m.entry)
      /\ IF found = {} THEN UNCHANGED <<offset, deltas>>
         ELSE \E entry \in found : ApplyUlSinrMeasurement(entry.rnti, m.over)
  BY DEF DoSchedUlCqiInfoReq
<1> HIDE DEF found
<1>5. misled' = FALSE
  BY <1>1, <1>2, <1>4
<1>6. offset' \in [Rnti -> (-MaxCut)..MaxBoost] /\ deltas' \in Seq(Delta)
  <2>1. CASE found = {}
    BY <1>1, <1>4, <2>1 DEF LinkTypeOK, Delta
  <2>2. CASE found # {}
    <3>1. PICK entry \in found : ApplyUlSinrMeasurement(entry.rnti, m.over)
      BY <1>4, <2>2
    <3>2. entry.rnti \in Rnti /\ m.over \in Int
      BY <1>1, <3>1 DEF LinkTypeOK, Entry, Measurement, found
    <3> QED BY <1>1, <3>1, <3>2, ApplyType
  <2> QED BY <2>1, <2>2
<1>7. LinkTypeOK'
  BY <1>1, <1>4, <1>5, <1>6 DEF LinkTypeOK, Entry, Slotted, Surplus, Measurement, Delta
<1>8. \A n \in measured' : n.entry.slot = slot' => n.entry \in ledger'
  <2> SUFFICES ASSUME NEW n \in measured', n.entry.slot = slot' PROVE n.entry \in ledger'
    OBVIOUS
  <2>1. n.entry \in ledger
    BY <1>4 DEF LedgerInv
  <2>2. n.entry \notin found
    BY <1>3, <1>4
  <2> QED BY <1>4, <2>1, <2>2
<1> QED BY <1>4, <1>5, <1>7, <1>8 DEF LedgerInv, LedgerTypes

LEMMA FeedbackKeepsLedger ==
  ASSUME LedgerInv, DeliverUlSinrFeedback
  PROVE  LedgerInv'
<1> DEFINE head == Head(feedback)
<1>1. LinkTypeOK /\ ~misled /\ feedback \in Seq(Measurement) /\ feedback # <<>>
  BY DEF LedgerInv, LedgerTypes, LinkTypeOK, DeliverUlSinrFeedback
<1>2. head \in Measurement /\ head = feedback[1]
  BY <1>1, HeadTailProperties
<1>3. /\ head.entry.slot # slot /\ feedback' = Tail(feedback)
      /\ ApplyUlSinrMeasurement(head.entry.rnti, head.over)
      /\ ledger' = ledger \ {head.entry}
      /\ UNCHANGED <<surplus, slot, measured, misled>>
  BY DEF DeliverUlSinrFeedback, Over, Settled
<1>4. /\ feedback' \in Seq(Measurement)
      /\ \A i \in DOMAIN feedback : i # 1 =>
           i - 1 \in DOMAIN feedback' /\ feedback'[i - 1] = feedback[i]
  <2>1. /\ feedback' \in Seq(Measurement) /\ Len(feedback') = Len(feedback) - 1
        /\ \A i \in 1..Len(feedback') : feedback'[i] = feedback[i + 1]
    BY <1>1, <1>3, HeadTailProperties
  <2>2. DOMAIN feedback = 1..Len(feedback) /\ DOMAIN feedback' = 1..Len(feedback')
        /\ Len(feedback) \in Nat
    BY <1>1, <2>1
  <2> QED BY <2>1, <2>2
<1> HIDE DEF head
<1>5. offset' \in [Rnti -> (-MaxCut)..MaxBoost] /\ deltas' \in Seq(Delta)
  <2>1. head.entry.rnti \in Rnti /\ head.over \in Int
    BY <1>2 DEF Measurement, Entry
  <2> QED BY <1>1, <1>3, <2>1, ApplyType
<1>6. LinkTypeOK'
  BY <1>1, <1>3, <1>4, <1>5 DEF LinkTypeOK, Entry, Slotted, Surplus, Measurement, Delta
<1>7. \A e \in ledger' : \E i \in DOMAIN feedback' : feedback'[i].entry = e
  <2> SUFFICES ASSUME NEW e \in ledger' PROVE \E i \in DOMAIN feedback' : feedback'[i].entry = e
    OBVIOUS
  <2>1. PICK i \in DOMAIN feedback : feedback[i].entry = e
    BY <1>3 DEF LedgerInv
  <2>2. i # 1
    BY <1>2, <1>3, <2>1
  <2> QED BY <1>4, <2>1, <2>2
<1>8. \A n \in measured' : n.entry.slot = slot' => n.entry \in ledger'
  BY <1>3 DEF LedgerInv
<1> QED BY <1>1, <1>3, <1>6, <1>7, <1>8 DEF LedgerInv, LedgerTypes

LEMMA DeltaKeepsLedger ==
  ASSUME LedgerInv, ApplyClpcDelta
  PROVE  LedgerInv'
<1>1. LinkTypeOK /\ deltas \in Seq(Delta) /\ deltas # <<>>
  BY DEF LedgerInv, LedgerTypes, LinkTypeOK, ApplyClpcDelta
<1> DEFINE head == Head(deltas)
<1>2. head \in Delta /\ Tail(deltas) \in Seq(Delta)
  BY <1>1, HeadTailProperties
<1>3. /\ offset' = [offset EXCEPT ![head.rnti] = Corrected(offset[head.rnti], head.db)]
      /\ deltas' = Tail(deltas)
      /\ UNCHANGED <<surplus, slot, ledger, measured, feedback, misled>>
  BY DEF ApplyClpcDelta
<1> HIDE DEF head
<1>4. offset' \in [Rnti -> (-MaxCut)..MaxBoost]
  <2>1. head.rnti \in Rnti /\ head.db \in Int
    BY <1>2 DEF Delta
  <2>2. offset \in [Rnti -> (-MaxCut)..MaxBoost]
    BY <1>1 DEF LinkTypeOK
  <2>3. offset[head.rnti] \in Int
    BY <2>1, <2>2, LinkConstants
  <2>4. Corrected(offset[head.rnti], head.db) \in (-MaxCut)..MaxBoost
    BY <2>1, <2>3, CorrectedType
  <2> QED BY <1>3, <2>2, <2>4
<1>5. LinkTypeOK'
  BY <1>1, <1>2, <1>3, <1>4 DEF LinkTypeOK, Entry, Slotted, Surplus, Measurement, Delta
<1> QED BY <1>3, <1>5 DEF LedgerInv, LedgerTypes

LEMMA LossKeepsLedger ==
  ASSUME LedgerInv, NEW m \in measured, LosePhyReport(m)
  PROVE  LedgerInv'
<1>1. measured' \subseteq measured
      /\ UNCHANGED <<surplus, offset, slot, ledger, feedback, deltas, misled>>
  BY DEF LosePhyReport
<1>2. LinkTypeOK'
  BY <1>1 DEF LedgerInv, LedgerTypes, LinkTypeOK, Entry, Slotted, Surplus, Measurement, Delta
<1> QED BY <1>1, <1>2 DEF LedgerInv, LedgerTypes

LEMMA LedgerStep ==
  ASSUME LedgerInv, [LinkNext]_linkVars PROVE LedgerInv'
<1>1. CASE NextSlot
  BY <1>1, NextSlotKeepsLedger
<1>2. CASE \E u \in Rnti : RecordUlGrant(u)
  BY <1>2, GrantKeepsLedger
<1>3. CASE DeliverUlSinrFeedback
  BY <1>3, FeedbackKeepsLedger
<1>4. CASE ApplyClpcDelta
  BY <1>4, DeltaKeepsLedger
<1>5. CASE \E m \in measured : DoSchedUlCqiInfoReq(m)
  BY <1>5, PhyReportKeepsLedger
<1>6. CASE \E m \in measured : LosePhyReport(m)
  BY <1>6, LossKeepsLedger
<1>7. CASE UNCHANGED linkVars
  BY <1>7 DEF linkVars, LedgerInv, LedgerTypes, LinkTypeOK, Entry, Slotted, Surplus, Measurement, Delta
<1> QED BY <1>1, <1>2, <1>3, <1>4, <1>5, <1>6, <1>7 DEF LinkNext

(* The state of the link control has its types, and CLPC its limits,       *)
(* however measurements, their feedback and delayed steps cross.           *)
THEOREM LinkControlTypeCorrect == LinkSpec => []LinkTypeOK
<1>1. LedgerInv => LinkTypeOK
  BY DEF LedgerInv, LedgerTypes
<1>2. LinkInit => LedgerInv
  BY LedgerInitInv
<1>3. LedgerInv /\ [LinkNext]_linkVars => LedgerInv'
  BY LedgerStep
<1> QED BY <1>1, <1>2, <1>3, PTL DEF LinkSpec

(* For every number of UEs and slots, every order of reports and feedback  *)
(* and every loss: no UE is credited with another's measurement, and the   *)
(* ledger holds no more than what waits for its feedback.                  *)
THEOREM LedgerIsSoundCorrect == LinkSpec => []LedgerIsSound
<1>1. LedgerInv => LedgerIsSound
  BY DEF LedgerInv, LedgerIsSound
<1>2. LinkInit => LedgerInv
  BY LedgerInitInv
<1>3. LedgerInv /\ [LinkNext]_linkVars => LedgerInv'
  BY LedgerStep
<1> QED BY <1>1, <1>2, <1>3, PTL DEF LinkSpec
=============================================================================
