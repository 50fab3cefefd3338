------------------------- MODULE PduFlowCtrlProofs -------------------------
(***************************************************************************)
(* Flow control for any number of controllers, ports and wirings, any      *)
(* limit and any load.                                                     *)
(***************************************************************************)
EXTENDS PduFlowCtrl, FiniteSetTheorems, TLAPS

LEMMA TypeStep ==
  ASSUME WiringAssumption, TypeOK, [Next]_vars
  PROVE  TypeOK'
<1> USE DEF TypeOK
<1>0. \A d \in Controllers : Len(Watched[d]) \in Nat
  BY WiringAssumption DEF WiringAssumption
<1>1. ASSUME NEW c \in Controllers, Post(c) PROVE TypeOK'
  BY <1>1 DEF Post
<1>2. ASSUME NEW c \in Controllers, Handle(c) PROVE TypeOK'
  BY <1>0, <1>2 DEF Handle
<1>3. ASSUME NEW c \in Controllers, ReadNmsgs(c) PROVE TypeOK'
  <2> DEFINE n == nmsgs[Watched[c][reading[c]]]
  <2>1. n \in Nat
    BY <1>3, WiringAssumption DEF ReadNmsgs, WiringAssumption
  <2>2. max_nmsgs' = [max_nmsgs EXCEPT ![c] = IF n > max_nmsgs[c] THEN n ELSE max_nmsgs[c]]
    BY <1>3 DEF ReadNmsgs
  <2> HIDE DEF n
  <2>3. max_nmsgs' \in [Controllers -> Nat]
    BY <2>1, <2>2
  <2>4. /\ reading' \in [Controllers -> Nat]
        /\ \A d \in Controllers : reading'[d] <= Len(Watched[d]) + 1
    BY <1>0, <1>3 DEF ReadNmsgs
  <2> QED  BY <1>3, <2>3, <2>4 DEF ReadNmsgs
<1>4. ASSUME NEW c \in Controllers, Publish(c) PROVE TypeOK'
  <2>1. nmsgs' \in [Ports -> Nat]
    BY <1>4 DEF Publish
  <2>2. /\ reading' \in [Controllers -> Nat]
        /\ \A d \in Controllers : reading'[d] <= Len(Watched[d]) + 1
    BY <1>0, <1>4 DEF Publish
  <2> QED  BY <1>4, <2>1, <2>2 DEF Publish
<1>5. ASSUME NEW c \in Controllers, DropPdu(c) PROVE TypeOK'
  BY <1>0, <1>5 DEF DropPdu
<1>6. ASSUME NEW p \in Ports, Consume(p) PROVE TypeOK'
  BY <1>6 DEF Consume
<1>7. CASE UNCHANGED vars
  BY <1>7 DEF vars
<1> QED  BY <1>1, <1>2, <1>3, <1>4, <1>5, <1>6, <1>7 DEF Next, Handler

(* Types of the members, for every wiring.                                 *)
THEOREM TypeCorrect == ASSUME WiringAssumption PROVE Spec => []TypeOK
<1>1. Init => TypeOK
  BY WiringAssumption DEF Init, TypeOK, WiringAssumption
<1> QED  BY <1>1, TypeStep, PTL DEF Spec

-----------------------------------------------------------------------------
(* The commitments                                                         *)

(* The number of handlers between the check and the publication is a       *)
(* number, and at most that of the sources.                                *)
LEMMA CommittedCount ==
  ASSUME WiringAssumption, NEW p
  PROVE  /\ IsFiniteSet(Sources(p)) /\ Cardinality(Sources(p)) \in Nat
         /\ \A S \in SUBSET Sources(p) :
              /\ IsFiniteSet(S) /\ Cardinality(S) \in Nat
              /\ Cardinality(S) <= Cardinality(Sources(p))
<1>1. IsFiniteSet(Controllers) /\ Sources(p) \in SUBSET Controllers
  BY WiringAssumption DEF WiringAssumption, Sources
<1>2. IsFiniteSet(Sources(p))
  BY <1>1, FS_Subset
<1>3. ASSUME NEW S \in SUBSET Sources(p)
      PROVE  /\ IsFiniteSet(S) /\ Cardinality(S) \in Nat
             /\ Cardinality(S) <= Cardinality(Sources(p))
  BY <1>2, FS_Subset, FS_CardinalityType
<1> QED  BY <1>2, <1>3, FS_CardinalityType

(* Fewer or the same commitments and no more messages keep the bound.      *)
LEMMA NoMoreCommitments ==
  ASSUME WiringAssumption, TypeOK, TypeOK', CommitmentsBounded,
         NEW p \in Ports, Sources(p) # {},
         nmsgs'[p] <= nmsgs[p], Committed(p)' \subseteq Committed(p)
  PROVE  nmsgs'[p] + Cardinality(Committed(p)') <= MaxNmsgs - 1 + Cardinality(Sources(p))
<1>1. Committed(p) \in SUBSET Sources(p)
  BY DEF Committed
<1>2. IsFiniteSet(Committed(p)) /\ Cardinality(Committed(p)) \in Nat
  BY <1>1, CommittedCount
<1>3. Cardinality(Committed(p)') \in Nat /\ Cardinality(Committed(p)') <= Cardinality(Committed(p))
  BY <1>2, FS_Subset, FS_CardinalityType
<1>4. nmsgs[p] + Cardinality(Committed(p)) <= MaxNmsgs - 1 + Cardinality(Sources(p))
  BY DEF CommitmentsBounded
<1>5. nmsgs[p] \in Nat /\ nmsgs'[p] \in Nat /\ Cardinality(Sources(p)) \in Nat /\ MaxNmsgs \in Nat
  BY CommittedCount, WiringAssumption DEF TypeOK, WiringAssumption
<1> QED  BY <1>2, <1>3, <1>4, <1>5

(* A handler reads a port: it commits there only if it found room.         *)
LEMMA ReadKeepsBound ==
  ASSUME WiringAssumption, TypeOK, TypeOK', CommitmentsBounded,
         NEW c \in Controllers, ReadNmsgs(c)
  PROVE  CommitmentsBounded'
<1> DEFINE r == Watched[c][reading[c]]
<1>1. r \in Ports /\ Len(Watched[c]) \in Nat /\ reading[c] \in 1..Len(Watched[c])
  BY WiringAssumption DEF ReadNmsgs, WiringAssumption
<1>2. /\ nmsgs' = nmsgs
      /\ reading' = [reading EXCEPT ![c] = reading[c] + 1]
      /\ max_nmsgs' = [max_nmsgs EXCEPT ![c] = IF nmsgs[r] > max_nmsgs[c] THEN nmsgs[r]
                                                 ELSE max_nmsgs[c]]
  BY DEF ReadNmsgs
<1> SUFFICES ASSUME NEW p \in Ports, Sources(p) # {}
             PROVE  nmsgs'[p] + Cardinality(Committed(p)') <=
                      MaxNmsgs - 1 + Cardinality(Sources(p))
  BY DEF CommitmentsBounded, Sources
<1>3. /\ nmsgs[p] \in Nat /\ nmsgs[r] \in Nat /\ max_nmsgs[c] \in Nat /\ reading[c] \in Nat
      /\ MaxNmsgs \in Nat /\ Cardinality(Sources(p)) \in Nat
  BY <1>1, CommittedCount, WiringAssumption DEF TypeOK, WiringAssumption
<1>4. CASE p = r /\ nmsgs[r] < MaxNmsgs
  <2>1. Committed(p)' \in SUBSET Sources(p)
    BY DEF Committed, Sources
  <2>2. /\ Cardinality(Committed(p)') \in Nat
        /\ Cardinality(Committed(p)') <= Cardinality(Sources(p))
    BY <2>1, CommittedCount
  <2> QED  BY <1>2, <1>3, <1>4, <2>2
<1>5. CASE ~(p = r /\ nmsgs[r] < MaxNmsgs)
  <2>1. ASSUME NEW d \in Committed(p)' PROVE d \in Committed(p)
    <3>1. /\ d \in Sources(p) /\ d \in Controllers /\ max_nmsgs'[d] < MaxNmsgs
          /\ \E i \in 1..(reading'[d] - 1) : i <= Len(Watched[d]) /\ Watched[d][i] = p
      BY DEF Committed, Sources
    <3>2. CASE d # c
      <4>1. max_nmsgs'[d] = max_nmsgs[d] /\ reading'[d] = reading[d]
        BY <1>2, <3>1, <3>2 DEF TypeOK
      <4> QED  BY <3>1, <4>1 DEF Committed
    <3>3. CASE d = c
      <4>1. /\ reading'[d] = reading[c] + 1
            /\ max_nmsgs'[d] = IF nmsgs[r] > max_nmsgs[c] THEN nmsgs[r] ELSE max_nmsgs[c]
        BY <1>2, <3>3 DEF TypeOK
      <4>2. nmsgs[r] < MaxNmsgs /\ max_nmsgs[c] < MaxNmsgs
        BY <1>3, <3>1, <4>1
      <4>3. PICK i \in 1..(reading'[d] - 1) : i <= Len(Watched[d]) /\ Watched[d][i] = p
        BY <3>1
      <4>4. i \in 1..reading[c] /\ i # reading[c]
        BY <1>3, <1>5, <3>3, <4>1, <4>2, <4>3
      <4>5. i \in 1..(reading[c] - 1)
        BY <1>3, <4>4
      <4> QED  BY <3>1, <3>3, <4>2, <4>3, <4>5 DEF Committed
    <3> QED  BY <3>2, <3>3
  <2> QED  BY <1>2, <1>3, <2>1, NoMoreCommitments
<1> QED  BY <1>4, <1>5

(* A handler publishes: every message it adds was committed to.            *)
LEMMA PublishKeepsBound ==
  ASSUME WiringAssumption, TypeOK, TypeOK', CommitmentsBounded,
         NEW c \in Controllers, Publish(c)
  PROVE  CommitmentsBounded'
<1>1. /\ nmsgs' = [p \in Ports |-> IF p \in Wired[c] THEN nmsgs[p] + 1 ELSE nmsgs[p]]
      /\ reading' = [reading EXCEPT ![c] = 0] /\ max_nmsgs' = max_nmsgs
      /\ reading[c] = Len(Watched[c]) + 1 /\ max_nmsgs[c] < MaxNmsgs
  BY DEF Publish, Decided
<1> SUFFICES ASSUME NEW p \in Ports, Sources(p) # {}
             PROVE  nmsgs'[p] + Cardinality(Committed(p)') <=
                      MaxNmsgs - 1 + Cardinality(Sources(p))
  BY DEF CommitmentsBounded, Sources
<1>2. ASSUME NEW d \in Committed(p)' PROVE d \in Committed(p) /\ d # c
  <2>1. /\ d \in Sources(p) /\ d \in Controllers /\ max_nmsgs'[d] < MaxNmsgs
        /\ \E i \in 1..(reading'[d] - 1) : i <= Len(Watched[d]) /\ Watched[d][i] = p
    BY DEF Committed, Sources
  <2>2. d # c
    BY <1>1, <2>1 DEF TypeOK
  <2>3. max_nmsgs'[d] = max_nmsgs[d] /\ reading'[d] = reading[d]
    BY <1>1, <2>1, <2>2 DEF TypeOK
  <2> QED  BY <2>1, <2>2, <2>3 DEF Committed
<1>3. CASE p \notin Wired[c]
  <2>1. nmsgs'[p] <= nmsgs[p]
    BY <1>1, <1>3 DEF TypeOK
  <2> QED  BY <1>2, <2>1, NoMoreCommitments
<1>4. CASE p \in Wired[c]
  <2>1. c \in Committed(p)
    <3>1. PICK i \in 1..Len(Watched[c]) : Watched[c][i] = p
      BY <1>4, WiringAssumption DEF WiringAssumption
    <3>2. i \in 1..(reading[c] - 1) /\ i <= Len(Watched[c])
      BY <1>1, <3>1, WiringAssumption DEF WiringAssumption
    <3> QED  BY <1>1, <1>4, <3>1, <3>2 DEF Committed, Sources
  <2>2. Committed(p) \in SUBSET Sources(p)
    BY DEF Committed
  <2>3. IsFiniteSet(Committed(p)) /\ Cardinality(Committed(p)) \in Nat
    BY <2>2, CommittedCount
  <2>4. /\ IsFiniteSet(Committed(p) \ {c})
        /\ Cardinality(Committed(p) \ {c}) = Cardinality(Committed(p)) - 1
    BY <2>1, <2>3, FS_RemoveElement
  <2>5. Committed(p)' \in SUBSET (Committed(p) \ {c})
    BY <1>2
  <2>6. /\ Cardinality(Committed(p)') \in Nat
        /\ Cardinality(Committed(p)') <= Cardinality(Committed(p)) - 1
    BY <2>4, <2>5, FS_Subset, FS_CardinalityType
  <2>7. nmsgs[p] + Cardinality(Committed(p)) <= MaxNmsgs - 1 + Cardinality(Sources(p))
    BY DEF CommitmentsBounded
  <2>8. nmsgs[p] \in Nat /\ Cardinality(Sources(p)) \in Nat /\ MaxNmsgs \in Nat
    BY CommittedCount, WiringAssumption DEF TypeOK, WiringAssumption
  <2>9. nmsgs'[p] = nmsgs[p] + 1
    BY <1>1, <1>4
  <2> QED  BY <2>3, <2>6, <2>7, <2>8, <2>9
<1> QED  BY <1>3, <1>4

(* The steps that read no queue and publish nothing.                       *)
LEMMA OthersKeepBound ==
  ASSUME WiringAssumption, TypeOK, TypeOK', CommitmentsBounded,
         \/ \E c \in Controllers : Post(c) \/ Handle(c) \/ DropPdu(c)
         \/ \E p \in Ports : Consume(p)
         \/ UNCHANGED vars
  PROVE  CommitmentsBounded'
<1> SUFFICES ASSUME NEW p \in Ports, Sources(p) # {}
             PROVE  nmsgs'[p] + Cardinality(Committed(p)') <=
                      MaxNmsgs - 1 + Cardinality(Sources(p))
  BY DEF CommitmentsBounded, Sources
<1>1. nmsgs'[p] <= nmsgs[p]
  <2>1. nmsgs[p] \in Nat /\ nmsgs \in [Ports -> Nat]
    BY DEF TypeOK
  <2>2. ASSUME NEW q \in Ports, Consume(q) PROVE nmsgs'[p] <= nmsgs[p]
    BY <2>1, <2>2 DEF Consume
  <2>3. CASE nmsgs' = nmsgs
    BY <2>1, <2>3
  <2> QED  BY <2>2, <2>3 DEF Post, Handle, DropPdu, vars
<1>2. ASSUME NEW d \in Committed(p)' PROVE d \in Committed(p)
  <2>1. /\ d \in Sources(p) /\ d \in Controllers /\ max_nmsgs'[d] < MaxNmsgs
        /\ \E i \in 1..(reading'[d] - 1) : i <= Len(Watched[d]) /\ Watched[d][i] = p
    BY DEF Committed, Sources
  <2>2. reading'[d] \notin {0, 1}
    BY <2>1
  <2>3. reading'[d] = reading[d] /\ max_nmsgs'[d] = max_nmsgs[d]
    BY <2>1, <2>2 DEF Post, Handle, DropPdu, Consume, vars, TypeOK
  <2> QED  BY <2>1, <2>3 DEF Committed
<1> QED  BY <1>1, <1>2, NoMoreCommitments

(* However handlers interleave, a port has no more messages and handlers   *)
(* about to add one than the limit, less one, and its sources.             *)
THEOREM CommitmentsAlwaysBounded ==
  ASSUME WiringAssumption PROVE Spec => []CommitmentsBounded
<1>1. Init => CommitmentsBounded
  <2> SUFFICES ASSUME Init, NEW p \in Ports, Sources(p) # {}
               PROVE  nmsgs[p] + Cardinality(Committed(p)) <=
                        MaxNmsgs - 1 + Cardinality(Sources(p))
    BY DEF CommitmentsBounded
  <2>1. Committed(p) = {} /\ nmsgs[p] = 0
    BY DEF Init, Committed, Sources
  <2>2. Cardinality(Committed(p)) = 0 /\ Cardinality(Sources(p)) \in Nat /\ MaxNmsgs \in Nat \ {0}
    BY <2>1, FS_EmptySet, CommittedCount, WiringAssumption DEF WiringAssumption
  <2> QED  BY <2>1, <2>2
<1>2. TypeOK /\ TypeOK' /\ CommitmentsBounded /\ [Next]_vars => CommitmentsBounded'
  BY ReadKeepsBound, PublishKeepsBound, OthersKeepBound DEF Next, Handler
<1> QED  BY <1>1, <1>2, TypeCorrect, PTL DEF Spec

(* A watched queue exceeds the limit by at most the number of other        *)
(* controllers that feed it, and with one controller never.                *)
THEOREM QueuesBounded == ASSUME WiringAssumption PROVE Spec => []QueueBounded
<1>1. TypeOK /\ CommitmentsBounded => QueueBounded
  <2> SUFFICES ASSUME TypeOK, CommitmentsBounded, NEW p \in Ports, Sources(p) # {}
               PROVE  nmsgs[p] <= MaxNmsgs - 1 + Cardinality(Sources(p))
    BY DEF QueueBounded
  <2>1. Committed(p) \in SUBSET Sources(p)
    BY DEF Committed
  <2>2. Cardinality(Committed(p)) \in Nat /\ Cardinality(Sources(p)) \in Nat
    BY <2>1, CommittedCount
  <2>3. nmsgs[p] + Cardinality(Committed(p)) <= MaxNmsgs - 1 + Cardinality(Sources(p))
    BY DEF CommitmentsBounded
  <2> QED  BY <2>2, <2>3, WiringAssumption DEF TypeOK, WiringAssumption
<1> QED  BY <1>1, TypeCorrect, CommitmentsAlwaysBounded, PTL
=============================================================================
